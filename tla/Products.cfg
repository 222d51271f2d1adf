SPECIFICATION Spec
CONSTANTS
  a = a
  b = b
  script = script
  Products = {a, b, script}
  ActionProcessor = script
  Size <- TwoUnits
  MaxSize = 4
  Margin = 1
SYMMETRY Symmetry
INVARIANTS
  TypeOK
  CompletedIsWhole
  ReadyMeansCompleted
  SizeLimitKept
