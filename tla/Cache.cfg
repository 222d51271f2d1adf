SPECIFICATION Spec
CONSTANTS
  a = a
  b = b
  Products = {a, b}
SYMMETRY Symmetry
INVARIANTS
  CachedIsComplete
  FailedPushIsKept
PROPERTIES
  DirtyIsReplaced
