SPECIFICATION Spec
CONSTANTS
  c1 = c1
  c2 = c2
  s = s
  l = l
  m = m
  Clients = {c1, c2}
  SetCallers = {}
  LoginCallers = {l, m}
  Nobody = Nobody
  MaxLists = 3
SYMMETRY Symmetry
INVARIANTS
  OneLoginPerProvider
CHECK_DEADLOCK FALSE
