CONSTANTS
  p1 = p1
  p2 = p2
  k1 = k1
  k2 = k2
  Proc = {p1, p2}
  Root = p1
  Pipe = {k1, k2}
  None = None
  NFILE = 3
  NOFILE = 2
  MaxCalls = 4
SPECIFICATION Spec
SYMMETRY FileSymmetry
INVARIANTS RefsExact ReleasedOnce
