CONSTANTS
  p1 = p1
  p2 = p2
  f1 = f1
  f2 = f2
  Proc = {p1, p2}
  Name = {f1, f2}
  None = None
  NINODES = 2
  NINODE = 2
SPECIFICATION Spec
SYMMETRY InodeSymmetry
INVARIANTS NoneLeaked
