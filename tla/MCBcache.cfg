CONSTANTS
  p1 = p1
  p2 = p2
  n1 = n1
  n2 = n2
  n3 = n3
  n4 = n4
  Proc = {p1, p2}
  Block = {n1, n2, n3, n4}
  None = None
  NBUF = 3
  MaxPins = 1
  MaxWrites = 2
SPECIFICATION Spec
SYMMETRY BcacheSymmetry
INVARIANTS OneBufferPerBlock HolderSeesLatest
