CONSTANTS
  p1 = p1
  p2 = p2
  p3 = p3
  f1 = f1
  f2 = f2
  Proc = {p1, p2, p3}
  Name = {f1, f2}
  None = None
  NINODES = 2
  NINODE = 2
CHECK_DEADLOCK FALSE
SPECIFICATION Spec
SYMMETRY InodeSymmetry
INVARIANTS RefsExact IputNeverSleeps LinksExact NoneFreedEarly CallsGoOn
