CONSTANTS
  p1 = p1
  p2 = p2
  None = None
  Slot = {p1, p2}
  Initproc = p1
  NPAGE = 16
  ENTRIES = 3
  LEVELS = 3
  PGSIZE = 2
  UINT64 = 100
  SbrkArgs <- MCSbrkArgs
  MaxVaddr = 1
  MaxMemsz = 2
SPECIFICATION Spec
INVARIANTS PagesAccounted ImageWhole NoPanic
PROPERTIES ForkCopies
