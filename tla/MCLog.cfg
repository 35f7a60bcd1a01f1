CONSTANTS
  b1 = b1
  b2 = b2
  b3 = b3
  p1 = p1
  p2 = p2
  Block = {b1, b2, b3}
  Proc = {p1, p2}
  Absent = Absent
  MAXOPBLOCKS = 2
  LOGSIZE = 4
  NLOG = 4
  OpWrites = 1
  MaxOps = 4
SPECIFICATION FairSpec
INVARIANTS QuietIsDurable RoomForEveryOp
PROPERTIES CrashAtomic BeginEventually
CHECK_DEADLOCK FALSE
