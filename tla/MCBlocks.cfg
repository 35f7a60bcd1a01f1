CONSTANTS
  p1 = p1
  p2 = p2
  Proc = {p1, p2}
  None = None
  Inode = {1, 2, 3}
  File = {1, 2, 3}
  Root = 1
  Dir = 4
  IpOf <- MCIpOf
  Sources <- MCSources
  Byte <- MCByte
  NB = 7
  BSIZE = 2
  NDIRECT = 2
  MAXOPBLOCKS = 6
  Sizes = {1, 7}
  MaxCalls = 3
SPECIFICATION Spec
CHECK_DEADLOCK FALSE
INVARIANTS BlocksAccounted ReadsBack OpFits
