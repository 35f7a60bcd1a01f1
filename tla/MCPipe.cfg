CONSTANTS
  w1 = w1
  w2 = w2
  r1 = r1
  Writer = {w1, w2}
  Reader = {r1}
  Killable = {w1, r1}
  None = None
  PIPESIZE = 2
  UINT = 4
  MaxN = 3
  MaxBytes = 6
SPECIFICATION FairSpec
INVARIANTS WriterNotStranded NoUseAfterFree
PROPERTIES InOrder CallsReturn
CHECK_DEADLOCK FALSE
