CONSTANTS
  c1 = c1
  c2 = c2
  CPU = {c1, c2}
  None = None
  NPROC = 3
  MaxPid = 3
  KillPids = {2}
SPECIFICATION Spec
SYMMETRY CpuSymmetry
INVARIANTS TypeOK OneCpuPerStack NoPanic ParentAlive NoMissedExit
