SPECIFICATION Spec
CONSTANTS
  c0 = c0
  c1 = c1
  Cpu = {c0, c1}
  Cpu0 = c0
  NPROC = 2
  None = None
  UINT = 4
  SleepArgs = {2}
  Killable = {1}
INVARIANTS InterruptsOff NoSpinDeadlock NoLostWakeup MutualExclusion
