\* One launcher, one game that faults.
SPECIFICATION Spec
CONSTANTS
  Run = {l1}
  Launcher = {l1}
  l1 = l1
  NoRun = NoRun
  NoResult = NoResult
  NoExit = NoExit
  Off = Off
  Grace = 3
  Deadline = 2
  MaxSignals = 1
  MaxStarts = 1
  MaxMishaps = 0
INVARIANTS
  FaultIsAfterSave
CHECK_DEADLOCK FALSE
