SPECIFICATION Spec
CONSTANTS
  MaxTid = 2
  MaxThreadsOpts = {1}
  MaxTries = 2
  Faults <- MCNoFaults
INVARIANTS
  WaitLetsWorkersLeave
