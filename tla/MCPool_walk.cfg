SPECIFICATION Spec
CONSTANTS
  MaxTid = 2
  MaxThreadsOpts = {2}
  MaxTries = 2
  Faults <- MCNoFaults
INVARIANTS
  WalkProtected
