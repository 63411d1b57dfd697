SPECIFICATION FairSpec
CONSTANTS
  MaxTid = 3
  Weight <- MCWeight
  Threshold = 100
  Faults <- MCAllFaults
INVARIANTS
  NoDanglingAccess
  NoLostWakeup
  ListIntact
PROPERTIES
  ImplementsPolicyRequest
  Answered
CHECK_DEADLOCK FALSE
