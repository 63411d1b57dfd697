SPECIFICATION FairSpec
CONSTANTS
  MaxTid = 3
  Weight <- MCWeight
  Threshold = 100
  Faults <- MCThread
PROPERTIES
  JoinEnds
