SPECIFICATION FairSpec
CONSTANTS
  MaxTid = 3
  MaxThreadsOpts = {0, 1, 2}
  MaxTries = 2
  Faults <- MCAllFaults
INVARIANTS
  ClosedOnce
  TypeOK
  PoolBounded
  CountAgrees
  UnregisterFinds
  PeakWithinPool
PROPERTIES
  EveryConnectionCloses
  ShutdownUnlessAccepting
