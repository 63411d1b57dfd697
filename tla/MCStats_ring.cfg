SPECIFICATION Spec
CONSTANTS
  Workers = {w1, w2, w3}
  ParallelOpts = {1, 2, 3}
  RINGBUFFERS = 2
  Intervals <- MCShort
  SumMod = 16777216
  IntMod = 4096
  None = None
INVARIANTS
  TypeOK
  ClearsBounded
  AverageWithin
  SamplesKept
PROPERTIES
  ImplementsSampleWindow
