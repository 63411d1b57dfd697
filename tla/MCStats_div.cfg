SPECIFICATION Spec
CONSTANTS
  Workers = {w1, w2}
  ParallelOpts = {2}
  RINGBUFFERS = 2
  Intervals <- MCShort
  SumMod = 16777216
  IntMod = 4096
  None = None
INVARIANTS
  CountStaysPositive
