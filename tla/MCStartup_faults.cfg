SPECIFICATION Spec
CONSTANTS
  Launches = {d1, d2, d3}
  Families = {"PF_UNIX", "PF_INET"}
  CommandLines <- MCCommandLines
  PidFiles = {"absent", "unusable", "stale", "running", "foreign", "special"}
  Faults <- MCAllFaults
  None = None
INVARIANTS
  OneListener
  StaysReachable
PROPERTIES
  SuccessMeansListening
