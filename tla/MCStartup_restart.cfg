SPECIFICATION FairSpec
CONSTANTS
  Launches = {d1, d2}
  Families = {"PF_UNIX"}
  CommandLines <- MCShort
  PidFiles = {"absent"}
  Faults <- MCNoFaults
  None = None
PROPERTIES
  RestartServes
