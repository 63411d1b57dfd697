SPECIFICATION HandleFairSpec
CONSTANTS
  Requests <- MCRequests
  Digits = {"1", "2"}
  KEY = "client_address="
  CR = "CR"
  LF = "LF"
  CHUNK = 4
  Faults <- MCFaults
  Weight <- MCWeight
  Length <- MCLength
  Threshold = 100
  Octets = 2
  Answers <- MCAnswers
  MallocFails = TRUE
INVARIANTS
  ZeroFits
  WholeRequest
  HandleTypeOK
  AsksForClient
  AsksInOrder
  VerdictIsPolicy
  ReplyFits
PROPERTIES
  Handled
