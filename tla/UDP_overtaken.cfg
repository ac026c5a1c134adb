SPECIFICATION Spec
CONSTANTS
  Clients = {c1}
  MaxRequests = 2
  MaxAttempts = 3
  MaxFaults = 2
  Faults <- FaultKinds
  ClientTimeout = 1
  MaxTime = 0
INVARIANTS AnswerIsForRequest
CHECK_DEADLOCK FALSE
