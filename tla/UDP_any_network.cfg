SPECIFICATION LiveSpec
CONSTANTS
  Clients = {c1}
  MaxRequests = 3
  MaxAttempts = 3
  MaxFaults = 4
  Faults <- FaultKinds
  ClientTimeout = 1
  MaxTime = 0
INVARIANTS AckedMeansReceived Causal
PROPERTIES EveryRequestEnds
CHECK_DEADLOCK FALSE
