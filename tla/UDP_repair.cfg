SPECIFICATION LiveSpec
CONSTANTS
  Clients = {c1}
  MaxRequests = 4
  MaxAttempts = 3
  MaxFaults = 2
  Faults <- RepairedFaults
  ClientTimeout = 1
  MaxTime = 0
INVARIANTS NeverGivesUp
PROPERTIES EveryRequestIsAnswered
CHECK_DEADLOCK FALSE
