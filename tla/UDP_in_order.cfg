SPECIFICATION Spec
CONSTANTS
  Clients = {c1, c2}
  MaxRequests = 3
  MaxAttempts = 2
  MaxFaults = 2
  Faults <- InOrderFaults
  ClientTimeout = 1
  MaxTime = 2
INVARIANTS TypeOK AnswerIsForRequest InOrder RecentClientIsKnown
PROPERTIES KeepsPromise
SYMMETRY Symmetry
CHECK_DEADLOCK FALSE
