SPECIFICATION LiveSpec
CONSTANTS
  Clients = {c1, c2}
  MaxRequests = 2
  SignalPoints = {"accept"}
INVARIANTS TypeOK GracefulStop OneMoreRequest RequestResponseInStep
PROPERTIES KeepsPromise EveryRequestEnds StopWaitsOnlyForSilence
CHECK_DEADLOCK FALSE
