SPECIFICATION LiveSpec
CONSTANTS
  Clients = {c1}
  MaxRequests = 1
  SignalPoints = {"accept", "logging"}
PROPERTIES StopEndsWhenClientsLeave
CHECK_DEADLOCK FALSE
