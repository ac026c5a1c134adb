SPECIFICATION Spec
CONSTANTS
  Clients = {c1, c2}
  MaxRequests = 1
  SignalPoints = {"accept"}
INVARIANTS ThreadsAreIndependent
CHECK_DEADLOCK FALSE
