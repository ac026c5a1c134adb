SPECIFICATION LiveSpec
CONSTANTS
  Base = 16
  Arguments <- AllArguments
  Requests <- GraphsOfAllSizes
  MaxRequests = 3
  ProcessRequest <- OneEdge
  BUFFER_SIZE = 64
  MaxDatagram = 80
  Whole = 20
  Cuts = {20, 24, 40, 44}
INVARIANTS TypeOK NeverReadsBehind AnswerIsForRequest OnlyLargeGraphsFail AcceptedAddressConnects
PROPERTIES EveryRequestEnds
CHECK_DEADLOCK FALSE
