SPECIFICATION Spec
CONSTANTS
  Base = 16
  Arguments <- TCPArguments
  Requests <- LargeAndSmall
  MaxRequests = 2
  ProcessRequest <- OneEdge
  BUFFER_SIZE = 64
  MaxDatagram = 80
  Whole = 20
  Cuts = {22}
INVARIANTS AnswerIsForRequest
CHECK_DEADLOCK FALSE
