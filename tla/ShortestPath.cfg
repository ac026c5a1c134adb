SPECIFICATION LiveSpec
CONSTANTS
  MaxIndex = 4
  MinSize = 2
  MaxSize = 4
  MaxEdges = 4
  Requests <- SmallRequests
INVARIANTS TypeOK ResponseIsRight QueueByDistance PathFits
PROPERTIES EveryRequestIsProcessed
CHECK_DEADLOCK FALSE
