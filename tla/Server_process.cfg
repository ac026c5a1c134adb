SPECIFICATION LiveSpec
CONSTANTS
  Workers = {w1, w2}
  Arguments <- SomeArguments
  Signals = {SIGINT, SIGTERM}
  MaxSignals = 2
INVARIANTS TypeOK DeadlockNeedsSignal GracefulExit AbortNeedsSameSignalTwice
PROPERTIES StopEnds
CHECK_DEADLOCK FALSE
