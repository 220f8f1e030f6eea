\* A worker and the heartbeat over a store whose failed puts have no effect, or may have one.
CONSTANTS
  Worker = {main}
  Beat = {hb}
  None = None
  FlushLines = 2
  MaxLines = 4
  MaxFaults = 2
SPECIFICATION ClosingSpec
INVARIANTS
  TypeOK
  FinishedMeansAll
  InOrderAtMostOnce
PROPERTIES
  LogSpec
  AllDelivered
CHECK_DEADLOCK FALSE
