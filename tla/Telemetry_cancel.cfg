\* No store operation raises: only the runner's own cancellation of its heartbeat.
CONSTANTS
  Worker = {main}
  Beat = {hb}
  None = None
  FlushLines = 3
  MaxLines = 2
  MaxFaults = 0
SPECIFICATION Spec
PROPERTIES
  ChunksImmutable
CHECK_DEADLOCK FALSE
