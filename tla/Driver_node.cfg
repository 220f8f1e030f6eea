\* With and without result_ready; the window just covers the heartbeat interval and the lag.
CONSTANTS
  HeartbeatEvery = 1
  DeadAfter = 2
  UnstartablePolls = 2
  GonePolls = 2
  MaxLag = 1
  MaxBlips = 2
SPECIFICATION FairSpec
INVARIANTS
  TypeOK
  GivesUpRightly
  TailIsRead
  NoLeak
PROPERTIES
  NodeSpec
  LossIsNoticed
  ExitIsNoticed
  StuckFailsFast
CHECK_DEADLOCK FALSE
