\* No slow call, no wrong answer: the sandbox is lost after its manifest.
CONSTANTS
  HeartbeatEvery = 1
  DeadAfter = 2
  UnstartablePolls = 2
  GonePolls = 2
  MaxLag = 0
  MaxBlips = 0
SPECIFICATION FairSpec
PROPERTIES
  NeverWedged
CHECK_DEADLOCK FALSE
