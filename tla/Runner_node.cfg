\* Every combination of options; three store operations may fail.
CONSTANTS
  MaxFaults = 3
SPECIFICATION FairSpec
INVARIANTS
  TypeOK
  SuccessIsReal
  ZeroMeansAllDone
  SpansAreClosed
PROPERTIES
  WorkerSpec
  ReportsInTheEnd
CHECK_DEADLOCK FALSE
