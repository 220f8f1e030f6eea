\* Two steps, of one run or of none; one engine.
CONSTANTS
  Egress = TRUE
  Step = {s1, s2}
  Run = {run}
  NoRun = NoRun
  Engine = {engine}
  MaxAttempts = 2
  MaxUid = 2
  MaxFaults = 1
SPECIFICATION FairSpec
INVARIANTS
  TypeOK
  WorkloadIsRestricted
  PolicyCoversPod
PROPERTIES
  OwnerTakesAll
CHECK_DEADLOCK FALSE
