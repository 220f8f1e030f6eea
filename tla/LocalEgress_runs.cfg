\* One run after another, two rules in the chain, up to two teardown calls missed.
CONSTANTS
  RuleCount = 2
  MaxMissed = 2
  Direct = FALSE
SPECIFICATION Spec
INVARIANTS
  TypeOK
  DrivenIsFiltered
  NothingPersists
CHECK_DEADLOCK FALSE
