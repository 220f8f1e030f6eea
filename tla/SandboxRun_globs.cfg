\* One run with a pattern, and nothing that raises.
CONSTANTS
  verdict = verdict
  app = app
  linked = linked
  Files <- MCFiles
  Verdict = verdict
  Excluded = {app}
  Outside = {linked}
  Given <- AllOrNothing
  Paths <- OneGlob
  Names = 1
  Output = 1
  MaxOwn = 1
  MaxRuns = 1
  MaxFaults = 0
SPECIFICATION Spec
INVARIANTS
  MatchesAreReturned
CHECK_DEADLOCK FALSE
