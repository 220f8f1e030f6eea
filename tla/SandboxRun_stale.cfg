\* Two runs that ask for result.json, and nothing that raises.
CONSTANTS
  verdict = verdict
  app = app
  linked = linked
  Files <- MCFiles
  Verdict = verdict
  Excluded = {app}
  Outside = {linked}
  Given <- AllOrNothing
  Paths <- OneVerdict
  Names = 1
  Output = 1
  MaxOwn = 1
  MaxRuns = 2
  MaxFaults = 0
SPECIFICATION Spec
INVARIANTS
  VerdictIsOfThisRun
CHECK_DEADLOCK FALSE
