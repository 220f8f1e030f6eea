\* Two runs on one workspace, every choice of declared paths, one operation that raises.
CONSTANTS
  verdict = verdict
  app = app
  linked = linked
  Files <- MCFiles
  Verdict = verdict
  Excluded = {app}
  Outside = {linked}
  Given <- AllOrNothing
  Paths <- AllPaths
  Names = 3
  Output = 2
  MaxOwn = 1
  MaxRuns = 2
  MaxFaults = 1
SPECIFICATION Spec
INVARIANTS
  TypeOK
  InputsAreComplete
  AllOrRaise
  DeclaredFilesArrive
PROPERTIES
  OnlyDeclaredChange
CHECK_DEADLOCK FALSE
