SPECIFICATION Spec
CONSTANTS
  Agent = {1, 2}
  Task = {1, 2}
  None = 0
  Scanner = {"pass"}
  LaunchBudget = 2
  MaxRequests = 1
  Callers = {{"start", "stop"}, {"restart", "locked"}}
  AllowedPaths <- NestedPaths
  Deps <- Chain
  Matches <- AllMatch
INVARIANTS
  ExclusiveRuns
  NothingOutlivesItsRun
PROPERTIES
  LaunchedAfterDependencies
CHECK_DEADLOCK FALSE
