SPECIFICATION FairSpec
CONSTANTS
  Agent = {1, 2}
  Task = {1, 2}
  None = 0
  Scanner = {"pass"}
  LaunchBudget = 2
  MaxRequests = 1
  Callers = {{"decide", "locked"}}
  AllowedPaths <- NestedPaths
  Deps <- NoDeps
  Matches <- AllMatch
PROPERTIES
  ParkedTaskMovesOn
  BusyWorkerReturns
CHECK_DEADLOCK FALSE
