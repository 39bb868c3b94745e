SPECIFICATION Spec
CONSTANTS
  Agent = {1, 2}
  Task = {1, 2, 3}
  None = 0
  Scanner = {"pass"}
  LaunchBudget = 2
  MaxRequests = 1
  Callers = {{"report", "reject"}, {"complete", "restart"}, {"pause", "restart"}}
  AllowedPaths <- NestedPaths
  Deps <- NoDeps
  Matches <- SomeMatch
INVARIANTS
  TypeOK
  WorkingHasRun
  LocksMatchRuns
PROPERTIES
  ImplementsAssignment
  PassesRespectLocks
CHECK_DEADLOCK FALSE
