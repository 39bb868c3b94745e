SPECIFICATION FairSpec
CONSTANTS
  TaskId = {1, 2, 3}
  None = None
  MaxFailures = 3
  MaxInputs = 3
  Actors = {"fail", "restart", "wake"}
INVARIANTS
  TypeOK
  TurnsNeverOverlap
PROPERTIES
  WakeUpsAreHeard
  TurnsSettle
CHECK_DEADLOCK FALSE
