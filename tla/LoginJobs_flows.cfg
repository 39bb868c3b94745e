SPECIFICATION LoginFairSpec
CONSTANTS
  Job = {j1, j2, j3}
  KeyJob = {j2}
  None = None
  MaxRestarts = 1
INVARIANTS
  LoginTypeOK
  OneFlow
  ShowsTheExit
PROPERTY
  FlowGivesWay
CHECK_DEADLOCK FALSE
