SPECIFICATION Spec
CONSTANTS
  Class = {"launch"}
  Wish <- AnyPackage
  Acts <- RemoteActs
  Policies <- TwoPolicies
  MaxApprovals = 1
  MaxPolicies = 1
  Target = {west, east}
  Command = {"lint"}
  Task = {"t1"}
  Writing = {"t1"}
  Builder = {"b1"}
  None = "none"
  ActOf <- RiskOf
  MaxBuilds = 2
  MaxSelections = 2
  MaxCrashes = 1
INVARIANTS
  RemoteTypeOK
  
CHECK_DEADLOCK FALSE
SYMMETRY Devices
