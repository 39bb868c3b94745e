SPECIFICATION ApprovalSpec
CONSTANTS
  Class = {"build", "edit"}
  Wish = {"once"}
  Acts <- FewActs
  Policies <- FewPolicies
  MaxApprovals = 2
  MaxPolicies = 1
INVARIANTS
  ApprovalTypeOK
  
  TighteningBlocksMore
CHECK_DEADLOCK FALSE
