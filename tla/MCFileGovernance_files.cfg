SPECIFICATION FileSpec
CONSTANTS
  Class = {"apply", "restore"}
  Wish <- AnyWish
  Acts <- OneAct
  Act <- WritesFiles
  Policies <- TwoPolicies
  MaxApprovals = 1
  MaxPolicies = 0
  Local <- Files
  Cloud <- OneItem
  Content = {1}
  Start <- MixedStart
  ArchiveOf <- MixedArchive
  Thread = {t1, t2}
  MaxRuns = 3
  MaxEdits = 1
  MaxBlockers = 1
CONSTRAINT Budget
SYMMETRY Threads
INVARIANTS
  FileTypeOK
  KeepsFirstCopy
  
  MovesHaveGrant
CHECK_DEADLOCK FALSE
