SPECIFICATION FairSpec
CONSTANTS
  Threshold = 3
  MinOutage = 7
  Interval = 2
  Jitter = 1
  MaxFlips = 4
INVARIANTS
  DaemonTypeOK
  GuardIsPatient
  CleanExitIsRecorded
PROPERTIES
  
  MetadataIsRepaired
CHECK_DEADLOCK FALSE
