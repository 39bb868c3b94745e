SPECIFICATION FairSpec
CONSTANTS
    MaxLines = 4
    MaxAttempts = 2
INVARIANTS
    SessionTypeOK
    
    

    
CHECK_DEADLOCK FALSE
