SPECIFICATION AdapterSpec
CONSTANTS
    Runs = {"w1", "w2"}
    Paths = {"code", "tests", "board"}
    Tests = {"tests"}
    Board = {"board"}
    Tracked = {"code", "tests"}
    MaxEdits = 1
    Allowed <- WorkersAllowed
    Forbidden <- WorkersForbidden
INVARIANT
    AdapterTypeOK
PROPERTIES
    
    
    ProtectedAreKept
CHECK_DEADLOCK FALSE
