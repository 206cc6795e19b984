SPECIFICATION FairSpec
CONSTANTS
    Calls = {1, 2, 3, 4}
    Clients = {"A", "B"}
    ReqCap = 2
    ErrCap = 1
    None = None
    Setups <- FailingReads
PROPERTIES FailureStops
CHECK_DEADLOCK FALSE
