SPECIFICATION FairSpec
CONSTANTS
    Calls = {1, 2, 3, 4}
    Clients = {"A", "B"}
    ReqCap = 2
    ErrCap = 4
    None = None
    Setups <- AllSetups
INVARIANTS CallsInOrder FailureStopsServing OutcomesHaveCause ServeResultIsTrue
PROPERTIES CallsSettle
CHECK_DEADLOCK FALSE
