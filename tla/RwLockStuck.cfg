SPECIFICATION FairSpec
CONSTANTS
    Tasks = {1, 2, 3}
    Locks = {"a", "b"}
    None = None
    Setups <- FaultFree
PROPERTIES WriteIsGranted
CHECK_DEADLOCK FALSE
