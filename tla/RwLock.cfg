SPECIFICATION FairSpec
CONSTANTS
    Tasks = {1, 2, 3}
    Locks = {"a", "b"}
    None = None
    Setups <- AllSetups
INVARIANTS GuardIsCurrent WriteIsExclusive ErrorsHaveCause
PROPERTIES CallsReturn
CHECK_DEADLOCK FALSE
