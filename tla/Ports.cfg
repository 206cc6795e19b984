SPECIFICATION FairSpec
CONSTANTS
    EvCap = 1
    NqCap = 1
    HpCap = 2
    NetCap = 1
    MaxData = 1
    Setups <- AllSetups
INVARIANTS FailureIsConfined ControlFollowsData
PROPERTIES PortsReleased ConnectAnswered
CHECK_DEADLOCK FALSE
