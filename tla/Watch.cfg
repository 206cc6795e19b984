SPECIFICATION FairSpec
CONSTANTS
    Receivers = {1, 2}
    PortRoom = 1
    BackRoom = 5
    Setups <- AllSetups
INVARIANTS NeverBackwards ClosedMeansFinal BackChannelSettles
PROPERTIES LatestArrives ClosedReachesSender
CHECK_DEADLOCK FALSE
