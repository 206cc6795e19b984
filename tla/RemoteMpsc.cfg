SPECIFICATION FairSpec
CONSTANTS
    Senders = {1, 2}
    Capacity = 1
    PortRoom = 1
    Setups <- AllSetups
INVARIANT FaithfulDelivery
PROPERTIES EndsPropagate SendingResolves
CHECK_DEADLOCK FALSE
