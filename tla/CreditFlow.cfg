SPECIFICATION FairSpec
CONSTANTS
    Ports = {"p", "q"}
    Limits = {1, 3, 4}
    Sizes = {1, 2}
    InitialSize = 1
    QueueCap = 1
    Setups <- AllSetups
INVARIANT NoProtocolError
PROPERTIES ImplementsPortPools ImplementsGlobalPool SendCompletes GlobalCreditsReturn
