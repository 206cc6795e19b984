SPECIFICATION Spec
CONSTANTS
    MaxItems = 3
    MaxSize = 3
    BigDataLimit = 1
    Setups <- AllSetups
    MaxDataSize = 2
    MaxPorts = 1
    ChanCap = 2
INVARIANTS OneOutcome ErrorsForReason DeliveredComplete MessagesIntact
CHECK_DEADLOCK FALSE
