SPECIFICATION Spec
CONSTANTS
    Reqs = {r1, r2, r3, r4}
    ConnectLimit = 2
    MaxPorts = 2
    Ops = {"open", "pre_open", "ports", "pre_ports", "accept", "cancel_accept", "inspect", "reject", "close"}
SYMMETRY Symmetry
INVARIANTS OverrunNeedsPortRequests OpenPortsBounded
CHECK_DEADLOCK FALSE
