\* One payload; the stop comes at any point.
CONSTANTS
    n1 = n1
    n2 = n2
    None = None
    Peers <- MCPeers
    MaxCalls = 1
    Capacity = 2
    MaxAttempts = 2
SPECIFICATION Spec
PROPERTY ShutdownReturns
CHECK_DEADLOCK FALSE
