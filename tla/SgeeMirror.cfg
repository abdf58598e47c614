\* Three payloads on a ring of two, two nodes, two attempts each.
CONSTANTS
    n1 = n1
    n2 = n2
    None = None
    Peers <- MCPeers
    MaxCalls = 3
    Capacity = 2
    MaxAttempts = 2
SPECIFICATION Spec
INVARIANTS TypeOK EveryCallCounted CountedIsCommitted NothingLeftBehind
PROPERTY RingDrains
CHECK_DEADLOCK FALSE
