\* Two RPC threads and two leased jobs over two slots and a queue of one:
\* a caller can be refused, local jobs take the slots a fill wanted, and the
\* stop comes at any point.
CONSTANTS
    Callers = {c1, c2}
    Remote = {t1, t2}
    MaxConcurrent = 2
    MaxDepth = 1
    MaxNewTokens = 2
SPECIFICATION LeasingSpec
INVARIANTS TypeOK OneHome SlotsBounded NobodyStranded
PROPERTIES EveryCallReturns OfferedIsLeased
CHECK_DEADLOCK FALSE
