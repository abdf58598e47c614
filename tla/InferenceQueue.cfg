\* Two replicas, two attempts: a lease can expire, be granted again and be
\* written back by both holders.  Two submitters race, and the third submission
\* is the one that a looser count would let in.
CONSTANTS
    None = None
    Jobs = {j1, j2, j3}
    Replicas = {r1, r2}
    MaxAttempts = 2
    PendingBound = 1
    PoolSize = 2
    Windows = {3}
    LeaseTicks = 0
    DoneTicks = 0
    DeadTicks = 0
SYMMETRY Symmetry
CONSTRAINT TwoAfterwards
SPECIFICATION Spec
INVARIANTS TypeOK ExclusiveLease ResultOfLastLease AttemptsBounded FreshPendingBounded
PROPERTIES SettledOnce ImplementsLedger
