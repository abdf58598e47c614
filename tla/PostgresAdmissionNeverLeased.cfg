\* The deadline passes before any worker leases the job.
CONSTANTS
    None = None
    r1 = r1
    r2 = r2
    Jobs = {j1}
    Earlier = None
    Replicas <- MCOneReplica
    HomeOf <- MCHomeOf
    MaxAttempts = 2
    PendingBound = 1
    PoolSize = 1
    Window = 3
    Windows <- MCWindows
    LeaseTicks = 0
    DoneTicks = 3
    DeadTicks = 3
SPECIFICATION AdmSpec
INVARIANT NeverLeasedDegrades
