\* One request on two replicas, two attempts inside its deadline, and the row
\* an earlier one left; crashes and lost replies at any time, and no fairness
\* of the workers.
CONSTANTS
    None = None
    r1 = r1
    r2 = r2
    Jobs = {j1, j2}
    Earlier = j2
    Replicas <- MCReplicas
    HomeOf <- MCHomeOf
    MaxAttempts = 2
    PendingBound = 1
    PoolSize = 1
    Window = 3
    Windows <- MCWindows
    LeaseTicks = 0
    DoneTicks = 3
    DeadTicks = 3
SPECIFICATION OccupiedSpec
INVARIANTS AdmTypeOK AnswerAgreesWithRow WaitingRowIsKept
PROPERTIES EveryRequestAnswered EveryRowSettles
