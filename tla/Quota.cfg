\* A caller metered on both axes and one metered on compute units alone.
CONSTANTS
    free = free
    pro = pro
    key = key
    c1 = c1
    c2 = c2
    Callers = {c1, c2}
    Tiers = {free, pro, key}
    Limits <- MCLimits
    TierOf <- OneTier
    Costs = {1, 3}
    Minute = 2
    Hour = 5
    SweepGate = 3
SPECIFICATION Spec
INVARIANT TypeOK
PROPERTIES ImplementsMeter RetryIsEnough
