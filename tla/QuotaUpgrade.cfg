\* One caller, seen with either tier.
CONSTANTS
    free = free
    pro = pro
    key = key
    c1 = c1
    c2 = c2
    Callers = {c1}
    Tiers = {free, pro, key}
    Limits <- MCLimits
    TierOf <- Upgrade
    Costs = {1, 3}
    Minute = 2
    Hour = 5
    SweepGate = 3
SPECIFICATION Spec
INVARIANT NeverIsOfTheTier
