------------------------------- MODULE MCQuota -------------------------------
(* Quota with the policy's tiers in small: pro is allowed more than free   *)
(* on both axes; the limits written on a key meter compute units alone.    *)
EXTENDS Quota

CONSTANTS free, pro, key, c1, c2

Allowed(rate, budget) == [a \in Axes |-> IF a = "rate" THEN rate ELSE budget]

MCLimits == [t \in Tiers |-> CASE t = free -> Allowed(1, 2)
                               [] t = pro  -> Allowed(2, 3)
                               [] t = key  -> Allowed(0, 3)]

OneTier == [c \in Callers |-> IF c = c1 THEN {free} ELSE {key}]
Upgrade == [c \in Callers |-> {free, pro}]
=============================================================================
