----------------------------- MODULE TokenMeter -----------------------------
(***************************************************************************)
(* What the quota of one caller promises: an allowance that starts full,   *)
(* is refilled as time passes, never beyond full, and is spent by admitted *)
(* calls only while there is enough of it.  No caller is ever forgotten,   *)
(* and nothing one caller does changes another's allowance.                *)
(***************************************************************************)
EXTENDS Integers

CONSTANTS
    Callers,
    Axes,       \* what is metered
    Full,       \* Full[c][a]: all of c's allowance on axis a
    Gain,       \* Gain[c][a]: what one tick adds to it
    Prices      \* what a call can cost: functions on Axes

VARIABLE left

Topped(c, a, n) == IF n < Full[c][a] THEN n ELSE Full[c][a]

Init == left = Full

Tick == left' = [c \in Callers |->
                   [a \in Axes |-> Topped(c, a, left[c][a] + Gain[c][a])]]

\* An axis on which the caller has no allowance at all is not metered.
Metered(c) == {a \in Axes : Full[c][a] > 0}

Spend(c, price) ==
    /\ \A a \in Metered(c) : left[c][a] >= price[a]
    /\ left' = [left EXCEPT ![c] = [a \in Axes |->
                  IF a \in Metered(c) THEN @[a] - price[a] ELSE @[a]]]

Next == Tick \/ \E c \in Callers, price \in Prices : Spend(c, price)

Spec == Init /\ [][Next]_left
=============================================================================
