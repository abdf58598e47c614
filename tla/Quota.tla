-------------------------------- MODULE Quota --------------------------------
(***************************************************************************)
(* Per-caller quotas (QuotaEnforcer in quota.cpp): two token buckets per   *)
(* caller, requests per minute and compute units per hour, refilled lazily *)
(* when the caller calls and forgotten when it has been idle for an hour.  *)
(* charge() runs under one mutex, so a call is one step.                   *)
(*                                                                         *)
(* A tick is the second of the code.  A bucket's tokens are counted in     *)
(* parts of 1/Period[axis], so that one tick refills exactly `capacity`    *)
(* parts and no rounding is left out.  A clock is kept as the time since,  *)
(* up to the longest time that makes a difference.                         *)
(***************************************************************************)
EXTENDS Integers, FiniteSetsExt, Functions

CONSTANTS
    Callers,     \* caller ids: subjects, key labels, "~anonymous"
    Tiers,       \* the tiers of QUOTA_POLICY, and the limits written on keys
    Limits,      \* Limits[t][a]: requests per minute, units per hour; 0 is none
    TierOf,      \* TierOf[c]: the tiers caller c is seen with
    Costs,       \* the compute units of a call
    Minute, Hour,
    SweepGate    \* five minutes

Axes   == {"rate", "budget"}
Period == [a \in Axes |-> IF a = "rate" THEN Minute ELSE Hour]

ASSUME QuotaAssumption ==
    /\ Limits \in [Tiers -> [Axes -> Nat]]
    /\ TierOf \in [Callers -> SUBSET Tiers]
    /\ Costs \subseteq Nat
    /\ Minute \in Nat \ {0} /\ Hour \in Nat \ {0} /\ SweepGate \in Nat
    /\ Minute <= Hour

VARIABLES
    callers,    \* callers_: the buckets of the callers seen
    sinceSweep, \* time since last_sweep_
    told        \* the last Decision each caller was given, and its age

vars == <<callers, sinceSweep, told>>

-----------------------------------------------------------------------------
(***************************************************************************)
(* Buckets.                                                                *)
(***************************************************************************)
Least(m, n) == IF m < n THEN m ELSE n

Bucket(cap, a) == [tokens |-> cap * Period[a], capacity |-> cap, age |-> 0]

FullOf(b, a) == b.capacity * Period[a]

\* Mutant: an allowance that is saved up.
LevelUncapped(b, a) == b.tokens + b.age * b.capacity

Level(b, a) == Least(FullOf(b, a), b.tokens + b.age * b.capacity)

Refill(b, a) == [b EXCEPT !.tokens = Level(b, a), !.age = 0]

\* Mutant: truncated, not rounded up.
WaitForTruncated(b, needed) ==
    IF b.tokens >= needed THEN 0
    ELSE IF b.capacity = 0 THEN Hour
    ELSE (needed - b.tokens) \div b.capacity

\* Rounded up, as charge() reports it.
WaitFor(b, needed) ==
    IF b.tokens >= needed THEN 0
    ELSE IF b.capacity = 0 THEN Hour
    ELSE (needed - b.tokens + b.capacity - 1) \div b.capacity

-----------------------------------------------------------------------------
(***************************************************************************)
(* charge().                                                               *)
(***************************************************************************)
\* Mutant: forgotten as soon as the gate opens.
IdleEarly(st) == st.idle > SweepGate

Idle(st) == st.idle > Hour

\* sweep_idle(), at most once per SweepGate.
Kept == IF sinceSweep < SweepGate THEN callers
        ELSE Restrict(callers, {c \in DOMAIN callers : ~Idle(callers[c])})

\* try_emplace(): the limits of the call that creates the entry.
Entry(c, t) == IF c \in DOMAIN Kept THEN Kept[c].bucket
               ELSE [a \in Axes |-> Bucket(Limits[t][a], a)]

Limited(t) == {a \in Axes : Limits[t][a] > 0}

Refilled(c, t) == [a \in Axes |-> IF a \in Limited(t) THEN Refill(Entry(c, t)[a], a)
                                  ELSE Entry(c, t)[a]]

\* A request of `cost` compute units.
Price(cost) == [a \in Axes |-> IF a = "rate" THEN Minute ELSE cost * Hour]

Spent(bucket, t, cost) ==
    [a \in Axes |-> IF a \in Limited(t)
                    THEN [bucket[a] EXCEPT !.tokens = @ - Price(cost)[a]]
                    ELSE bucket[a]]

Short(bucket, t, cost) == \E a \in Limited(t) : bucket[a].tokens < Price(cost)[a]

\* The call alone exceeds the bucket.
Hopeless(bucket, t, cost) ==
    /\ "budget" \in Limited(t)
    /\ bucket["budget"].tokens < Price(cost)["budget"]
    /\ cost > bucket["budget"].capacity /\ bucket["budget"].capacity > 0

\* The longer of the waits, and 0 for a call that need not be retried.
RetryAfter(bucket, t, cost) ==
    LET waits == {WaitFor(bucket[a], Price(cost)[a]) : a \in Limited(t)}
    IN  IF Hopeless(bucket, t, cost) THEN 0 ELSE Max(waits \union {0})

\* The entry is seen now and holds these buckets.
Store(c, bucket) ==
    /\ callers' = [d \in DOMAIN Kept \union {c} |->
                     IF d = c THEN [bucket |-> bucket, idle |-> 0] ELSE Kept[d]]
    /\ sinceSweep' = IF sinceSweep < SweepGate THEN sinceSweep ELSE 0

\* to_status() tells a refused caller to retry in so many seconds, or that
\* the request cannot succeed.
Decide(c, t, cost, verdict, wait) ==
    told' = [told EXCEPT ![c] = [verdict |-> verdict, tier |-> t, cost |-> cost,
                                 wait |-> wait]]

Allow(c, t, cost) ==
    LET bucket == Refilled(c, t)
    IN  /\ ~Short(bucket, t, cost)
        /\ Store(c, Spent(bucket, t, cost))
        /\ Decide(c, t, cost, "allowed", 0)

Refuse(c, t, cost) ==
    LET bucket == Refilled(c, t)
        wait   == RetryAfter(bucket, t, cost)
    IN  /\ Short(bucket, t, cost)
        /\ Store(c, bucket)
        /\ Decide(c, t, cost, IF wait > 0 THEN "later" ELSE "never", wait)

Charge(c, t, cost) == Allow(c, t, cost) \/ Refuse(c, t, cost)

-----------------------------------------------------------------------------
Tick ==
    /\ callers' = [c \in DOMAIN callers |->
         [bucket |-> [a \in Axes |->
             [callers[c].bucket[a] EXCEPT !.age = Least(@ + 1, Period[a])]],
          idle |-> Least(callers[c].idle + 1, Hour + 1)]]
    /\ sinceSweep' = Least(sinceSweep + 1, SweepGate)
    /\ told' = [c \in Callers |->
         [told[c] EXCEPT !.wait = IF @ > 0 THEN @ - 1 ELSE 0]]

NotTold == [verdict |-> "none", tier |-> "none", cost |-> 0, wait |-> 0]

Init ==
    /\ callers = <<>>
    /\ sinceSweep = 0
    /\ told = [c \in Callers |-> NotTold]

Next == \/ \E c \in Callers : \E t \in TierOf[c], cost \in Costs : Charge(c, t, cost)
        \/ Tick

Spec == Init /\ [][Next]_vars

-----------------------------------------------------------------------------
\* Every variable has its type; a bucket holds no more than its capacity and
\* no less than nothing.
Buckets == [tokens: Nat, capacity: Nat, age: Nat]

BucketOK(b, a) ==
    /\ b \in Buckets
    /\ b.capacity \in {Limits[t][a] : t \in Tiers}
    /\ b.tokens <= FullOf(b, a)
    /\ b.age <= Period[a]

AccountOK(st) ==
    /\ st \in [bucket: [Axes -> Buckets], idle: 0..(Hour + 1)]
    /\ \A a \in Axes : BucketOK(st.bucket[a], a)

TypeOK ==
    /\ DOMAIN callers \subseteq Callers
    /\ \A c \in DOMAIN callers : AccountOK(callers[c])
    /\ sinceSweep \in 0..SweepGate
    /\ told \in [Callers -> [verdict: {"none", "allowed", "later", "never"},
                             tier: Tiers \union {"none"}, cost: Costs \union {0},
                             wait: Nat]]

TheTier(c) == CHOOSE t \in TierOf[c] : TRUE

\* Each caller is only ever seen with one tier.
OneTierEach == \A c \in Callers : \E t \in Tiers : TierOf[c] = {t}

\* Inductive when it holds: a bucket has its caller's limits, and one that is
\* metered was last refilled when its caller was last seen.
EntryOK(st, t) ==
    \A a \in Axes :
        /\ st.bucket[a].capacity = Limits[t][a]
        /\ Limits[t][a] > 0 => st.bucket[a].age = Least(st.idle, Period[a])

QuotaInv == TypeOK /\ \A c \in DOMAIN callers : EntryOK(callers[c], TheTier(c))

Fulls == [c \in Callers |-> [a \in Axes |-> Limits[TheTier(c)][a] * Period[a]]]

Allowance == [c \in Callers |-> [a \in Axes |->
    IF c \in DOMAIN callers THEN Level(callers[c].bucket[a], a) ELSE Fulls[c][a]]]

\* sweep_idle()'s comment: "a forgotten caller returns to exactly the state it
\* would have had anyway".  With lazy refills, idle sweeps and one shared map,
\* each caller whose tier does not change is metered as if its own bucket were
\* refilled every tick and never forgotten.
Meter == INSTANCE TokenMeter WITH
    Full <- Fulls,
    Gain <- [c \in Callers |-> Limits[TheTier(c)]],
    Prices <- {Price(cost) : cost \in Costs},
    left <- Allowance

ImplementsMeter == Meter!Spec

\* quota.cppm: a client that honours retry_after_seconds "will arrive exactly
\* when it can be served": the same call, made once the wait is over and with
\* no other call of that caller in between, is not told to wait again.
RetryIsEnough == [][
    \A c \in Callers :
        /\ told[c].verdict = "later" /\ told[c].wait = 0
        /\ told'[c].tier = told[c].tier /\ told'[c].cost = told[c].cost
        /\ told'[c].verdict # "allowed"
      => UNCHANGED told[c]]_vars

\* "this call alone exceeds the tier's hourly allowance": said only of a call
\* that does exceed the allowance of the tier it was made with.
NeverIsOfTheTier ==
    \A c \in Callers : told[c].verdict = "never" =>
        told[c].cost > Limits[told[c].tier]["budget"]
=============================================================================
