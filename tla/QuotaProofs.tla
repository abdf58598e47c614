----------------------------- MODULE QuotaProofs -----------------------------
(***************************************************************************)
(* What holds of Quota for any callers, tiers, limits, costs and periods:  *)
(* the buckets keep their type whatever tiers the callers are seen with,   *)
(* and when each caller has one tier, lazy refills and idle eviction are   *)
(* those of TokenMeter, which refills every tick and forgets nobody, a     *)
(* retry at the time given is served, and no window of time admits more    *)
(* than the limits say.                                                    *)
(***************************************************************************)
EXTENDS Quota, TLAPS

LEMMA Constants ==
    /\ Minute \in Nat /\ Hour \in Nat /\ Minute <= Hour
    /\ Minute > 0 /\ Hour > 0
    /\ "rate" \in Axes /\ "budget" \in Axes
    /\ \A a \in Axes : Period[a] \in Nat /\ Period[a] > 0 /\ Period[a] <= Hour
    /\ \A t \in Tiers, a \in Axes : Limits[t][a] \in Nat
BY QuotaAssumption DEF Axes, Period

LEMMA Products ==
    ASSUME NEW m \in Nat, NEW n \in Nat
    PROVE  /\ m * n \in Nat
           /\ (m + 1) * n = m * n + n
           /\ 0 * n = 0 /\ m * 0 = 0
           /\ m * n = n * m
BY SMT

-----------------------------------------------------------------------------
(***************************************************************************)
(* Buckets.                                                                *)
(***************************************************************************)
LEMMA LevelOK ==
    ASSUME NEW a \in Axes, NEW b \in Buckets, BucketOK(b, a)
    PROVE  /\ FullOf(b, a) \in Nat
           /\ Level(b, a) \in Nat
           /\ Level(b, a) <= FullOf(b, a)
           /\ b.age = 0 => Level(b, a) = b.tokens
           /\ b.age = Period[a] => Level(b, a) = FullOf(b, a)
           /\ b.capacity = 0 => Level(b, a) = 0 /\ FullOf(b, a) = 0
<1> DEFINE full == b.capacity * Period[a]
           gain == b.age * b.capacity
<1>1. b.tokens \in Nat /\ b.capacity \in Nat /\ b.age \in Nat /\ Period[a] \in Nat
  BY Constants DEF Buckets
<1>2. full \in Nat /\ gain \in Nat
  BY <1>1, Products
<1>3. b.age = 0 => gain = 0
  BY <1>1, Products
<1>4. b.age = Period[a] => gain = full
  BY <1>1, Products
<1>5. b.capacity = 0 => full = 0 /\ gain = 0
  BY <1>1, Products
<1>6. b.tokens <= full
  BY DEF BucketOK, FullOf
<1>7. FullOf(b, a) = full /\ Level(b, a) = Least(full, b.tokens + gain)
  BY DEF FullOf, Level
<1> HIDE DEF full, gain
<1> QED BY <1>1, <1>2, <1>3, <1>4, <1>5, <1>6, <1>7 DEF Least

LEMMA RefillOK ==
    ASSUME NEW a \in Axes, NEW b \in Buckets, BucketOK(b, a)
    PROVE  /\ Refill(b, a) \in Buckets
           /\ BucketOK(Refill(b, a), a)
           /\ Refill(b, a).tokens = Level(b, a)
           /\ Refill(b, a).age = 0
           /\ Refill(b, a).capacity = b.capacity
<1>1. Level(b, a) \in Nat /\ Level(b, a) <= FullOf(b, a)
  BY LevelOK
<1>2. /\ Refill(b, a) \in Buckets
      /\ Refill(b, a).tokens = Level(b, a)
      /\ Refill(b, a).age = 0
      /\ Refill(b, a).capacity = b.capacity
  BY <1>1 DEF Refill, Buckets
<1>3. FullOf(Refill(b, a), a) = FullOf(b, a)
  BY <1>2 DEF FullOf
<1> QED BY <1>1, <1>2, <1>3, Constants DEF BucketOK

\* One tick: what a lazy refill would find grows as an eager one would make
\* it grow.
Older(b, a) == [b EXCEPT !.age = Least(@ + 1, Period[a])]

LEMMA OlderOK ==
    ASSUME NEW a \in Axes, NEW b \in Buckets, BucketOK(b, a)
    PROVE  /\ Older(b, a) \in Buckets
           /\ BucketOK(Older(b, a), a)
           /\ Older(b, a).capacity = b.capacity
           /\ Older(b, a).age = Least(b.age + 1, Period[a])
           /\ Level(Older(b, a), a) = Least(FullOf(b, a), Level(b, a) + b.capacity)
<1> DEFINE full == b.capacity * Period[a]
           gain == b.age * b.capacity
           o    == Older(b, a)
<1>1. b.tokens \in Nat /\ b.capacity \in Nat /\ b.age \in Nat /\ Period[a] \in Nat
  BY Constants DEF Buckets
<1>2. Least(b.age + 1, Period[a]) \in Nat
  BY <1>1 DEF Least
<1>3. /\ o \in Buckets /\ o.tokens = b.tokens /\ o.capacity = b.capacity
      /\ o.age = Least(b.age + 1, Period[a])
  BY <1>2 DEF Older, Buckets
<1>4. FullOf(o, a) = FullOf(b, a)
  BY <1>3 DEF FullOf
<1>5. BucketOK(o, a)
  BY <1>1, <1>3, <1>4 DEF BucketOK, Least
<1>6. b.tokens <= full /\ b.age <= Period[a]
  BY DEF BucketOK, FullOf
<1>7. full \in Nat /\ gain \in Nat
  BY <1>1, Products
<1>8. FullOf(b, a) = full /\ Level(b, a) = Least(full, b.tokens + gain)
  BY DEF FullOf, Level
<1>9. Level(o, a) = Least(full, Level(b, a) + b.capacity)
  <2>1. CASE b.age < Period[a]
    <3>1. o.age = b.age + 1
      BY <2>1, <1>1, <1>3 DEF Least
    <3>2. o.age * o.capacity = gain + b.capacity
      BY <3>1, <1>1, <1>3, Products
    <3>3. Level(o, a) = Least(full, b.tokens + (gain + b.capacity))
      BY <3>2, <1>3, <1>4, <1>8 DEF Level
    <3> HIDE DEF full, gain, o
    <3> QED BY <3>3, <1>1, <1>6, <1>7, <1>8 DEF Least
  <2>2. CASE b.age = Period[a]
    <3>1. o.age = Period[a]
      BY <2>2, <1>1, <1>3 DEF Least
    <3>2. Level(o, a) = full
      BY <3>1, <1>3, <1>4, <1>5, <1>8, LevelOK
    <3>3. Level(b, a) = full
      BY <2>2, <1>8, LevelOK
    <3> HIDE DEF full, gain, o
    <3> QED BY <3>2, <3>3, <1>1, <1>7 DEF Least
  <2> QED BY <2>1, <2>2, <1>1, <1>6
<1> QED BY <1>3, <1>5, <1>8, <1>9

\* A new entry's bucket is full.
LEMMA BucketNew ==
    ASSUME NEW a \in Axes, NEW t \in Tiers
    PROVE  /\ Bucket(Limits[t][a], a) \in Buckets
           /\ BucketOK(Bucket(Limits[t][a], a), a)
           /\ Bucket(Limits[t][a], a).capacity = Limits[t][a]
           /\ Bucket(Limits[t][a], a).tokens = Limits[t][a] * Period[a]
           /\ Bucket(Limits[t][a], a).age = 0
<1>1. Limits[t][a] \in Nat /\ Period[a] \in Nat
  BY Constants
<1>2. Limits[t][a] * Period[a] \in Nat
  BY <1>1, Products
<1> QED BY <1>1, <1>2 DEF Bucket, Buckets, BucketOK, FullOf

-----------------------------------------------------------------------------
(***************************************************************************)
(* What charge() finds, and what it leaves.                                *)
(***************************************************************************)
LEMMA KeptOK ==
    /\ DOMAIN Kept \subseteq DOMAIN callers
    /\ \A d \in DOMAIN Kept : Kept[d] = callers[d]
    /\ \A d \in DOMAIN callers \ DOMAIN Kept : Idle(callers[d])
BY DEF Kept, Restrict

LEMMA EntryTyped ==
    ASSUME TypeOK, NEW c \in Callers, NEW t \in Tiers
    PROVE  /\ Entry(c, t) \in [Axes -> Buckets]
           /\ \A a \in Axes : BucketOK(Entry(c, t)[a], a)
<1>1. CASE c \in DOMAIN Kept
  <2>1. Entry(c, t) = callers[c].bucket /\ AccountOK(callers[c])
    BY <1>1, KeptOK DEF Entry, TypeOK
  <2> QED BY <2>1 DEF AccountOK
<1>2. CASE c \notin DOMAIN Kept
  BY <1>2, BucketNew DEF Entry
<1> QED BY <1>1, <1>2

LEMMA RefilledTyped ==
    ASSUME TypeOK, NEW c \in Callers, NEW t \in Tiers
    PROVE  /\ Refilled(c, t) \in [Axes -> Buckets]
           /\ \A a \in Axes :
                /\ BucketOK(Refilled(c, t)[a], a)
                /\ Refilled(c, t)[a].capacity = Entry(c, t)[a].capacity
                /\ a \in Limited(t) =>
                     /\ Refilled(c, t)[a].tokens = Level(Entry(c, t)[a], a)
                     /\ Refilled(c, t)[a].age = 0
                /\ a \notin Limited(t) => Refilled(c, t)[a] = Entry(c, t)[a]
<1> DEFINE e == Entry(c, t)
<1>1. e \in [Axes -> Buckets] /\ \A a \in Axes : BucketOK(e[a], a)
  BY EntryTyped
<1>2. \A a \in Axes : /\ Refill(e[a], a) \in Buckets
                      /\ BucketOK(Refill(e[a], a), a)
                      /\ Refill(e[a], a).tokens = Level(e[a], a)
                      /\ Refill(e[a], a).age = 0
                      /\ Refill(e[a], a).capacity = e[a].capacity
  BY <1>1, RefillOK
<1>3. Refilled(c, t) = [a \in Axes |-> IF a \in Limited(t) THEN Refill(e[a], a)
                                       ELSE e[a]]
  BY DEF Refilled
<1> HIDE DEF e
<1>4. \A a \in Axes : Refilled(c, t)[a] = IF a \in Limited(t) THEN Refill(e[a], a)
                                          ELSE e[a]
  BY <1>3
<1>5. Refilled(c, t) \in [Axes -> Buckets]
  BY <1>1, <1>2, <1>3
<1>6. \A a \in Axes :
        /\ BucketOK(Refilled(c, t)[a], a)
        /\ Refilled(c, t)[a].capacity = e[a].capacity
        /\ a \in Limited(t) => /\ Refilled(c, t)[a].tokens = Level(e[a], a)
                               /\ Refilled(c, t)[a].age = 0
        /\ a \notin Limited(t) => Refilled(c, t)[a] = e[a]
  BY <1>1, <1>2, <1>4
<1> QED BY <1>5, <1>6 DEF e

LEMMA PriceTyped ==
    ASSUME NEW cost \in Costs, NEW a \in Axes
    PROVE  Price(cost)[a] \in Nat
<1>1. cost \in Nat
  BY QuotaAssumption
<1>2. cost * Hour \in Nat
  BY <1>1, Constants, Products
<1> QED BY <1>2, Constants DEF Price

\* Only what is there is spent.
LEMMA SpentTyped ==
    ASSUME NEW t \in Tiers, NEW cost \in Costs,
           NEW bucket \in [Axes -> Buckets],
           \A a \in Axes : BucketOK(bucket[a], a),
           ~Short(bucket, t, cost)
    PROVE  /\ Spent(bucket, t, cost) \in [Axes -> Buckets]
           /\ \A a \in Axes :
                /\ BucketOK(Spent(bucket, t, cost)[a], a)
                /\ Spent(bucket, t, cost)[a].capacity = bucket[a].capacity
                /\ Spent(bucket, t, cost)[a].age = bucket[a].age
                /\ Spent(bucket, t, cost)[a].tokens =
                     IF a \in Limited(t) THEN bucket[a].tokens - Price(cost)[a]
                     ELSE bucket[a].tokens
<1> DEFINE s == Spent(bucket, t, cost)
<1>1. ASSUME NEW a \in Axes
      PROVE  /\ s[a] \in Buckets
             /\ BucketOK(s[a], a)
             /\ s[a].capacity = bucket[a].capacity
             /\ s[a].age = bucket[a].age
             /\ s[a].tokens = IF a \in Limited(t) THEN bucket[a].tokens - Price(cost)[a]
                              ELSE bucket[a].tokens
  <2>1. bucket[a] \in Buckets /\ BucketOK(bucket[a], a)
    OBVIOUS
  <2>2. CASE a \in Limited(t)
    <3>1. s[a] = [bucket[a] EXCEPT !.tokens = @ - Price(cost)[a]]
      BY <2>2 DEF Spent
    <3>2. bucket[a].tokens - Price(cost)[a] \in Nat
      BY <2>1, <2>2, PriceTyped DEF Short, Buckets
    <3>3. /\ s[a] \in Buckets /\ s[a].capacity = bucket[a].capacity
          /\ s[a].age = bucket[a].age
          /\ s[a].tokens = bucket[a].tokens - Price(cost)[a]
      BY <2>1, <3>1, <3>2 DEF Buckets
    <3>4. FullOf(s[a], a) = FullOf(bucket[a], a) /\ FullOf(bucket[a], a) \in Nat
      BY <2>1, <3>3, LevelOK DEF FullOf
    <3>5. s[a].tokens <= FullOf(s[a], a)
      BY <2>1, <3>3, <3>4, PriceTyped DEF BucketOK, Buckets
    <3> QED BY <2>1, <2>2, <3>3, <3>5 DEF BucketOK
  <2>3. CASE a \notin Limited(t)
    <3>1. s[a] = bucket[a]
      BY <2>3 DEF Spent
    <3> QED BY <2>1, <2>3, <3>1
  <2> QED BY <2>2, <2>3
<1>2. s = [a \in Axes |-> s[a]]
  BY DEF Spent
<1> HIDE DEF s
<1>3. s \in [Axes -> Buckets]
  BY <1>1, <1>2
<1> QED BY <1>1, <1>3 DEF s

LEMMA StoreTyped ==
    ASSUME TypeOK, NEW c \in Callers, NEW bucket \in [Axes -> Buckets],
           \A a \in Axes : BucketOK(bucket[a], a),
           Store(c, bucket)
    PROVE  /\ DOMAIN callers' \subseteq Callers
           /\ \A d \in DOMAIN callers' : AccountOK(callers'[d])
           /\ sinceSweep' \in 0..SweepGate
<1>1. callers' = [d \in DOMAIN Kept \union {c} |->
                    IF d = c THEN [bucket |-> bucket, idle |-> 0] ELSE Kept[d]]
  BY DEF Store
<1>2. AccountOK([bucket |-> bucket, idle |-> 0])
  BY Constants DEF AccountOK
<1>3. \A d \in DOMAIN Kept : AccountOK(Kept[d]) /\ d \in Callers
  BY KeptOK DEF TypeOK
<1>4. sinceSweep' \in 0..SweepGate
  BY QuotaAssumption DEF Store, TypeOK
<1> QED BY <1>1, <1>2, <1>3, <1>4

LEMMA Division ==
    ASSUME NEW m \in Nat, NEW n \in Nat, n > 0
    PROVE  m \div n \in Nat /\ m < (m \div n) * n + n
BY SMT

LEMMA Monotone ==
    ASSUME NEW m \in Nat, NEW n \in Nat, NEW k \in Nat, m <= n
    PROVE  m * k <= n * k
BY SMT

LEMMA WaitForTyped ==
    ASSUME NEW b \in Buckets, NEW needed \in Nat
    PROVE  WaitFor(b, needed) \in Nat
<1>1. CASE b.tokens >= needed \/ b.capacity = 0
  BY <1>1, Constants DEF WaitFor
<1>2. CASE ~(b.tokens >= needed \/ b.capacity = 0)
  <2>1. needed - b.tokens + b.capacity - 1 \in Nat /\ b.capacity \in Nat /\ b.capacity > 0
    BY <1>2 DEF Buckets
  <2>2. (needed - b.tokens + b.capacity - 1) \div b.capacity \in Nat
    BY <2>1, Division
  <2> QED BY <1>2, <2>2 DEF WaitFor
<1> QED BY <1>1, <1>2

\* The wait rounded up is enough: after it, at the bucket's rate, what was
\* needed is there.
LEMMA WaitIsEnough ==
    ASSUME NEW b \in Buckets, NEW needed \in Nat, b.capacity > 0,
           NEW w \in Nat, w >= WaitFor(b, needed)
    PROVE  needed <= b.tokens + w * b.capacity
<1> DEFINE n == b.tokens
           m == b.capacity
<1>1. n \in Nat /\ m \in Nat /\ m > 0
  BY DEF Buckets
<1>2. w * m \in Nat
  BY <1>1, Products
<1>3. CASE n >= needed
  <2> HIDE DEF n, m
  <2> QED BY <1>1, <1>2, <1>3 DEF n, m
<1>4. CASE n < needed
  <2> DEFINE lack == needed - n + m - 1
             k    == lack \div m
  <2>1. WaitFor(b, needed) = k
    BY <1>1, <1>4 DEF WaitFor
  <2> HIDE DEF n, m
  <2>2. lack \in Nat
    BY <1>1, <1>4
  <2> HIDE DEF lack
  <2>3. k \in Nat /\ lack < k * m + m
    BY <1>1, <2>2, Division
  <2> HIDE DEF k
  <2>4. k * m \in Nat /\ k * m <= w * m
    BY <1>1, <2>1, <2>3, Products, Monotone
  <2>5. needed - n <= k * m
    BY <1>1, <2>3, <2>4 DEF lack
  <2> QED BY <1>1, <1>2, <2>4, <2>5 DEF n, m
<1> QED BY <1>1, <1>3, <1>4

LEMMA RetryAfterTyped ==
    ASSUME NEW t \in Tiers, NEW cost \in Costs, NEW bucket \in [Axes -> Buckets]
    PROVE  /\ RetryAfter(bucket, t, cost) \in Nat
           /\ ~Hopeless(bucket, t, cost) =>
                \A a \in Limited(t) :
                   RetryAfter(bucket, t, cost) >= WaitFor(bucket[a], Price(cost)[a])
<1> DEFINE W(a) == WaitFor(bucket[a], Price(cost)[a])
           waits == {W(a) : a \in Limited(t)}
<1>1. W("rate") \in Nat /\ W("budget") \in Nat
  BY PriceTyped, WaitForTyped, Constants
<1>2. waits \union {0} \subseteq {W("rate"), W("budget"), 0}
  BY DEF Limited, Axes
<1>3. RetryAfter(bucket, t, cost) = IF Hopeless(bucket, t, cost) THEN 0
                                    ELSE Max(waits \union {0})
  BY DEF RetryAfter
<1> HIDE DEF W
<1>4. waits \union {0} \subseteq Nat
  BY <1>1, <1>2
<1>5. \A a \in Limited(t) : W(a) \in waits
  OBVIOUS
<1> HIDE DEF waits
<1>6. \E x \in waits \union {0} : \A y \in waits \union {0} : x >= y
  BY <1>1, <1>2, <1>4
<1>7. /\ Max(waits \union {0}) \in waits \union {0}
      /\ \A y \in waits \union {0} : Max(waits \union {0}) >= y
  BY <1>6 DEF Max
<1>8. ~Hopeless(bucket, t, cost) => \A a \in Limited(t) : RetryAfter(bucket, t, cost) >= W(a)
  BY <1>3, <1>5, <1>7
<1>9. RetryAfter(bucket, t, cost) \in Nat
  BY <1>3, <1>4, <1>7
<1> QED BY <1>8, <1>9 DEF W

-----------------------------------------------------------------------------
(***************************************************************************)
(* TypeOK is inductive.                                                    *)
(***************************************************************************)
LEMMA DecideTyped ==
    ASSUME TypeOK, NEW c \in Callers, NEW t \in Tiers, NEW cost \in Costs,
           NEW verdict \in {"none", "allowed", "later", "never"}, NEW wait \in Nat,
           Decide(c, t, cost, verdict, wait)
    PROVE  told' \in [Callers -> [verdict: {"none", "allowed", "later", "never"},
                                  tier: Tiers \union {"none"},
                                  cost: Costs \union {0}, wait: Nat]]
BY DEF TypeOK, Decide

LEMMA ChargeTyped ==
    ASSUME TypeOK, NEW c \in Callers, NEW t \in Tiers, NEW cost \in Costs,
           Charge(c, t, cost)
    PROVE  TypeOK'
<1> DEFINE r == Refilled(c, t)
<1>1. r \in [Axes -> Buckets] /\ \A a \in Axes : BucketOK(r[a], a)
  BY RefilledTyped
<1>2. CASE Allow(c, t, cost)
  <2>1. ~Short(r, t, cost) /\ Store(c, Spent(r, t, cost))
        /\ Decide(c, t, cost, "allowed", 0)
    BY <1>2 DEF Allow
  <2>2. /\ Spent(r, t, cost) \in [Axes -> Buckets]
        /\ \A a \in Axes : BucketOK(Spent(r, t, cost)[a], a)
    BY <1>1, <2>1, SpentTyped
  <2> QED BY <2>1, <2>2, StoreTyped, DecideTyped DEF TypeOK
<1>3. CASE Refuse(c, t, cost)
  <2>1. Store(c, r)
    BY <1>3 DEF Refuse
  <2>2. \E verdict \in {"later", "never"} :
          Decide(c, t, cost, verdict, RetryAfter(r, t, cost))
    BY <1>3 DEF Refuse
  <2>3. RetryAfter(r, t, cost) \in Nat
    BY <1>1, RetryAfterTyped
  <2> QED BY <1>1, <2>1, <2>2, <2>3, StoreTyped, DecideTyped DEF TypeOK
<1> QED BY <1>2, <1>3 DEF Charge

\* The clock's effect on an account.
Aged(st) == [bucket |-> [a \in Axes |-> Older(st.bucket[a], a)],
             idle |-> Least(st.idle + 1, Hour + 1)]

LEMMA TickAges ==
    ASSUME Tick
    PROVE  callers' = [c \in DOMAIN callers |-> Aged(callers[c])]
BY DEF Tick, Aged, Older

LEMMA AgedOK ==
    ASSUME NEW st, AccountOK(st)
    PROVE  AccountOK(Aged(st))
<1>1. \A a \in Axes : /\ Older(st.bucket[a], a) \in Buckets
                      /\ BucketOK(Older(st.bucket[a], a), a)
  BY OlderOK DEF AccountOK
<1>2. Least(st.idle + 1, Hour + 1) \in 0..(Hour + 1)
  BY Constants DEF AccountOK, Least
<1> QED BY <1>1, <1>2 DEF Aged, AccountOK

LEMMA TickTyped ==
    ASSUME TypeOK, Tick
    PROVE  TypeOK'
<1>1. \A c \in DOMAIN callers' : AccountOK(callers'[c])
  BY TickAges, AgedOK DEF TypeOK
<1>2. DOMAIN callers' \subseteq Callers
  BY TickAges DEF TypeOK
<1>3. sinceSweep' \in 0..SweepGate
  BY QuotaAssumption DEF Tick, TypeOK, Least
<1>4. told' = [c \in Callers |->
                 [told[c] EXCEPT !.wait = IF @ > 0 THEN @ - 1 ELSE 0]]
  BY DEF Tick
<1>5. \A c \in Callers :
        [told[c] EXCEPT !.wait = IF @ > 0 THEN @ - 1 ELSE 0]
          \in [verdict: {"none", "allowed", "later", "never"},
               tier: Tiers \union {"none"}, cost: Costs \union {0}, wait: Nat]
  BY DEF TypeOK
<1>6. told' \in [Callers -> [verdict: {"none", "allowed", "later", "never"},
                             tier: Tiers \union {"none"},
                             cost: Costs \union {0}, wait: Nat]]
  BY <1>4, <1>5
<1> QED BY <1>1, <1>2, <1>3, <1>6 DEF TypeOK

LEMMA InitTyped == Init => TypeOK
BY Constants, QuotaAssumption DEF Init, TypeOK, NotTold

LEMMA NextTyped ==
    ASSUME TypeOK, [Next]_vars
    PROVE  TypeOK'
<1>1. ASSUME NEW c \in Callers, NEW t \in TierOf[c], NEW cost \in Costs,
             Charge(c, t, cost)
      PROVE  TypeOK'
  BY <1>1, QuotaAssumption, ChargeTyped
<1>2. CASE UNCHANGED vars
  BY <1>2 DEF vars, TypeOK
<1> QED BY <1>1, <1>2, TickTyped DEF Next

\* Whatever tiers a caller is seen with, no bucket is overfull or overdrawn
\* (charge() and sweep_idle() in quota.cpp).
THEOREM Typing == Spec => []TypeOK
BY InitTyped, NextTyped, PTL DEF Spec

-----------------------------------------------------------------------------
(***************************************************************************)
(* With one tier to each caller: the invariant and the refinement.         *)
(***************************************************************************)
LEMMA TheOneTier ==
    ASSUME OneTierEach, NEW c \in Callers
    PROVE  TheTier(c) \in Tiers /\ TierOf[c] = {TheTier(c)}
BY DEF OneTierEach, TheTier

\* A bucket is full after an hour without a call.
LEMMA IdleIsFull ==
    ASSUME NEW st, AccountOK(st), NEW t \in Tiers, EntryOK(st, t), Idle(st),
           NEW a \in Axes
    PROVE  Level(st.bucket[a], a) = Limits[t][a] * Period[a]
<1> DEFINE b == st.bucket[a]
<1>1. b \in Buckets /\ BucketOK(b, a) /\ b.capacity = Limits[t][a]
  BY DEF AccountOK, EntryOK
<1>2. FullOf(b, a) = Limits[t][a] * Period[a]
  BY <1>1 DEF FullOf
<1>3. CASE Limits[t][a] > 0
  <2>1. b.age = Least(st.idle, Period[a])
    BY <1>3 DEF EntryOK
  <2>2. b.age = Period[a]
    BY <2>1, Constants DEF Idle, AccountOK, Least
  <2> QED BY <1>1, <1>2, <2>2, LevelOK
<1>4. CASE Limits[t][a] = 0
  <2>1. b.capacity = 0
    BY <1>1, <1>4
  <2> QED BY <1>1, <1>2, <2>1, LevelOK
<1> QED BY <1>3, <1>4, Constants

LEMMA AllowanceOf ==
    ASSUME NEW c \in Callers, NEW a \in Axes
    PROVE  /\ c \in DOMAIN callers => Allowance[c][a] = Level(callers[c].bucket[a], a)
           /\ c \notin DOMAIN callers => Allowance[c][a] = Limits[TheTier(c)][a] * Period[a]
BY DEF Allowance, Fulls

LEMMA AllowanceTyped ==
    ASSUME OneTierEach, QuotaInv, NEW c \in Callers, NEW a \in Axes
    PROVE  /\ Allowance[c][a] \in Nat
           /\ Allowance[c][a] <= Limits[TheTier(c)][a] * Period[a]
<1> DEFINE full == Limits[TheTier(c)][a] * Period[a]
<1>1. full \in Nat
  BY TheOneTier, Constants, Products
<1>2. CASE c \in DOMAIN callers
  <2> DEFINE b == callers[c].bucket[a]
  <2>1. b \in Buckets /\ BucketOK(b, a) /\ b.capacity = Limits[TheTier(c)][a]
    BY <1>2 DEF QuotaInv, TypeOK, AccountOK, EntryOK
  <2>2. FullOf(b, a) = full
    BY <2>1 DEF FullOf
  <2> HIDE DEF full
  <2> QED BY <1>2, <2>1, <2>2, LevelOK, AllowanceOf DEF full
<1>3. CASE c \notin DOMAIN callers
  <2>1. Allowance[c][a] = full
    BY <1>3, AllowanceOf
  <2> HIDE DEF full
  <2> QED BY <1>1, <2>1 DEF full
<1> QED BY <1>2, <1>3

\* What charge() finds, forgotten or not, is the allowance of the meter.
LEMMA EntryIsAllowance ==
    ASSUME OneTierEach, QuotaInv, NEW c \in Callers, NEW a \in Axes
    PROVE  /\ Entry(c, TheTier(c))[a].capacity = Limits[TheTier(c)][a]
           /\ Level(Entry(c, TheTier(c))[a], a) = Allowance[c][a]
<1> DEFINE t == TheTier(c)
<1>1. t \in Tiers
  BY TheOneTier
<1>2. CASE c \in DOMAIN Kept
  <2>1. c \in DOMAIN callers /\ Entry(c, t) = callers[c].bucket
    BY <1>2, KeptOK DEF Entry
  <2>2. EntryOK(callers[c], t)
    BY <2>1 DEF QuotaInv
  <2> QED BY <2>1, <2>2, AllowanceOf DEF EntryOK
<1>3. CASE c \notin DOMAIN Kept
  <2> DEFINE n == Bucket(Limits[t][a], a)
  <2>1. Entry(c, t)[a] = n
    BY <1>3 DEF Entry
  <2>2. n \in Buckets /\ BucketOK(n, a) /\ n.capacity = Limits[t][a]
        /\ n.tokens = Limits[t][a] * Period[a] /\ n.age = 0
    BY <1>1, BucketNew
  <2> HIDE DEF n
  <2>3. Level(n, a) = Limits[t][a] * Period[a]
    BY <2>2, LevelOK
  <2>4. Allowance[c][a] = Limits[t][a] * Period[a]
    <3>1. CASE c \in DOMAIN callers
      <4>1. Idle(callers[c]) /\ AccountOK(callers[c]) /\ EntryOK(callers[c], t)
        BY <1>3, <3>1, KeptOK DEF QuotaInv, TypeOK
      <4> QED BY <1>1, <3>1, <4>1, IdleIsFull, AllowanceOf
    <3>2. CASE c \notin DOMAIN callers
      BY <3>2, AllowanceOf
    <3> QED BY <3>1, <3>2
  <2> QED BY <2>1, <2>2, <2>3, <2>4
<1> QED BY <1>2, <1>3

\* Forgetting the idle changes no other caller's allowance.
LEMMA StoreAllowance ==
    ASSUME OneTierEach, QuotaInv, NEW c \in Callers,
           NEW bucket \in [Axes -> Buckets], Store(c, bucket)
    PROVE  \A d \in Callers, a \in Axes :
             Allowance'[d][a] = IF d = c THEN Level(bucket[a], a) ELSE Allowance[d][a]
<1>1. callers' = [d \in DOMAIN Kept \union {c} |->
                    IF d = c THEN [bucket |-> bucket, idle |-> 0] ELSE Kept[d]]
  BY DEF Store
<1>2. SUFFICES ASSUME NEW d \in Callers, NEW a \in Axes
               PROVE  Allowance'[d][a] = IF d = c THEN Level(bucket[a], a)
                                         ELSE Allowance[d][a]
  OBVIOUS
<1>3. /\ d \in DOMAIN callers' => Allowance'[d][a] = Level(callers'[d].bucket[a], a)
      /\ d \notin DOMAIN callers' => Allowance'[d][a] = Limits[TheTier(d)][a] * Period[a]
  BY DEF Allowance, Fulls
<1>4. CASE d = c
  BY <1>1, <1>3, <1>4
<1>5. CASE d # c /\ d \in DOMAIN Kept
  <2>1. d \in DOMAIN callers /\ d \in DOMAIN callers' /\ callers'[d] = callers[d]
    BY <1>1, <1>5, KeptOK
  <2> QED BY <1>3, <1>5, <2>1, AllowanceOf
<1>6. CASE d # c /\ d \notin DOMAIN Kept
  <2>1. Allowance'[d][a] = Limits[TheTier(d)][a] * Period[a]
    BY <1>1, <1>3, <1>6
  <2>2. CASE d \in DOMAIN callers
    <3>1. Idle(callers[d]) /\ AccountOK(callers[d]) /\ EntryOK(callers[d], TheTier(d))
      BY <1>6, <2>2, KeptOK DEF QuotaInv, TypeOK
    <3> QED BY <1>6, <2>1, <2>2, <3>1, TheOneTier, IdleIsFull, AllowanceOf
  <2>3. CASE d \notin DOMAIN callers
    BY <1>6, <2>1, <2>3, AllowanceOf
  <2> QED BY <2>2, <2>3
<1> QED BY <1>4, <1>5, <1>6

LEMMA StoreEntries ==
    ASSUME QuotaInv, NEW c \in Callers, NEW bucket \in [Axes -> Buckets],
           Store(c, bucket),
           \A a \in Axes : /\ bucket[a].capacity = Limits[TheTier(c)][a]
                           /\ Limits[TheTier(c)][a] > 0 => bucket[a].age = 0
    PROVE  \A d \in DOMAIN callers' : EntryOK(callers'[d], TheTier(d))
<1>1. callers' = [d \in DOMAIN Kept \union {c} |->
                    IF d = c THEN [bucket |-> bucket, idle |-> 0] ELSE Kept[d]]
  BY DEF Store
<1>2. EntryOK([bucket |-> bucket, idle |-> 0], TheTier(c))
  BY Constants DEF EntryOK, Least
<1>3. \A d \in DOMAIN Kept : EntryOK(Kept[d], TheTier(d))
  BY KeptOK DEF QuotaInv
<1> QED BY <1>1, <1>2, <1>3

\* The buckets charge() stores, refusing or admitting.
LEMMA RefilledIsAllowance ==
    ASSUME OneTierEach, QuotaInv, NEW c \in Callers, NEW a \in Axes
    PROVE  LET b == Refilled(c, TheTier(c))[a]
           IN  /\ b.capacity = Limits[TheTier(c)][a]
               /\ Level(b, a) = Allowance[c][a]
               /\ a \in Limited(TheTier(c)) => b.age = 0 /\ b.tokens = Allowance[c][a]
<1> DEFINE t == TheTier(c)
           b == Refilled(c, t)[a]
           e == Entry(c, t)[a]
<1>1. t \in Tiers /\ TypeOK
  BY TheOneTier DEF QuotaInv
<1>2. e.capacity = Limits[t][a] /\ Level(e, a) = Allowance[c][a]
  BY EntryIsAllowance
<1>3. /\ b \in Buckets /\ BucketOK(b, a) /\ b.capacity = e.capacity
      /\ a \in Limited(t) => b.tokens = Level(e, a) /\ b.age = 0
      /\ a \notin Limited(t) => b = e
  BY <1>1, RefilledTyped
<1> HIDE DEF b, e
<1>4. a \in Limited(t) => Level(b, a) = b.tokens
  BY <1>3, LevelOK
<1> QED BY <1>2, <1>3, <1>4 DEF b, e

LEMMA RefuseStutters ==
    ASSUME OneTierEach, QuotaInv, NEW c \in Callers, NEW cost \in Costs,
           Refuse(c, TheTier(c), cost)
    PROVE  /\ Allowance' = Allowance
           /\ \A d \in DOMAIN callers' : EntryOK(callers'[d], TheTier(d))
<1> DEFINE t == TheTier(c)
           r == Refilled(c, t)
<1>1. t \in Tiers /\ TypeOK
  BY TheOneTier DEF QuotaInv
<1>2. Store(c, r)
  BY DEF Refuse
<1>3. r \in [Axes -> Buckets]
  BY <1>1, RefilledTyped
<1>4. \A a \in Axes : /\ r[a].capacity = Limits[t][a] /\ Level(r[a], a) = Allowance[c][a]
                      /\ Limits[t][a] > 0 => r[a].age = 0
  BY RefilledIsAllowance DEF Limited
<1> HIDE DEF r
<1>5. \A d \in Callers, a \in Axes : Allowance'[d][a] = Allowance[d][a]
  BY <1>2, <1>3, <1>4, StoreAllowance
<1>6. Allowance' = Allowance
  BY <1>5 DEF Allowance
<1> QED BY <1>2, <1>3, <1>4, <1>6, StoreEntries

LEMMA Metering ==
    ASSUME OneTierEach, NEW c \in Callers
    PROVE  Meter!Metered(c) = Limited(TheTier(c))
<1>1. \A a \in Axes : Fulls[c][a] = Limits[TheTier(c)][a] * Period[a]
  BY DEF Fulls
<1>2. \A m, n \in Nat : n > 0 => (m * n > 0 <=> m > 0)
  BY SMT
<1>3. \A a \in Axes : Fulls[c][a] > 0 <=> Limits[TheTier(c)][a] > 0
  BY <1>1, <1>2, TheOneTier, Constants
<1> QED BY <1>3 DEF Meter!Metered, Limited

LEMMA AllowSpends ==
    ASSUME OneTierEach, QuotaInv, NEW c \in Callers, NEW cost \in Costs,
           Allow(c, TheTier(c), cost)
    PROVE  /\ Meter!Spend(c, Price(cost))
           /\ \A d \in DOMAIN callers' : EntryOK(callers'[d], TheTier(d))
<1> DEFINE t == TheTier(c)
           r == Refilled(c, t)
           s == Spent(r, t, cost)
<1>1. t \in Tiers /\ TypeOK
  BY TheOneTier DEF QuotaInv
<1>2. Store(c, s) /\ ~Short(r, t, cost)
  BY DEF Allow
<1>3. r \in [Axes -> Buckets] /\ \A a \in Axes : BucketOK(r[a], a)
  BY <1>1, RefilledTyped
<1>4. \A a \in Axes : /\ r[a].capacity = Limits[t][a] /\ Level(r[a], a) = Allowance[c][a]
                      /\ a \in Limited(t) => r[a].age = 0 /\ r[a].tokens = Allowance[c][a]
  BY RefilledIsAllowance
<1>5. /\ s \in [Axes -> Buckets]
      /\ \A a \in Axes :
           /\ BucketOK(s[a], a)
           /\ s[a].capacity = r[a].capacity /\ s[a].age = r[a].age
           /\ s[a].tokens = IF a \in Limited(t) THEN r[a].tokens - Price(cost)[a]
                            ELSE r[a].tokens
  BY <1>1, <1>2, <1>3, SpentTyped
<1>6. \A a \in Axes : a \notin Limited(t) => s[a] = r[a]
  BY DEF Spent
<1> HIDE DEF r, s
<1>7. \A a \in Axes : Level(s[a], a) = IF a \in Limited(t)
                                       THEN Allowance[c][a] - Price(cost)[a]
                                       ELSE Allowance[c][a]
  <2> TAKE a \in Axes
  <2>1. CASE a \in Limited(t)
    <3>1. Level(s[a], a) = s[a].tokens
      BY <1>4, <1>5, <2>1, LevelOK
    <3> QED BY <1>4, <1>5, <2>1, <3>1
  <2>2. CASE a \notin Limited(t)
    BY <1>4, <1>6, <2>2
  <2> QED BY <2>1, <2>2
<1>8. \A a \in Meter!Metered(c) : Allowance[c][a] >= Price(cost)[a]
  <2>1. \A a \in Limited(t) : ~(r[a].tokens < Price(cost)[a])
    BY <1>2 DEF Short
  <2>2. \A a \in Limited(t) : a \in Axes /\ r[a].tokens = Allowance[c][a]
                              /\ r[a].tokens \in Nat /\ Price(cost)[a] \in Nat
    BY <1>3, <1>4, PriceTyped DEF Limited, Buckets
  <2> QED BY <2>1, <2>2, Metering
<1>9. \A d \in Callers, a \in Axes :
        Allowance'[d][a] = IF d = c THEN Level(s[a], a) ELSE Allowance[d][a]
  BY <1>2, <1>5, StoreAllowance
<1>10. Allowance' = [Allowance EXCEPT ![c] = [a \in Axes |->
                       IF a \in Meter!Metered(c) THEN @[a] - Price(cost)[a] ELSE @[a]]]
  <2> DEFINE m == [a \in Axes |-> IF a \in Limited(t)
                                  THEN Allowance[c][a] - Price(cost)[a]
                                  ELSE Allowance[c][a]]
  <2>1. Allowance'[c] = m
    <3>1. \A a \in Axes : Allowance'[c][a] = m[a]
      BY <1>7, <1>9
    <3> QED BY <3>1 DEF Allowance
  <2>2. \A d \in Callers : d # c => Allowance'[d] = Allowance[d]
    <3>1. \A d \in Callers, a \in Axes : d # c => Allowance'[d][a] = Allowance[d][a]
      BY <1>9
    <3> QED BY <3>1 DEF Allowance
  <2>3. DOMAIN Allowance = Callers /\ Allowance' = [d \in Callers |-> Allowance'[d]]
    BY DEF Allowance
  <2> HIDE DEF m
  <2>4. Allowance' = [Allowance EXCEPT ![c] = m]
    BY <2>1, <2>2, <2>3
  <2> QED BY <2>4, Metering DEF m
<1>11. \A a \in Axes : /\ s[a].capacity = Limits[t][a]
                       /\ Limits[t][a] > 0 => s[a].age = 0
  BY <1>4, <1>5 DEF Limited
<1>12. \A d \in DOMAIN callers' : EntryOK(callers'[d], TheTier(d))
  BY <1>2, <1>5, <1>11, StoreEntries
<1> QED BY <1>8, <1>10, <1>12 DEF Meter!Spend

LEMMA AgedEntry ==
    ASSUME NEW st, NEW t, AccountOK(st), EntryOK(st, t)
    PROVE  EntryOK(Aged(st), t)
<1> SUFFICES ASSUME NEW a \in Axes
             PROVE  /\ Aged(st).bucket[a].capacity = Limits[t][a]
                    /\ Limits[t][a] > 0 =>
                         Aged(st).bucket[a].age = Least(Aged(st).idle, Period[a])
  BY DEF EntryOK
<1> DEFINE b == st.bucket[a]
<1>1. b \in Buckets /\ BucketOK(b, a) /\ st.idle \in 0..(Hour + 1)
  BY DEF AccountOK
<1>2. /\ Aged(st).bucket[a] = Older(b, a)
      /\ Aged(st).idle = Least(st.idle + 1, Hour + 1)
  BY DEF Aged
<1>3. /\ Older(b, a).capacity = b.capacity
      /\ Older(b, a).age = Least(b.age + 1, Period[a])
  BY <1>1, OlderOK
<1>4. b.capacity = Limits[t][a] /\ (Limits[t][a] > 0 => b.age = Least(st.idle, Period[a]))
  BY DEF EntryOK
<1>5. Least(Least(st.idle, Period[a]) + 1, Period[a])
        = Least(Least(st.idle + 1, Hour + 1), Period[a])
  BY <1>1, Constants DEF Least
<1> HIDE DEF b
<1> QED BY <1>2, <1>3, <1>4, <1>5

\* The clock fills every meter, those of the callers nobody remembers too.
LEMMA TickMeters ==
    ASSUME OneTierEach, QuotaInv, Tick
    PROVE  /\ Meter!Tick
           /\ \A d \in DOMAIN callers' : EntryOK(callers'[d], TheTier(d))
<1>1. callers' = [c \in DOMAIN callers |-> Aged(callers[c])]
  BY TickAges
<1>2. \A d \in DOMAIN callers' : EntryOK(callers'[d], TheTier(d))
  BY <1>1, AgedEntry DEF QuotaInv, TypeOK
<1>3. ASSUME NEW c \in Callers, NEW a \in Axes
      PROVE  Allowance'[c][a] = Meter!Topped(c, a, Allowance[c][a] + Limits[TheTier(c)][a])
  <2> DEFINE full == Limits[TheTier(c)][a] * Period[a]
  <2>1. Limits[TheTier(c)][a] \in Nat /\ Period[a] \in Nat
    BY TheOneTier, Constants
  <2>2. full \in Nat
    BY <2>1, Products
  <2>3. \A n : Meter!Topped(c, a, n) = IF n < full THEN n ELSE full
    BY DEF Meter!Topped, Fulls
  <2>4. /\ c \in DOMAIN callers' => Allowance'[c][a] = Level(callers'[c].bucket[a], a)
        /\ c \notin DOMAIN callers' => Allowance'[c][a] = full
    BY DEF Allowance, Fulls
  <2>5. CASE c \in DOMAIN callers
    <3> DEFINE b == callers[c].bucket[a]
    <3>1. b \in Buckets /\ BucketOK(b, a) /\ b.capacity = Limits[TheTier(c)][a]
      BY <2>5 DEF QuotaInv, TypeOK, AccountOK, EntryOK
    <3>2. callers'[c].bucket[a] = Older(b, a)
      BY <1>1, <2>5 DEF Aged
    <3>3. FullOf(b, a) = full
      BY <3>1 DEF FullOf
    <3>4. Allowance[c][a] = Level(b, a)
      BY <2>5, AllowanceOf
    <3>5. Allowance'[c][a] = Level(Older(b, a), a)
      BY <1>1, <2>4, <2>5, <3>2
    <3>6. Level(b, a) \in Nat
      BY <3>1, LevelOK
    <3>7. Level(Older(b, a), a) = Least(FullOf(b, a), Level(b, a) + b.capacity)
      BY <3>1, OlderOK
    <3> HIDE DEF b, full
    <3> QED BY <2>1, <2>2, <2>3, <3>1, <3>3, <3>4, <3>5, <3>6, <3>7 DEF Least
  <2>6. CASE c \notin DOMAIN callers
    <3>1. Allowance[c][a] = full /\ Allowance'[c][a] = full
      BY <1>1, <2>4, <2>6, AllowanceOf
    <3> HIDE DEF full
    <3> QED BY <2>1, <2>2, <2>3, <3>1
  <2> QED BY <2>5, <2>6
<1>4. Allowance' = [c \in Callers |-> [a \in Axes |-> Allowance'[c][a]]]
  BY DEF Allowance
<1>5. Allowance' = [c \in Callers |-> [a \in Axes |->
                      Meter!Topped(c, a, Allowance[c][a] + Limits[TheTier(c)][a])]]
  BY <1>3, <1>4
<1>6. \A c \in Callers : [d \in Callers |-> Limits[TheTier(d)]][c] = Limits[TheTier(c)]
  OBVIOUS
<1>7. Meter!Tick
  BY <1>5, <1>6 DEF Meter!Tick
<1> QED BY <1>2, <1>7

LEMMA InitMeters ==
    ASSUME Init
    PROVE  QuotaInv /\ Meter!Init
<1>1. DOMAIN callers = {}
  BY DEF Init
<1>2. QuotaInv
  BY <1>1, InitTyped DEF QuotaInv
<1>3. Allowance = [c \in Callers |-> [a \in Axes |-> Fulls[c][a]]]
  BY <1>1 DEF Allowance
<1>4. Allowance = Fulls
  BY <1>3 DEF Fulls
<1> QED BY <1>2, <1>4 DEF Meter!Init

LEMMA NextMeters ==
    ASSUME OneTierEach, QuotaInv, [Next]_vars
    PROVE  QuotaInv' /\ [Meter!Next]_Allowance
<1>1. TypeOK'
  BY NextTyped DEF QuotaInv
<1>2. ASSUME NEW c \in Callers, NEW t \in TierOf[c], NEW cost \in Costs,
             Charge(c, t, cost)
      PROVE  QuotaInv' /\ [Meter!Next]_Allowance
  <2>1. t = TheTier(c)
    BY TheOneTier
  <2>2. CASE Refuse(c, t, cost)
    <3>1. /\ Allowance' = Allowance
          /\ \A d \in DOMAIN callers' : EntryOK(callers'[d], TheTier(d))
      BY <2>1, <2>2, RefuseStutters
    <3> QED BY <1>1, <3>1 DEF QuotaInv
  <2>3. CASE Allow(c, t, cost)
    <3>1. /\ Meter!Spend(c, Price(cost))
          /\ \A d \in DOMAIN callers' : EntryOK(callers'[d], TheTier(d))
      BY <2>1, <2>3, AllowSpends
    <3>2. Meter!Next
      BY <3>1 DEF Meter!Next
    <3> QED BY <1>1, <3>1, <3>2 DEF QuotaInv
  <2> QED BY <1>2, <2>2, <2>3 DEF Charge
<1>3. CASE Tick
  <2>1. Meter!Tick /\ \A d \in DOMAIN callers' : EntryOK(callers'[d], TheTier(d))
    BY <1>3, TickMeters
  <2>2. Meter!Next
    BY <2>1 DEF Meter!Next
  <2> QED BY <1>1, <2>1, <2>2 DEF QuotaInv
<1>4. CASE UNCHANGED vars
  BY <1>1, <1>4 DEF vars, QuotaInv, Allowance, EntryOK
<1> QED BY <1>2, <1>3, <1>4 DEF Next

\* A bucket keeps the limits of its caller's tier, and a metered one was last
\* refilled when its caller was last seen, so an account old enough for
\* sweep_idle() to drop is full.
THEOREM QuotaInvariance ==
    ASSUME OneTierEach
    PROVE  Spec => []QuotaInv
<1>1. Init => QuotaInv
  BY InitMeters
<1>2. QuotaInv /\ [Next]_vars => QuotaInv'
  BY NextMeters
<1> QED BY <1>1, <1>2, PTL DEF Spec

\* sweep_idle()'s comment: a forgotten caller returns to exactly the state it
\* would have had anyway.  The enforcer implements the eager meter that
\* forgets nobody, whatever the limits, the periods and the sweep's gate.
THEOREM Refinement ==
    ASSUME OneTierEach
    PROVE  Spec => ImplementsMeter
<1>1. Init => QuotaInv /\ Meter!Init
  BY InitMeters
<1>2. QuotaInv /\ [Next]_vars => QuotaInv' /\ [Meter!Next]_Allowance
  BY NextMeters
<1> QED BY <1>1, <1>2, PTL DEF Spec, ImplementsMeter, Meter!Spec

-----------------------------------------------------------------------------
(***************************************************************************)
(* A call retried at the time it was given is not told to wait again.      *)
(***************************************************************************)
\* A caller told to come back later will find, after the seconds it still has
\* to wait, what its call costs: no more than its buckets can hold.
Owed(c) ==
    LET t == TheTier(c)
        p == Price(told[c].cost)
    IN  /\ told[c].tier = t /\ told[c].cost \in Costs
        /\ \A a \in Limited(t) :
             /\ p[a] <= Limits[t][a] * Period[a]
             /\ p[a] <= Allowance[c][a] + told[c].wait * Limits[t][a]

RetryInv == QuotaInv /\ \A c \in Callers : told[c].verdict = "later" => Owed(c)

\* A refusal that is not for ever is of a call the buckets can hold.
LEMMA PriceFits ==
    ASSUME OneTierEach, QuotaInv, NEW c \in Callers, NEW cost \in Costs,
           ~Hopeless(Refilled(c, TheTier(c)), TheTier(c), cost),
           NEW a \in Limited(TheTier(c))
    PROVE  Price(cost)[a] <= Limits[TheTier(c)][a] * Period[a]
<1> DEFINE t == TheTier(c)
           b == Refilled(c, t)[a]
           lim == Limits[t][a]
<1>1. t \in Tiers /\ TypeOK /\ a \in Axes
  BY TheOneTier DEF QuotaInv, Limited
<1>2. b \in Buckets /\ BucketOK(b, a) /\ b.capacity = lim
  BY <1>1, RefilledTyped, RefilledIsAllowance
<1>3. b.tokens \in Nat /\ b.tokens <= lim * Period[a]
  BY <1>2 DEF BucketOK, FullOf, Buckets
<1>4. lim \in Nat /\ lim >= 1 /\ cost \in Nat
  BY <1>1, Constants, QuotaAssumption DEF Limited
<1>5. CASE a = "rate"
  <2>1. Price(cost)[a] = Minute /\ Period[a] = Minute
    BY <1>1, <1>5 DEF Price, Period
  <2>2. 1 * Minute <= lim * Minute
    BY <1>4, Constants, Monotone
  <2> QED BY <2>1, <2>2, Constants
<1>6. CASE a = "budget"
  <2>1. Price(cost)[a] = cost * Hour /\ Period[a] = Hour
    BY <1>1, <1>6 DEF Price, Period
  <2>2. CASE b.tokens < Price(cost)[a]
    <3>1. cost <= lim
      BY <1>2, <1>4, <1>6, <2>2 DEF Hopeless
    <3> QED BY <1>4, <2>1, <3>1, Constants, Monotone
  <2>3. CASE ~(b.tokens < Price(cost)[a])
    <3>1. Price(cost)[a] \in Nat /\ lim * Period[a] \in Nat
      BY <1>1, <1>4, Constants, PriceTyped, Products
    <3> HIDE DEF b, lim
    <3> QED BY <1>3, <2>3, <3>1 DEF lim
  <2> QED BY <2>2, <2>3
<1> QED BY <1>1, <1>5, <1>6 DEF Axes

\* charge() tells a caller to come back when what it lacks has been refilled.
LEMMA RefuseOwes ==
    ASSUME OneTierEach, QuotaInv, NEW c \in Callers, NEW cost \in Costs,
           Refuse(c, TheTier(c), cost)
    PROVE  told'[c].verdict = "later" => Owed(c)'
<1> SUFFICES ASSUME told'[c].verdict = "later" PROVE Owed(c)'
  OBVIOUS
<1> DEFINE t == TheTier(c)
           r == Refilled(c, t)
           w == RetryAfter(r, t, cost)
<1>1. t \in Tiers /\ TypeOK
  BY TheOneTier DEF QuotaInv
<1>2. r \in [Axes -> Buckets] /\ \A a \in Axes : BucketOK(r[a], a)
  BY <1>1, RefilledTyped
<1>3. told'[c] = [verdict |-> IF w > 0 THEN "later" ELSE "never", tier |-> t,
                  cost |-> cost, wait |-> w]
  BY <1>1 DEF Refuse, Decide, TypeOK
<1>4. w > 0 /\ told'[c].tier = t /\ told'[c].cost = cost /\ told'[c].wait = w
  BY <1>3
<1>5. ~Hopeless(r, t, cost)
  BY <1>4 DEF RetryAfter
<1>6. w \in Nat /\ \A a \in Limited(t) : w >= WaitFor(r[a], Price(cost)[a])
  BY <1>1, <1>2, <1>5, RetryAfterTyped
<1>7. Allowance' = Allowance
  BY RefuseStutters
<1>8. ASSUME NEW a \in Limited(t)
      PROVE  /\ Price(cost)[a] <= Limits[t][a] * Period[a]
             /\ Price(cost)[a] <= Allowance'[c][a] + w * Limits[t][a]
  <2>1. a \in Axes /\ Price(cost)[a] \in Nat
    BY PriceTyped DEF Limited
  <2>2. r[a].capacity = Limits[t][a] /\ r[a].tokens = Allowance[c][a]
    BY <2>1, RefilledIsAllowance
  <2>3. r[a].capacity > 0
    BY <2>2 DEF Limited
  <2>4. Price(cost)[a] <= r[a].tokens + w * r[a].capacity
    BY <1>2, <1>6, <2>1, <2>3, WaitIsEnough
  <2> QED BY <1>5, <1>7, <2>2, <2>4, PriceFits
<1> HIDE DEF w
<1> QED BY <1>4, <1>8 DEF Owed

\* Another caller's calls change neither what this one was told nor what it has.
LEMMA OthersOwed ==
    ASSUME OneTierEach, QuotaInv, NEW c \in Callers, NEW cost \in Costs,
           Charge(c, TheTier(c), cost), NEW d \in Callers, d # c
    PROVE  told'[d] = told[d] /\ (Owed(d) => Owed(d)')
<1> DEFINE t == TheTier(c)
           r == Refilled(c, t)
           s == Spent(r, t, cost)
<1>1. t \in Tiers /\ TypeOK
  BY TheOneTier DEF QuotaInv
<1>2. told'[d] = told[d]
  BY <1>1 DEF Charge, Allow, Refuse, Decide, TypeOK
<1>3. Allowance'[d] = Allowance[d]
  <2>1. CASE Refuse(c, t, cost)
    BY <2>1, RefuseStutters
  <2>2. CASE Allow(c, t, cost)
    <3>1. Meter!Spend(c, Price(cost))
      BY <2>2, AllowSpends
    <3> QED BY <3>1 DEF Meter!Spend, Allowance
  <2> QED BY <2>1, <2>2 DEF Charge
<1> QED BY <1>2, <1>3 DEF Owed

\* A second of waiting refills a second's worth, or fills the bucket.
LEMMA TickOwes ==
    ASSUME OneTierEach, QuotaInv, Tick, NEW c \in Callers, Owed(c)
    PROVE  Owed(c)'
<1> DEFINE t == TheTier(c)
           p == Price(told[c].cost)
           w == told[c].wait
<1>1. t \in Tiers /\ TypeOK
  BY TheOneTier DEF QuotaInv
<1>2. w \in Nat
  BY <1>1 DEF TypeOK
<1>3. /\ told'[c].tier = told[c].tier /\ told'[c].cost = told[c].cost
      /\ told'[c].wait = IF w > 0 THEN w - 1 ELSE 0
  BY <1>1 DEF Tick, TypeOK
<1>4. Meter!Tick
  BY TickMeters
<1>5. \A a \in Limited(t) : /\ p[a] <= Limits[t][a] * Period[a]
                            /\ p[a] <= Allowance[c][a] + w * Limits[t][a]
  BY DEF Owed
<1>6. ASSUME NEW a \in Limited(t)
      PROVE  /\ p[a] <= Limits[t][a] * Period[a]
             /\ p[a] <= Allowance'[c][a] + told'[c].wait * Limits[t][a]
  <2> DEFINE lim  == Limits[t][a]
             full == lim * Period[a]
             had  == Allowance[c][a]
             has  == Allowance'[c][a]
             v    == told'[c].wait
  <2>1. a \in Axes /\ p[a] \in Nat
    BY PriceTyped DEF Limited, Owed
  <2>2. lim \in Nat /\ full \in Nat
    BY <1>1, <2>1, Constants, Products
  <2>3. had \in Nat
    BY <1>1, <2>1, AllowanceTyped
  <2>4. has = IF had + lim < full THEN had + lim ELSE full
    BY <1>4, <2>1 DEF Meter!Tick, Meter!Topped, Fulls
  <2>5. p[a] <= full /\ p[a] <= had + w * lim
    BY <1>5
  <2>6. v \in Nat /\ v * lim \in Nat /\ w * lim \in Nat
    <3>1. v \in Nat
      BY <1>2, <1>3
    <3> HIDE DEF v, w, lim
    <3> QED BY <1>2, <2>2, <3>1, Products
  <2>7. CASE w > 0
    <3>1. v \in Nat /\ w = v + 1
      BY <1>2, <1>3, <2>7
    <3> HIDE DEF lim, full, had, has, v, w, p
    <3>2. w * lim = v * lim + lim
      BY <2>2, <3>1, Products
    <3> QED BY <2>1, <2>2, <2>3, <2>4, <2>5, <2>6, <3>2 DEF lim, full, has, v
  <2>8. CASE w = 0
    <3>1. v = 0 /\ w * lim = 0
      BY <1>3, <2>2, <2>8, Products
    <3> HIDE DEF lim, full, had, has, v, w, p
    <3> QED BY <2>1, <2>2, <2>3, <2>4, <2>5, <2>6, <3>1 DEF lim, full, has, v
  <2> QED BY <1>2, <2>7, <2>8
<1> QED BY <1>3, <1>6 DEF Owed

LEMMA NextOwes ==
    ASSUME OneTierEach, RetryInv, [Next]_vars
    PROVE  RetryInv'
<1>1. QuotaInv /\ QuotaInv'
  BY NextMeters DEF RetryInv
<1>2. SUFFICES ASSUME NEW d \in Callers, told'[d].verdict = "later"
               PROVE  Owed(d)'
  BY <1>1 DEF RetryInv
<1>3. told[d].verdict = "later" => Owed(d)
  BY DEF RetryInv
<1>4. ASSUME NEW c \in Callers, NEW t \in TierOf[c], NEW cost \in Costs,
             Charge(c, t, cost)
      PROVE  Owed(d)'
  <2>1. t = TheTier(c)
    BY TheOneTier
  <2>2. CASE d # c
    BY <1>1, <1>2, <1>3, <1>4, <2>1, <2>2, OthersOwed
  <2>3. CASE d = c /\ Refuse(c, t, cost)
    BY <1>1, <1>2, <2>1, <2>3, RefuseOwes
  <2>4. CASE d = c /\ Allow(c, t, cost)
    BY <1>1, <1>2, <2>4 DEF Allow, Decide, QuotaInv, TypeOK
  <2> QED BY <1>4, <2>2, <2>3, <2>4 DEF Charge
<1>5. CASE Tick
  <2>1. told[d].verdict = "later"
    BY <1>1, <1>2, <1>5 DEF Tick, QuotaInv, TypeOK
  <2> QED BY <1>1, <1>3, <1>5, <2>1, TickOwes
<1>6. CASE UNCHANGED vars
  BY <1>2, <1>3, <1>6 DEF vars, Owed, Allowance
<1> QED BY <1>4, <1>5, <1>6 DEF Next

\* Told to come back, and come back when the wait is over: not refused.
LEMMA RetryServed ==
    ASSUME OneTierEach, RetryInv, [Next]_vars, NEW c \in Callers,
           told[c].verdict = "later", told[c].wait = 0,
           told'[c].tier = told[c].tier, told'[c].cost = told[c].cost,
           told'[c].verdict # "allowed"
    PROVE  UNCHANGED told[c]
<1>1. QuotaInv /\ TypeOK /\ Owed(c)
  BY DEF RetryInv, QuotaInv
<1>2. ASSUME NEW d \in Callers, NEW t \in TierOf[d], NEW cost \in Costs,
             Charge(d, t, cost)
      PROVE  UNCHANGED told[c]
  <2>1. t = TheTier(d) /\ t \in Tiers
    BY TheOneTier
  <2>2. CASE c # d
    BY <1>1, <1>2, <2>1, <2>2, OthersOwed
  <2>3. CASE c = d /\ Allow(d, t, cost)
    BY <1>1, <2>3 DEF Allow, Decide, TypeOK
  <2>4. CASE c = d /\ Refuse(d, t, cost)
    <3>1. told[c].cost = cost
      BY <1>1, <2>4 DEF Refuse, Decide, TypeOK
    <3>2. PICK a \in Limited(t) : Refilled(c, t)[a].tokens < Price(cost)[a]
      BY <2>4 DEF Refuse, Short
    <3>3. a \in Axes /\ Refilled(c, t)[a].tokens = Allowance[c][a]
      BY <1>1, <2>1, <2>4, RefilledIsAllowance DEF Limited
    <3>4. /\ Price(cost)[a] \in Nat /\ Allowance[c][a] \in Nat
          /\ Limits[t][a] \in Nat /\ 0 * Limits[t][a] = 0
      BY <1>1, <2>1, <2>4, <3>3, PriceTyped, AllowanceTyped, Constants, Products
    <3>5. Price(cost)[a] <= Allowance[c][a] + 0 * Limits[t][a]
      BY <1>1, <2>1, <2>4, <3>1, <3>2 DEF Owed
    <3> QED BY <3>2, <3>3, <3>4, <3>5
  <2> QED BY <1>2, <2>2, <2>3, <2>4 DEF Charge
<1>3. CASE Tick
  BY <1>1, <1>3 DEF Tick, TypeOK
<1>4. CASE UNCHANGED vars
  BY <1>4 DEF vars
<1> QED BY <1>2, <1>3, <1>4 DEF Next

\* quota.cppm's promise to a client that honours retry_after_seconds: whatever
\* the limits, costs and periods, whoever else calls and is forgotten in the
\* meantime, the call it repeats when the wait is over is served.
THEOREM RetriesAreServed ==
    ASSUME OneTierEach
    PROVE  Spec => RetryIsEnough
<1>1. Init => RetryInv
  BY InitMeters DEF RetryInv, Init, NotTold
<1>2. RetryInv /\ [Next]_vars => RetryInv'
  BY NextOwes
<1> DEFINE Served(c) ==
             /\ told[c].verdict = "later" /\ told[c].wait = 0
             /\ told'[c].tier = told[c].tier /\ told'[c].cost = told[c].cost
             /\ told'[c].verdict # "allowed"
             => UNCHANGED told[c]
<1>3. RetryInv /\ [Next]_vars => [\A c \in Callers : Served(c)]_vars
  BY RetryServed
<1> QED BY <1>1, <1>2, <1>3, PTL DEF Spec, RetryIsEnough

-----------------------------------------------------------------------------
(***************************************************************************)
(* What is admitted in a window of time.  An observer opens a window       *)
(* whenever it likes and adds up the prices of the calls admitted since;   *)
(* it only watches the enforcer.                                           *)
(***************************************************************************)
VARIABLES since,    \* ticks since the window was opened
          spent     \* spent[c][a]: admitted to c since then

windowVars == <<vars, since, spent>>

NoneSpent == [c \in Callers |-> [a \in Axes |-> 0]]

\* Only metered axes are added up.
Add(c, t, cost) ==
    spent' = [spent EXCEPT ![c] = [a \in Axes |->
                IF a \in Limited(t) THEN @[a] + Price(cost)[a] ELSE @[a]]]

Admit(c, t, cost)    == Allow(c, t, cost) /\ Add(c, t, cost) /\ UNCHANGED since

TurnAway(c, t, cost) == Refuse(c, t, cost) /\ UNCHANGED <<since, spent>>

Pass ==
    /\ Tick
    /\ since' = since + 1
    /\ UNCHANGED spent

OpenWindow ==
    /\ since' = 0 /\ spent' = NoneSpent
    /\ UNCHANGED vars

WindowNext ==
    \/ \E c \in Callers : \E t \in TierOf[c], cost \in Costs :
          Admit(c, t, cost) \/ TurnAway(c, t, cost)
    \/ Pass
    \/ OpenWindow

WindowSpec ==
    /\ Init /\ since = 0 /\ spent = NoneSpent
    /\ [][WindowNext]_windowVars

\* quota.cppm: the rate limit "catches bursts and runaway retry loops", and
\* quota.cpp of the idle sweep: to forget earlier "would silently hand back
\* allowance".  In no window is a caller admitted to more than a full bucket
\* and what the window refills.
WindowBounded ==
    \A c \in Callers : \A a \in Limited(TheTier(c)) :
        LET limit == Limits[TheTier(c)][a]
        IN  spent[c][a] <= limit * Period[a] + since * limit

\* Inductive: what is left of the allowance and what was admitted since the
\* window was opened are no more than a full bucket and what was refilled.
SpentOK(c) ==
    \A a \in Limited(TheTier(c)) :
        spent[c][a] + Allowance[c][a]
          <= Limits[TheTier(c)][a] * Period[a] + since * Limits[TheTier(c)][a]

WindowInv ==
    /\ QuotaInv
    /\ since \in Nat /\ spent \in [Callers -> [Axes -> Nat]]
    /\ \A c \in Callers : SpentOK(c)

LEMMA ObserverWatches ==
    ASSUME [WindowNext]_windowVars
    PROVE  [Next]_vars
BY DEF WindowNext, windowVars, Admit, TurnAway, Pass, OpenWindow, Next, Charge

\* A window begins with no more than a full bucket.
LEMMA WindowOpens ==
    ASSUME OneTierEach, QuotaInv
    PROVE  /\ NoneSpent \in [Callers -> [Axes -> Nat]]
           /\ \A c \in Callers : \A a \in Limited(TheTier(c)) :
                NoneSpent[c][a] + Allowance[c][a]
                  <= Limits[TheTier(c)][a] * Period[a] + 0 * Limits[TheTier(c)][a]
<1>1. NoneSpent \in [Callers -> [Axes -> Nat]]
  BY DEF NoneSpent
<1>2. ASSUME NEW c \in Callers, NEW a \in Limited(TheTier(c))
      PROVE  NoneSpent[c][a] + Allowance[c][a]
               <= Limits[TheTier(c)][a] * Period[a] + 0 * Limits[TheTier(c)][a]
  <2> DEFINE lim  == Limits[TheTier(c)][a]
             full == lim * Period[a]
  <2>1. a \in Axes /\ lim \in Nat
    BY TheOneTier, Constants DEF Limited
  <2>2. full \in Nat /\ 0 * lim = 0
    BY <2>1, Constants, Products
  <2>3. Allowance[c][a] \in Nat /\ Allowance[c][a] <= full
    BY <2>1, AllowanceTyped
  <2>4. NoneSpent[c][a] = 0
    BY <2>1 DEF NoneSpent
  <2> HIDE DEF lim, full
  <2> QED BY <2>2, <2>3, <2>4 DEF full, lim
<1> QED BY <1>1, <1>2

\* An admitted call moves its price from what is left to what was admitted.
LEMMA AdmitMoves ==
    ASSUME OneTierEach, WindowInv, NEW c \in Callers, NEW cost \in Costs,
           Admit(c, TheTier(c), cost)
    PROVE  /\ since' = since /\ spent' \in [Callers -> [Axes -> Nat]]
           /\ \A d \in Callers : SpentOK(d)'
<1> DEFINE t == TheTier(c)
           p == Price(cost)
<1>1. QuotaInv /\ spent \in [Callers -> [Axes -> Nat]] /\ since' = since
  BY DEF WindowInv, Admit
<1>2. \A a \in Axes : p[a] \in Nat
  BY PriceTyped
<1>3. /\ spent'[c] = [a \in Axes |-> IF a \in Limited(t) THEN spent[c][a] + p[a]
                                     ELSE spent[c][a]]
      /\ \A d \in Callers : d # c => spent'[d] = spent[d]
      /\ spent' = [d \in Callers |-> spent'[d]]
  BY <1>1 DEF Admit, Add
<1>4. spent' \in [Callers -> [Axes -> Nat]]
  <2>1. \A d \in Callers : spent'[d] \in [Axes -> Nat]
    BY <1>1, <1>2, <1>3
  <2> QED BY <1>3, <2>1
<1>5. Allowance' = [Allowance EXCEPT ![c] = [a \in Axes |->
                      IF a \in Limited(t) THEN @[a] - p[a] ELSE @[a]]]
  <2>1. Meter!Spend(c, p)
    BY <1>1, AllowSpends DEF Admit
  <2> QED BY <2>1, Metering DEF Meter!Spend
<1>6. /\ \A a \in Limited(t) : Allowance'[c][a] = Allowance[c][a] - p[a]
      /\ \A d \in Callers : d # c => Allowance'[d] = Allowance[d]
  BY <1>5 DEF Allowance, Limited
<1>7. ASSUME NEW d \in Callers
      PROVE  SpentOK(d)'
  <2>1. SpentOK(d)
    BY DEF WindowInv
  <2>2. CASE d # c
    BY <1>1, <1>3, <1>6, <2>1, <2>2 DEF SpentOK
  <2>3. CASE d = c
    <3> SUFFICES ASSUME NEW a \in Limited(t)
                 PROVE  spent'[c][a] + Allowance'[c][a]
                          <= Limits[t][a] * Period[a] + since' * Limits[t][a]
      BY <2>3 DEF SpentOK
    <3>1. a \in Axes
      BY DEF Limited
    <3>2. spent[c][a] \in Nat /\ Allowance[c][a] \in Nat /\ p[a] \in Nat
      BY <1>1, <1>2, <3>1, AllowanceTyped
    <3>3. spent'[c][a] = spent[c][a] + p[a] /\ Allowance'[c][a] = Allowance[c][a] - p[a]
      BY <1>3, <1>6, <3>1
    <3>4. spent'[c][a] + Allowance'[c][a] = spent[c][a] + Allowance[c][a]
      BY <3>2, <3>3
    <3> QED BY <1>1, <2>1, <2>3, <3>4 DEF SpentOK
  <2> QED BY <2>2, <2>3
<1> QED BY <1>1, <1>4, <1>7

\* A tick refills no more than it adds to the window.
LEMMA PassRefills ==
    ASSUME OneTierEach, WindowInv, Pass, NEW c \in Callers
    PROVE  SpentOK(c)'
<1> DEFINE t == TheTier(c)
<1>1. /\ QuotaInv /\ SpentOK(c)
      /\ since \in Nat /\ spent \in [Callers -> [Axes -> Nat]]
      /\ since' = since + 1 /\ spent' = spent
  BY DEF WindowInv, Pass
<1>2. Meter!Tick
  BY <1>1, TickMeters DEF Pass
<1> SUFFICES ASSUME NEW a \in Limited(t)
             PROVE  spent'[c][a] + Allowance'[c][a]
                      <= Limits[t][a] * Period[a] + since' * Limits[t][a]
  BY DEF SpentOK
<1> DEFINE lim  == Limits[t][a]
           full == lim * Period[a]
           had  == Allowance[c][a]
           has  == Allowance'[c][a]
           sum  == since * lim
           used == spent[c][a]
<1>3. a \in Axes /\ lim \in Nat
  BY TheOneTier, Constants DEF Limited
<1>4. full \in Nat /\ sum \in Nat /\ (since + 1) * lim = sum + lim
  BY <1>1, <1>3, Constants, Products
<1>5. had \in Nat /\ used \in Nat
  BY <1>1, <1>3, AllowanceTyped
<1>6. has = IF had + lim < full THEN had + lim ELSE full
  BY <1>2, <1>3 DEF Meter!Tick, Meter!Topped, Fulls
<1>7. used + had <= full + sum
  BY <1>1 DEF SpentOK
<1>8. used + has <= full + (sum + lim)
  <2> HIDE DEF lim, full, had, has, sum, used
  <2> QED BY <1>3, <1>4, <1>5, <1>6, <1>7
<1> QED BY <1>1, <1>4, <1>8

LEMMA WindowStep ==
    ASSUME OneTierEach, WindowInv, [WindowNext]_windowVars
    PROVE  WindowInv'
<1>1. QuotaInv /\ QuotaInv'
  BY ObserverWatches, NextMeters DEF WindowInv
<1>2. ASSUME NEW c \in Callers, NEW t \in TierOf[c], NEW cost \in Costs,
             Admit(c, t, cost)
      PROVE  WindowInv'
  <2>1. t = TheTier(c)
    BY TheOneTier
  <2> QED BY <1>1, <1>2, <2>1, AdmitMoves DEF WindowInv
<1>3. ASSUME NEW c \in Callers, NEW t \in TierOf[c], NEW cost \in Costs,
             TurnAway(c, t, cost)
      PROVE  WindowInv'
  <2>1. t = TheTier(c)
    BY TheOneTier
  <2>2. Allowance' = Allowance /\ since' = since /\ spent' = spent
    BY <1>1, <1>3, <2>1, RefuseStutters DEF TurnAway
  <2> QED BY <1>1, <2>2 DEF WindowInv, SpentOK
<1>4. CASE Pass
  BY <1>1, <1>4, PassRefills DEF WindowInv, Pass
<1>5. CASE OpenWindow
  <2>1. since' = 0 /\ spent' = NoneSpent /\ Allowance' = Allowance
    BY <1>5 DEF OpenWindow, vars, Allowance
  <2> QED BY <1>1, <2>1, WindowOpens DEF WindowInv, SpentOK
<1>6. CASE UNCHANGED windowVars
  BY <1>1, <1>6 DEF windowVars, vars, WindowInv, SpentOK, Allowance
<1> QED BY <1>2, <1>3, <1>4, <1>5, <1>6 DEF WindowNext

\* quota.cpp of the idle sweep, that dropping a caller earlier "would silently
\* hand back allowance": however a caller spaces its calls, and whenever it is
\* forgotten, no window of any length admits more than a full bucket and what
\* is refilled in it.
THEOREM WindowsAreBounded ==
    ASSUME OneTierEach
    PROVE  WindowSpec => []WindowBounded
<1>1. Init /\ since = 0 /\ spent = NoneSpent => WindowInv
  BY InitMeters, WindowOpens DEF WindowInv, SpentOK
<1>2. WindowInv /\ [WindowNext]_windowVars => WindowInv'
  BY WindowStep
<1>3. WindowInv => WindowBounded
  <2> SUFFICES ASSUME WindowInv, NEW c \in Callers, NEW a \in Limited(TheTier(c))
               PROVE  spent[c][a] <= Limits[TheTier(c)][a] * Period[a]
                                       + since * Limits[TheTier(c)][a]
    BY DEF WindowBounded
  <2> DEFINE lim == Limits[TheTier(c)][a]
             all == lim * Period[a] + since * lim
  <2>1. a \in Axes /\ lim \in Nat
    BY TheOneTier, Constants DEF Limited
  <2>2. since \in Nat /\ spent[c][a] \in Nat /\ Allowance[c][a] \in Nat
    BY <2>1, AllowanceTyped DEF WindowInv
  <2>3. all \in Nat
    BY <2>1, <2>2, Constants, Products
  <2>4. spent[c][a] + Allowance[c][a] <= all
    BY DEF WindowInv, SpentOK
  <2> HIDE DEF all
  <2>5. spent[c][a] <= all
    BY <2>2, <2>3, <2>4
  <2> QED BY <2>5 DEF all
<1> QED BY <1>1, <1>2, <1>3, PTL DEF WindowSpec
=============================================================================
