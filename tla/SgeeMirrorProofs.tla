---------------------------- MODULE SgeeMirrorProofs ----------------------------
(***************************************************************************)
(* What holds of SgeeMirror for any ring, any number of calls, attempts    *)
(* and nodes: every payload is counted once, no payload that was not       *)
(* committed counts as enqueued, retries duplicate one at most once per    *)
(* attempt, and the worker's exit leaves nothing behind.                   *)
(***************************************************************************)
EXTENDS SgeeMirror, FiniteSetTheorems, SequenceTheorems, TLAPS

Payloads == 1..MaxCalls

(***************************************************************************)
(* The inductive invariant.  Where the worker is says what it holds: a     *)
(* payload from its take to the end of process_item(), `remaining` only    *)
(* after the flush, and after the flush the ring stays empty.              *)
(***************************************************************************)
InItem == worker \in {"offer", "try"}

WorkerOK ==
    /\ worker \in {"loop", "wait", "deciding", "blocked", "offer", "try", "flush",
                   "drain", "done"}
    /\ after \in {"loop", "drain"}
    /\ InItem <=> item # None
    /\ attempt # 0 => worker = "try"
    /\ stop = TRUE <=> owner # "alive"
    /\ worker = "flush" => stop = TRUE
    /\ worker \in {"loop", "wait", "deciding", "blocked", "flush"} => after = "loop"
    /\ worker = "done" \/ (after = "loop" /\ worker # "drain") => remaining = <<>>
    /\ worker \in {"drain", "done"} \/ after = "drain" => ring = <<>> /\ stop = TRUE

Queued  == ToSet(ring) \union ToSet(remaining)
Pending == Queued \union (IF item = None THEN {} ELSE {item})

\* A payload on its way is in one place, and it is one of the calls.
OnePlace ==
    /\ IsInjective(ring) /\ IsInjective(remaining)
    /\ item \notin Queued
    /\ Pending \subseteq 1..calls

\* How often a payload may have been sent so far.
Sent(p) == IF p = item THEN attempt
           ELSE IF p \in Queued \/ p > calls THEN 0 ELSE MaxAttempts

SentOK == \A p \in Payloads : committed[p] + late[p] <= Sent(p)

\* The payloads committed that are no longer on their way.
Settled == {p \in Payloads : committed[p] > 0} \ Pending

SettledOK == enqueued <= Cardinality(Settled)

MirrorInv ==
    TypeOK /\ WorkerOK /\ OnePlace /\ SentOK /\ SettledOK /\ EveryCallCounted

(***************************************************************************)
(* Taking the oldest payload, and adding a new one.                        *)
(***************************************************************************)
LEMMA TakeHead ==
    ASSUME NEW S, NEW s \in Seq(S), s # <<>>, IsInjective(s)
    PROVE  /\ Tail(s) \in Seq(S) /\ Len(Tail(s)) = Len(s) - 1
           /\ Head(s) \in S
           /\ IsInjective(Tail(s))
           /\ ToSet(s) = ToSet(Tail(s)) \union {Head(s)}
           /\ Head(s) \notin ToSet(Tail(s))
<1>1. PICK n, t : n = Len(s) /\ t = Tail(s)
  OBVIOUS
<1>2. n \in Nat /\ n > 0 /\ DOMAIN s = 1..n /\ s \in [1..n -> S]
  BY <1>1, LenProperties, EmptySeq
<1>3. /\ t \in Seq(S) /\ Len(t) = n - 1 /\ Head(s) = s[1]
      /\ \A i \in 1..(n - 1) : t[i] = s[i + 1]
  BY <1>1, HeadTailProperties
<1>4. DOMAIN t = 1..(n - 1)
  BY <1>3, LenProperties
<1>5. \A i, j \in 1..n : s[i] = s[j] => i = j
  BY <1>2 DEF IsInjective
<1>6. IsInjective(t)
  <2> SUFFICES ASSUME NEW i \in 1..(n - 1), NEW j \in 1..(n - 1), t[i] = t[j]
               PROVE  i = j
    BY <1>4 DEF IsInjective
  <2>1. i + 1 \in 1..n /\ j + 1 \in 1..n /\ s[i + 1] = s[j + 1]
    BY <1>2, <1>3
  <2> QED  BY <2>1, <1>5, <1>2
<1>7. ToSet(s) = ToSet(t) \union {s[1]}
  <2>1. ASSUME NEW i \in 1..n, i # 1 PROVE s[i] \in ToSet(t)
    <3>1. i - 1 \in 1..(n - 1) /\ t[i - 1] = s[i]
      BY <1>2, <1>3, <2>1
    <3> QED  BY <3>1, <1>4 DEF ToSet
  <2>2. ASSUME NEW i \in 1..(n - 1) PROVE t[i] \in ToSet(s)
    <3>1. i + 1 \in 1..n
      BY <1>2
    <3> QED  BY <3>1, <1>2, <1>3 DEF ToSet
  <2>3. 1 \in 1..n
    BY <1>2
  <2>4. ToSet(s) = {s[i] : i \in 1..n} /\ ToSet(t) = {t[i] : i \in 1..(n - 1)}
    BY <1>2, <1>4 DEF ToSet
  <2> QED  BY <2>1, <2>2, <2>3, <2>4
<1>8. s[1] \notin ToSet(t)
  <2> SUFFICES ASSUME NEW i \in 1..(n - 1), t[i] = s[1]
               PROVE  FALSE
    BY <1>4 DEF ToSet
  <2>1. i + 1 \in 1..n /\ 1 \in 1..n /\ s[i + 1] = s[1] /\ i + 1 # 1
    BY <1>2, <1>3
  <2> QED  BY <2>1, <1>5
<1>9. Head(s) \in S
  BY <1>2, <1>3
<1> QED  BY <1>1, <1>3, <1>6, <1>7, <1>8, <1>9

LEMMA AppendNew ==
    ASSUME NEW S, NEW s \in Seq(S), IsInjective(s), NEW e \in S, e \notin ToSet(s)
    PROVE  /\ Append(s, e) \in Seq(S) /\ Len(Append(s, e)) = Len(s) + 1
           /\ IsInjective(Append(s, e))
           /\ ToSet(Append(s, e)) = ToSet(s) \union {e}
<1>1. PICK n, t : n = Len(s) /\ t = Append(s, e)
  OBVIOUS
<1>2. n \in Nat /\ DOMAIN s = 1..n
  BY <1>1, LenProperties
<1>3. /\ t \in Seq(S) /\ Len(t) = n + 1 /\ t[n + 1] = e
      /\ \A i \in 1..n : t[i] = s[i]
  BY <1>1, AppendProperties
<1>4. DOMAIN t = 1..(n + 1)
  BY <1>3, LenProperties
<1>5. \A i \in 1..n : s[i] # e
  BY <1>2 DEF ToSet
<1>6. IsInjective(t)
  BY <1>2, <1>3, <1>4, <1>5 DEF IsInjective
<1>7. ToSet(t) = ToSet(s) \union {e}
  BY <1>2, <1>3, <1>4 DEF ToSet
<1> QED  BY <1>1, <1>3, <1>6, <1>7

LEMMA EmptyRing ==
    /\ <<>> \in Seq(Payloads) /\ Len(<<>>) = 0
    /\ ToSet(<<>>) = {} /\ IsInjective(<<>>)
  BY EmptySeq DEF ToSet, IsInjective

(***************************************************************************)
(* More payloads committed and fewer on their way: more settled.           *)
(***************************************************************************)
LEMMA SettledGrows ==
    ASSUME MirrorInv, Settled \subseteq Settled', enqueued' = enqueued,
           committed' \in [Payloads -> Nat]
    PROVE  SettledOK'
<1>1. IsFiniteSet(Payloads)
  BY FS_Interval, MirrorAssumption DEF Payloads
<1>2. IsFiniteSet(Settled')
  BY <1>1, FS_Subset DEF Settled
<1>3. Cardinality(Settled) <= Cardinality(Settled') /\ IsFiniteSet(Settled)
  BY <1>2, FS_Subset
<1>4. PICK a, b : a = Cardinality(Settled) /\ b = Cardinality(Settled')
  OBVIOUS
<1>5. a \in Nat /\ b \in Nat /\ a <= b
  BY <1>2, <1>3, <1>4, FS_CardinalityType
<1>6. enqueued \in Nat /\ enqueued <= a
  BY <1>4 DEF MirrorInv, SettledOK, TypeOK
<1>7. enqueued <= b
  BY <1>5, <1>6
<1> QED  BY <1>4, <1>7 DEF SettledOK

LEMMA InitHolds == Init => MirrorInv
<1> SUFFICES ASSUME Init PROVE MirrorInv
  OBVIOUS
<1> USE DEF Init
<1>1. TypeOK
  <2>1. {MaxCalls, Capacity, MaxAttempts} \subseteq Nat \ {0} /\ Len(Peers) \in Nat \ {0}
    BY MirrorAssumption, LenProperties, EmptySeq
  <2>2. committed \in [Payloads -> Nat] /\ late \in [Payloads -> Nat]
    BY DEF Payloads
  <2>3. ring \in Seq(Payloads) /\ Len(ring) <= Capacity /\ remaining \in Seq(Payloads)
    BY <2>1, EmptyRing
  <2>4. /\ calls \in 0..MaxCalls /\ {enqueued, dropped} \subseteq Nat
        /\ attempt \in 0..MaxAttempts - 1 /\ turn \in 0..Len(Peers) - 1
    BY <2>1
  <2> QED  BY <2>2, <2>3, <2>4 DEF TypeOK, Payloads
<1>2. WorkerOK
  BY DEF WorkerOK, InItem
<1>3. ToSet(ring) = {} /\ ToSet(remaining) = {} /\ IsInjective(ring) /\ IsInjective(remaining)
      /\ Len(ring) = 0 /\ Len(remaining) = 0
  BY EmptyRing
<1>4. Queued = {} /\ Pending = {}
  BY <1>3 DEF Queued, Pending
<1>5. OnePlace
  BY <1>3, <1>4 DEF OnePlace
<1>6. SentOK
  BY MirrorAssumption DEF SentOK, Sent, Payloads
<1>7. SettledOK
  <2>1. Settled = {}
    BY DEF Settled, Payloads
  <2> QED  BY <2>1, FS_EmptySet DEF SettledOK
<1>8. EveryCallCounted
  BY <1>3 DEF EveryCallCounted
<1> QED  BY <1>1, <1>2, <1>5, <1>6, <1>7, <1>8 DEF MirrorInv

(***************************************************************************)
(* Steps that move nothing: the worker's waits and the breaker, the        *)
(* destructor, elections.                                                  *)
(***************************************************************************)
LEMMA NothingMoves ==
    ASSUME MirrorInv, TypeOK', WorkerOK',
           UNCHANGED <<ring, calls, enqueued, dropped, item, attempt, remaining,
                       committed, late>>
    PROVE  MirrorInv'
  BY DEF MirrorInv, OnePlace, Queued, Pending, SentOK, Sent, SettledOK, Settled,
         EveryCallCounted

LEMMA WaitKeeps ==
    ASSUME MirrorInv, Loop \/ WaitBegin \/ WaitBlock \/ BreakerAllows
    PROVE  MirrorInv'
<1>1. UNCHANGED <<ring, calls, enqueued, dropped, item, attempt, remaining, after,
                  cached, turn, stop, owner, leader, committed, late>>
  BY DEF Loop, WaitBegin, WaitBlock, BreakerAllows, ringVars, stats, routeVars,
         ownerVars, cluster
<1>2. /\ stop \in BOOLEAN
      /\ worker \in {"loop", "wait", "deciding", "offer"}
      /\ worker = "offer" => worker' = "try"
      /\ worker # "offer" => worker' \in {"wait", "deciding", "blocked", "flush"}
      /\ worker' = "flush" => stop = TRUE
  BY DEF MirrorInv, TypeOK, Loop, WaitBegin, WaitBlock, BreakerAllows
<1>3. WorkerOK'
  <2>1. CASE worker = "offer"
    <3>1. worker' = "try"
      BY <2>1, <1>2
    <3> QED  BY <2>1, <3>1, <1>1 DEF MirrorInv, WorkerOK, InItem
  <2>2. CASE worker \in {"loop", "wait", "deciding"}
    <3>1. /\ worker' \in {"wait", "deciding", "blocked", "flush"}
          /\ worker' = "flush" => stop = TRUE
      BY <2>2, <1>2
    <3> QED  BY <3>1, <2>2, <1>1 DEF MirrorInv, WorkerOK, InItem
  <2> QED  BY <2>1, <2>2, <1>2
<1>4. TypeOK'
  BY <1>1 DEF MirrorInv, TypeOK
<1> QED  BY <1>1, <1>3, <1>4, NothingMoves

LEMMA OwnerKeeps ==
    ASSUME MirrorInv, RequestStop \/ NotifyAll \/ Join
    PROVE  MirrorInv'
<1>1. UNCHANGED <<ring, calls, enqueued, dropped, item, attempt, remaining, after,
                  cached, turn, leader, committed, late>>
  BY DEF RequestStop, NotifyAll, Join, ringVars, stats, workerVars, routeVars, cluster
<1>2. stop' \in BOOLEAN /\ owner' # "alive" /\ stop' = TRUE
  BY DEF RequestStop, NotifyAll, Join, MirrorInv, TypeOK, WorkerOK
<1>3. worker' = worker \/ (worker = "blocked" /\ worker' = "wait")
  BY DEF RequestStop, NotifyAll, Join, workerVars
<1>4. WorkerOK'
  BY <1>1, <1>2, <1>3 DEF MirrorInv, WorkerOK, InItem
<1>5. TypeOK'
  BY <1>1, <1>2 DEF MirrorInv, TypeOK
<1> QED  BY <1>1, <1>4, <1>5, NothingMoves

LEMMA ElectKeeps ==
    ASSUME MirrorInv, NEW node \in Nodes \union {None}, Elect(node)
    PROVE  MirrorInv'
<1>1. UNCHANGED <<ring, calls, enqueued, dropped, worker, item, attempt, remaining,
                  after, cached, turn, stop, owner, committed, late>>
      /\ leader' = node
  BY DEF Elect, ringVars, stats, workerVars, routeVars, ownerVars
<1>2. WorkerOK'
  BY <1>1 DEF MirrorInv, WorkerOK, InItem
<1>3. TypeOK'
  BY <1>1 DEF MirrorInv, TypeOK
<1> QED  BY <1>1, <1>2, <1>3, NothingMoves

(***************************************************************************)
(* enqueue_mirror().  A new payload has not been sent.                     *)
(***************************************************************************)
LEMMA Unsent ==
    ASSUME MirrorInv, NEW p \in Payloads, p \in Queued \/ p > calls
    PROVE  committed[p] = 0 /\ late[p] = 0
<1>1. /\ p # item
      /\ committed[p] \in Nat /\ late[p] \in Nat
      /\ calls \in Nat
  <2>1. CASE p \in Queued
    BY <2>1 DEF MirrorInv, OnePlace, TypeOK, Payloads
  <2>2. CASE p > calls
    <3>1. p \notin 1..calls
      BY <2>2 DEF Payloads, MirrorInv, TypeOK
    <3>2. item # None => item \in 1..calls
      BY DEF MirrorInv, OnePlace, Pending
    <3>3. p # None
      BY MirrorAssumption DEF Payloads
    <3>4. p # item
      BY <3>1, <3>2, <3>3
    <3> QED  BY <3>4 DEF MirrorInv, TypeOK, Payloads
  <2> QED  BY <2>1, <2>2
<1>2. committed[p] + late[p] <= 0
  BY <1>1 DEF MirrorInv, SentOK, Sent
<1> QED  BY <1>1, <1>2

\* Payloads that were sent may have been sent MaxAttempts times at most.
LEMMA SentBound ==
    ASSUME MirrorInv, NEW p \in Payloads
    PROVE  Sent(p) \in Nat /\ Sent(p) <= MaxAttempts
  BY MirrorAssumption DEF MirrorInv, TypeOK, Sent

LEMMA OversizeKeeps ==
    ASSUME MirrorInv, Oversize
    PROVE  MirrorInv'
<1>1. /\ UNCHANGED <<ring, enqueued, worker, item, attempt, remaining, after,
                     cached, turn, stop, owner, leader, committed, late>>
      /\ calls' = calls + 1 /\ dropped' = dropped + 1 /\ calls < MaxCalls
      /\ calls \in Nat /\ dropped \in Nat /\ MaxCalls \in Nat
  BY MirrorAssumption DEF MirrorInv, TypeOK, Oversize, workerVars, routeVars, ownerVars, cluster
<1>2. TypeOK'
  BY <1>1 DEF MirrorInv, TypeOK
<1>3. WorkerOK'
  BY <1>1 DEF MirrorInv, WorkerOK, InItem
<1>4. OnePlace' /\ Queued' = Queued /\ Pending' = Pending
  BY <1>1 DEF MirrorInv, OnePlace, Queued, Pending
<1>5. SentOK'
  <2> SUFFICES ASSUME NEW p \in Payloads PROVE committed[p] + late[p] <= Sent(p)'
    BY <1>1 DEF SentOK
  <2>1. CASE Sent(p)' = Sent(p)
    BY <2>1 DEF MirrorInv, SentOK
  <2>2. CASE p > calls
    <3>1. committed[p] + late[p] = 0
      BY <2>2, Unsent
    <3>2. Sent(p)' \in Nat
      BY <1>1, <1>2, MirrorAssumption DEF Sent, TypeOK
    <3> QED  BY <3>1, <3>2
  <2>3. ~(p > calls) => Sent(p)' = Sent(p)
    BY <1>1, <1>4 DEF Sent, Payloads
  <2> QED  BY <2>1, <2>2, <2>3
<1>6. SettledOK'
  BY <1>1, <1>4 DEF MirrorInv, SettledOK, Settled
<1>7. EveryCallCounted'
  <2>1. Len(ring) \in Nat /\ Len(remaining) \in Nat /\ enqueued \in Nat
    BY LenProperties DEF MirrorInv, TypeOK
  <2> QED  BY <1>1, <2>1 DEF MirrorInv, EveryCallCounted
<1> QED  BY <1>2, <1>3, <1>4, <1>5, <1>6, <1>7 DEF MirrorInv

LEMMA PushKeeps ==
    ASSUME MirrorInv, Push
    PROVE  MirrorInv'
<1>1. /\ UNCHANGED <<enqueued, item, attempt, remaining, after,
                     cached, turn, stop, owner, leader, committed, late>>
      /\ owner = "alive"
      /\ worker' = worker \/ (worker = "blocked" /\ worker' = "wait")
  BY DEF Push, routeVars, ownerVars, cluster
<1>0. calls \in 0..MaxCalls /\ calls < MaxCalls /\ calls' = calls + 1
  BY DEF MirrorInv, TypeOK, Push
<1>2. /\ calls \in Nat /\ calls < MaxCalls /\ calls' = calls + 1 /\ calls' \in Payloads
      /\ MaxCalls \in Nat /\ MaxAttempts \in Nat /\ Capacity \in Nat /\ Capacity > 0
  BY <1>0, MirrorAssumption DEF Payloads
<1>3. PICK kept :
         /\ ring' = Append(kept, calls')
         /\ \/ Len(ring) >= Capacity /\ kept = Tail(ring) /\ dropped' = dropped + 1
            \/ Len(ring) < Capacity /\ kept = ring /\ dropped' = dropped
  <2>1. Len(ring) \in Nat
    BY LenProperties DEF MirrorInv, TypeOK
  <2>2. CASE Len(ring) >= Capacity
    <3>1. ring' = Append(Tail(ring), calls') /\ dropped' = dropped + 1
      BY <2>2 DEF Push
    <3> QED  BY <2>2, <3>1
  <2>3. CASE Len(ring) < Capacity
    <3>1. ~(Len(ring) >= Capacity)
      BY <1>2, <2>1, <2>3
    <3>2. ring' = Append(ring, calls') /\ dropped' = dropped
      BY <3>1 DEF Push
    <3> QED  BY <2>3, <3>2
  <2> QED  BY <1>2, <2>1, <2>2, <2>3
<1>4. ring \in Seq(Payloads) /\ IsInjective(ring) /\ Len(ring) \in Nat /\ Len(ring) <= Capacity
  BY LenProperties DEF MirrorInv, TypeOK, OnePlace, Payloads
<1>5. /\ kept \in Seq(Payloads) /\ IsInjective(kept)
      /\ ToSet(kept) \subseteq ToSet(ring)
      /\ Len(kept) \in Nat /\ Len(kept) < Capacity
      /\ Len(kept) + dropped' = Len(ring) + dropped
      /\ dropped \in Nat /\ dropped' \in Nat
  <2>0. dropped \in Nat
    BY DEF MirrorInv, TypeOK
  <2>1. CASE Len(ring) >= Capacity /\ kept = Tail(ring) /\ dropped' = dropped + 1
    <3>1. ring # <<>>
      BY <2>1, <1>2, EmptyRing
    <3>2. /\ Tail(ring) \in Seq(Payloads) /\ IsInjective(Tail(ring))
          /\ Len(Tail(ring)) = Len(ring) - 1
          /\ ToSet(Tail(ring)) \subseteq ToSet(ring)
      BY <3>1, <1>4, TakeHead
    <3> QED  BY <2>0, <2>1, <3>2, <1>2, <1>4
  <2>2. CASE Len(ring) < Capacity /\ kept = ring /\ dropped' = dropped
    BY <2>0, <2>2, <1>4
  <2> QED  BY <2>1, <2>2, <1>3
<1>6. ToSet(ring) \subseteq 1..calls /\ item # calls' /\ calls' \notin ToSet(remaining)
      /\ calls' \notin ToSet(ring)
  <2>1. Pending \subseteq 1..calls /\ calls' \notin 1..calls
    BY <1>2 DEF MirrorInv, OnePlace
  <2>2. calls' # None
    BY <1>2, MirrorAssumption
  <2> QED  BY <2>1, <2>2 DEF Pending, Queued
<1>7. /\ ring' \in Seq(Payloads) /\ Len(ring') = Len(kept) + 1
      /\ IsInjective(ring')
      /\ ToSet(ring') = ToSet(kept) \union {calls'}
  <2>1. calls' \notin ToSet(kept)
    BY <1>5, <1>6
  <2>2. /\ Append(kept, calls') \in Seq(Payloads) /\ Len(Append(kept, calls')) = Len(kept) + 1
        /\ IsInjective(Append(kept, calls'))
        /\ ToSet(Append(kept, calls')) = ToSet(kept) \union {calls'}
    <3>1. calls' \in Payloads /\ kept \in Seq(Payloads) /\ IsInjective(kept)
      BY ONLY <1>2, <1>5
    <3> QED  BY ONLY <2>1, <3>1, AppendNew
  <2> QED  BY <2>2, <1>3
<1>8. TypeOK'
  <2>1. calls' \in 0..MaxCalls /\ Len(ring') <= Capacity
    BY <1>2, <1>5, <1>7
  <2> QED  BY <1>1, <1>5, <1>7, <2>1 DEF MirrorInv, TypeOK, Payloads
<1>9. WorkerOK'
  <2>1. stop # TRUE
    BY <1>1 DEF MirrorInv, WorkerOK
  <2> QED  BY <2>1, <1>1 DEF MirrorInv, WorkerOK, InItem
<1>10. /\ Queued' \subseteq Queued \union {calls'}
       /\ Pending' \subseteq Pending \union {calls'}
  BY <1>1, <1>5, <1>7 DEF Queued, Pending
<1>11. OnePlace'
  <2>1. 1..calls \union {calls'} = 1..calls'
    BY <1>2
  <2>2. Pending' \subseteq 1..calls' /\ item' \notin Queued'
    BY <2>1, <1>1, <1>6, <1>10 DEF MirrorInv, OnePlace
  <2> QED  BY <2>2, <1>1, <1>7 DEF MirrorInv, OnePlace
<1>12. SentOK'
  <2> SUFFICES ASSUME NEW p \in Payloads PROVE committed[p] + late[p] <= Sent(p)'
    BY <1>1 DEF SentOK
  <2>1. Sent(p)' \in Nat
    BY <1>1, <1>2, <1>8 DEF Sent, TypeOK
  <2>2. CASE p \in Queued \/ p > calls
    <3>1. committed[p] + late[p] = 0
      BY <2>2, Unsent
    <3> QED  BY <3>1, <2>1
  <2>3. CASE ~(p \in Queued \/ p > calls)
    <3>1. p # calls' /\ p \notin Queued' /\ ~(p > calls')
      BY <2>3, <1>2, <1>10 DEF Payloads
    <3>2. Sent(p)' = Sent(p)
      BY <2>3, <3>1, <1>1 DEF Sent
    <3> QED  BY <3>2 DEF MirrorInv, SentOK
  <2> QED  BY <2>2, <2>3
<1>13. SettledOK'
  <2>1. committed[calls'] = 0
    BY <1>2, Unsent
  <2>2. Settled \subseteq Settled'
    BY <2>1, <1>1, <1>10 DEF Settled
  <2>3. committed' \in [Payloads -> Nat] /\ enqueued' = enqueued
    BY <1>1 DEF MirrorInv, TypeOK, Payloads
  <2> QED  BY <2>2, <2>3, SettledGrows
<1>14. EveryCallCounted'
  <2>1. PICK r, k, m, h, d : r = Len(ring) /\ k = Len(kept) /\ m = Len(remaining)
                             /\ h = (IF item = None THEN 0 ELSE 1) /\ d = dropped'
    OBVIOUS
  <2>2. r \in Nat /\ k \in Nat /\ m \in Nat /\ h \in Nat /\ enqueued \in Nat
        /\ dropped \in Nat /\ d \in Nat /\ calls \in Nat
    BY <2>1, <1>2, <1>4, <1>5, LenProperties DEF MirrorInv, TypeOK
  <2>3. calls = enqueued + dropped + r + m + h
    BY <2>1 DEF MirrorInv, EveryCallCounted
  <2>4. k + d = r + dropped
    BY <2>1, <1>5
  <2>5. calls + 1 = enqueued + d + (k + 1) + m + h
    BY ONLY <2>2, <2>3, <2>4
  <2> QED  BY <2>1, <2>5, <1>1, <1>2, <1>7 DEF EveryCallCounted
<1> QED  BY <1>8, <1>9, <1>11, <1>12, <1>13, <1>14 DEF MirrorInv

(***************************************************************************)
(* The worker takes payloads: from the ring, all of the ring, and then     *)
(* from what it took.  The payloads on their way stay the same.            *)
(***************************************************************************)
LEMMA TakingKeeps ==
    ASSUME MirrorInv, TypeOK', WorkerOK',
           UNCHANGED <<calls, enqueued, dropped, attempt, committed, late>>,
           IsInjective(ring)', IsInjective(remaining)',
           item' \notin Queued', Pending' = Pending,
           item' = item \/ (item = None /\ attempt = 0),
           Len(ring') + Len(remaining') + (IF item' = None THEN 0 ELSE 1)
             = Len(ring) + Len(remaining) + (IF item = None THEN 0 ELSE 1)
    PROVE  MirrorInv'
<1>1. OnePlace'
  BY DEF MirrorInv, OnePlace
<1>2. SentOK'
  <2> SUFFICES ASSUME NEW p \in Payloads PROVE committed[p] + late[p] <= Sent(p)'
    BY DEF SentOK
  <2>1. p # None
    BY MirrorAssumption DEF Payloads
  <2>2. p \in Pending <=> p \in Queued \/ p = item
    BY <2>1 DEF Pending
  <2>3. p \in Pending' <=> p \in Queued' \/ p = item'
    BY <2>1 DEF Pending
  <2>4. CASE p \in Pending
    <3>1. p \in 1..calls
      BY <2>4 DEF MirrorInv, OnePlace
    <3>2. ~(p > calls)
      BY <3>1 DEF MirrorInv, TypeOK
    <3>3. CASE p = item
      <4>1. p = item'
        BY <2>1, <3>3
      <4> QED  BY <3>3, <4>1 DEF Sent, MirrorInv, SentOK
    <3>4. CASE p # item
      <4>1. p \in Queued
        BY <2>2, <2>4, <3>4
      <4>2. committed[p] = 0 /\ late[p] = 0
        BY <4>1, Unsent
      <4>3. Sent(p)' \in Nat
        BY MirrorAssumption DEF Sent, TypeOK
      <4> QED  BY <4>2, <4>3
    <3> QED  BY <3>3, <3>4
  <2>5. CASE p \notin Pending
    <3>1. Sent(p)' = Sent(p)
      BY <2>2, <2>3, <2>5 DEF Sent
    <3> QED  BY <3>1 DEF MirrorInv, SentOK
  <2> QED  BY <2>4, <2>5
<1>3. SettledOK'
  BY DEF MirrorInv, SettledOK, Settled
<1>4. EveryCallCounted'
  <2>1. PICK r, m, h, r2, m2, h2 :
           /\ r = Len(ring) /\ m = Len(remaining) /\ h = (IF item = None THEN 0 ELSE 1)
           /\ r2 = Len(ring') /\ m2 = Len(remaining') /\ h2 = (IF item' = None THEN 0 ELSE 1)
    OBVIOUS
  <2>2. r \in Nat /\ m \in Nat /\ h \in Nat /\ r2 \in Nat /\ m2 \in Nat /\ h2 \in Nat
        /\ calls \in Nat /\ enqueued \in Nat /\ dropped \in Nat
    BY <2>1, LenProperties DEF MirrorInv, TypeOK
  <2>3. calls = enqueued + dropped + r + m + h
    BY <2>1 DEF MirrorInv, EveryCallCounted
  <2>4. r2 + m2 + h2 = r + m + h
    BY <2>1
  <2>5. calls = enqueued + dropped + r2 + m2 + h2
    BY ONLY <2>2, <2>3, <2>4
  <2> QED  BY <2>1, <2>5 DEF EveryCallCounted
<1> QED  BY <1>1, <1>2, <1>3, <1>4 DEF MirrorInv

LEMMA TakeKeeps ==
    ASSUME MirrorInv, Take
    PROVE  MirrorInv'
<1>1. /\ UNCHANGED <<calls, enqueued, dropped, attempt, remaining, after, cached, turn,
                     stop, owner, leader, committed, late>>
      /\ worker = "wait" /\ worker' = "offer" /\ ring # <<>>
      /\ item' = Head(ring) /\ ring' = Tail(ring)
  BY DEF Take, stats, routeVars, ownerVars, cluster
<1>2. after = "loop" /\ remaining = <<>> /\ item = None /\ attempt = 0
  BY <1>1 DEF MirrorInv, WorkerOK, InItem
<1>3. ring \in Seq(Payloads) /\ IsInjective(ring) /\ Len(ring) \in Nat /\ Len(ring) <= Capacity
  BY LenProperties DEF MirrorInv, TypeOK, OnePlace, Payloads
<1>4. /\ Tail(ring) \in Seq(Payloads) /\ Len(Tail(ring)) = Len(ring) - 1
      /\ Head(ring) \in Payloads /\ IsInjective(Tail(ring))
      /\ ToSet(ring) = ToSet(Tail(ring)) \union {Head(ring)}
      /\ Head(ring) \notin ToSet(Tail(ring))
  BY <1>1, <1>3, TakeHead
<1>5. item' \in Payloads /\ item' # None
  BY <1>1, <1>4, MirrorAssumption DEF Payloads
<1>6. TypeOK'
  <2>1. Len(ring') <= Capacity
    BY <1>1, <1>3, <1>4, MirrorAssumption
  <2> QED  BY <2>1, <1>1, <1>4, <1>5 DEF MirrorInv, TypeOK, Payloads
<1>7. WorkerOK'
  BY <1>1, <1>2, <1>5 DEF MirrorInv, WorkerOK, InItem
<1>8. ToSet(remaining) = {}
  BY <1>2, EmptyRing
<1>9. item' \notin Queued' /\ Pending' = Pending
  BY <1>1, <1>2, <1>4, <1>5, <1>8 DEF Queued, Pending
<1>10. IsInjective(ring)' /\ IsInjective(remaining)'
  BY <1>1, <1>4 DEF MirrorInv, OnePlace
<1>11. Len(ring') + Len(remaining') + (IF item' = None THEN 0 ELSE 1)
         = Len(ring) + Len(remaining) + (IF item = None THEN 0 ELSE 1)
  <2>1. Len(ring') = Len(ring) - 1 /\ Len(remaining') = 0 /\ Len(remaining) = 0
    BY <1>1, <1>2, <1>4, EmptyRing
  <2> QED  BY <2>1, <1>2, <1>3, <1>5
<1> QED  BY <1>1, <1>2, <1>6, <1>7, <1>9, <1>10, <1>11, TakingKeeps

LEMMA FlushKeeps ==
    ASSUME MirrorInv, Flush
    PROVE  MirrorInv'
<1>1. /\ UNCHANGED <<calls, enqueued, dropped, item, attempt, after, cached, turn,
                     stop, owner, leader, committed, late>>
      /\ worker = "flush" /\ worker' = "drain"
      /\ remaining' = ring /\ ring' = <<>>
  BY DEF Flush, stats, routeVars, ownerVars, cluster
<1>2. after = "loop" /\ remaining = <<>> /\ item = None /\ attempt = 0 /\ stop = TRUE
  BY <1>1 DEF MirrorInv, WorkerOK, InItem
<1>3. Len(<<>>) = 0 /\ <<>> \in Seq(Payloads) /\ ToSet(<<>>) = {} /\ IsInjective(<<>>)
  BY EmptyRing
<1>4. TypeOK'
  <2>1. 0 <= Capacity
    BY MirrorAssumption
  <2>2. ring' \in Seq(Payloads) /\ Len(ring') <= Capacity
    BY <2>1, <1>1, <1>3
  <2> QED  BY <2>2, <1>1 DEF MirrorInv, TypeOK, Payloads
<1>5. WorkerOK'
  BY <1>1, <1>2 DEF MirrorInv, WorkerOK, InItem
<1>6. Queued' = Queued /\ Pending' = Pending
  BY <1>1, <1>2, <1>3 DEF Queued, Pending
<1>7. IsInjective(ring)' /\ IsInjective(remaining)' /\ item' \notin Queued'
  BY <1>1, <1>3, <1>6 DEF MirrorInv, OnePlace
<1>8. Len(ring') + Len(remaining') + (IF item' = None THEN 0 ELSE 1)
         = Len(ring) + Len(remaining) + (IF item = None THEN 0 ELSE 1)
  <2>1. Len(ring) \in Nat
    BY LenProperties DEF MirrorInv, TypeOK
  <2> QED  BY <2>1, <1>1, <1>2, <1>3
<1> QED  BY <1>1, <1>4, <1>5, <1>6, <1>7, <1>8, TakingKeeps

LEMMA DrainKeeps ==
    ASSUME MirrorInv, Drain
    PROVE  MirrorInv'
<1>1. /\ UNCHANGED <<calls, ring, enqueued, dropped, attempt, cached, turn, stop, owner,
                     leader, committed, late>>
      /\ worker = "drain" /\ after' = "drain"
  BY DEF Drain, ringVars, stats, routeVars, ownerVars, cluster
<1>2. item = None /\ attempt = 0 /\ ring = <<>> /\ stop = TRUE
  BY <1>1 DEF MirrorInv, WorkerOK, InItem
<1>3. CASE remaining = <<>>
  <2>1. worker' = "done" /\ UNCHANGED <<item, remaining>>
    BY <1>3 DEF Drain
  <2>2. TypeOK'
    BY <1>1, <2>1 DEF MirrorInv, TypeOK
  <2>3. WorkerOK'
    BY <1>1, <1>2, <1>3, <2>1 DEF MirrorInv, WorkerOK, InItem
  <2> QED  BY <1>1, <2>1, <2>2, <2>3, NothingMoves
<1>4. CASE remaining # <<>>
  <2>1. worker' = "offer" /\ item' = Head(remaining) /\ remaining' = Tail(remaining)
    BY <1>4 DEF Drain
  <2>2. remaining \in Seq(Payloads) /\ IsInjective(remaining) /\ Len(remaining) \in Nat
    BY LenProperties DEF MirrorInv, TypeOK, OnePlace, Payloads
  <2>3. /\ Tail(remaining) \in Seq(Payloads) /\ Len(Tail(remaining)) = Len(remaining) - 1
        /\ Head(remaining) \in Payloads /\ IsInjective(Tail(remaining))
        /\ ToSet(remaining) = ToSet(Tail(remaining)) \union {Head(remaining)}
        /\ Head(remaining) \notin ToSet(Tail(remaining))
    BY <1>4, <2>2, TakeHead
  <2>4. item' \in Payloads /\ item' # None
    BY <2>1, <2>3, MirrorAssumption DEF Payloads
  <2>5. TypeOK'
    BY <1>1, <2>1, <2>3, <2>4 DEF MirrorInv, TypeOK, Payloads
  <2>6. WorkerOK'
    BY <1>1, <1>2, <2>1, <2>4 DEF MirrorInv, WorkerOK, InItem
  <2>7. ToSet(ring) = {}
    BY <1>2, EmptyRing
  <2>8. item' \notin Queued' /\ Pending' = Pending
    BY <1>1, <1>2, <2>1, <2>3, <2>4, <2>7 DEF Queued, Pending
  <2>9. IsInjective(ring)' /\ IsInjective(remaining)'
    BY <1>1, <2>1, <2>3 DEF MirrorInv, OnePlace
  <2>10. Len(ring') + Len(remaining') + (IF item' = None THEN 0 ELSE 1)
           = Len(ring) + Len(remaining) + (IF item = None THEN 0 ELSE 1)
    <3>1. Len(remaining') = Len(remaining) - 1 /\ Len(ring') = 0 /\ Len(ring) = 0
      BY <1>1, <1>2, <2>1, <2>3, EmptyRing
    <3> QED  BY <3>1, <1>2, <2>2, <2>4
  <2> QED  BY <1>1, <1>2, <2>5, <2>6, <2>8, <2>9, <2>10, TakingKeeps
<1> QED  BY <1>3, <1>4

(***************************************************************************)
(* process_item().  An answer may commit the payload, or leave a request   *)
(* of it under way, once; then the payload is counted, or tried again.     *)
(***************************************************************************)
Again == /\ worker = "try" /\ attempt + 1 < MaxAttempts
         /\ attempt' = attempt + 1
         /\ UNCHANGED <<stats, worker, item>>

LEMMA AnswerKeeps ==
    ASSUME MirrorInv, InItem, TypeOK', Dropped \/ Again \/ (Enqueued /\ committed'[item] > 0),
           UNCHANGED <<ring, calls, remaining, after, stop, owner>>,
           \A p \in Payloads :
              /\ committed'[p] >= committed[p]
              /\ committed'[p] + late'[p]
                   <= committed[p] + late[p] + (IF p = item THEN 1 ELSE 0)
    PROVE  MirrorInv'
<1>1. /\ item # None /\ item \in Payloads /\ item \in 1..calls /\ item \notin Queued
      /\ ~(item > calls)
  <2>1. item # None /\ item \in Payloads /\ item \in 1..calls /\ item \notin Queued
    BY DEF MirrorInv, WorkerOK, OnePlace, Pending, TypeOK, Payloads
  <2>2. calls \in Nat
    BY DEF MirrorInv, TypeOK
  <2> QED  BY <2>1, <2>2
<1>2. attempt \in Nat /\ attempt < MaxAttempts /\ MaxAttempts \in Nat
  BY MirrorAssumption DEF MirrorInv, TypeOK
<1>3. Queued' = Queued
  BY DEF Queued
<1>4. \/ item' = item /\ Again
      \/ item' = None /\ attempt' = 0 /\ worker' = after
  BY DEF Dropped, Enqueued, Finish, Again
<1>5. WorkerOK'
  <2>1. CASE item' = item /\ Again
    BY <2>1 DEF MirrorInv, WorkerOK, InItem, Again
  <2>2. CASE item' = None /\ attempt' = 0 /\ worker' = after
    BY <2>2 DEF MirrorInv, WorkerOK, InItem
  <2> QED  BY <2>1, <2>2, <1>4
<1>6. Pending' \subseteq Pending
  BY <1>1, <1>3, <1>4 DEF Pending
<1>7. None \notin Queued
  BY MirrorAssumption DEF MirrorInv, OnePlace, Pending
<1>8. OnePlace'
  BY <1>1, <1>3, <1>4, <1>6, <1>7 DEF MirrorInv, OnePlace
<1>9. SentOK'
  <2> SUFFICES ASSUME NEW p \in Payloads PROVE (committed'[p] + late'[p] <= Sent(p)')
    BY DEF SentOK
  <2>1. p # None
    BY MirrorAssumption DEF Payloads
  <2>2. PICK s, s2 : s = committed[p] + late[p] /\ s2 = committed'[p] + late'[p]
    OBVIOUS
  <2>3. s \in Nat /\ s2 \in Nat /\ s <= Sent(p)
    <3>1. committed[p] \in Nat /\ late[p] \in Nat
      BY DEF MirrorInv, TypeOK, Payloads
    <3>2. committed'[p] \in Nat /\ late'[p] \in Nat
      BY DEF TypeOK, Payloads
    <3>3. s \in Nat
      BY <2>2, <3>1
    <3>4. s2 \in Nat
      <4>1. PICK a, b : a = committed'[p] /\ b = late'[p]
        OBVIOUS
      <4>2. s2 = a + b /\ a \in Nat /\ b \in Nat
        BY <2>2, <3>2, <4>1
      <4> QED  BY ONLY <4>2
    <3>5. s <= Sent(p)
      BY <2>2 DEF MirrorInv, SentOK
    <3> QED  BY <3>3, <3>4, <3>5
  <2>4. CASE p = item
    <3>1. s2 <= s + 1 /\ s <= attempt
      <4>1. Sent(p) = attempt
        BY <2>4 DEF Sent
      <4>2. s2 <= s + (IF p = item THEN 1 ELSE 0)
        BY <2>2
      <4> QED  BY <2>3, <2>4, <4>1, <4>2
    <3>2. s2 <= attempt + 1
      BY <3>1, <2>3, <1>2
    <3>3. CASE item' = item /\ Again
      <4>1. Sent(p)' = attempt + 1
        BY <2>4, <3>3 DEF Sent, Again
      <4> QED  BY <2>2, <3>2, <4>1
    <3>4. CASE item' = None
      <4>1. Sent(p)' = MaxAttempts
        BY <2>1, <2>4, <3>4, <1>1, <1>3 DEF Sent
      <4>2. s2 <= MaxAttempts
        BY <3>2, <2>3, <1>2
      <4> QED  BY <2>2, <4>1, <4>2
    <3> QED  BY <3>3, <3>4, <1>4
  <2>5. CASE p # item
    <3>1. s2 <= s
      <4>1. s2 <= s + (IF p = item THEN 1 ELSE 0)
        BY <2>2
      <4> QED  BY <2>3, <2>5, <4>1
    <3>2. p # item'
      BY <1>4, <2>1, <2>5
    <3>3. Sent(p)' = Sent(p)
      BY <2>5, <3>2, <1>3 DEF Sent
    <3>4. Sent(p) \in Nat
      BY SentBound
    <3>5. s2 <= Sent(p)
      BY <3>1, <3>4, <2>3
    <3> QED  BY <3>3, <3>5, <2>2
  <2> QED  BY <2>4, <2>5
<1>10. /\ committed' \in [Payloads -> Nat]
       /\ Settled \subseteq Settled'
  <2>1. committed' \in [Payloads -> Nat] /\ committed \in [Payloads -> Nat]
    BY DEF MirrorInv, TypeOK, Payloads
  <2>2. ASSUME NEW p \in Payloads, committed[p] > 0 PROVE committed'[p] > 0
    <3>1. committed'[p] \in Nat /\ committed[p] \in Nat /\ committed'[p] >= committed[p]
      BY <2>1
    <3> QED  BY <2>2, <3>1
  <2> QED  BY <2>1, <2>2, <1>6 DEF Settled
<1>11. SettledOK'
  <2>1. CASE enqueued' = enqueued
    BY <2>1, <1>10, SettledGrows
  <2>2. CASE Enqueued /\ committed'[item] > 0
    <3>1. item' = None /\ enqueued' = enqueued + 1
      BY <2>2 DEF Enqueued, Finish
    <3>2. item \in Settled' /\ item \notin Settled
      BY <1>1, <1>3, <2>2, <3>1 DEF Settled, Pending
    <3>3. IsFiniteSet(Settled') /\ IsFiniteSet(Settled)
      <4>1. IsFiniteSet(Payloads)
        BY FS_Interval, MirrorAssumption DEF Payloads
      <4> QED  BY <4>1, FS_Subset DEF Settled
    <3>4. /\ IsFiniteSet(Settled \union {item})
          /\ Cardinality(Settled \union {item}) = Cardinality(Settled) + 1
      BY <3>2, <3>3, FS_AddElement
    <3>5. Cardinality(Settled \union {item}) <= Cardinality(Settled')
      BY <3>2, <3>3, <1>10, FS_Subset
    <3>6. PICK a, b : a = Cardinality(Settled) /\ b = Cardinality(Settled')
      OBVIOUS
    <3>7. a \in Nat /\ b \in Nat /\ a + 1 <= b
      BY <3>3, <3>4, <3>5, <3>6, FS_CardinalityType
    <3>8. enqueued \in Nat /\ enqueued <= a
      BY <3>6 DEF MirrorInv, SettledOK, TypeOK
    <3>9. enqueued + 1 <= b
      BY <3>7, <3>8
    <3> QED  BY <3>1, <3>6, <3>9 DEF SettledOK
  <2> QED  BY <2>1, <2>2 DEF Dropped, Again, stats
<1>12. EveryCallCounted'
  <2>1. Len(ring) \in Nat /\ Len(remaining) \in Nat /\ enqueued \in Nat /\ dropped \in Nat
    BY LenProperties DEF MirrorInv, TypeOK
  <2>2. calls = enqueued + dropped + Len(ring) + Len(remaining) + 1
    BY <1>1 DEF MirrorInv, EveryCallCounted
  <2>3. CASE Again
    BY <1>1, <2>2, <2>3 DEF EveryCallCounted, Again, stats
  <2>4. CASE Dropped \/ Enqueued
    <3>1. PICK r, m, e, d : r = Len(ring) /\ m = Len(remaining) /\ e = enqueued' /\ d = dropped'
      OBVIOUS
    <3>2. item' = None /\ ((e = enqueued + 1 /\ d = dropped) \/ (e = enqueued /\ d = dropped + 1))
      BY <2>4, <3>1 DEF Dropped, Enqueued, Finish
    <3>3. r \in Nat /\ m \in Nat /\ e \in Nat /\ d \in Nat
      BY <2>1, <3>1, <3>2
    <3>4. enqueued + dropped + 1 = e + d
      BY <2>1, <3>2, <3>3
    <3>5. calls = enqueued + dropped + r + m + 1
      BY <2>2, <3>1
    <3>6. calls = e + d + r + m + 0
      BY ONLY <2>1, <3>3, <3>4, <3>5
    <3> QED  BY <3>1, <3>2, <3>6 DEF EveryCallCounted
  <2> QED  BY <2>3, <2>4
<1> QED  BY <1>5, <1>8, <1>9, <1>11, <1>12 DEF MirrorInv

\* The types that process_item() leaves, whatever it decides.
LEMMA AnswerTypes ==
    ASSUME MirrorInv, InItem, Dropped \/ Again \/ Enqueued,
           UNCHANGED <<ring, calls, remaining, after, stop, owner>>,
           cached' \in Nodes \union {None}, leader' \in Nodes \union {None},
           turn' \in 0..Len(Peers) - 1,
           committed' \in [Payloads -> Nat], late' \in [Payloads -> Nat]
    PROVE  TypeOK'
<1>1. /\ enqueued \in Nat /\ dropped \in Nat
      /\ attempt \in 0..MaxAttempts - 1 /\ MaxAttempts \in Nat \ {0}
      /\ item \in 1..MaxCalls \union {None}
  BY MirrorAssumption DEF MirrorInv, TypeOK
<1>2. /\ enqueued' \in Nat /\ dropped' \in Nat
      /\ attempt' \in 0..MaxAttempts - 1
      /\ item' \in 1..MaxCalls \union {None}
  <2>1. CASE Again
    BY <2>1, <1>1 DEF Again, stats
  <2>2. CASE Dropped \/ Enqueued
    BY <2>2, <1>1 DEF Dropped, Enqueued, Finish
  <2> QED  BY <2>1, <2>2
<1> QED  BY <1>2 DEF MirrorInv, TypeOK, Payloads

\* One more request of a payload is committed, or is under way.
LEMMA OneMoreSent ==
    ASSUME MirrorInv, item \in Payloads,
           \/ UNCHANGED <<committed, late>>
           \/ committed' = committed /\ late' = [late EXCEPT ![item] = @ + 1]
           \/ late' = late /\ Commit(item)
    PROVE  /\ committed' \in [Payloads -> Nat] /\ late' \in [Payloads -> Nat]
           /\ \A p \in Payloads :
                /\ committed'[p] >= committed[p]
                /\ committed'[p] + late'[p]
                     <= committed[p] + late[p] + (IF p = item THEN 1 ELSE 0)
           /\ late' = late /\ Commit(item) => committed'[item] > 0
<1>1. committed \in [Payloads -> Nat] /\ late \in [Payloads -> Nat]
  BY DEF MirrorInv, TypeOK, Payloads
<1>2. CASE UNCHANGED <<committed, late>> /\ ~Commit(item)
  BY <1>1, <1>2
<1>3. CASE committed' = committed /\ late' = [late EXCEPT ![item] = @ + 1] /\ ~(late' = late)
  BY <1>1, <1>3
<1>4. CASE late' = late /\ Commit(item)
  BY <1>1, <1>4 DEF Commit
<1>5. ASSUME UNCHANGED <<committed, late>>, Commit(item) PROVE FALSE
  <2>1. committed[item] \in Nat /\ committed[item] = committed[item] + 1
    BY <1>1, <1>5 DEF Commit
  <2> QED  BY <2>1
<1>6. ASSUME late' = [late EXCEPT ![item] = @ + 1], late' = late PROVE FALSE
  <2>1. late[item] \in Nat /\ late[item] = late[item] + 1
    BY <1>1, <1>6
  <2> QED  BY <2>1
<1> QED  BY <1>2, <1>3, <1>4, <1>5, <1>6

LEMMA ProcessItemKeeps ==
    ASSUME MirrorInv, ProcessItem, ~BreakerAllows
    PROVE  MirrorInv'
<1>1. /\ InItem /\ UNCHANGED <<ring, calls, remaining, after, stop, owner, leader>>
  BY DEF ProcessItem, BreakerRefuses, Accepted, TransportError, NotLeader, Refused, InItem,
         ringVars, ownerVars, cluster
<1>2. item \in Payloads
  BY <1>1 DEF MirrorInv, WorkerOK, TypeOK, Payloads
<1>3. leader' \in Nodes \union {None}
  BY <1>1 DEF MirrorInv, TypeOK
<1>4. /\ cached' \in Nodes \union {None}
      /\ turn' \in 0..Len(Peers) - 1
  <2>1. CASE BreakerRefuses \/ Accepted \/ Refused
    BY <2>1 DEF BreakerRefuses, Accepted, Refused, routeVars, MirrorInv, TypeOK
  <2>2. CASE TransportError
    <3>1. cached' = None /\ turn' = (turn + 1) % Len(Peers)
      BY <2>2 DEF TransportError, NextTurn
    <3>2. PICK n, s : n = Len(Peers) /\ s = turn
      OBVIOUS
    <3>3. n \in Nat /\ n > 0 /\ s \in Nat
      BY <3>2, MirrorAssumption, LenProperties, EmptySeq DEF MirrorInv, TypeOK
    <3>4. (s + 1) % n \in 0..n - 1
      BY ONLY <3>3
    <3> QED  BY <3>1, <3>2, <3>4
  <2>3. ASSUME NEW hint \in Nodes \union {None}, NotLeader(hint)
        PROVE  cached' \in Nodes \union {None} /\ turn' \in 0..Len(Peers) - 1
    BY <2>3 DEF NotLeader, MirrorInv, TypeOK
  <2> QED  BY <2>1, <2>2, <2>3 DEF ProcessItem
<1>5. \/ UNCHANGED <<committed, late>> /\ (Dropped \/ Again)
      \/ committed' = committed /\ late' = [late EXCEPT ![item] = @ + 1] /\ (Dropped \/ Again)
      \/ late' = late /\ Commit(item) /\ (Dropped \/ Again \/ Enqueued)
  <2>1. CASE BreakerRefuses \/ Refused
    BY <2>1 DEF BreakerRefuses, Refused, cluster
  <2>2. CASE Accepted
    BY <2>2 DEF Accepted
  <2>3. CASE TransportError
    BY <2>3 DEF TransportError, Retry, Again
  <2>4. ASSUME NEW hint \in Nodes \union {None}, NotLeader(hint)
        PROVE  UNCHANGED <<committed, late>> /\ (Dropped \/ Again)
    BY <2>4 DEF NotLeader, Retry, Again, cluster
  <2> QED  BY <2>1, <2>2, <2>3, <2>4 DEF ProcessItem
<1>6. /\ committed' \in [Payloads -> Nat] /\ late' \in [Payloads -> Nat]
      /\ \A p \in Payloads :
           /\ committed'[p] >= committed[p]
           /\ committed'[p] + late'[p]
                <= committed[p] + late[p] + (IF p = item THEN 1 ELSE 0)
      /\ late' = late /\ Commit(item) => committed'[item] > 0
  <2>1. \/ UNCHANGED <<committed, late>>
        \/ committed' = committed /\ late' = [late EXCEPT ![item] = @ + 1]
        \/ late' = late /\ Commit(item)
    BY <1>5
  <2> QED  BY <2>1, <1>2, OneMoreSent
<1>7. Dropped \/ Again \/ (Enqueued /\ committed'[item] > 0)
  BY <1>5, <1>6
<1>8. TypeOK'
  BY <1>1, <1>3, <1>4, <1>6, <1>7, AnswerTypes
<1> QED  BY <1>1, <1>6, <1>7, <1>8, AnswerKeeps

LEMMA CommitLateKeeps ==
    ASSUME MirrorInv, NEW p \in Payloads, CommitLate(p)
    PROVE  MirrorInv'
<1>1. /\ UNCHANGED <<ring, calls, enqueued, dropped, worker, item, attempt, remaining,
                     after, cached, turn, stop, owner, leader>>
      /\ late[p] > 0 /\ late' = [late EXCEPT ![p] = @ - 1]
      /\ committed' = [committed EXCEPT ![p] = @ + 1]
  BY DEF CommitLate, Commit, ringVars, stats, workerVars, routeVars, ownerVars
<1>2. committed \in [Payloads -> Nat] /\ late \in [Payloads -> Nat]
  BY DEF MirrorInv, TypeOK, Payloads
<1>3. committed' \in [Payloads -> Nat] /\ late' \in [Payloads -> Nat]
  BY <1>1, <1>2
<1>4. \A q \in Payloads : /\ committed'[q] >= committed[q]
                           /\ committed'[q] + late'[q] = committed[q] + late[q]
  BY <1>1, <1>2
<1>5. TypeOK'
  BY <1>1, <1>3 DEF MirrorInv, TypeOK, Payloads
<1>6. WorkerOK'
  BY <1>1 DEF MirrorInv, WorkerOK, InItem
<1>7. Queued' = Queued /\ Pending' = Pending
  BY <1>1 DEF Queued, Pending
<1>8. OnePlace'
  BY <1>1, <1>7 DEF MirrorInv, OnePlace
<1>9. SentOK'
  <2> SUFFICES ASSUME NEW q \in Payloads PROVE (committed'[q] + late'[q] <= Sent(q)')
    BY DEF SentOK
  <2>1. Sent(q)' = Sent(q)
    BY <1>1, <1>7 DEF Sent
  <2>2. committed[q] + late[q] <= Sent(q)
    BY DEF MirrorInv, SentOK
  <2> QED  BY <2>1, <2>2, <1>4
<1>10. SettledOK'
  <2>1. ASSUME NEW q \in Payloads, committed[q] > 0 PROVE committed'[q] > 0
    BY <2>1, <1>2, <1>3, <1>4
  <2>2. Settled \subseteq Settled'
    BY <2>1, <1>7 DEF Settled
  <2> QED  BY <2>2, <1>1, <1>3, SettledGrows
<1>11. EveryCallCounted'
  BY <1>1 DEF MirrorInv, EveryCallCounted
<1> QED  BY <1>5, <1>6, <1>8, <1>9, <1>10, <1>11 DEF MirrorInv
-----------------------------------------------------------------------------
LEMMA NextKeeps == MirrorInv /\ [Next]_vars => MirrorInv'
<1> SUFFICES ASSUME MirrorInv, [Next]_vars PROVE MirrorInv'
  OBVIOUS
<1>1. CASE UNCHANGED vars
  <2>1. UNCHANGED <<ring, calls, enqueued, dropped, worker, item, attempt, remaining, after,
                    cached, turn, stop, owner, leader, committed, late>>
    BY <1>1 DEF vars, ringVars, stats, workerVars, routeVars, ownerVars, cluster
  <2>2. TypeOK' /\ WorkerOK'
    BY <2>1 DEF MirrorInv, TypeOK, WorkerOK, InItem
  <2> QED  BY <2>1, <2>2, NothingMoves
<1>2. CASE Oversize \/ Push
  BY <1>2, OversizeKeeps, PushKeeps
<1>3. CASE WorkerLoop
  BY <1>3, WaitKeeps, TakeKeeps, FlushKeeps, DrainKeeps DEF WorkerLoop
<1>4. CASE ProcessItem
  BY <1>4, WaitKeeps, ProcessItemKeeps
<1>5. CASE RequestStop \/ NotifyAll \/ Join
  BY <1>5, OwnerKeeps
<1>6. ASSUME NEW node \in Nodes \union {None}, Elect(node) PROVE MirrorInv'
  BY <1>6, ElectKeeps
<1>7. ASSUME NEW p \in 1..MaxCalls, CommitLate(p) PROVE MirrorInv'
  BY <1>7, CommitLateKeeps DEF Payloads
<1> QED  BY <1>1, <1>2, <1>3, <1>4, <1>5, <1>6, <1>7 DEF Next

\* Every state of the mirror satisfies the inductive invariant.
THEOREM Invariance == Spec => []MirrorInv
  BY InitHolds, NextKeeps, PTL DEF Spec

\* The variables keep their types and the ring its capacity.
THEOREM Typing == Spec => []TypeOK
<1>1. MirrorInv => TypeOK
  BY DEF MirrorInv
<1> QED  BY <1>1, Invariance, PTL

\* The counters and the payloads on their way account for every call to
\* enqueue_mirror(), each once, whatever is lost, refused or repeated.
THEOREM CallsAreCounted == Spec => []EveryCallCounted
<1>1. MirrorInv => EveryCallCounted
  BY DEF MirrorInv
<1> QED  BY <1>1, Invariance, PTL

\* `enqueued_` never claims more payloads than the cluster has committed, and
\* the retries after lost replies commit none more often than its attempts.
THEOREM EnqueuedIsCommitted == Spec => []CountedIsCommitted
<1>1. MirrorInv => CountedIsCommitted
  <2> SUFFICES ASSUME MirrorInv PROVE CountedIsCommitted
    OBVIOUS
  <2>1. enqueued <= Cardinality({p \in 1..MaxCalls : committed[p] > 0})
    <3>1. PICK C : C = {p \in Payloads : committed[p] > 0}
      OBVIOUS
    <3>2. IsFiniteSet(C) /\ Settled \subseteq C
      <4>1. IsFiniteSet(Payloads)
        BY FS_Interval, MirrorAssumption DEF Payloads
      <4> QED  BY <3>1, <4>1, FS_Subset DEF Settled
    <3>3. IsFiniteSet(Settled) /\ Cardinality(Settled) <= Cardinality(C)
      BY <3>2, FS_Subset
    <3>4. PICK a, b : a = Cardinality(Settled) /\ b = Cardinality(C)
      OBVIOUS
    <3>5. a \in Nat /\ b \in Nat /\ a <= b
      BY <3>2, <3>3, <3>4, FS_CardinalityType
    <3>6. enqueued \in Nat /\ enqueued <= a
      BY <3>4 DEF MirrorInv, SettledOK, TypeOK
    <3>7. enqueued <= b
      BY <3>5, <3>6
    <3> QED  BY <3>1, <3>4, <3>7 DEF Payloads
  <2>2. ASSUME NEW p \in 1..MaxCalls PROVE committed[p] <= MaxAttempts
    <3>1. p \in Payloads
      BY DEF Payloads
    <3>2. committed[p] \in Nat /\ late[p] \in Nat /\ MaxAttempts \in Nat
      BY MirrorAssumption DEF MirrorInv, TypeOK
    <3>3. Sent(p) \in Nat /\ Sent(p) <= MaxAttempts
      BY <3>1, SentBound
    <3>4. committed[p] + late[p] <= Sent(p)
      BY <3>1 DEF MirrorInv, SentOK
    <3> QED  BY <3>2, <3>3, <3>4
  <2> QED  BY <2>1, <2>2 DEF CountedIsCommitted
<1> QED  BY <1>1, Invariance, PTL

\* The worker exits with the ring and the payloads it took from it empty.
THEOREM ExitLeavesNothing == Spec => []NothingLeftBehind
<1>1. MirrorInv => NothingLeftBehind
  BY DEF MirrorInv, WorkerOK, NothingLeftBehind
<1> QED  BY <1>1, Invariance, PTL
=============================================================================
