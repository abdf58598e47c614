------------------------- MODULE QueuedBackendProofs -------------------------
(***************************************************************************)
(* What holds of QueuedBackend for any RPC threads, any finite set of jobs *)
(* of the shared queue, any slots, depth and token limit: no promise is    *)
(* lost or held twice, the slots and the queue keep their bounds, and the  *)
(* exit of the owner thread leaves nobody waiting.                         *)
(***************************************************************************)
EXTENDS QueuedBackend, FiniteSetTheorems, FunctionTheorems, SequenceTheorems, TLAPS

(***************************************************************************)
(* The inductive invariant.  Where the owner thread is says which of its   *)
(* own jobs it may hold: take_jobs() returns them to be admitted before    *)
(* the loop goes on, and the two steps of the shutdown leave none.         *)
(***************************************************************************)
Places == {"off", "loop", "wait", "parked", "drain", "fill", "tick",
           "drain again", "fill again", "admit", "decode", "shutdown",
           "drain and fail", "exited"}

PlaceOK ==
    /\ pc \in Places
    /\ pc \notin {"fill", "fill again", "admit"} => taken = {}
    /\ pc \in {"drain and fail", "exited"} => Batch = {}
    /\ pc = "exited" => shuttingDown = TRUE /\ queue = <<>>

SlotsOK ==
    /\ IsFiniteSet(Batch) /\ IsFiniteSet(taken)
    /\ SlotsBounded

BackendInv == TypeOK /\ PlaceOK /\ SlotsOK /\ OneHome

(***************************************************************************)
(* What take_jobs() drains from the front of the queue and what it leaves. *)
(***************************************************************************)
LEMMA Split ==
    ASSUME NEW S, NEW s \in Seq(S), IsInjective(s), NEW n \in 0..Len(s)
    PROVE  /\ SubSeq(s, n + 1, Len(s)) \in Seq(S)
           /\ Len(SubSeq(s, n + 1, Len(s))) = Len(s) - n
           /\ IsInjective(SubSeq(s, n + 1, Len(s)))
           /\ ToSet(SubSeq(s, 1, n)) \union ToSet(SubSeq(s, n + 1, Len(s))) = ToSet(s)
           /\ ToSet(SubSeq(s, 1, n)) \intersect ToSet(SubSeq(s, n + 1, Len(s))) = {}
           /\ ToSet(s) \subseteq S
           /\ IsFiniteSet(ToSet(SubSeq(s, 1, n)))
           /\ Cardinality(ToSet(SubSeq(s, 1, n))) <= n
<1>1. PICK m, front, back :
         m = Len(s) /\ front = SubSeq(s, 1, n) /\ back = SubSeq(s, n + 1, Len(s))
  OBVIOUS
<1>2. s \in [1..m -> S] /\ m \in Nat /\ n \in Nat /\ n \in 0..m
  BY <1>1, LenProperties
<1>3. /\ front \in Seq(S) /\ Len(front) = n
      /\ \A i \in 1..n : front[i] = s[i]
  BY <1>1, <1>2, SubSeqProperties, \A i \in 1..n : s[i] \in S
<1>4. /\ back \in Seq(S) /\ Len(back) = m - n
      /\ \A i \in 1..(m - n) : back[i] = s[n + i]
  BY <1>1, <1>2, SubSeqProperties, \A i \in (n + 1)..m : s[i] \in S
<1>5. front \in [1..n -> S] /\ back \in [1..(m - n) -> S]
  BY <1>2, <1>3, <1>4, LenProperties
<1>6. \A i, j \in 1..m : s[i] = s[j] => i = j
  BY <1>2 DEF IsInjective
<1>7. /\ ToSet(s) = {s[i] : i \in 1..m}
      /\ ToSet(front) = {s[i] : i \in 1..n}
      /\ ToSet(back) = {s[n + i] : i \in 1..(m - n)}
  <2>1. DOMAIN s = 1..m /\ DOMAIN front = 1..n /\ DOMAIN back = 1..(m - n)
    BY <1>2, <1>5
  <2>2. ToSet(s) = {s[i] : i \in 1..m} /\ ToSet(front) = {front[i] : i \in 1..n}
        /\ ToSet(back) = {back[i] : i \in 1..(m - n)}
    BY <2>1 DEF ToSet
  <2>3. ToSet(front) = {s[i] : i \in 1..n}
    BY <2>2, <1>3
  <2>4. ToSet(back) = {s[n + i] : i \in 1..(m - n)}
    <3>1. {back[i] : i \in 1..(m - n)} = {s[n + i] : i \in 1..(m - n)}
      BY <1>4
    <3> QED  BY <2>2, <3>1
  <2> QED  BY <2>2, <2>3, <2>4
<1>8. IsInjective(back)
  <2> SUFFICES ASSUME NEW i \in 1..(m - n), NEW j \in 1..(m - n), back[i] = back[j]
               PROVE  i = j
    BY <1>5 DEF IsInjective
  <2>1. n + i \in 1..m /\ n + j \in 1..m
    BY <1>2
  <2>2. n + i = n + j
    BY <1>4, <1>6, <2>1
  <2> QED  BY <1>2, <2>2
<1>9. ToSet(front) \union ToSet(back) = ToSet(s)
  <2>1. \A i \in 1..n : i \in 1..m
    BY <1>2
  <2>2. \A i \in 1..(m - n) : n + i \in 1..m
    BY <1>2
  <2>3. ASSUME NEW i \in 1..m, ~(i \in 1..n) PROVE s[i] \in ToSet(back)
    <3>1. i - n \in 1..(m - n) /\ i = n + (i - n)
      BY <1>2, <2>3
    <3> QED  BY <3>1, <1>7
  <2> QED  BY <2>1, <2>2, <2>3, <1>7
<1>10. ToSet(front) \intersect ToSet(back) = {}
  <2> SUFFICES ASSUME NEW i \in 1..n, NEW j \in 1..(m - n), s[i] = s[n + j]
               PROVE  FALSE
    BY <1>7
  <2>1. i \in 1..m /\ n + j \in 1..m /\ i # n + j
    BY <1>2
  <2> QED  BY <2>1, <1>6
<1>11. IsFiniteSet(ToSet(front)) /\ Cardinality(ToSet(front)) <= n
  <2>1. front \in Surjection(1..n, ToSet(front))
    BY <1>5, Fun_RangeProperties DEF Surjection, ToSet
  <2>2. IsFiniteSet(1..n) /\ Cardinality(1..n) = n
    BY <1>2, FS_Interval
  <2> QED  BY <2>1, <2>2, FS_Surjection
<1>12. ToSet(s) \subseteq S
  BY <1>2, <1>7
<1> QED  BY <1>1, <1>4, <1>8, <1>9, <1>10, <1>11, <1>12
-----------------------------------------------------------------------------
LEMMA EmptyQueue ==
    /\ DOMAIN <<>> = {} /\ <<>> \in Seq(Callers) /\ Len(<<>>) = 0
    /\ ToSet(<<>>) = {} /\ IsInjective(<<>>)
  BY EmptySeq DEF ToSet, IsInjective

LEMMA InitHolds == Init => BackendInv
<1> SUFFICES ASSUME Init PROVE BackendInv
  OBVIOUS
<1>1. Batch = {}
  BY DEF Init, Batch
<1>2. queue \in Seq(Callers) /\ Len(queue) = 0 /\ ToSet(queue) = {} /\ IsInjective(queue)
  BY EmptySeq DEF Init, ToSet, IsInjective
<1>3. Cardinality({}) = 0 /\ IsFiniteSet({})
  BY FS_EmptySet
<1>4. TypeOK
  BY <1>1, <1>2 DEF Init, TypeOK, Outcome
<1>5. PlaceOK
  BY <1>1 DEF Init, PlaceOK, Places
<1>6. SlotsOK
  BY <1>1, <1>2, <1>3, BackendAssumption DEF Init, SlotsOK, SlotsBounded
<1>7. OneHome
  BY <1>1, <1>2 DEF Init, OneHome
<1> QED  BY <1>4, <1>5, <1>6, <1>7 DEF BackendInv

(***************************************************************************)
(* The RPC threads.                                                        *)
(***************************************************************************)
LEMMA SubmitKeeps ==
    ASSUME BackendInv, NEW c \in Callers, Submit(c)
    PROVE  BackendInv'
<1> USE DEF BackendInv
<1>1. CASE SubmitRefused(c) \/ SubmitReturn(c)
  <2>1. outcome' \in [Jobs -> Outcome] /\ outcome[c] # "waiting" /\ outcome'[c] # "waiting"
        /\ \A j \in Jobs : j # c => outcome'[j] = outcome[j]
    BY <1>1 DEF SubmitRefused, SubmitReturn, Fulfil, TypeOK, Outcome, Fulfilled, Jobs
  <2>2. UNCHANGED <<queue, taken, active, pc, source, stop, shuttingDown, unnotified>>
    BY <1>1 DEF SubmitRefused, SubmitReturn
  <2>3. Batch' = Batch
    BY <2>2 DEF Batch
  <2>4. {j \in Jobs : outcome'[j] = "waiting"} = {j \in Jobs : outcome[j] = "waiting"}
    BY <2>1
  <2>5. TypeOK'
    BY <2>1, <2>2, <2>3 DEF TypeOK
  <2>6. PlaceOK' /\ SlotsOK'
    BY <2>2, <2>3 DEF PlaceOK, SlotsOK, SlotsBounded
  <2>7. OneHome'
    BY <2>2, <2>3, <2>4 DEF OneHome
  <2> QED  BY <2>5, <2>6, <2>7
<1>2. CASE SubmitPush(c)
  <2>1. /\ queue' \in Seq(Callers) /\ Len(queue') = Len(queue) + 1
        /\ \A i \in 1..Len(queue) : queue'[i] = queue[i]
        /\ queue'[Len(queue) + 1] = c
    BY <1>2, AppendProperties DEF SubmitPush, TypeOK
  <2>2. /\ Len(queue) \in Nat /\ DOMAIN queue = 1..Len(queue)
        /\ DOMAIN queue' = 1..(Len(queue) + 1)
    BY <2>1, LenProperties DEF TypeOK
  <2>3. outcome' = [j \in Jobs |-> IF j = c THEN "waiting" ELSE outcome[j]]
    BY <1>2 DEF SubmitPush, Fulfil
  <2>4. ToSet(queue') = ToSet(queue) \union {c}
    BY <2>1, <2>2 DEF ToSet
  <2>5. c \in Jobs /\ outcome[c] = "none"
    BY <1>2 DEF SubmitPush, Jobs
  <2>6. c \notin ToSet(queue) \union taken \union Batch
    BY <2>5 DEF OneHome
  <2>7. IsInjective(queue')
    <3>1. \A i \in 1..Len(queue) : queue[i] # c
      BY <2>2, <2>6 DEF ToSet
    <3> QED  BY <3>1, <2>1, <2>2 DEF IsInjective, OneHome
  <2>8. UNCHANGED <<taken, active, pc, source, stop, shuttingDown>> /\ Batch' = Batch
    BY <1>2 DEF SubmitPush, Batch
  <2>9. TypeOK'
    BY <1>2, <2>1, <2>3, <2>8 DEF TypeOK, SubmitPush, Outcome
  <2>10. PlaceOK'
    BY <1>2, <2>8 DEF PlaceOK, SubmitPush
  <2>11. SlotsOK'
    BY <1>2, <2>1, <2>2, <2>8, BackendAssumption DEF SlotsOK, SlotsBounded, SubmitPush
  <2>12. {j \in Jobs : outcome'[j] = "waiting"} = {j \in Jobs : outcome[j] = "waiting"} \union {c}
    BY <2>3, <2>5
  <2>13. OneHome'
    BY <2>4, <2>6, <2>7, <2>8, <2>12 DEF OneHome
  <2> QED  BY <2>9, <2>10, <2>11, <2>13
<1>3. CASE SubmitNotify(c)
  <2>1. UNCHANGED <<queue, shuttingDown, source, outcome, stop, taken, active>> /\ Batch' = Batch
    BY <1>3 DEF SubmitNotify, Batch
  <2>2. PlaceOK'
    BY <1>3, <2>1 DEF PlaceOK, Places, SubmitNotify
  <2> QED  BY <1>3, <2>1, <2>2 DEF TypeOK, SlotsOK, SlotsBounded, OneHome, SubmitNotify
<1> QED  BY <1>1, <1>2, <1>3 DEF Submit
(***************************************************************************)
(* The worker that owns the backend, and the other replicas.               *)
(***************************************************************************)
LEMMA WorkerKeeps ==
    ASSUME BackendInv, Configure \/ Start \/ RequestStop
    PROVE  BackendInv'
<1>1. /\ UNCHANGED <<queue, shuttingDown, outcome, unnotified, taken, active>>
      /\ Batch' = Batch
  BY DEF Configure, SetLeaseSource, Start, RequestStop, Batch
<1>2. /\ pc' \in Places
      /\ pc' \in {"fill", "fill again", "admit", "drain and fail", "exited"} => pc' = pc
      /\ pc' \notin {"fill", "fill again", "admit"} => pc \notin {"fill", "fill again", "admit"}
  BY DEF BackendInv, PlaceOK, Places, Configure, SetLeaseSource, Start, RequestStop
<1>3. PlaceOK'
  BY <1>1, <1>2 DEF BackendInv, PlaceOK
<1>4. {source', stop'} \subseteq BOOLEAN
  BY DEF BackendInv, TypeOK, Configure, SetLeaseSource, Start, RequestStop
<1> QED  BY <1>1, <1>3, <1>4 DEF BackendInv, TypeOK, SlotsOK, SlotsBounded, OneHome

LEMMA OfferKeeps ==
    ASSUME BackendInv, NEW j \in Remote, Offer(j)
    PROVE  BackendInv'
<1>1. /\ UNCHANGED <<queue, shuttingDown, source, unnotified, stop, pc, taken, active>>
      /\ Batch' = Batch
  BY DEF Offer, Batch
<1>2. outcome' = [i \in Jobs |-> IF i = j THEN "offered" ELSE outcome[i]] /\ outcome[j] = "none"
  BY DEF Offer, Fulfil
<1>3. outcome' \in [Jobs -> Outcome]
  BY <1>2 DEF BackendInv, TypeOK, Outcome
<1>4. {i \in Jobs : outcome'[i] = "waiting"} = {i \in Jobs : outcome[i] = "waiting"}
  BY <1>2
<1> QED  BY <1>1, <1>3, <1>4 DEF BackendInv, TypeOK, PlaceOK, SlotsOK, SlotsBounded, OneHome

(***************************************************************************)
(* The owner thread.  Its free slots are never negative.                   *)
(***************************************************************************)
LEMMA WantType ==
    ASSUME BackendInv
    PROVE  /\ Want \in Nat /\ MaxConcurrent \in Nat
           /\ Cardinality(Batch) \in Nat /\ Cardinality(taken) \in Nat
           /\ Want = MaxConcurrent - Cardinality(Batch) - Cardinality(taken)
<1>1. Cardinality(Batch) \in Nat
  BY FS_CardinalityType DEF BackendInv, SlotsOK
<1>2. Cardinality(taken) \in Nat
  BY FS_CardinalityType DEF BackendInv, SlotsOK
<1>3. Cardinality(Batch) + Cardinality(taken) <= MaxConcurrent
  BY DEF BackendInv, SlotsOK, SlotsBounded
<1> QED  BY <1>1, <1>2, <1>3, BackendAssumption DEF Want

LEMMA SlotsFit ==
    ASSUME NEW cb \in Nat, NEW ct \in Nat, NEW cf \in Nat, NEW n \in Nat,
           NEW slots \in Nat, cf <= n, n <= slots - cb - ct
    PROVE  cb + (ct + cf) <= slots
  OBVIOUS

LEMMA Least ==
    ASSUME NEW w \in Nat, NEW l \in Nat, NEW k, k = IF w < l THEN w ELSE l
    PROVE  k \in Nat /\ k \in 0..l /\ k <= w
  OBVIOUS

LEMMA Shorter ==
    ASSUME NEW l \in Nat, NEW n \in Nat, NEW depth \in Nat, l <= depth
    PROVE  l - n <= depth
  OBVIOUS

LEMMA DisjointUnion ==
    ASSUME NEW A, NEW B, IsFiniteSet(A), IsFiniteSet(B), A \intersect B = {}
    PROVE  /\ IsFiniteSet(A \union B)
           /\ Cardinality(A \union B) = Cardinality(A) + Cardinality(B)
<1>1. /\ IsFiniteSet(A \union B)
      /\ Cardinality(A \union B)
           = Cardinality(A) + Cardinality(B) - Cardinality(A \intersect B)
  BY FS_Union
<1>2. Cardinality(A) \in Nat /\ Cardinality(B) \in Nat
  BY FS_CardinalityType
<1>3. Cardinality(A \intersect B) = 0
  BY FS_EmptySet
<1> QED  BY <1>1, <1>2, <1>3

LEMMA DrainKeeps ==
    ASSUME BackendInv, NEW there \in {"admit", "fill", "fill again"}, Drain(there),
           pc # "exited",
           UNCHANGED <<shuttingDown, source, unnotified, stop, outcome, active>>
    PROVE  BackendInv'
<1> USE DEF BackendInv
<1>1. PICK m, n : m = Len(queue) /\ n = IF Want < m THEN Want ELSE m
  OBVIOUS
<1>2. m \in Nat
  BY <1>1, LenProperties DEF TypeOK
<1>3. n \in Nat /\ n \in 0..m /\ n <= Want
  <2>1. Want \in Nat
    BY WantType
  <2>2. n = IF Want < m THEN Want ELSE m
    BY <1>1
  <2> QED  BY ONLY <2>1, <2>2, <1>2, Least, Zenon
<1>4. PICK front, back :
         /\ front = ToSet(SubSeq(queue, 1, n)) /\ back = SubSeq(queue, n + 1, Len(queue))
  OBVIOUS
<1>5. taken' = taken \union front /\ queue' = back /\ pc' = there
  BY <1>1, <1>4 DEF Drain
<1>6. /\ back \in Seq(Callers) /\ Len(back) = m - n
      /\ IsInjective(back)
      /\ front \union ToSet(back) = ToSet(queue)
      /\ front \intersect ToSet(back) = {}
      /\ ToSet(queue) \subseteq Callers
      /\ IsFiniteSet(front) /\ Cardinality(front) <= n
  <2>1. queue \in Seq(Callers) /\ IsInjective(queue)
    BY DEF TypeOK, OneHome
  <2>2. n \in 0..Len(queue)
    BY <1>1, <1>3
  <2>3. /\ SubSeq(queue, n + 1, Len(queue)) \in Seq(Callers)
        /\ Len(SubSeq(queue, n + 1, Len(queue))) = Len(queue) - n
        /\ IsInjective(SubSeq(queue, n + 1, Len(queue)))
        /\ ToSet(SubSeq(queue, 1, n)) \union ToSet(SubSeq(queue, n + 1, Len(queue)))
             = ToSet(queue)
        /\ ToSet(SubSeq(queue, 1, n)) \intersect ToSet(SubSeq(queue, n + 1, Len(queue)))
             = {}
        /\ ToSet(queue) \subseteq Callers
        /\ IsFiniteSet(ToSet(SubSeq(queue, 1, n)))
        /\ Cardinality(ToSet(SubSeq(queue, 1, n))) <= n
    BY ONLY <2>1, <2>2, Split, Zenon
  <2> QED  BY <2>3, <1>1, <1>4
<1>7. Batch' = Batch
  BY DEF Batch
<1>8. TypeOK'
  BY <1>5, <1>6, <1>7 DEF TypeOK, Jobs
<1>9. PlaceOK'
  BY <1>5 DEF PlaceOK, Places
<1>10. SlotsOK'
  <2>1. front \intersect taken = {} /\ IsFiniteSet(taken)
    BY <1>6 DEF OneHome, SlotsOK
  <2>2. Cardinality(front) \in Nat /\ IsFiniteSet(front)
    BY <1>6, FS_CardinalityType
  <2>3. /\ IsFiniteSet(taken \union front)
        /\ Cardinality(taken \union front) = Cardinality(taken) + Cardinality(front)
    BY <2>1, <2>2, DisjointUnion
  <2>4. Cardinality(Batch) + Cardinality(taken \union front) <= MaxConcurrent
    <3>1. PICK cb, ct, cf :
            cb = Cardinality(Batch) /\ ct = Cardinality(taken) /\ cf = Cardinality(front)
      OBVIOUS
    <3>2. cb \in Nat /\ ct \in Nat /\ cf \in Nat /\ MaxConcurrent \in Nat
          /\ Want = MaxConcurrent - cb - ct
      BY <3>1, <2>2, WantType
    <3>3. cf <= n /\ n <= Want
      BY <3>1, <1>6, <1>3
    <3>4. n \in Nat /\ n <= MaxConcurrent - cb - ct
      BY <3>2, <3>3, <1>3
    <3>5. cb + (ct + cf) <= MaxConcurrent
      BY ONLY <3>2, <3>3, <3>4, SlotsFit, Zenon
    <3> QED  BY <3>1, <3>5, <2>3
  <2>5. Len(back) <= MaxDepth
    <3>1. m <= MaxDepth /\ MaxDepth \in Nat
      BY <1>1, BackendAssumption DEF SlotsOK, SlotsBounded
    <3>2. Len(back) = m - n
      BY <1>6
    <3>3. m - n <= MaxDepth
      BY ONLY <3>1, <1>2, <1>3, Shorter, Zenon
    <3> QED  BY ONLY <3>2, <3>3
  <2> QED  BY <1>5, <1>7, <2>3, <2>4, <2>5 DEF SlotsOK, SlotsBounded
<1>11. OneHome'
  BY <1>5, <1>6, <1>7 DEF OneHome
<1> QED  BY <1>8, <1>9, <1>10, <1>11

LEMMA WaitKeeps ==
    ASSUME BackendInv, Loop \/ TimedWait \/ WaitLocal
    PROVE  BackendInv'
<1>1. UNCHANGED <<shuttingDown, source, unnotified, stop, outcome, active>> /\ Batch' = Batch
  BY DEF Loop, TimedWait, WaitLocal, Owner, Batch
<1>2. CASE /\ UNCHANGED <<queue, taken>> /\ pc \in {"loop", "tick", "wait"}
           /\ pc' \in {"shutdown", "decode", "drain", "wait", "drain again", "parked"}
  <2>1. PlaceOK'
    BY <1>1, <1>2 DEF BackendInv, PlaceOK, Places
  <2> QED  BY <1>1, <1>2, <2>1 DEF BackendInv, TypeOK, SlotsOK, SlotsBounded, OneHome
<1>3. CASE pc # "exited" /\ Drain("admit")
  BY <1>1, <1>3, DrainKeeps
<1> QED  BY <1>2, <1>3 DEF Loop, TimedWait, WaitLocal, Owner

LEMMA DrainLocalKeeps ==
    ASSUME BackendInv,
           DrainLocal("drain", "fill") \/ DrainLocal("drain again", "fill again")
    PROVE  BackendInv'
<1>1. UNCHANGED <<shuttingDown, source, unnotified, stop, outcome, active>>
  BY DEF DrainLocal, Owner
<1>2. CASE pc # "exited" /\ Drain("fill")
  BY <1>1, <1>2, DrainKeeps
<1>3. CASE pc # "exited" /\ Drain("fill again")
  BY <1>1, <1>3, DrainKeeps
<1> QED  BY <1>2, <1>3 DEF DrainLocal, Owner

(***************************************************************************)
(* Which promises are unfulfilled after a step fulfils some.               *)
(***************************************************************************)
LEMMA Fulfilling ==
    ASSUME TypeOK, NEW jobs, NEW result \in Fulfilled, Fulfil(jobs, result)
    PROVE  /\ outcome' \in [Jobs -> Outcome]
           /\ {j \in Jobs : outcome'[j] = "waiting"}
                = {j \in Jobs : outcome[j] = "waiting"} \ jobs
  BY DEF TypeOK, Fulfil, Fulfilled, Outcome

LEMMA FillKeeps ==
    ASSUME BackendInv, Fill("fill", "tick") \/ Fill("fill again", "admit")
    PROVE  BackendInv'
<1> USE DEF BackendInv
<1>1. /\ UNCHANGED <<shuttingDown, source, unnotified, stop, queue, active>>
      /\ Batch' = Batch
  BY DEF Fill, Owner, Batch
<1>2. PICK leased \in SUBSET Offered :
         /\ Cardinality(leased) <= Want
         /\ taken' = taken \union leased
         /\ Fulfil(leased, "waiting")
  BY DEF Fill
<1>3. /\ pc' \in {"tick", "admit"}
      /\ pc' = "tick" => taken' = {}
  BY DEF Fill
<1>4. IsFiniteSet(leased) /\ leased \subseteq Jobs
      /\ \A j \in leased : outcome[j] = "offered"
  BY FS_Subset, BackendAssumption DEF Offered, Jobs
<1>5. outcome' = [j \in Jobs |-> IF j \in leased THEN "waiting" ELSE outcome[j]]
  BY <1>2 DEF Fulfil
<1>6. leased \intersect (ToSet(queue) \union taken \union Batch) = {}
  BY <1>4 DEF OneHome
<1>7. TypeOK'
  BY <1>1, <1>2, <1>4, <1>5 DEF TypeOK, Outcome
<1>8. PlaceOK'
  BY <1>1, <1>3 DEF PlaceOK, Places
<1>9. SlotsOK'
  <2>1. /\ IsFiniteSet(taken \union leased)
        /\ Cardinality(taken \union leased) = Cardinality(taken) + Cardinality(leased)
    BY <1>4, <1>6, DisjointUnion DEF SlotsOK
  <2>2. Cardinality(leased) \in Nat
    BY <1>4, FS_CardinalityType
  <2>3. PICK cb, ct, cl : /\ cb = Cardinality(Batch) /\ ct = Cardinality(taken)
                          /\ cl = Cardinality(leased)
    OBVIOUS
  <2>4. cb \in Nat /\ ct \in Nat /\ cl \in Nat /\ MaxConcurrent \in Nat
        /\ Want \in Nat /\ Want = MaxConcurrent - cb - ct /\ cl <= Want
    BY <2>2, <2>3, <1>2, WantType
  <2>5. cl <= MaxConcurrent - cb - ct /\ cl <= cl
    BY ONLY <2>4
  <2>6. cb + (ct + cl) <= MaxConcurrent
    BY ONLY <2>4, <2>5, SlotsFit, Zenon
  <2> QED  BY <1>1, <1>2, <2>1, <2>3, <2>6 DEF SlotsOK, SlotsBounded
<1>10. {j \in Jobs : outcome'[j] = "waiting"}
        = {j \in Jobs : outcome[j] = "waiting"} \union leased
  BY <1>4, <1>5
<1>11. OneHome'
  BY <1>1, <1>2, <1>6, <1>10 DEF OneHome
<1> QED  BY <1>7, <1>8, <1>9, <1>11

LEMMA AdmitKeeps ==
    ASSUME BackendInv, Admit
    PROVE  BackendInv'
<1> USE DEF BackendInv
<1>1. /\ UNCHANGED <<shuttingDown, source, unnotified, stop, queue>>
      /\ taken' = {} /\ pc' \in {"loop", "decode"} /\ pc = "admit"
  BY DEF Admit, Owner
<1>2. PICK refused \in SUBSET taken :
         /\ Fulfil(refused, "error")
         /\ active' = [j \in Batch \union (taken \ refused) |->
                         IF j \in Batch THEN active[j] ELSE 0]
  BY DEF Admit
<1>3. PICK kept : kept = taken \ refused
  OBVIOUS
<1>4. Batch' = Batch \union kept /\ kept \subseteq taken
  BY <1>2, <1>3 DEF Batch
<1>5. /\ outcome' \in [Jobs -> Outcome]
      /\ {j \in Jobs : outcome'[j] = "waiting"}
           = {j \in Jobs : outcome[j] = "waiting"} \ refused
  BY <1>2, Fulfilling DEF Fulfilled
<1>6. \A j \in Batch \union kept : active'[j] \in 0..MaxNewTokens
  BY <1>2, <1>3, BackendAssumption DEF TypeOK
<1>7. TypeOK'
  BY <1>1, <1>4, <1>5, <1>6 DEF TypeOK
<1>8. PlaceOK'
  BY <1>1 DEF PlaceOK, Places
<1>9. SlotsOK'
  <2>1. IsFiniteSet(kept) /\ Cardinality(kept) <= Cardinality(taken)
    BY <1>4, FS_Subset DEF SlotsOK
  <2>2. Batch \intersect kept = {}
    BY <1>4 DEF OneHome
  <2>3. /\ IsFiniteSet(Batch \union kept)
        /\ Cardinality(Batch \union kept) = Cardinality(Batch) + Cardinality(kept)
    BY <2>1, <2>2, DisjointUnion DEF SlotsOK
  <2>4. Cardinality(kept) \in Nat /\ IsFiniteSet({}) /\ Cardinality({}) = 0
    BY <2>1, FS_CardinalityType, FS_EmptySet
  <2>5. PICK cb, ct, ck : /\ cb = Cardinality(Batch) /\ ct = Cardinality(taken)
                          /\ ck = Cardinality(kept)
    OBVIOUS
  <2>6. cb \in Nat /\ ct \in Nat /\ ck \in Nat /\ ck <= ct /\ MaxConcurrent \in Nat
        /\ cb + ct <= MaxConcurrent
    BY <2>1, <2>4, <2>5, WantType DEF SlotsOK, SlotsBounded
  <2>7. (cb + ck) + 0 <= MaxConcurrent
    BY ONLY <2>6
  <2> QED  BY <1>1, <1>4, <2>3, <2>4, <2>5, <2>7 DEF SlotsOK, SlotsBounded
<1>10. OneHome'
  BY <1>1, <1>3, <1>4, <1>5 DEF OneHome
<1> QED  BY <1>7, <1>8, <1>9, <1>10

(***************************************************************************)
(* A step that ends some of the batch and takes in nothing.                *)
(***************************************************************************)
LEMMA EndingKeeps ==
    ASSUME BackendInv, NEW ended \in SUBSET Batch, NEW result \in Fulfilled,
           Fulfil(ended, result),
           Batch' = Batch \ ended,
           \A j \in Batch' : active'[j] \in 0..MaxNewTokens,
           UNCHANGED <<queue, taken, shuttingDown, source, unnotified, stop>>,
           PlaceOK'
    PROVE  BackendInv'
<1> USE DEF BackendInv
<1>1. /\ outcome' \in [Jobs -> Outcome]
      /\ {j \in Jobs : outcome'[j] = "waiting"}
           = {j \in Jobs : outcome[j] = "waiting"} \ ended
  BY Fulfilling
<1>2. TypeOK'
  BY <1>1 DEF TypeOK
<1>3. SlotsOK'
  <2>1. IsFiniteSet(Batch') /\ Cardinality(Batch') <= Cardinality(Batch)
    BY FS_Subset DEF SlotsOK
  <2>2. Cardinality(Batch') \in Nat
    BY <2>1, FS_CardinalityType
  <2>3. PICK cb, ct, ck : /\ cb = Cardinality(Batch) /\ ct = Cardinality(taken)
                          /\ ck = Cardinality(Batch')
    OBVIOUS
  <2>4. cb \in Nat /\ ct \in Nat /\ ck \in Nat /\ ck <= cb /\ MaxConcurrent \in Nat
        /\ cb + ct <= MaxConcurrent
    BY <2>1, <2>2, <2>3, WantType DEF SlotsOK, SlotsBounded
  <2>5. ck + ct <= MaxConcurrent
    BY ONLY <2>4
  <2> QED  BY <2>1, <2>3, <2>5 DEF SlotsOK, SlotsBounded
<1>4. OneHome'
  BY <1>1 DEF OneHome
<1> QED  BY <1>2, <1>3, <1>4

LEMMA DecodeKeeps ==
    ASSUME BackendInv, DecodeStep \/ DecodeFailed \/ FailActive
    PROVE  BackendInv'
<1>0. active' = <<>> => Batch' = {}
  BY EmptyQueue DEF Batch
<1>1. /\ UNCHANGED <<queue, taken, shuttingDown, source, unnotified, stop>>
      /\ pc \in {"decode", "shutdown"} /\ pc' \in {"loop", "drain and fail"}
      /\ pc' = "drain and fail" => Batch' = {}
  BY <1>0 DEF DecodeStep, DecodeFailed, FailActive, Owner
<1>2. PlaceOK'
  BY <1>1 DEF BackendInv, PlaceOK, Places
<1>3. CASE DecodeStep
  <2>1. PICK ended \in SUBSET Batch, result \in Fulfilled :
           /\ \A j \in Batch : active[j] + 1 >= MaxNewTokens => j \in ended
           /\ Fulfil(ended, result)
           /\ active' = [j \in Batch \ ended |-> active[j] + 1]
    BY <1>3 DEF DecodeStep
  <2>2. Batch' = Batch \ ended
    BY <2>1 DEF Batch
  <2>3. ASSUME NEW j \in Batch' PROVE active'[j] \in 0..MaxNewTokens
    <3>1. j \in Batch \ ended
      BY <2>2
    <3>2. active[j] \in 0..MaxNewTokens /\ MaxNewTokens \in Nat
      BY <3>1, BackendAssumption DEF BackendInv, TypeOK
    <3> QED  BY <3>1, <3>2, <2>1
  <2> QED  BY <1>1, <1>2, <2>1, <2>2, <2>3, EndingKeeps
<1>4. CASE DecodeFailed \/ FailActive
  <2>1. Fulfil(Batch, "error") /\ Batch' = {}
    BY <1>0, <1>4 DEF DecodeFailed, FailActive
  <2>2. Batch \in SUBSET Batch /\ Batch' = Batch \ Batch /\ "error" \in Fulfilled
        /\ \A j \in Batch' : active'[j] \in 0..MaxNewTokens
    BY <2>1 DEF Fulfilled
  <2> QED  BY <1>1, <1>2, <2>1, <2>2, EndingKeeps
<1> QED  BY <1>3, <1>4

LEMMA DrainAndFailKeeps ==
    ASSUME BackendInv, DrainAndFail
    PROVE  BackendInv'
<1> USE DEF BackendInv
<1>1. /\ UNCHANGED <<source, unnotified, stop, taken, active>> /\ Batch' = Batch
      /\ shuttingDown' = TRUE /\ queue' = <<>> /\ pc' = "exited" /\ pc = "drain and fail"
  BY DEF DrainAndFail, Batch
<1>2. /\ outcome' \in [Jobs -> Outcome]
      /\ {j \in Jobs : outcome'[j] = "waiting"}
           = {j \in Jobs : outcome[j] = "waiting"} \ ToSet(queue)
  BY Fulfilling DEF DrainAndFail, Fulfilled
<1>3. taken = {} /\ Batch = {}
  BY <1>1 DEF PlaceOK
<1>4. queue' \in Seq(Callers) /\ Len(queue') = 0 /\ ToSet(queue') = {} /\ IsInjective(queue')
  BY ONLY <1>1, EmptyQueue
<1>5. TypeOK' /\ PlaceOK'
  BY <1>1, <1>2, <1>3, <1>4 DEF TypeOK, PlaceOK, Places
<1>6. SlotsOK'
  <2>1. 0 <= MaxDepth
    BY BackendAssumption
  <2> QED  BY <1>1, <1>4, <2>1 DEF SlotsOK, SlotsBounded
<1>7. OneHome'
  BY <1>1, <1>2, <1>3, <1>4 DEF OneHome
<1> QED  BY <1>5, <1>6, <1>7
-----------------------------------------------------------------------------
LEMMA NextKeeps == BackendInv /\ [Next]_vars => BackendInv'
<1> SUFFICES ASSUME BackendInv, [Next]_vars PROVE BackendInv'
  OBVIOUS
<1>1. CASE UNCHANGED vars
  BY <1>1 DEF vars, BackendInv, TypeOK, PlaceOK, SlotsOK, SlotsBounded, OneHome, Batch
<1>2. ASSUME NEW c \in Callers, Submit(c) PROVE BackendInv'
  BY <1>2, SubmitKeeps
<1>3. ASSUME NEW j \in Remote, Offer(j) PROVE BackendInv'
  BY <1>3, OfferKeeps
<1>4. CASE Configure \/ Start \/ RequestStop
  BY <1>4, WorkerKeeps
<1>5. CASE Run
  BY <1>5, WaitKeeps, DrainLocalKeeps, FillKeeps, AdmitKeeps, DecodeKeeps,
     DrainAndFailKeeps DEF Run, TakeJobs
<1> QED  BY <1>1, <1>2, <1>3, <1>4, <1>5 DEF Next

\* Every state of the decoder backend satisfies the inductive invariant.
THEOREM Invariance == Spec => []BackendInv
  BY InitHolds, NextKeeps, PTL DEF Spec

\* The variables keep their types, whatever the numbers of threads, jobs,
\* slots, places in the queue and tokens.
THEOREM Typing == Spec => []TypeOK
<1>1. BackendInv => TypeOK
  BY DEF BackendInv
<1> QED  BY <1>1, Invariance, PTL

\* No promise is lost or held twice on its way from submit() or the lease
\* source through take_jobs() and admit() to the batch.
THEOREM PromisesHaveOneHome == Spec => []OneHome
<1>1. BackendInv => OneHome
  BY DEF BackendInv
<1> QED  BY <1>1, Invariance, PTL

\* Local and leased jobs together fit the slots, and the local queue its depth.
THEOREM SlotsAreBounded == Spec => []SlotsBounded
<1>1. BackendInv => SlotsBounded
  BY DEF BackendInv, SlotsOK
<1> QED  BY <1>1, Invariance, PTL

\* After the owner thread has exited no caller and no leased job is left on an
\* unfulfilled promise: drain_and_fail() empties the queue and turns later
\* callers away, and a lease can no longer be filled.
THEOREM ExitStrandsNobody == Spec => []NobodyStranded
<1>1. BackendInv => NobodyStranded
  <2> SUFFICES ASSUME BackendInv, pc = "exited", NEW j \in Jobs, outcome[j] = "waiting"
               PROVE  FALSE
    BY DEF NobodyStranded
  <2>1. queue = <<>> /\ taken = {} /\ Batch = {}
    BY DEF BackendInv, PlaceOK
  <2>2. ToSet(queue) = {}
    BY <2>1 DEF ToSet
  <2> QED  BY <2>1, <2>2 DEF BackendInv, OneHome
<1> QED  BY <1>1, Invariance, PTL
=============================================================================
