------------------------ MODULE InferenceQueueProofs ------------------------
(***************************************************************************)
(* What holds of InferenceQueue for every set of jobs and replicas and     *)
(* every bound: QueueInv is inductive, its consequences are the safety     *)
(* properties of the queue, and the queue implements JobLedger.            *)
(***************************************************************************)
EXTENDS InferenceQueue, FiniteSetTheorems, TLAPS

(***************************************************************************)
(* Rows.  Each function the sweeper and the clock apply to a row keeps     *)
(* what its state implies about its columns.                               *)
(***************************************************************************)
LEMMA RequeueOK ==
    ASSUME NEW n \in Nat, NEW rw, RowOK(rw, n), rw.state = "leased", Retryable(rw)
    PROVE  RowOK(Requeue(rw), n) /\ Requeue(rw).attempts > 0
<1>1. rw \in Row /\ "pending" \in JobState /\ 0 \in Ticks
  BY DEF RowOK, JobState, Ticks
<1>2. Requeue(rw) \in Row
  BY <1>1 DEF Row, Requeue
<1>3. /\ Requeue(rw).state = "pending"
      /\ Requeue(rw).id = rw.id /\ Requeue(rw).attempts = rw.attempts
      /\ Requeue(rw).token = rw.token /\ Requeue(rw).result = rw.result
  BY <1>1 DEF Row, Requeue
<1> QED BY <1>2, <1>3 DEF RowOK, Retryable, Row

LEMMA BuryOK ==
    ASSUME NEW n \in Nat, NEW rw, RowOK(rw, n), rw.state = "leased"
    PROVE  RowOK(Bury(rw), n) /\ Bury(rw).state = "dead"
<1>1. /\ rw \in Row /\ "dead" \in JobState
      /\ 0 \in Ticks /\ DeadTicks \in Ticks
  BY QueueAssumption DEF RowOK, JobState, Terminal, Ticks
<1>2. Bury(rw) \in Row
  BY <1>1 DEF Row, Bury
<1>3. /\ Bury(rw).state = "dead"
      /\ Bury(rw).id = rw.id /\ Bury(rw).attempts = rw.attempts
      /\ Bury(rw).token = rw.token /\ Bury(rw).result = rw.result
  BY <1>1 DEF Row, Bury
<1> QED BY <1>2, <1>3 DEF RowOK, Row

LEMMA RowTickOK ==
    ASSUME NEW n \in Nat, NEW rw, RowOK(rw, n)
    PROVE  /\ RowOK(RowTick(rw), n)
           /\ RowTick(rw).state = rw.state
           /\ RowTick(rw).attempts = rw.attempts
           /\ RowTick(rw).token = rw.token
           /\ RowTick(rw).result = rw.result
           /\ RowTick(rw).id = rw.id
<1>1. \A t \in Int : Elapse(t) \in Int
  BY DEF Elapse
<1>2. RowTick(rw) \in Row
  BY <1>1 DEF RowTick, RowOK, Row, Ticks, JobState, Terminal
<1> QED BY <1>2 DEF RowTick, RowOK, Row, JobState, Terminal

LEMMA NoRowOK ==
    ASSUME NEW n \in Nat, NEW id \in Nat
    PROVE  RowOK([NoRow EXCEPT !.id = id], n)
BY QueueAssumption DEF NoRow, RowOK, Row, JobState, Terminal, Ticks

LEMMA NewRowOK ==
    ASSUME NEW n \in Nat, NEW id \in Nat \ {0}, NEW w \in Int
    PROVE  RowOK([NoRow EXCEPT !.state = "pending", !.id = id, !.submit = w],
                 n)
<1> DEFINE new == [NoRow EXCEPT !.state = "pending", !.id = id, !.submit = w]
<1>1. /\ new.state = "pending" /\ new.id = id /\ new.attempts = 0
      /\ new.token = 0 /\ new.result = 0
  BY DEF NoRow
<1>2. new \in Row
  <2>1. NoRow \in Row
    BY DEF NoRow, Row, JobState, Ticks
  <2>2. "pending" \in JobState
    BY DEF JobState
  <2> QED BY <2>1, <2>2 DEF Row, Ticks
<1> HIDE DEF new
<1>3. RowOK(new, n)
  BY <1>1, <1>2, QueueAssumption DEF RowOK
<1> QED BY <1>3 DEF new

(***************************************************************************)
(* Tokens only grow, so what a row says of them stays true.                *)
(***************************************************************************)
LEMMA RowStaysOK ==
    ASSUME NEW n \in Nat, NEW m \in Nat, n <= m, NEW rw, RowOK(rw, n)
    PROVE  RowOK(rw, m)
BY DEF RowOK, Row

(***************************************************************************)
(* Fresh rows.  Only submit_remote() adds to them.                         *)
(***************************************************************************)
LEMMA FreshFinite ==
    ASSUME counted \subseteq Jobs
    PROVE  /\ IsFiniteSet(In("pending")) /\ IsFiniteSet(Fresh)
           /\ IsFiniteSet(counted) /\ IsFiniteSet(Fresh \union counted)
<1>1. In("pending") \subseteq Jobs /\ Fresh \subseteq Jobs
  BY DEF In, Fresh
<1> QED BY <1>1, FiniteJobs, FS_Subset, FS_Union

LEMMA FreshShrinks ==
    ASSUME counted \subseteq Jobs, FreshOK,
           (Fresh \union counted)' \subseteq Fresh \union counted
    PROVE  FreshOK'
<1>1. IsFiniteSet(Fresh \union counted)
  BY FreshFinite
<1>2. Cardinality((Fresh \union counted)') <= Cardinality(Fresh \union counted)
  BY <1>1, FS_Subset
<1>3. /\ Cardinality(Fresh \union counted) \in Nat
      /\ Cardinality((Fresh \union counted)') \in Nat
  BY <1>1, FS_Subset, FS_CardinalityType
<1> QED BY <1>2, <1>3, QueueAssumption DEF FreshOK

LEMMA FreshCounted ==
    ASSUME counted \subseteq Jobs, NEW j \in Jobs, SubmitCount(j)
    PROVE  FreshOK'
<1>1. /\ Fresh \subseteq In("pending")
      /\ (Fresh \union counted)' = (Fresh \union counted) \union {j}
  BY DEF SubmitCount, Fresh, In
<1>2. /\ IsFiniteSet(In("pending")) /\ IsFiniteSet(Fresh)
      /\ IsFiniteSet(counted) /\ IsFiniteSet(Fresh \union counted)
  BY FreshFinite
<1>3. /\ Cardinality(Fresh) <= Cardinality(In("pending"))
      /\ Cardinality(Fresh \union counted)
           <= Cardinality(Fresh) + Cardinality(counted)
      /\ Cardinality((Fresh \union counted) \union {j})
           <= Cardinality(Fresh \union counted) + 1
  <2>1. Cardinality(Fresh) <= Cardinality(In("pending"))
    BY <1>1, <1>2, FS_Subset
  <2>2. Cardinality(Fresh \union counted) =
          Cardinality(Fresh) + Cardinality(counted) - Cardinality(Fresh \intersect counted)
    BY <1>2, FS_Union
  <2>3. Cardinality(Fresh \intersect counted) \in Nat
    BY <1>2, FS_Intersection, FS_CardinalityType
  <2>4. Cardinality((Fresh \union counted) \union {j})
          \in {Cardinality(Fresh \union counted), Cardinality(Fresh \union counted) + 1}
    BY <1>2, FS_AddElement
  <2>5. /\ Cardinality(Fresh) \in Nat /\ Cardinality(counted) \in Nat
        /\ Cardinality(Fresh \union counted) \in Nat
    BY <1>2, FS_CardinalityType
  <2> QED BY <2>1, <2>2, <2>3, <2>4, <2>5
<1>4. /\ Cardinality(In("pending")) \in Nat /\ Cardinality(Fresh) \in Nat
      /\ Cardinality(counted) \in Nat /\ Cardinality(Fresh \union counted) \in Nat
      /\ Cardinality((Fresh \union counted) \union {j}) \in Nat
  BY <1>2, FS_AddElement, FS_CardinalityType
<1>5. Cardinality(In("pending")) < PendingBound /\ Cardinality(counted) < PoolSize
  BY DEF SubmitCount
<1>6. Cardinality((Fresh \union counted) \union {j}) <= PendingBound + PoolSize - 1
  BY <1>3, <1>4, <1>5, QueueAssumption
<1> QED BY <1>1, <1>6 DEF FreshOK

(***************************************************************************)
(* QueueInv is inductive.  Most steps are tame: they draw no token, insert *)
(* no row, and make no row fresh.                                          *)
(***************************************************************************)
Tame(rw, new) ==
    /\ RowOK(new, fence)
    /\ new.id = rw.id
    /\ new.state # "absent" => rw.state # "absent" /\ new.token = rw.token
    /\ new.state = "pending" /\ new.attempts = 0
         => rw.state = "pending" /\ rw.attempts = 0

LEMMA TameSame ==
    ASSUME QueueInv, NEW j \in Jobs
    PROVE  Tame(row[j], row[j])
BY DEF QueueInv, RowsOK, Tame

LEMMA TameStep ==
    ASSUME QueueInv, UNCHANGED <<nextId, fence>>,
           counted' \subseteq counted, held' \subseteq held,
           sweeper' \in Replicas \union {None}, phase' \in Phase,
           DOMAIN row' = Jobs, row' = [j \in Jobs |-> row'[j]],
           \A j \in Jobs : Tame(row[j], row'[j])
    PROVE  QueueInv'
<1>1. TypeOK'
  <2>1. \A j \in Jobs : row'[j] \in Row
    BY DEF Tame, RowOK
  <2>2. row' \in [Jobs -> Row]
    BY <2>1
  <2> QED BY <2>2 DEF QueueInv, TypeOK
<1>2. RowsOK'
  BY DEF RowsOK, Tame
<1>3. LeasesOK'
  <2>1. \A h \in held' : LeaseOK(h)'
    <3> SUFFICES ASSUME NEW h \in held'
                 PROVE  LeaseOK(h)'
      OBVIOUS
    <3>1. h \in held /\ h.job \in Jobs /\ LeaseOK(h)
      BY DEF QueueInv, TypeOK, Lease, LeasesOK
    <3>2. Tame(row[h.job], row'[h.job])
      BY <3>1
    <3> QED BY <3>1, <3>2 DEF LeaseOK, Tame
  <2> QED BY <2>1 DEF QueueInv, LeasesOK
<1>4. CountedOK'
  <2>1. \A j \in counted' : j \in Jobs /\ row'[j].id = row[j].id
    BY DEF QueueInv, TypeOK, Tame
  <2> QED BY <2>1 DEF QueueInv, CountedOK
<1>5. FreshOK'
  <2>1. Fresh' \subseteq Fresh
    BY DEF Fresh, In, Tame
  <2> QED BY <2>1, FreshShrinks DEF QueueInv, TypeOK
<1> QED BY <1>1, <1>2, <1>3, <1>4, <1>5 DEF QueueInv

\* Steps that do not touch the table.
LEMMA IdleStep ==
    ASSUME QueueInv, UNCHANGED <<row, nextId, fence>>,
           counted' \subseteq counted, held' \subseteq held,
           sweeper' \in Replicas \union {None}, phase' \in Phase
    PROVE  QueueInv'
<1>1. \A j \in Jobs : Tame(row[j], row'[j])
  BY TameSame
<1>2. DOMAIN row' = Jobs /\ row' = [j \in Jobs |-> row'[j]]
  BY DEF QueueInv, TypeOK
<1> QED BY <1>1, <1>2, TameStep

LEMMA InitInv == Init => QueueInv
<1> SUFFICES ASSUME Init PROVE QueueInv
  OBVIOUS
<1>1. \A j \in Jobs : RowOK(row[j], fence)
  <2>1. NoRow = [NoRow EXCEPT !.id = 0]
    BY DEF NoRow
  <2> QED BY <2>1, NoRowOK DEF Init
<1>2. TypeOK
  <2>1. \A j \in Jobs : row[j] \in Row
    BY <1>1 DEF RowOK
  <2> QED BY <2>1 DEF Init, TypeOK, Phase
<1>3. FreshOK
  <2>1. Fresh \union counted = {}
    BY DEF Init, Fresh, In, NoRow
  <2> QED BY <2>1, FS_EmptySet, QueueAssumption DEF FreshOK
<1> QED BY <1>1, <1>2, <1>3
        DEF Init, QueueInv, RowsOK, LeasesOK, CountedOK

LEMMA SubmitCountInv ==
    ASSUME QueueInv, NEW j \in Jobs, SubmitCount(j)
    PROVE  QueueInv'
<1>1. TypeOK' /\ RowsOK' /\ LeasesOK' /\ CountedOK'
  BY DEF QueueInv, SubmitCount, TypeOK, RowsOK, LeasesOK, LeaseOK, CountedOK
<1>2. FreshOK'
  BY FreshCounted DEF QueueInv, TypeOK
<1> QED BY <1>1, <1>2 DEF QueueInv

LEMMA SubmitInsertInv ==
    ASSUME QueueInv, NEW j \in Jobs, NEW w \in Windows, SubmitInsert(j, w)
    PROVE  QueueInv'
<1> DEFINE new == [NoRow EXCEPT !.state = "pending", !.id = nextId, !.submit = w]
<1>1. /\ row' = [row EXCEPT ![j] = new] /\ row'[j] = new
      /\ \A i \in Jobs : i # j => row'[i] = row[i]
      /\ j \in counted /\ row[j].id = 0
      /\ UNCHANGED <<fence, held, sweeper, phase>>
  BY DEF QueueInv, TypeOK, SubmitInsert, CountedOK
<1>2. /\ new.state = "pending" /\ new.id = nextId /\ nextId # 0
      /\ RowOK(new, fence)
  BY NewRowOK, QueueAssumption DEF NoRow, QueueInv, TypeOK
<1> HIDE DEF new
<1>3. RowsOK'
  BY <1>1, <1>2 DEF QueueInv, RowsOK
<1>4. TypeOK'
  <2>1. row' \in [Jobs -> Row] /\ nextId' \in Nat \ {0} /\ counted' \subseteq Jobs
    BY <1>1, <1>2 DEF QueueInv, TypeOK, SubmitInsert, RowOK
  <2> QED BY <1>1, <2>1 DEF QueueInv, TypeOK
<1>5. LeasesOK'
  <2>1. \A h \in held : h.job \in Jobs /\ h.job # j /\ row'[h.job] = row[h.job]
    BY <1>1 DEF QueueInv, TypeOK, Lease, LeasesOK, LeaseOK
  <2> QED BY <1>1, <2>1 DEF QueueInv, LeasesOK, LeaseOK
<1>6. CountedOK'
  BY <1>1 DEF QueueInv, TypeOK, SubmitInsert, CountedOK
<1>7. FreshOK'
  <2>1. (Fresh \union counted)' \subseteq Fresh \union counted
    BY <1>1 DEF Fresh, In, SubmitInsert
  <2> QED BY <2>1, FreshShrinks DEF QueueInv, TypeOK
<1> QED BY <1>3, <1>4, <1>5, <1>6, <1>7 DEF QueueInv

\* A claim draws a token newer than every other, for a row that is pending
\* and so has been tried less than MaxAttempts times.
LEMMA ClaimRow ==
    ASSUME QueueInv, NEW j \in Jobs, Claim(j)
    PROVE  /\ fence \in Nat /\ fence' = fence + 1
           /\ row' \in [Jobs -> Row]
           /\ row[j].state = "pending" /\ row[j].id # 0
           /\ row'[j].state = "leased" /\ row'[j].id = row[j].id
           /\ row'[j].token = fence'
           /\ row'[j].attempts = row[j].attempts + 1
           /\ row'[j].result = row[j].result
           /\ \A i \in Jobs : i # j => row'[i] = row[i]
           /\ \A i \in Jobs : RowOK(row'[i], fence')
<1>1. /\ row \in [Jobs -> Row] /\ fence \in Nat /\ fence' = fence + 1
      /\ row[j].state = "pending" /\ RowOK(row[j], fence)
  BY DEF QueueInv, TypeOK, RowsOK, Claim, Claimable, Eligible, In
<1> DEFINE new == [row[j] EXCEPT !.state = "leased", !.token = fence + 1,
                                 !.lease = LeaseTicks, !.attempts = @ + 1]
<1>2. /\ row' = [row EXCEPT ![j] = new]
  BY <1>1 DEF Claim
<1>3. /\ new.state = "leased" /\ new.id = row[j].id /\ new.token = fence + 1
      /\ new.attempts = row[j].attempts + 1 /\ new.result = row[j].result
  BY <1>1 DEF Row
<1>4. new \in Row
  <2>1. "leased" \in JobState /\ LeaseTicks \in Ticks /\ row[j] \in Row
    BY <1>1, QueueAssumption DEF JobState, Ticks
  <2>2. fence + 1 \in Nat /\ row[j].attempts + 1 \in Nat
    BY <1>1, <2>1 DEF Row
  <2> QED BY <2>1, <2>2 DEF Row
<1> HIDE DEF new
<1>5. RowOK(new, fence')
  BY <1>1, <1>3, <1>4, QueueAssumption DEF RowOK, Row
<1>6. \A i \in Jobs : i # j => RowOK(row[i], fence')
  BY <1>1, RowStaysOK DEF QueueInv, RowsOK
<1> QED BY <1>1, <1>2, <1>3, <1>4, <1>5, <1>6 DEF RowOK

LEMMA ClaimInv ==
    ASSUME QueueInv, NEW j \in Jobs, Claim(j),
           UNCHANGED <<nextId, counted, sweeper, phase>>,
           held' \subseteq held \union
                     {[by |-> r, job |-> j, token |-> fence'] : r \in Replicas},
           \A g, h \in held' : g.token = fence' /\ h.token = fence' => g = h
    PROVE  QueueInv'
<1>1. \A h \in held : h \in Lease /\ h.job \in Jobs /\ h.token \in Nat
  BY DEF QueueInv, TypeOK, Lease
<1>2. \A h \in held' \ held :
        /\ h \in Lease /\ h.job = j /\ h.token = fence'
  BY ClaimRow DEF Lease
<1>3. TypeOK'
  BY ClaimRow, <1>1, <1>2 DEF QueueInv, TypeOK
<1>4. RowsOK'
  BY ClaimRow DEF RowsOK
<1>5. LeasesOK'
  <2>1. ASSUME NEW h \in held', h \in held
        PROVE  LeaseOK(h)' /\ h.token < fence'
    <3>1. LeaseOK(h) /\ h.job \in Jobs /\ h.token \in Nat
      BY <1>1, <2>1 DEF QueueInv, LeasesOK
    <3>2. h.token < fence'
      BY <3>1, ClaimRow DEF LeaseOK
    <3>3. CASE h.job = j
      BY <3>1, <3>2, <3>3, ClaimRow DEF LeaseOK
    <3>4. CASE h.job # j
      BY <3>1, <3>2, <3>4, ClaimRow DEF LeaseOK
    <3> QED BY <3>2, <3>3, <3>4
  <2>2. ASSUME NEW h \in held', h \notin held
        PROVE  LeaseOK(h)' /\ h.token = fence'
    BY <1>2, <2>2, ClaimRow DEF LeaseOK
  <2>3. ASSUME NEW g \in held', NEW h \in held', g.token = h.token
        PROVE  g = h
    <3>1. CASE g \in held /\ h \in held
      BY <2>3, <3>1 DEF QueueInv, LeasesOK
    <3>2. CASE g \notin held /\ h \notin held
      BY <2>2, <3>2
    <3>3. CASE g \in held /\ h \notin held
      BY <1>1, <2>1, <2>2, <2>3, <3>3, ClaimRow
    <3>4. CASE g \notin held /\ h \in held
      BY <1>1, <2>1, <2>2, <2>3, <3>4, ClaimRow
    <3> QED BY <3>1, <3>2, <3>3, <3>4
  <2> QED BY <2>1, <2>2, <2>3 DEF LeasesOK
<1>6. CountedOK'
  BY ClaimRow DEF QueueInv, TypeOK, CountedOK
<1>7. FreshOK'
  <2>1. (Fresh \union counted)' \subseteq Fresh \union counted
    BY ClaimRow DEF Fresh, In
  <2> QED BY <2>1, FreshShrinks DEF QueueInv, TypeOK
<1> QED BY <1>3, <1>4, <1>5, <1>6, <1>7 DEF QueueInv

LEMMA LeaseJobInv ==
    ASSUME QueueInv, NEW r \in Replicas, NEW j \in Jobs, LeaseJob(r, j)
    PROVE  QueueInv'
<1>1. Claim(j) /\ UNCHANGED <<nextId, counted, sweeper, phase>>
  BY DEF LeaseJob
<1>2. held' = held \union {[by |-> r, job |-> j, token |-> fence']}
  BY DEF LeaseJob
<1>3. \A h \in held : h.token # fence'
  <2>1. \A h \in held : h.token \in Nat /\ h.token <= fence
    BY DEF QueueInv, TypeOK, Lease, LeasesOK, LeaseOK
  <2> QED BY <1>1, <2>1, ClaimRow
<1> QED BY <1>1, <1>2, <1>3, ClaimInv

LEMMA LeaseReplyLostInv ==
    ASSUME QueueInv, NEW j \in Jobs, LeaseReplyLost(j)
    PROVE  QueueInv'
<1>1. Claim(j) /\ UNCHANGED <<nextId, counted, held, sweeper, phase>>
  BY DEF LeaseReplyLost
<1>2. \A h \in held : h.token # fence'
  <2>1. \A h \in held : h.token \in Nat /\ h.token <= fence
    BY DEF QueueInv, TypeOK, Lease, LeasesOK, LeaseOK
  <2> QED BY <1>1, <2>1, ClaimRow
<1> QED BY <1>1, <1>2, ClaimInv

\* A fenced write finds its own row leased, under its own token.
LEMMA WriteBackInv ==
    ASSUME QueueInv, NEW h \in held, NEW state \in {"done", "failed"},
           WriteBack(h, state)
    PROVE  QueueInv'
<1>1. /\ UNCHANGED <<nextId, fence, counted, sweeper, phase>>
      /\ held' \subseteq held
      /\ sweeper' \in Replicas \union {None} /\ phase' \in Phase
  BY DEF WriteBack, QueueInv, TypeOK
<1>2. CASE ~FencedIn(h)
  BY <1>1, <1>2, IdleStep DEF WriteBack
<1>3. CASE FencedIn(h)
  <2> DEFINE j == h.job
             new == [row[j] EXCEPT !.state = state, !.result = h.token,
                                   !.submit = 0, !.lease = 0, !.keep = DoneTicks]
  <2>1. /\ j \in Jobs /\ row \in [Jobs -> Row] /\ RowOK(row[j], fence)
        /\ row[j].state = "leased" /\ row[j].token = h.token /\ 0 < h.token
        /\ h.token \in Nat
    BY <1>3 DEF QueueInv, TypeOK, RowsOK, LeasesOK, LeaseOK, FencedIn, Lease
  <2>2. row' = [row EXCEPT ![j] = new]
    BY <1>3 DEF WriteBack
  <2>3. /\ new.state = state /\ new.id = row[j].id /\ new.token = row[j].token
        /\ new.attempts = row[j].attempts /\ new.result = h.token
    BY <2>1 DEF Row
  <2>4. new \in Row
    <3>1. state \in JobState /\ DoneTicks \in Ticks /\ 0 \in Ticks /\ row[j] \in Row
      BY <2>1, QueueAssumption DEF JobState, Terminal, Ticks
    <3> QED BY <2>1, <3>1 DEF Row
  <2> HIDE DEF new, j
  <2>5. Tame(row[j], new)
    BY <2>1, <2>3, <2>4 DEF Tame, RowOK, Row
  <2>6. \A i \in Jobs : Tame(row[i], row'[i])
    BY <2>1, <2>2, <2>5, TameSame
  <2> QED BY <1>1, <2>1, <2>2, <2>6, TameStep
<1> QED BY <1>2, <1>3

LEMMA HeartbeatInv ==
    ASSUME QueueInv, NEW h \in held, Heartbeat(h)
    PROVE  QueueInv'
<1>1. /\ UNCHANGED <<nextId, fence, counted, sweeper, phase>>
      /\ held' \subseteq held
      /\ sweeper' \in Replicas \union {None} /\ phase' \in Phase
  BY DEF Heartbeat, QueueInv, TypeOK
<1>2. CASE ~FencedIn(h)
  BY <1>1, <1>2, IdleStep DEF Heartbeat
<1>3. CASE FencedIn(h)
  <2> DEFINE j == h.job
             new == [row[j] EXCEPT !.lease = LeaseTicks]
  <2>1. /\ j \in Jobs /\ row \in [Jobs -> Row] /\ RowOK(row[j], fence)
        /\ row[j].state = "leased"
    BY <1>3 DEF QueueInv, TypeOK, RowsOK, FencedIn, Lease
  <2>2. row' = [row EXCEPT ![j] = new]
    BY <1>3 DEF Heartbeat
  <2>3. /\ new.state = "leased" /\ new.id = row[j].id /\ new.token = row[j].token
        /\ new.attempts = row[j].attempts /\ new.result = row[j].result
    BY <2>1 DEF Row
  <2>4. new \in Row
    <3>1. LeaseTicks \in Ticks /\ row[j] \in Row
      BY <2>1, QueueAssumption DEF Ticks
    <3> QED BY <3>1 DEF Row
  <2> HIDE DEF new, j
  <2>5. Tame(row[j], new)
    BY <2>1, <2>3, <2>4 DEF Tame, RowOK, Row
  <2>6. \A i \in Jobs : Tame(row[i], row'[i])
    BY <2>1, <2>2, <2>5, TameSame
  <2> QED BY <1>1, <2>1, <2>2, <2>6, TameStep
<1> QED BY <1>2, <1>3

\* The sweeper's three statements and the clock apply to each row one of the
\* functions above, so each is a tame step.
LEMMA SweepExpiredInv ==
    ASSUME QueueInv, NEW skipped, SweepExpired(skipped)
    PROVE  QueueInv'
<1>1. ASSUME NEW j \in Jobs
      PROVE  Tame(row[j], row'[j])
  <2>1. RowOK(row[j], fence) /\ fence \in Nat
    BY DEF QueueInv, TypeOK, RowsOK
  <2>2. CASE j \notin Expired \ skipped
    BY <2>2, TameSame DEF SweepExpired
  <2>3. CASE j \in Expired \ skipped /\ Retryable(row[j])
    <3>1. row'[j] = Requeue(row[j]) /\ row[j].state = "leased"
      BY <2>3 DEF SweepExpired, Expired, In
    <3>2. RowOK(row'[j], fence) /\ row'[j].attempts > 0
      BY <2>1, <2>3, <3>1, RequeueOK
    <3>3. row'[j].id = row[j].id /\ row'[j].token = row[j].token
      BY <2>1, <3>1 DEF Requeue, RowOK, Row
    <3> QED BY <3>1, <3>2, <3>3 DEF Tame
  <2>4. CASE j \in Expired \ skipped /\ ~Retryable(row[j])
    <3>1. row'[j] = Bury(row[j]) /\ row[j].state = "leased"
      BY <2>4 DEF SweepExpired, Expired, In
    <3>2. RowOK(row'[j], fence) /\ row'[j].state = "dead"
      BY <2>1, <3>1, BuryOK
    <3>3. row'[j].id = row[j].id /\ row'[j].token = row[j].token
      BY <2>1, <3>1 DEF Bury, RowOK, Row
    <3> QED BY <3>1, <3>2, <3>3 DEF Tame
  <2> QED BY <2>2, <2>3, <2>4
<1> QED BY <1>1, TameStep DEF SweepExpired, QueueInv, TypeOK, Phase

LEMMA SweepTimedOutInv ==
    ASSUME QueueInv, SweepTimedOut
    PROVE  QueueInv'
<1>1. ASSUME NEW j \in Jobs
      PROVE  Tame(row[j], row'[j])
  <2> DEFINE new == [row[j] EXCEPT !.state = "failed", !.submit = 0,
                                   !.keep = DoneTicks]
  <2>1. row[j] \in Row /\ RowOK(row[j], fence)
    BY DEF QueueInv, TypeOK, RowsOK
  <2>2. CASE j \notin TimedOut
    BY <2>2, TameSame DEF SweepTimedOut
  <2>3. CASE j \in TimedOut
    <3>1. row'[j] = new /\ row[j].state = "pending"
      BY <2>3 DEF SweepTimedOut, TimedOut, In
    <3>2. /\ new.state = "failed" /\ new.id = row[j].id
          /\ new.token = row[j].token /\ new.attempts = row[j].attempts
          /\ new.result = row[j].result
      BY <2>1 DEF Row
    <3>3. new \in Row
      <4>1. "failed" \in JobState /\ DoneTicks \in Ticks /\ 0 \in Ticks
        BY QueueAssumption DEF JobState, Terminal, Ticks
      <4> QED BY <2>1, <4>1 DEF Row
    <3> HIDE DEF new
    <3> QED BY <2>1, <3>1, <3>2, <3>3 DEF Tame, RowOK
  <2> QED BY <2>2, <2>3
<1> QED BY <1>1, TameStep DEF SweepTimedOut, QueueInv, TypeOK, Phase

LEMMA SweepReapInv ==
    ASSUME QueueInv, SweepReap
    PROVE  QueueInv'
<1>1. ASSUME NEW j \in Jobs
      PROVE  Tame(row[j], row'[j])
  <2>1. row[j] \in Row /\ row[j].id \in Nat /\ fence \in Nat
    BY DEF QueueInv, TypeOK, Row
  <2>2. CASE j \notin Old
    BY <2>2, TameSame DEF SweepReap
  <2>3. CASE j \in Old
    <3>1. row'[j] = [NoRow EXCEPT !.id = row[j].id]
      BY <2>3 DEF SweepReap
    <3>2. row'[j].id = row[j].id /\ row'[j].state = "absent"
      BY <3>1 DEF NoRow
    <3> QED BY <2>1, <3>1, <3>2, NoRowOK DEF Tame
  <2> QED BY <2>2, <2>3
<1> QED BY <1>1, TameStep DEF SweepReap, QueueInv, TypeOK, Phase

LEMMA TickInv ==
    ASSUME QueueInv, Tick
    PROVE  QueueInv'
<1>1. ASSUME NEW j \in Jobs
      PROVE  Tame(row[j], row'[j])
  <2>1. RowOK(row[j], fence) /\ fence \in Nat /\ row'[j] = RowTick(row[j])
    BY DEF QueueInv, TypeOK, RowsOK, Tick
  <2> QED BY <2>1, RowTickOK DEF Tame
<1> QED BY <1>1, TameStep DEF Tick, QueueInv, TypeOK

LEMMA StepInv == QueueInv /\ [Next]_vars => QueueInv'
<1> SUFFICES ASSUME QueueInv, [Next]_vars PROVE QueueInv'
  OBVIOUS
<1> USE DEF QueueInv, TypeOK
<1>1. ASSUME NEW j \in Jobs, SubmitAbort(j) PROVE QueueInv'
  BY <1>1, IdleStep DEF SubmitAbort
<1>2. ASSUME NEW h \in held, WriteBackLost(h) PROVE QueueInv'
  BY <1>2, IdleStep DEF WriteBackLost
<1>3. ASSUME NEW r \in Replicas, SweepBegin(r) PROVE QueueInv'
  BY <1>3, IdleStep DEF SweepBegin, Phase
<1>4. CASE SweepError
  BY <1>4, IdleStep DEF SweepError, Phase
<1>5. CASE SweepUnlock
  BY <1>5, IdleStep DEF SweepUnlock, Phase
<1>6. ASSUME NEW r \in Replicas, Crash(r) PROVE QueueInv'
  BY <1>6, IdleStep DEF Crash, Phase
<1>7. CASE UNCHANGED vars
  BY <1>7, IdleStep DEF vars
<1>8. ASSUME NEW h \in held, Complete(h) \/ Fail(h) PROVE QueueInv'
  BY <1>8, WriteBackInv DEF Complete, Fail
<1> HIDE DEF QueueInv, TypeOK
<1>9. CASE Submit
  BY <1>1, <1>9, SubmitCountInv, SubmitInsertInv DEF Submit
<1>10. CASE Work
  BY <1>2, <1>8, <1>10, LeaseJobInv, LeaseReplyLostInv, HeartbeatInv DEF Work
<1>11. CASE Sweep
  BY <1>3, <1>4, <1>5, <1>11, SweepExpiredInv, SweepTimedOutInv, SweepReapInv
     DEF Sweep
<1> QED BY <1>6, <1>7, <1>9, <1>10, <1>11, TickInv DEF Next

(***************************************************************************)
(* What one step can do to one row, over all the actions.                  *)
(***************************************************************************)
Same(rw, new)     == /\ new.attempts = rw.attempts /\ new.result = rw.result
                     /\ new.id = rw.id
Stays(rw, new)    == new.state = rw.state /\ Same(rw, new)
Inserted(rw, new) == /\ rw.id = 0 /\ new.id # 0
                     /\ new.state = "pending" /\ new.attempts = 0 /\ new.result = 0
Claimed(rw, new)  == /\ rw.state = "pending" /\ new.state = "leased"
                     /\ new.attempts = rw.attempts + 1 /\ new.result = rw.result
                     /\ new.id = rw.id
Written(rw, new)  == /\ rw.state = "leased" /\ new.state \in {"done", "failed"}
                     /\ new.attempts = rw.attempts /\ new.result > 0
                     /\ new.id = rw.id
GivenUp(rw, new)  == /\ Same(rw, new)
                     /\ \/ rw.state = "leased" /\ new.state \in {"pending", "dead"}
                        \/ rw.state = "pending" /\ new.state = "failed"
Reaped(rw, new)   == /\ rw.state \in Terminal /\ new.state = "absent"
                     /\ new.id = rw.id /\ new.attempts = 0 /\ new.result = 0

Moves(rw, new) == \/ Stays(rw, new) \/ Inserted(rw, new) \/ Claimed(rw, new)
                  \/ Written(rw, new) \/ GivenUp(rw, new) \/ Reaped(rw, new)

LEMMA WriteBackMoves ==
    ASSUME QueueInv, NEW h \in held, NEW state \in {"done", "failed"},
           WriteBack(h, state), NEW j \in Jobs
    PROVE  Moves(row[j], row'[j])
<1>1. /\ row \in [Jobs -> Row] /\ h.job \in Jobs /\ 0 < h.token
      /\ row[j] \in Row
  BY DEF QueueInv, TypeOK, LeasesOK, LeaseOK, Lease
<1>2. CASE FencedIn(h) /\ j = h.job
  BY <1>1, <1>2 DEF WriteBack, FencedIn, Row, Moves, Written
<1>3. CASE ~FencedIn(h) \/ j # h.job
  BY <1>1, <1>3 DEF WriteBack, Moves, Stays, Same
<1> QED BY <1>2, <1>3

LEMMA SweepMoves ==
    ASSUME QueueInv, NEW j \in Jobs,
           (\E skipped \in SUBSET Expired : SweepExpired(skipped))
             \/ SweepTimedOut \/ SweepReap
    PROVE  Moves(row[j], row'[j])
<1>1. row \in [Jobs -> Row] /\ row[j] \in Row
  BY DEF QueueInv, TypeOK
<1>2. ASSUME NEW skipped \in SUBSET Expired, SweepExpired(skipped)
      PROVE  Moves(row[j], row'[j])
  <2>1. CASE j \in Expired \ skipped /\ Retryable(row[j])
    BY <1>1, <1>2, <2>1
       DEF SweepExpired, Expired, In, Requeue, Row, Moves, GivenUp, Same
  <2>2. CASE j \in Expired \ skipped /\ ~Retryable(row[j])
    BY <1>1, <1>2, <2>2
       DEF SweepExpired, Expired, In, Bury, Row, Moves, GivenUp, Same
  <2>3. CASE j \notin Expired \ skipped
    BY <1>2, <2>3 DEF SweepExpired, Moves, Stays, Same
  <2> QED BY <2>1, <2>2, <2>3
<1>3. CASE SweepTimedOut
  <2>1. CASE j \in TimedOut
    BY <1>1, <1>3, <2>1
       DEF SweepTimedOut, TimedOut, In, Row, Moves, GivenUp, Same
  <2>2. CASE j \notin TimedOut
    BY <1>3, <2>2 DEF SweepTimedOut, Moves, Stays, Same
  <2> QED BY <2>1, <2>2
<1>4. CASE SweepReap
  <2>1. CASE j \in Old
    BY <1>1, <1>4, <2>1 DEF SweepReap, Old, NoRow, Moves, Reaped
  <2>2. CASE j \notin Old
    BY <1>4, <2>2 DEF SweepReap, Moves, Stays, Same
  <2> QED BY <2>1, <2>2
<1> QED BY <1>2, <1>3, <1>4

LEMMA RowMoves ==
    ASSUME QueueInv, [Next]_vars, NEW j \in Jobs
    PROVE  Moves(row[j], row'[j])
<1>1. /\ row \in [Jobs -> Row] /\ row[j] \in Row /\ RowOK(row[j], fence)
      /\ fence \in Nat /\ nextId # 0
  BY DEF QueueInv, TypeOK, RowsOK
<1>2. CASE UNCHANGED row
  BY <1>2 DEF Moves, Stays, Same
<1>3. ASSUME NEW i \in Jobs, NEW w \in Windows, SubmitInsert(i, w)
      PROVE  Moves(row[j], row'[j])
  <2>1. i = j => row[j].id = 0
    BY <1>3 DEF QueueInv, CountedOK, SubmitInsert
  <2>2. CASE i = j
    BY <1>1, <1>3, <2>1, <2>2 DEF SubmitInsert, NoRow, Moves, Inserted
  <2>3. CASE i # j
    BY <1>1, <1>3, <2>3 DEF SubmitInsert, Moves, Stays, Same
  <2> QED BY <2>2, <2>3
<1>4. ASSUME NEW i \in Jobs, Claim(i)
      PROVE  Moves(row[j], row'[j])
  <2>1. CASE i = j
    BY <1>4, <2>1, ClaimRow DEF Moves, Claimed
  <2>2. CASE i # j
    BY <1>4, <2>2, ClaimRow DEF Moves, Stays, Same
  <2> QED BY <2>1, <2>2
<1>5. ASSUME NEW h \in held, Heartbeat(h)
      PROVE  Moves(row[j], row'[j])
  BY <1>1, <1>5 DEF Heartbeat, Row, Moves, Stays, Same
<1>6. CASE Tick
  BY <1>1, <1>6, RowTickOK DEF Tick, Moves, Stays, Same
<1>7. CASE Submit
  BY <1>2, <1>3, <1>7 DEF Submit, SubmitCount, SubmitAbort
<1>8. CASE Work
  <2>1. ASSUME NEW h \in held, WriteBackLost(h) PROVE UNCHANGED row
    BY <2>1 DEF WriteBackLost
  <2>2. ASSUME NEW h \in held, Complete(h) \/ Fail(h)
        PROVE  Moves(row[j], row'[j])
    BY <2>2, WriteBackMoves DEF Complete, Fail
  <2>3. ASSUME NEW i \in Jobs, NEW r \in Replicas,
               LeaseJob(r, i) \/ LeaseReplyLost(i)
        PROVE  Moves(row[j], row'[j])
    BY <1>4, <2>3 DEF LeaseJob, LeaseReplyLost
  <2>4. ASSUME NEW i \in Jobs, LeaseReplyLost(i)
        PROVE  Moves(row[j], row'[j])
    BY <1>4, <2>4 DEF LeaseReplyLost
  <2> QED BY <1>2, <1>5, <1>8, <2>1, <2>2, <2>3, <2>4 DEF Work
<1>9. CASE Sweep
  BY <1>2, <1>9, SweepMoves DEF Sweep, SweepBegin, SweepError, SweepUnlock
<1>10. ASSUME NEW r \in Replicas, Crash(r) PROVE UNCHANGED row
  BY <1>10 DEF Crash
<1> QED BY <1>2, <1>6, <1>7, <1>8, <1>9, <1>10 DEF Next, vars

(***************************************************************************)
(* The theorems.                                                           *)
(***************************************************************************)
\* The inductive invariant holds of the queue, for any jobs, replicas and
\* bounds.
THEOREM Invariance == Spec => []QueueInv
<1>1. Init => QueueInv
  BY InitInv
<1>2. QueueInv /\ [Next]_vars => QueueInv'
  BY StepInv
<1> QED BY <1>1, <1>2, PTL DEF Spec

\* Every column and variable has its type.
THEOREM Typing == Spec => []TypeOK
<1>1. QueueInv => TypeOK
  BY DEF QueueInv
<1> QED BY <1>1, Invariance, PTL

\* lease(): no two workers' leases share a fencing token, and no row is
\* overtaken by a lease older than the row's own.
THEOREM Fencing == Spec => []ExclusiveLease
<1>1. QueueInv => ExclusiveLease
  BY DEF QueueInv, LeasesOK, LeaseOK, ExclusiveLease
<1> QED BY <1>1, Invariance, PTL

\* complete() and fail(): only the last lease's outcome is ever stored.
THEOREM LastLeaseWrites == Spec => []ResultOfLastLease
<1>1. QueueInv => ResultOfLastLease
  BY DEF QueueInv, RowsOK, RowOK, ResultOfLastLease
<1> QED BY <1>1, Invariance, PTL

\* sweep_once() keeps the leases of a job within max_attempts, though lease()
\* never looks at them.
THEOREM BoundedAttempts == Spec => []AttemptsBounded
<1>1. QueueInv => AttemptsBounded
  BY DEF QueueInv, RowsOK, RowOK, AttemptsBounded
<1> QED BY <1>1, Invariance, PTL

\* submit_remote(): racing submitters overshoot the bound by fewer than there
\* are connections for them.
THEOREM SoftBound == Spec => []FreshPendingBounded
<1>1. ASSUME QueueInv PROVE FreshPendingBounded
  <2>1. IsFiniteSet(Fresh \union counted) /\ IsFiniteSet(Fresh)
    BY <1>1, FreshFinite DEF QueueInv, TypeOK
  <2>2. /\ Cardinality(Fresh) <= Cardinality(Fresh \union counted)
        /\ Cardinality(Fresh) \in Nat
        /\ Cardinality(Fresh \union counted) \in Nat
    BY <2>1, FS_Subset, FS_CardinalityType
  <2>3. Cardinality(Fresh) <= PendingBound + PoolSize - 1
    BY <1>1, <2>2, QueueAssumption DEF QueueInv, FreshOK
  <2> QED BY <2>3 DEF Fresh, FreshPendingBounded
<1> QED BY <1>1, Invariance, PTL

\* A settled job keeps its outcome until its row is deleted, whatever late
\* writes, sweeps and crashes do.
THEOREM OneOutcome == Spec => SettledOnce
<1> DEFINE Kept(j) == row[j].state \in Terminal
                        => \/ row'[j].state = "absent"
                           \/ /\ row'[j].state = row[j].state
                              /\ row'[j].result = row[j].result
<1>1. ASSUME QueueInv, [Next]_vars, NEW j \in Jobs
      PROVE  Kept(j)
  <2>1. Moves(row[j], row'[j]) /\ RowOK(row[j], fence)
    BY <1>1, RowMoves DEF QueueInv, RowsOK
  <2> QED BY <2>1 DEF Moves, Stays, Same, Inserted, Claimed, Written, GivenUp,
                      Reaped, RowOK, Terminal
<1>2. QueueInv /\ [Next]_vars => [\A j \in Jobs : Kept(j)]_vars
  BY <1>1
<1> QED BY <1>2, Invariance, PTL DEF Spec, SettledOnce

(***************************************************************************)
(* Refinement.  Each move of a row is a step of its ledger entry, or none. *)
(***************************************************************************)
LEMMA MoveIsEntryStep ==
    ASSUME NEW n \in Nat, NEW m \in Nat, NEW rw, NEW new,
           RowOK(rw, n), RowOK(new, m), Moves(rw, new)
    PROVE  \/ Ledger!EntryStep(EntryOf(rw), EntryOf(new))
           \/ EntryOf(new) = EntryOf(rw)
<1>1. rw \in Row /\ new \in Row
  BY DEF RowOK
<1>2. CASE Stays(rw, new)
  BY <1>2 DEF Stays, Same, EntryOf
<1>3. CASE Inserted(rw, new)
  <2>1. /\ EntryOf(rw) = [status |-> "new", tries |-> 0, by |-> 0]
        /\ EntryOf(new) = [status |-> "open", tries |-> 0, by |-> 0]
    BY <1>1, <1>3 DEF Inserted, RowOK, EntryOf, Terminal
  <2> QED BY <2>1 DEF Ledger!EntryStep, Ledger!Open
<1>4. CASE Claimed(rw, new)
  <2>1. /\ EntryOf(rw) = [status |-> "open", tries |-> rw.attempts, by |-> 0]
        /\ EntryOf(new) = [status |-> "open", tries |-> rw.attempts + 1, by |-> 0]
        /\ rw.attempts < MaxAttempts
    BY <1>1, <1>4 DEF Claimed, RowOK, Row, EntryOf, Terminal
  <2> QED BY <2>1 DEF Ledger!EntryStep, Ledger!Try
<1>5. CASE Written(rw, new)
  <2>1. /\ EntryOf(rw) = [status |-> "open", tries |-> rw.attempts, by |-> 0]
        /\ EntryOf(new) = [status |-> new.state, tries |-> rw.attempts,
                           by |-> rw.attempts]
        /\ new.state \in {"done", "failed"} /\ rw.attempts > 0
    BY <1>1, <1>5 DEF Written, RowOK, Row, EntryOf, Terminal
  <2>2. Ledger!Report(EntryOf(rw), EntryOf(new))
    BY <2>1 DEF Ledger!Report
  <2> QED BY <2>2 DEF Ledger!EntryStep
<1>6. CASE GivenUp(rw, new)
  <2>1. EntryOf(rw) = [status |-> "open", tries |-> rw.attempts, by |-> 0]
    BY <1>1, <1>6 DEF GivenUp, RowOK, Row, EntryOf, Terminal
  <2>2. CASE rw.state = "leased" /\ new.state = "pending"
    BY <1>1, <1>6, <2>1, <2>2 DEF GivenUp, Same, RowOK, Row, EntryOf, Terminal
  <2>3. CASE rw.state = "leased" /\ new.state = "dead"
    <3>1. /\ EntryOf(new) = [status |-> "dead", tries |-> rw.attempts, by |-> 0]
          /\ rw.attempts > 0
      BY <1>1, <1>6, <2>3 DEF GivenUp, Same, RowOK, Row, EntryOf, Terminal
    <3> QED BY <2>1, <3>1 DEF Ledger!EntryStep, Ledger!GiveUp
  <2>4. CASE rw.state = "pending" /\ new.state = "failed"
    <3>1. /\ EntryOf(new) = [status |-> "failed", tries |-> rw.attempts, by |-> 0]
          /\ rw.attempts < MaxAttempts
      BY <1>1, <1>6, <2>4 DEF GivenUp, Same, RowOK, Row, EntryOf, Terminal
    <3> QED BY <2>1, <3>1 DEF Ledger!EntryStep, Ledger!GiveUp
  <2> QED BY <1>6, <2>2, <2>3, <2>4 DEF GivenUp
<1>7. CASE Reaped(rw, new)
  <2>1. rw.id # 0
    BY <1>7 DEF Reaped, RowOK, Terminal
  <2>2. /\ EntryOf(rw).status \in {"done", "failed", "dead"}
        /\ EntryOf(new) = [status |-> "gone", tries |-> 0, by |-> 0]
    BY <1>1, <1>7, <2>1 DEF Reaped, RowOK, Row, EntryOf, Terminal
  <2> QED BY <2>2 DEF Ledger!EntryStep, Ledger!Forget
<1> QED BY <1>2, <1>3, <1>4, <1>5, <1>6, <1>7 DEF Moves

\* The queue implements the ledger: a job is opened once, tried at most
\* MaxAttempts times, and settles once, with the outcome of its last try or
\* because the queue gave up on it.
THEOREM Refinement == Spec => ImplementsLedger
<1>1. Init => Ledger!LedgerInit
  <2>1. EntryOf(NoRow) = [status |-> "new", tries |-> 0, by |-> 0]
    BY DEF EntryOf, NoRow, Terminal
  <2> QED BY <2>1 DEF Init, Ledger!LedgerInit
<1>2. ASSUME QueueInv, QueueInv', [Next]_vars
      PROVE  [Ledger!LedgerNext]_([j \in Jobs |-> EntryOf(row[j])])
  <2>1. ASSUME NEW j \in Jobs
        PROVE  \/ Ledger!EntryStep(EntryOf(row[j]), EntryOf(row'[j]))
               \/ EntryOf(row'[j]) = EntryOf(row[j])
    <3>1. /\ RowOK(row[j], fence) /\ RowOK(row'[j], fence')
          /\ fence \in Nat /\ fence' \in Nat
      BY <1>2 DEF QueueInv, RowsOK, TypeOK
    <3>2. Moves(row[j], row'[j])
      BY <1>2, RowMoves
    <3> QED BY <3>1, <3>2, MoveIsEntryStep
  <2> QED BY <2>1 DEF Ledger!LedgerNext
<1> QED BY <1>1, <1>2, Invariance, PTL DEF Spec, ImplementsLedger, Ledger!LedgerSpec
=============================================================================
