------------------------------ MODULE SgeeMirror ------------------------------
(***************************************************************************)
(* The mirror of the inference queue into the SGEE cluster                 *)
(* (SgeeQueueClient::Impl in sgee_queue_client.cpp).  RPC threads push a   *)
(* payload on a bounded ring, which drops its oldest; one worker thread    *)
(* takes them in order and offers each to the cluster's leader, which it   *)
(* has to find, a few times; the destructor stops the worker and joins it. *)
(*                                                                         *)
(* Payloads are numbered in the order of the calls to enqueue_mirror().    *)
(***************************************************************************)
EXTENDS Integers, Sequences, SequencesExt, FiniteSets

CONSTANTS
    MaxCalls,       \* bound on the calls to enqueue_mirror()
    Capacity,       \* max_ring_capacity_
    MaxAttempts,    \* kMaxAttempts
    Peers,          \* peer_ids_, a sequence of nodes
    None            \* no leader, no hint, no payload

ASSUME MirrorAssumption ==
    /\ {MaxCalls, Capacity, MaxAttempts} \subseteq Nat \ {0}
    /\ Peers \in Seq(ToSet(Peers)) /\ Peers # <<>>
    /\ None \notin ToSet(Peers) \union Nat

VARIABLES
    calls,      \* calls to enqueue_mirror() so far
    ring,       \* ring_buffer_
    enqueued,   \* enqueued_
    dropped,    \* dropped_
    worker,     \* where the worker thread is
    item,       \* the payload in process_item(), or None
    attempt,    \* process_item()'s local `attempt`
    remaining,  \* worker_loop()'s local `remaining`
    after,      \* where process_item() returns to: "loop" or "drain"
    cached,     \* cached_leader_id_
    turn,       \* round_robin_idx_ % peer_ids_.size()
    stop,       \* stop_source_
    owner,      \* where the destructor is
    leader,     \* the cluster's leader
    committed,  \* how many tasks the cluster has committed for each payload
    late        \* how many requests of each payload may still reach it

ringVars   == <<ring, calls>>
stats      == <<enqueued, dropped>>
workerVars == <<worker, item, attempt, remaining, after>>
routeVars  == <<cached, turn>>
ownerVars  == <<stop, owner>>
cluster    == <<leader, committed, late>>
vars == <<ringVars, stats, workerVars, routeVars, ownerVars, cluster>>

Nodes == ToSet(Peers)

\* The peer that the next attempt goes to.
Target == IF cached # None THEN cached ELSE Peers[turn + 1]

NextTurn == (turn + 1) % Len(Peers)

-----------------------------------------------------------------------------
(***************************************************************************)
(* enqueue_mirror(), on an RPC thread.  It needs mutex_, which the worker  *)
(* holds from its test of the wait's predicate until it is blocked.        *)
(***************************************************************************)
Oversize ==
    /\ owner = "alive" /\ calls < MaxCalls
    /\ calls' = calls + 1
    /\ dropped' = dropped + 1
    /\ UNCHANGED <<ring, enqueued, workerVars, routeVars, ownerVars, cluster>>

\* Mutant: the payload that is overwritten is not counted.
PushUncounted ==
    /\ owner = "alive" /\ calls < MaxCalls /\ worker # "deciding"
    /\ calls' = calls + 1
    /\ ring' = Append(IF Len(ring) >= Capacity THEN Tail(ring) ELSE ring, calls')
    /\ worker' = IF worker = "blocked" THEN "wait" ELSE worker
    /\ UNCHANGED <<stats, item, attempt, remaining, after, routeVars, ownerVars, cluster>>

\* Mutant: the ring is let grow by one more.
PushOneMore ==
    /\ owner = "alive" /\ calls < MaxCalls /\ worker # "deciding"
    /\ calls' = calls + 1
    /\ IF Len(ring) > Capacity
       THEN ring' = Append(Tail(ring), calls') /\ dropped' = dropped + 1
       ELSE ring' = Append(ring, calls') /\ UNCHANGED dropped
    /\ worker' = IF worker = "blocked" THEN "wait" ELSE worker
    /\ UNCHANGED <<enqueued, item, attempt, remaining, after, routeVars, ownerVars, cluster>>

\* Mutant: nobody is notified.
PushSilently ==
    /\ owner = "alive" /\ calls < MaxCalls /\ worker # "deciding"
    /\ calls' = calls + 1
    /\ IF Len(ring) >= Capacity
       THEN ring' = Append(Tail(ring), calls') /\ dropped' = dropped + 1
       ELSE ring' = Append(ring, calls') /\ UNCHANGED dropped
    /\ UNCHANGED <<enqueued, workerVars, routeVars, ownerVars, cluster>>

Push ==
    /\ owner = "alive" /\ calls < MaxCalls /\ worker # "deciding"
    /\ calls' = calls + 1
    /\ IF Len(ring) >= Capacity
       THEN ring' = Append(Tail(ring), calls') /\ dropped' = dropped + 1
       ELSE ring' = Append(ring, calls') /\ UNCHANGED dropped
    /\ worker' = IF worker = "blocked" THEN "wait" ELSE worker
    /\ UNCHANGED <<enqueued, item, attempt, remaining, after, routeVars, ownerVars, cluster>>

-----------------------------------------------------------------------------
(***************************************************************************)
(* worker_loop().                                                          *)
(***************************************************************************)
Loop ==
    /\ worker = "loop"
    /\ worker' = IF stop THEN "flush" ELSE "wait"
    /\ UNCHANGED <<ringVars, stats, item, attempt, remaining, after, routeVars,
                   ownerVars, cluster>>

Take ==
    /\ worker = "wait" /\ ring # <<>>
    /\ item' = Head(ring) /\ ring' = Tail(ring)
    /\ worker' = "offer"
    /\ UNCHANGED <<calls, stats, attempt, remaining, after, routeVars, ownerVars, cluster>>

\* cv_.wait() finds its predicate false, and then blocks.  Between the two a
\* notification has nobody to wake.
WaitBegin ==
    /\ worker = "wait" /\ ring = <<>>
    /\ worker' = IF stop THEN "flush" ELSE "deciding"
    /\ UNCHANGED <<ringVars, stats, item, attempt, remaining, after, routeVars,
                   ownerVars, cluster>>

WaitBlock ==
    /\ worker = "deciding"
    /\ worker' = "blocked"
    /\ UNCHANGED <<ringVars, stats, item, attempt, remaining, after, routeVars,
                   ownerVars, cluster>>

\* Mutant: what the stop finds on the ring is left there.
FlushNothing ==
    /\ worker = "flush"
    /\ worker' = "drain"
    /\ UNCHANGED <<ringVars, remaining, stats, item, attempt, after, routeVars,
                   ownerVars, cluster>>

\* After the loop: the rest of the ring is taken out and processed.
Flush ==
    /\ worker = "flush"
    /\ remaining' = ring /\ ring' = <<>>
    /\ worker' = "drain"
    /\ UNCHANGED <<calls, stats, item, attempt, after, routeVars, ownerVars, cluster>>

Drain ==
    /\ worker = "drain"
    /\ IF remaining = <<>>
       THEN worker' = "done" /\ UNCHANGED <<item, remaining>>
       ELSE /\ worker' = "offer"
            /\ item' = Head(remaining) /\ remaining' = Tail(remaining)
    /\ after' = "drain"
    /\ UNCHANGED <<ringVars, stats, attempt, routeVars, ownerVars, cluster>>

-----------------------------------------------------------------------------
(***************************************************************************)
(* process_item().  The breaker and the clock are not modelled: the        *)
(* breaker may refuse an item and the budget may end at any attempt.       *)
(***************************************************************************)
Finish(counter) ==
    /\ item' = None /\ attempt' = 0
    /\ worker' = after
    /\ counter' = counter + 1

Dropped  == Finish(dropped) /\ UNCHANGED enqueued
Enqueued == Finish(enqueued) /\ UNCHANGED dropped

BreakerAllows ==
    /\ worker = "offer"
    /\ worker' = "try"
    /\ UNCHANGED <<ringVars, stats, item, attempt, remaining, after, routeVars,
                   ownerVars, cluster>>

BreakerRefuses ==
    /\ worker = "offer"
    /\ Dropped
    /\ UNCHANGED <<ringVars, remaining, after, routeVars, ownerVars, cluster>>

\* Another attempt, if there is one left and time for it.
Retry ==
    \/ Dropped
    \/ /\ attempt + 1 < MaxAttempts
       /\ attempt' = attempt + 1
       /\ UNCHANGED <<stats, worker, item>>

Commit(p) == committed' = [committed EXCEPT ![p] = @ + 1]

\* The answer of the node asked.  Only the leader commits a task.
Accepted ==
    /\ worker = "try" /\ Target = leader
    /\ Commit(item)
    /\ Enqueued
    /\ UNCHANGED <<ringVars, remaining, after, routeVars, ownerVars, leader, late>>

\* Mutant: a request that was sent is taken for one that was committed.
TransportErrorCounted ==
    /\ worker = "try"
    /\ late' \in {late, [late EXCEPT ![item] = @ + 1]}
    /\ cached' = None /\ turn' = NextTurn
    /\ Enqueued
    /\ UNCHANGED <<ringVars, remaining, after, ownerVars, leader, committed>>

\* The request was lost, is still under way, or its reply was lost.
TransportError ==
    /\ worker = "try"
    /\ \/ UNCHANGED committed /\ late' \in {late, [late EXCEPT ![item] = @ + 1]}
       \/ UNCHANGED late /\ Target = leader /\ Commit(item)
    /\ cached' = None /\ turn' = NextTurn
    /\ Retry
    /\ UNCHANGED <<ringVars, remaining, after, ownerVars, leader>>

NotLeader(hint) ==
    /\ worker = "try" /\ Target # leader
    /\ cached' = IF hint \in Nodes THEN hint ELSE None
    /\ Retry
    /\ UNCHANGED <<ringVars, remaining, after, turn, ownerVars, cluster>>

\* Any other refusal ends the attempts.
Refused ==
    /\ worker = "try"
    /\ Dropped
    /\ UNCHANGED <<ringVars, remaining, after, routeVars, ownerVars, cluster>>

-----------------------------------------------------------------------------
(***************************************************************************)
(* ~Impl(): request the stop, notify, join; none of it under mutex_.  And  *)
(* the cluster elects a leader, or loses it.                               *)
(***************************************************************************)
RequestStop ==
    /\ owner = "alive"
    /\ owner' = "notify" /\ stop' = TRUE
    /\ UNCHANGED <<ringVars, stats, workerVars, routeVars, cluster>>

NotifyAll ==
    /\ owner = "notify"
    /\ owner' = "join"
    /\ worker' = IF worker = "blocked" THEN "wait" ELSE worker
    /\ UNCHANGED <<ringVars, stats, item, attempt, remaining, after, routeVars,
                   stop, cluster>>

Join ==
    /\ owner = "join" /\ worker = "done"
    /\ owner' = "gone"
    /\ UNCHANGED <<ringVars, stats, workerVars, routeVars, stop, cluster>>

Elect(node) ==
    /\ leader' = node
    /\ UNCHANGED <<ringVars, stats, workerVars, routeVars, ownerVars, committed, late>>

CommitLate(p) ==
    /\ late[p] > 0 /\ leader # None
    /\ late' = [late EXCEPT ![p] = @ - 1]
    /\ Commit(p)
    /\ UNCHANGED <<ringVars, stats, workerVars, routeVars, ownerVars, leader>>

Init ==
    /\ calls = 0 /\ ring = <<>> /\ remaining = <<>>
    /\ enqueued = 0 /\ dropped = 0 /\ attempt = 0 /\ turn = 0
    /\ worker = "loop" /\ after = "loop" /\ owner = "alive"
    /\ item = None /\ cached = None
    /\ stop = FALSE
    /\ leader \in Nodes
    /\ committed = [p \in 1..MaxCalls |-> 0] /\ late = committed

ProcessItem == \/ BreakerAllows \/ BreakerRefuses \/ Accepted \/ TransportError
               \/ \E hint \in Nodes \union {None} : NotLeader(hint)
               \/ Refused

WorkerLoop == Loop \/ Take \/ WaitBegin \/ WaitBlock \/ Flush \/ Drain

Next == \/ Oversize \/ Push
        \/ WorkerLoop \/ ProcessItem
        \/ RequestStop \/ NotifyAll \/ Join
        \/ \E node \in Nodes \union {None} : Elect(node)
        \/ \E p \in 1..MaxCalls : CommitLate(p)

\* The worker's and the destructor's threads are scheduled.  Nothing makes
\* the client be called, or destroyed, or the cluster keep a leader.
Fairness == /\ WF_vars(WorkerLoop \/ ProcessItem)
            /\ WF_vars(NotifyAll) /\ WF_vars(Join)

Spec == Init /\ [][Next]_vars /\ Fairness

-----------------------------------------------------------------------------
\* Every variable has its type, and the ring its bound.
TypeOK ==
    /\ calls \in 0..MaxCalls
    /\ {enqueued, dropped} \subseteq Nat
    /\ ring \in Seq(1..MaxCalls) /\ Len(ring) <= Capacity
    /\ remaining \in Seq(1..MaxCalls)
    /\ item \in 1..MaxCalls \union {None}
    /\ attempt \in 0..MaxAttempts - 1
    /\ cached \in Nodes \union {None} /\ leader \in Nodes \union {None}
    /\ turn \in 0..Len(Peers) - 1
    /\ stop \in BOOLEAN
    /\ {committed, late} \subseteq [1..MaxCalls -> Nat]

\* Every payload is accounted for exactly once: counted as enqueued or as
\* dropped, or still on its way in one place.
EveryCallCounted ==
    calls = enqueued + dropped + Len(ring) + Len(remaining)
              + (IF item = None THEN 0 ELSE 1)

\* What is counted as enqueued has been committed, and retries after lost
\* replies commit a payload at most once per attempt.
CountedIsCommitted ==
    /\ enqueued <= Cardinality({p \in 1..MaxCalls : committed[p] > 0})
    /\ \A p \in 1..MaxCalls : committed[p] <= MaxAttempts

\* The worker does not exit with payloads left.
NothingLeftBehind == worker = "done" => ring = <<>> /\ remaining = <<>>

\* What is on the ring gets its turn: a push is not missed by a worker about
\* to wait.
RingDrains == ring # <<>> ~> ring = <<>>

\* The wait's own condition, `st.stop_requested() || !ring_buffer_.empty()`,
\* says that a stop ends it, and ~Impl() joins on that.
ShutdownReturns == owner = "notify" ~> owner = "gone"
=============================================================================
