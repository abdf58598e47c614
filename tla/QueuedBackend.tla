---------------------------- MODULE QueuedBackend ----------------------------
(***************************************************************************)
(* The in-process admission queue of the assistant (QueuedBackend in       *)
(* inference_admission.cppm) with the decode loop that owns it             *)
(* (SensenBackend::run in assistant_service.cpp).  RPC threads push a job  *)
(* and block on its future; one owner thread takes local jobs, tops them   *)
(* up from the shared queue's lease source, decodes them as one batch, and *)
(* on a stop request fails whatever is left.                               *)
(*                                                                         *)
(* A job is identified with the promise it carries: a local one with the   *)
(* RPC thread waiting on it, a leased one with the row it was leased from. *)
(***************************************************************************)
EXTENDS Integers, Sequences, SequencesExt, FiniteSets

CONSTANTS
    Callers,        \* RPC threads, each calling submit() again and again
    Remote,         \* jobs of the shared queue
    MaxConcurrent,  \* max_concurrent_
    MaxDepth,       \* max_queue_depth_
    MaxNewTokens    \* kMaxNewTokens

ASSUME BackendAssumption ==
    /\ Callers \intersect Remote = {}
    /\ IsFiniteSet(Remote)
    /\ MaxConcurrent \in Nat \ {0}
    /\ MaxDepth \in Nat \ {0}
    /\ MaxNewTokens \in Nat \ {0}

VARIABLES
    queue,          \* queue_
    shuttingDown,   \* shutting_down_
    source,         \* lease_source_ # nullptr
    outcome,        \* what each job's promise holds
    unnotified,     \* callers between their push and their notify_one()
    stop,           \* the owner thread's stop_token
    pc,             \* where the owner thread is
    taken,          \* take_jobs()'s local `taken`
    active          \* run()'s local `active`: tokens generated per job

vars == <<queue, shuttingDown, source, outcome, unnotified, stop, pc, taken,
          active>>

Jobs == Callers \union Remote

\* A promise not made yet, unfulfilled, or fulfilled.  "exhausted" is
\* submit()'s nullopt (RESOURCE_EXHAUSTED).
Fulfilled == {"ok", "error"}
Outcome   == {"none", "offered", "waiting", "exhausted"} \union Fulfilled

Batch == DOMAIN active
\* Mutant: the slots already taken in this call are not counted.
WantMore == MaxConcurrent - Cardinality(Batch)

Want  == MaxConcurrent - Cardinality(Batch) - Cardinality(taken)

Fulfil(jobs, result) ==
    outcome' = [j \in Jobs |-> IF j \in jobs THEN result ELSE outcome[j]]

-----------------------------------------------------------------------------
(***************************************************************************)
(* submit(), on an RPC thread.  The push is under mutex_, the notification *)
(* after it.                                                               *)
(***************************************************************************)
SubmitRefused(c) ==
    /\ outcome[c] = "none"
    /\ \/ shuttingDown /\ Fulfil({c}, "error")
       \/ ~shuttingDown /\ Len(queue) >= MaxDepth /\ Fulfil({c}, "exhausted")
    /\ UNCHANGED <<queue, shuttingDown, source, unnotified, stop, pc, taken,
                   active>>

SubmitPush(c) ==
    /\ outcome[c] = "none"
    /\ ~shuttingDown /\ Len(queue) < MaxDepth
    /\ queue' = Append(queue, c)
    /\ Fulfil({c}, "waiting")
    /\ unnotified' = unnotified \union {c}
    /\ UNCHANGED <<shuttingDown, source, stop, pc, taken, active>>

\* Mutant: the push is not notified.
SubmitNotifyNobody(c) ==
    /\ c \in unnotified
    /\ unnotified' = unnotified \ {c}
    /\ UNCHANGED <<queue, shuttingDown, source, outcome, stop, pc, taken, active>>

\* Only the owner waits on cv_.
SubmitNotify(c) ==
    /\ c \in unnotified
    /\ unnotified' = unnotified \ {c}
    /\ pc' = IF pc = "parked" THEN "wait" ELSE pc
    /\ UNCHANGED <<queue, shuttingDown, source, outcome, stop, taken, active>>

\* future.get() returns; the thread's next request starts afresh.
SubmitReturn(c) ==
    /\ outcome[c] \in Fulfilled \union {"exhausted"}
    /\ c \notin unnotified
    /\ Fulfil({c}, "none")
    /\ UNCHANGED <<queue, shuttingDown, source, unnotified, stop, pc, taken,
                   active>>

-----------------------------------------------------------------------------
(***************************************************************************)
(* The worker that owns the backend: set_lease_source() (its configuration *)
(* calls it before start(), or not at all), start(), and the stop request  *)
(* of the thread's destructor, which also wakes a stop-aware wait.         *)
(***************************************************************************)
SetLeaseSource ==
    /\ source' = TRUE
    /\ UNCHANGED <<queue, shuttingDown, outcome, unnotified, stop, pc, taken,
                   active>>

Configure == pc = "off" /\ SetLeaseSource

Start ==
    /\ pc = "off"
    /\ pc' = "loop"
    /\ UNCHANGED <<queue, shuttingDown, source, outcome, unnotified, stop,
                   taken, active>>

RequestStop ==
    /\ pc # "off" /\ ~stop
    /\ stop' = TRUE
    /\ pc' = IF pc = "parked" THEN "wait" ELSE pc
    /\ UNCHANGED <<queue, shuttingDown, source, outcome, unnotified, taken,
                   active>>

-----------------------------------------------------------------------------
(***************************************************************************)
(* take_jobs(), on the owner thread.                                       *)
(***************************************************************************)
Owner(from) ==
    pc = from /\ UNCHANGED <<shuttingDown, source, unnotified, stop>>

\* Mutant: what is copied out is not popped.
DrainCopy(there) ==
    LET n == IF Want < Len(queue) THEN Want ELSE Len(queue)
    IN  /\ taken' = taken \union ToSet(SubSeq(queue, 1, n))
        /\ queue' = queue
        /\ pc' = there

Drain(there) ==
    LET n == IF Want < Len(queue) THEN Want ELSE Len(queue)
    IN  /\ taken' = taken \union ToSet(SubSeq(queue, 1, n))
        /\ queue' = SubSeq(queue, n + 1, Len(queue))
        /\ pc' = there

\* Mutant: wait for a local job first, whatever the lease source holds.
LoopWaitFirst ==
    /\ Owner("loop")
    /\ pc' = IF stop THEN "shutdown" ELSE IF Want = 0 THEN "decode" ELSE "wait"
    /\ UNCHANGED <<queue, outcome, taken, active>>

\* run()'s loop head: stop, or take_jobs() with the lease source it finds.
Loop ==
    /\ Owner("loop")
    /\ pc' = CASE stop       -> "shutdown"
               [] ~stop /\ Want = 0 -> "decode"
               [] ~stop /\ Want > 0 /\ source -> "drain"
               [] OTHER      -> "wait"
    /\ UNCHANGED <<queue, outcome, taken, active>>

\* Local mode: cv_.wait(lock, stoken, "queue_ is not empty"), unless there
\* are sequences in flight.
WaitLocal ==
    /\ Owner("wait")
    /\ IF queue # <<>> \/ stop \/ Batch # {}
       THEN Drain("admit")
       ELSE pc' = "parked" /\ UNCHANGED <<queue, taken>>
    /\ UNCHANGED <<outcome, active>>

\* Lease mode: drain, fill, and when both come up empty with nothing in
\* flight, one timed wait and once more.
DrainLocal(from, there) ==
    /\ Owner(from)
    /\ Drain(there)
    /\ UNCHANGED <<outcome, active>>

Offered == {j \in Remote : outcome[j] = "offered"}

\* lease_source->fill(want): up to want leases; it stops at the first that
\* finds nothing or fails.
Fill(from, there) ==
    /\ Owner(from)
    /\ \E leased \in SUBSET Offered :
         /\ Cardinality(leased) <= Want
         /\ taken' = taken \union leased
         /\ Fulfil(leased, "waiting")
    /\ pc' = IF taken' = {} /\ Batch = {} THEN there ELSE "admit"
    /\ UNCHANGED <<queue, active>>

\* wait_for(lock, kLeasePollTick): by timeout or by notification.
TimedWait ==
    /\ Owner("tick")
    /\ pc' = "drain again"
    /\ UNCHANGED <<queue, outcome, taken, active>>

-----------------------------------------------------------------------------
(***************************************************************************)
(* run(): admit what was taken, decode the batch one token, repeat.        *)
(***************************************************************************)
\* admit() fails a job's promise at once, or starts its sequence.
Admit ==
    /\ Owner("admit")
    /\ \E refused \in SUBSET taken :
         /\ Fulfil(refused, "error")
         /\ active' = [j \in Batch \union (taken \ refused) |->
                         IF j \in Batch THEN active[j] ELSE 0]
    /\ taken' = {}
    /\ pc' = IF DOMAIN active' = {} THEN "loop" ELSE "decode"
    /\ UNCHANGED queue

\* Mutant: only an end token stops a sequence.
DecodeStepNoLimit ==
    /\ Owner("decode")
    /\ \E ended \in SUBSET Batch : \E result \in Fulfilled :
         /\ Fulfil(ended, result)
         /\ active' = [j \in Batch \ ended |-> active[j] + 1]
    /\ pc' = "loop"
    /\ UNCHANGED <<queue, taken>>

\* decode_step(): every sequence gets a token; it stops at an end token or at
\* the limit, and finish() fulfils its promise.
DecodeStep ==
    /\ Owner("decode")
    /\ \E ended \in SUBSET Batch : \E result \in Fulfilled :
         /\ \A j \in Batch : active[j] + 1 >= MaxNewTokens => j \in ended
         /\ Fulfil(ended, result)
         /\ active' = [j \in Batch \ ended |-> active[j] + 1]
    /\ pc' = "loop"
    /\ UNCHANGED <<queue, taken>>

\* The batched step fails: every active job's promise is failed.
DecodeFailed ==
    /\ Owner("decode")
    /\ Fulfil(Batch, "error")
    /\ active' = <<>>
    /\ pc' = "loop"
    /\ UNCHANGED <<queue, taken>>

\* After the loop: fail what is active, then drain_and_fail().
FailActive ==
    /\ Owner("shutdown")
    /\ Fulfil(Batch, "error")
    /\ active' = <<>>
    /\ pc' = "drain and fail"
    /\ UNCHANGED <<queue, taken>>

\* Mutant: later callers are not turned away.
DrainOnly ==
    /\ pc = "drain and fail"
    /\ Fulfil(ToSet(queue), "error")
    /\ queue' = <<>>
    /\ pc' = "exited"
    /\ UNCHANGED <<shuttingDown, source, unnotified, stop, taken, active>>

DrainAndFail ==
    /\ pc = "drain and fail"
    /\ shuttingDown' = TRUE
    /\ Fulfil(ToSet(queue), "error")
    /\ queue' = <<>>
    /\ pc' = "exited"
    /\ UNCHANGED <<source, unnotified, stop, taken, active>>

-----------------------------------------------------------------------------
\* Another replica's request reaches the shared queue.
Offer(j) ==
    /\ outcome[j] = "none"
    /\ Fulfil({j}, "offered")
    /\ UNCHANGED <<queue, shuttingDown, source, unnotified, stop, pc, taken,
                   active>>

Init ==
    /\ queue = <<>>
    /\ shuttingDown = FALSE
    /\ source = FALSE
    /\ outcome = [j \in Jobs |-> "none"]
    /\ unnotified = {}
    /\ stop = FALSE
    /\ pc = "off"
    /\ taken = {}
    /\ active = <<>>

Submit(c) ==
    SubmitRefused(c) \/ SubmitPush(c) \/ SubmitNotify(c) \/ SubmitReturn(c)

TakeJobs == \/ WaitLocal
            \/ DrainLocal("drain", "fill") \/ Fill("fill", "tick")
            \/ TimedWait
            \/ DrainLocal("drain again", "fill again")
            \/ Fill("fill again", "admit")

Run == \/ Loop \/ TakeJobs \/ Admit \/ DecodeStep \/ DecodeFailed
       \/ FailActive \/ DrainAndFail

Next == \/ \E c \in Callers : Submit(c)
        \/ \E j \in Remote : Offer(j)
        \/ Configure \/ Start \/ RequestStop
        \/ Run

(***************************************************************************)
(* Fairness.  The owner thread is scheduled, and so is a caller between    *)
(* its push and its notification.  Nothing makes anyone call submit() or   *)
(* request a stop.  A fill that always fails is a Postgres outage.         *)
(***************************************************************************)
Fairness == WF_vars(Start) /\ WF_vars(Run)
            /\ \A c \in Callers : WF_vars(SubmitNotify(c))

Spec == Init /\ [][Next]_vars /\ Fairness

\* The lease source answers, now and again, when it has something.
FillFairness ==
    \A j \in Remote :
        SF_vars(/\ Fill("fill", "tick") \/ Fill("fill again", "admit")
                /\ outcome'[j] = "waiting" /\ outcome[j] = "offered")

LeasingSpec == Spec /\ FillFairness

-----------------------------------------------------------------------------
\* Every variable has its type.
TypeOK ==
    /\ queue \in Seq(Callers)
    /\ outcome \in [Jobs -> Outcome]
    /\ unnotified \subseteq Callers
    /\ {shuttingDown, source, stop} \subseteq BOOLEAN
    /\ taken \subseteq Jobs
    /\ Batch \subseteq Jobs
    /\ \A j \in Batch : active[j] \in 0..MaxNewTokens

\* Every unfulfilled promise is in exactly one place, from which some step
\* will fulfil it: the queue, the jobs taken, or the batch.  None is dropped
\* on the way and none is decoded twice.
OneHome ==
    /\ IsInjective(queue)
    /\ ToSet(queue) \intersect (taken \union Batch) = {}
    /\ taken \intersect Batch = {}
    /\ ToSet(queue) \union taken \union Batch
         = {j \in Jobs : outcome[j] = "waiting"}

\* Leased and local jobs together never exceed the slots, and the queue never
\* exceeds its depth.
SlotsBounded ==
    /\ Cardinality(Batch) + Cardinality(taken) <= MaxConcurrent
    /\ Len(queue) <= MaxDepth

\* Once the owner thread has exited, nobody is left waiting on it, and nobody
\* will be.
NobodyStranded == pc = "exited" =>
    \A j \in Jobs : outcome[j] # "waiting"

\* A caller that submits is answered, whether by a decode, by a failed step
\* or by the shutdown.
EveryCallReturns ==
    \A c \in Callers : outcome[c] = "waiting" ~> outcome[c] \in Fulfilled

\* With the lease source installed before start(), a backend whose local load
\* pauses serves the shared queue: a job offered is leased, unless the backend
\* is stopped.  (Local jobs go first, so an unending local load would not let
\* it.)
OfferedIsLeased == <>[](queue = <<>>) =>
    \A j \in Remote :
        outcome[j] = "offered" /\ source /\ ~stop
            ~> outcome[j] # "offered" \/ stop
=============================================================================
