-------------------------- MODULE PostgresAdmission --------------------------
(***************************************************************************)
(* PostgresAdmission (inference_admission.cpp) over the shared queue: an   *)
(* RPC handler submits its prompt, waits for the row to settle, and either *)
(* returns the remote outcome or degrades to the local backend.  The rows, *)
(* the leases (PostgresLeaseSource and its write-back helpers) and the     *)
(* sweeper are those of InferenceQueue.                                    *)
(***************************************************************************)
EXTENDS InferenceQueue

CONSTANTS
    Window,     \* PostgresAdmission::remote_deadline_, in ticks
    HomeOf      \* the replica each submission's handler runs on

ASSUME AdmissionAssumption ==
    /\ Window \in Nat
    /\ \A t \in -1..Window : t \in Windows
    /\ HomeOf \in [Jobs -> Replicas]
    /\ DoneTicks >= Window /\ DeadTicks >= Window    \* 24 h, 7 d, 90 s

VARIABLES
    pc,     \* where submission j's handler is, or how it was answered
    left,   \* ticks left to the handler's own deadline
    got     \* the attempt whose outcome the handler returned, 0 if none

admVars == <<pc, left, got>>
allVars == <<row, nextId, fence, counted, held, sweeper, phase, pc, left, got>>

\* "ok" and "error" answer with the queue's outcome; "local" is
\* degrade_to_local(); a handler "crashed" with its replica.
Answered == {"ok", "error", "local"}
Waiting  == {"poll", "check"}
Pc       == {"idle", "insert", "crashed"} \union Waiting \union Answered

Goto(j, there) ==
    /\ pc' = [pc EXCEPT ![j] = there]
    /\ UNCHANGED <<left, got>>

-----------------------------------------------------------------------------
(***************************************************************************)
(* submit(): fix the deadline, then submit_remote().                       *)
(***************************************************************************)
SetDeadline(j, there) ==
    /\ pc[j] = "idle"
    /\ pc' = [pc EXCEPT ![j] = there]
    /\ left' = [left EXCEPT ![j] = Window]
    /\ UNCHANGED got

SubmitStart(j) == SetDeadline(j, "insert") /\ SubmitCount(j)

\* QueueFull: the INSERT's count is at the bound.
SubmitFull(j) ==
    /\ Cardinality(In("pending")) >= PendingBound
    /\ SetDeadline(j, "local")
    /\ UNCHANGED vars

\* PoolExhausted, ConnectFailed, CircuitOpen.
SubmitNoConnection(j) == SetDeadline(j, "local") /\ UNCHANGED vars

SubmitDone(j) == SubmitInsert(j, left[j]) /\ pc[j] = "insert" /\ Goto(j, "poll")

\* The INSERT commits and its reply is lost: the row stays behind.
SubmitReplyLost(j) ==
    SubmitInsert(j, left[j]) /\ pc[j] = "insert" /\ Goto(j, "local")

SubmitFailed(j) == SubmitAbort(j) /\ pc[j] = "insert" /\ Goto(j, "local")

-----------------------------------------------------------------------------
(***************************************************************************)
(* await_result(): read the row, then look at the clock; between the two   *)
(* the row can settle.  The wait for the next poll is between two steps; a *)
(* notification only shortens it.                                          *)
(***************************************************************************)
Return(j, kind) ==
    /\ pc' = [pc EXCEPT ![j] = kind]
    /\ got' = [got EXCEPT ![j] = row[j].result]
    /\ UNCHANGED left

\* Mutant: the row's own state is handed to the caller.
PollSettledRaw(j) ==
    /\ pc[j] = "poll"
    /\ row[j].state \in Terminal /\ Return(j, row[j].state)
    /\ UNCHANGED vars

PollSettled(j) ==
    /\ pc[j] = "poll"
    /\ \/ row[j].state = "done" /\ Return(j, "ok")
       \/ row[j].state \in {"failed", "dead"} /\ Return(j, "error")
    /\ UNCHANGED vars

PollOpen(j) ==
    /\ pc[j] = "poll"
    /\ row[j].state \in {"pending", "leased"}
    /\ Goto(j, "check")
    /\ UNCHANGED vars

\* NotFound, or the query fails.
PollNotFound(j) ==
    /\ pc[j] = "poll" /\ row[j].state = "absent"
    /\ Goto(j, "local")
    /\ UNCHANGED vars

PollError(j) == pc[j] = "poll" /\ Goto(j, "local") /\ UNCHANGED vars

\* Mutant: wait as long as it takes.
CheckNothing(j) ==
    /\ pc[j] = "check"
    /\ Goto(j, "poll")
    /\ UNCHANGED vars

CheckDeadline(j) ==
    /\ pc[j] = "check"
    /\ Goto(j, IF left[j] <= 0 THEN "local" ELSE "poll")
    /\ UNCHANGED vars

-----------------------------------------------------------------------------
AdmTick ==
    /\ Tick
    /\ left' = [j \in Jobs |->
                  IF pc[j] \in {"insert"} \union Waiting
                  THEN Elapse(left[j]) ELSE left[j]]
    /\ UNCHANGED <<pc, got>>

\* A replica dies with the handlers, leases and sweep it runs.  An INSERT in
\* flight either commits later or not at all.
AdmCrash(r) ==
    /\ Crash(r)
    /\ pc' = [j \in Jobs |->
                IF HomeOf[j] = r /\ pc[j] \in {"insert"} \union Waiting
                THEN "crashed" ELSE pc[j]]
    /\ UNCHANGED <<left, got>>

OrphanInsert(j) ==
    /\ pc[j] = "crashed"
    /\ SubmitInsert(j, left[j]) \/ SubmitAbort(j)
    /\ UNCHANGED admVars

\* PostgresLeaseSource leases and writes back; nothing calls heartbeat().
AdmWork ==
    /\ \/ \E j \in Jobs : \/ \E r \in Replicas : LeaseJob(r, j)
                          \/ LeaseReplyLost(j)
       \/ \E h \in held : Complete(h) \/ Fail(h) \/ WriteBackLost(h)
    /\ UNCHANGED admVars

AdmSweep == Sweep /\ UNCHANGED admVars

Handler(j) ==
    \/ SubmitStart(j) \/ SubmitFull(j) \/ SubmitNoConnection(j)
    \/ SubmitDone(j) \/ SubmitReplyLost(j) \/ SubmitFailed(j)
    \/ PollSettled(j) \/ PollOpen(j) \/ PollNotFound(j) \/ PollError(j)
    \/ CheckDeadline(j)

AdmInit ==
    /\ Init
    /\ pc = [j \in Jobs |-> "idle"]
    /\ left = [j \in Jobs |-> 0]
    /\ got = [j \in Jobs |-> 0]

AdmNext == \/ \E j \in Jobs : Handler(j) \/ OrphanInsert(j)
           \/ AdmWork
           \/ AdmSweep
           \/ AdmTick
           \/ \E r \in Replicas : AdmCrash(r)

AdmSpec == AdmInit /\ [][AdmNext]_allVars

(***************************************************************************)
(* Fairness.  Time passes; a handler that began runs on (its waits are     *)
(* timed, its statements have statement_timeout); some replica's ticker    *)
(* sweeps every sweep_interval, and its statements do not fail forever.    *)
(* Nothing is assumed of the workers: a lease may never be granted, and a  *)
(* decode need never end.                                                  *)
(***************************************************************************)
Proceed(j) == pc[j] # "idle" /\ Handler(j)

AdmFairness ==
    /\ WF_allVars(AdmTick)
    /\ \A j \in Jobs : WF_allVars(Proceed(j))

SweepFairness ==
    /\ WF_allVars(\E r \in Replicas : SweepBegin(r) /\ UNCHANGED admVars)
    /\ SF_allVars(SweepExpired({}) /\ UNCHANGED admVars)
    /\ SF_allVars(SweepTimedOut /\ UNCHANGED admVars)
    /\ SF_allVars(SweepReap /\ UNCHANGED admVars)
    /\ WF_allVars(SweepUnlock /\ UNCHANGED admVars)

FairAdmSpec == AdmSpec /\ AdmFairness

-----------------------------------------------------------------------------
\* The handlers' variables have their types.
AdmTypeOK ==
    /\ TypeOK
    /\ pc \in [Jobs -> Pc]
    /\ left \in [Jobs -> -1..Window]
    /\ got \in [Jobs -> Nat]

\* What a handler returned is what the row says, for as long as the row is
\* kept: no caller is told of a result and another caller, or a later read,
\* finds a different one; and an error is never reported for a job that
\* succeeds afterwards.
AnswerAgreesWithRow ==
    \A j \in Jobs : row[j].state # "absent" =>
        /\ pc[j] = "ok" => row[j].state = "done" /\ got[j] = row[j].result
        /\ pc[j] = "error" => row[j].state \in {"failed", "dead"}

\* Retention is longer than the deadline: the sweeper never deletes a row
\* while its submitter still has time to read it.
WaitingRowIsKept ==
    \A j \in Jobs : pc[j] \in Waiting /\ left[j] >= 0 => row[j].state # "absent"

\* Degrade, never hang: every handler that starts returns, with no help from
\* any worker or sweeper.
EveryRequestAnswered ==
    \A j \in Jobs : pc[j] \in {"insert"} \union Waiting
                      ~> pc[j] \in Answered \union {"crashed"}

\* If sweeps go on, every row settles, whatever the workers do: an abandoned
\* lease does not hold its job forever.
EveryRowSettles == SweepFairness =>
    \A j \in Jobs : row[j].state \in {"pending", "leased"}
                      ~> row[j].state \in Terminal \union {"absent"}

\* inference_admission.cpp: "nothing leases the job before `deadline`
\* (Timeout).  Same fallback": a request whose job was never leased is not
\* answered with the queue's error.
NeverLeasedDegrades ==
    \A j \in Jobs : pc[j] = "error" /\ row[j].state # "absent"
                      => row[j].attempts > 0
=============================================================================
