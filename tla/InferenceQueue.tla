--------------------------- MODULE InferenceQueue ---------------------------
(***************************************************************************)
(* The shared inference queue (inference_queue.cpp): one table of jobs in  *)
(* Postgres, which any engine replica submits to, leases from and sweeps.  *)
(* Each SQL statement, or BEGIN..COMMIT group, is one atomic step; the     *)
(* replicas' processes interleave between statements, crash, and lose      *)
(* replies.                                                                *)
(*                                                                         *)
(* A timestamp column is kept as the number of ticks left until it is      *)
(* reached: positive before the instant, 0 at it, -1 at any time after it. *)
(* This is all the statements compare, so no clock value is needed.  A     *)
(* column that no later statement reads goes back to its null value.       *)
(***************************************************************************)
EXTENDS Integers, FiniteSets

CONSTANTS
    Jobs,           \* the submissions made to one surface of the queue
    Replicas,       \* the engine processes; each leases and each sweeps
    None,           \* no replica
    MaxAttempts,    \* inference_jobs.max_attempts
    PendingBound,   \* QueueConfig::pending_bound_per_surface
    PoolSize,       \* connections, over all replicas, a submit can be on
    Windows,        \* ticks left to submit_deadline when a row is inserted
    LeaseTicks,     \* QueueConfig::lease_duration
    DoneTicks,      \* QueueConfig::done_retention
    DeadTicks       \* QueueConfig::dead_retention

ASSUME QueueAssumption ==
    /\ None \notin Replicas
    /\ MaxAttempts \in Nat \ {0}
    /\ PendingBound \in Nat \ {0}
    /\ PoolSize \in Nat \ {0}
    /\ Windows \subseteq Int
    /\ LeaseTicks \in Nat /\ DoneTicks \in Nat /\ DeadTicks \in Nat

ASSUME FiniteJobs == IsFiniteSet(Jobs)

VARIABLES
    row,        \* the table: row[j] is the row inserted for submission j
    nextId,     \* the identity column's next value
    fence,      \* the last value drawn from the sequence inference_fence
    counted,    \* submissions whose INSERT has counted but not committed
    held,       \* leases some replica works on: [by, job, token]
    sweeper,    \* the replica holding the advisory lock, or None
    phase       \* the statement of sweep_once() that runs next

vars == <<row, nextId, fence, counted, held, sweeper, phase>>

(***************************************************************************)
(* The vocabulary.                                                         *)
(***************************************************************************)
Terminal == {"done", "failed", "dead"}
JobState == {"absent", "pending", "leased"} \union Terminal
Phase    == {"off", "expire", "timeout", "reap", "unlock"}

Ticks == Int

\* `result` is the token of the attempt whose result or error text the row
\* stores, 0 when it stores none (or the sweeper's own text).
Row == [state: JobState, id: Nat, attempts: Nat, token: Nat, result: Nat,
        submit: Ticks, lease: Ticks, keep: Ticks]

Lease == [by: Replicas, job: Jobs, token: Nat]

NoRow == [state |-> "absent", id |-> 0, attempts |-> 0, token |-> 0,
          result |-> 0, submit |-> 0, lease |-> 0, keep |-> 0]

In(state) == {j \in Jobs : row[j].state = state}

Elapse(t) == IF t >= 0 THEN t - 1 ELSE t

-----------------------------------------------------------------------------
(***************************************************************************)
(* Caller side: submit_remote().  The statement counts the pending rows in *)
(* its own snapshot and inserts when it commits; a second submitter's      *)
(* statement can count in between.  Zero rows inserted is QueueFull.       *)
(***************************************************************************)
\* Mutant: the comparison lets one more in.
SubmitCountOneMore(j) ==
    /\ row[j].id = 0 /\ j \notin counted
    /\ Cardinality(counted) < PoolSize
    /\ Cardinality(In("pending")) <= PendingBound
    /\ counted' = counted \union {j}
    /\ UNCHANGED <<row, nextId, fence, held, sweeper, phase>>

SubmitCount(j) ==
    /\ row[j].id = 0 /\ j \notin counted
    /\ Cardinality(counted) < PoolSize
    /\ Cardinality(In("pending")) < PendingBound
    /\ counted' = counted \union {j}
    /\ UNCHANGED <<row, nextId, fence, held, sweeper, phase>>

SubmitInsert(j, window) ==
    /\ j \in counted
    /\ row' = [row EXCEPT ![j] = [NoRow EXCEPT !.state = "pending",
                                               !.id = nextId,
                                               !.submit = window]]
    /\ nextId' = nextId + 1
    /\ counted' = counted \ {j}
    /\ UNCHANGED <<fence, held, sweeper, phase>>

\* The statement or its connection fails before it commits.
SubmitAbort(j) ==
    /\ j \in counted
    /\ counted' = counted \ {j}
    /\ UNCHANGED <<row, nextId, fence, held, sweeper, phase>>

-----------------------------------------------------------------------------
(***************************************************************************)
(* Worker side: lease(), heartbeat(), complete(), fail().                  *)
(***************************************************************************)
Eligible == {j \in In("pending") : row[j].submit > 0}

\* SKIP LOCKED: the oldest eligible row not locked by another statement.  A
\* replica has one lease statement running, so at most one row is hidden by
\* each of the other replicas.
Claimable(j) ==
    /\ j \in Eligible
    /\ Cardinality({i \in Eligible : row[i].id < row[j].id})
         < Cardinality(Replicas)

\* Mutant: the sequence is read, not advanced.
ClaimOldToken(j) ==
    /\ Claimable(j)
    /\ fence' = IF fence = 0 THEN 1 ELSE fence
    /\ row' = [row EXCEPT ![j].state = "leased",
                          ![j].token = fence',
                          ![j].lease = LeaseTicks,
                          ![j].attempts = @ + 1]

Claim(j) ==
    /\ Claimable(j)
    /\ fence' = fence + 1
    /\ row' = [row EXCEPT ![j].state = "leased",
                          ![j].token = fence + 1,
                          ![j].lease = LeaseTicks,
                          ![j].attempts = @ + 1]

LeaseJob(r, j) ==
    /\ Claim(j)
    /\ held' = held \union {[by |-> r, job |-> j, token |-> fence']}
    /\ UNCHANGED <<nextId, counted, sweeper, phase>>

\* The UPDATE commits and the reply, or the replica, is lost.
LeaseReplyLost(j) ==
    /\ Claim(j)
    /\ UNCHANGED <<nextId, counted, held, sweeper, phase>>

\* Mutants: one of the two conditions of the fence is missing.
StateOnly(h) == row[h.job].state = "leased"
TokenOnly(h) == row[h.job].token = h.token

\* WHERE id = $1 AND fencing_token = $2 AND state = 'leased'
FencedIn(h) == row[h.job].token = h.token /\ row[h.job].state = "leased"

Heartbeat(h) ==
    /\ h \in held
    /\ \/ /\ FencedIn(h)
          /\ row' = [row EXCEPT ![h.job].lease = LeaseTicks]
          /\ held' = held
       \/ /\ ~FencedIn(h)         \* false: the caller must stop working
          /\ held' = held \ {h}
          /\ row' = row
    /\ UNCHANGED <<nextId, fence, counted, sweeper, phase>>

\* complete() with state = "done", fail() with state = "failed".
WriteBack(h, state) ==
    /\ h \in held
    /\ held' = held \ {h}
    /\ row' = IF FencedIn(h)
              THEN [row EXCEPT ![h.job].state = state,
                               ![h.job].result = h.token,
                               ![h.job].submit = 0,
                               ![h.job].lease = 0,
                               ![h.job].keep = DoneTicks]
              ELSE row
    /\ UNCHANGED <<nextId, fence, counted, sweeper, phase>>

\* Mutant: a state the table's CHECK constraint does not list.
FailAsError(h) == WriteBack(h, "error")

Complete(h) == WriteBack(h, "done")
Fail(h)     == WriteBack(h, "failed")

\* The pool, the UPDATE or the COMMIT fails: the helper logs and gives up.
WriteBackLost(h) ==
    /\ h \in held
    /\ held' = held \ {h}
    /\ UNCHANGED <<row, nextId, fence, counted, sweeper, phase>>

-----------------------------------------------------------------------------
(***************************************************************************)
(* Maintenance: sweep_once(), one statement at a time under an advisory    *)
(* lock.  A call that finds the lock taken returns ran = false.            *)
(***************************************************************************)
SweepBegin(r) ==
    /\ sweeper = None
    /\ sweeper' = r
    /\ phase' = "expire"
    /\ UNCHANGED <<row, nextId, fence, counted, held>>

\* Mutant: only leases that can be retried are looked for.
ExpiredRetryable == {j \in In("leased") : row[j].lease < 0 /\ row[j].submit > 0}

Expired == {j \in In("leased") : row[j].lease < 0}

\* FOR UPDATE SKIP LOCKED passes over a row whose writer's own transaction
\* is open.
BeingWritten(j) == \E h \in held : h.job = j /\ FencedIn(h)

Requeue(rw) == [rw EXCEPT !.state = "pending", !.lease = 0]

Bury(rw) == [rw EXCEPT !.state = "dead", !.submit = 0, !.lease = 0,
                       !.keep = DeadTicks]

\* Mutant: off by one.
RetryableOnceMore(rw) == rw.attempts <= MaxAttempts /\ rw.submit > 0

Retryable(rw) == rw.attempts < MaxAttempts /\ rw.submit > 0

SweepExpired(skipped) ==
    /\ phase = "expire"
    /\ skipped \subseteq {j \in Expired : BeingWritten(j)}
    /\ row' = [j \in Jobs |->
                 IF j \notin Expired \ skipped THEN row[j]
                 ELSE IF Retryable(row[j]) THEN Requeue(row[j])
                 ELSE Bury(row[j])]
    /\ phase' = "timeout"
    /\ UNCHANGED <<nextId, fence, counted, held, sweeper>>

\* Mutant: a job being worked on is failed as well.
TimedOutOpen ==
    {j \in In("pending") \union In("leased") : row[j].submit <= 0}

TimedOut == {j \in In("pending") : row[j].submit <= 0}

SweepTimedOut ==
    /\ phase = "timeout"
    /\ row' = [j \in Jobs |->
                 IF j \in TimedOut
                 THEN [row[j] EXCEPT !.state = "failed", !.submit = 0,
                                     !.keep = DoneTicks]
                 ELSE row[j]]
    /\ phase' = "reap"
    /\ UNCHANGED <<nextId, fence, counted, held, sweeper>>

\* Mutant: the retention is not looked at.
OldTerminal == {j \in Jobs : row[j].state \in Terminal}

Old == {j \in Jobs : row[j].state \in Terminal /\ row[j].keep < 0}

SweepReap ==
    /\ phase = "reap"
    /\ row' = [j \in Jobs |->
                 IF j \in Old THEN [NoRow EXCEPT !.id = row[j].id] ELSE row[j]]
    /\ phase' = "unlock"
    /\ UNCHANGED <<nextId, fence, counted, held, sweeper>>

\* A statement fails: unlock and return the error.
SweepError ==
    /\ phase \in {"expire", "timeout", "reap"}
    /\ phase' = "unlock"
    /\ UNCHANGED <<row, nextId, fence, counted, held, sweeper>>

SweepUnlock ==
    /\ phase = "unlock"
    /\ sweeper' = None
    /\ phase' = "off"
    /\ UNCHANGED <<row, nextId, fence, counted, held>>

-----------------------------------------------------------------------------
(***************************************************************************)
(* The environment: time, and the loss of a replica.  The server ends a    *)
(* lost session, which releases its advisory lock.                         *)
(***************************************************************************)
RowTick(rw) ==
    [rw EXCEPT !.submit = IF rw.state \in {"pending", "leased"}
                          THEN Elapse(@) ELSE @,
               !.lease  = IF rw.state = "leased" THEN Elapse(@) ELSE @,
               !.keep   = IF rw.state \in Terminal THEN Elapse(@) ELSE @]

Tick ==
    /\ row' = [j \in Jobs |-> RowTick(row[j])]
    /\ UNCHANGED <<nextId, fence, counted, held, sweeper, phase>>

Crash(r) ==
    /\ held' = {h \in held : h.by # r}
    /\ sweeper' = IF sweeper = r THEN None ELSE sweeper
    /\ phase' = IF sweeper = r THEN "off" ELSE phase
    /\ UNCHANGED <<row, nextId, fence, counted>>

-----------------------------------------------------------------------------
Init ==
    /\ row = [j \in Jobs |-> NoRow]
    /\ nextId = 1
    /\ fence = 0
    /\ counted = {}
    /\ held = {}
    /\ sweeper = None
    /\ phase = "off"

Submit == \E j \in Jobs : \/ SubmitCount(j)
                          \/ \E window \in Windows : SubmitInsert(j, window)
                          \/ SubmitAbort(j)

Work == \/ \E j \in Jobs : \/ \E r \in Replicas : LeaseJob(r, j)
                           \/ LeaseReplyLost(j)
        \/ \E h \in held : \/ Heartbeat(h)
                           \/ Complete(h)
                           \/ Fail(h)
                           \/ WriteBackLost(h)

Sweep == \/ \E r \in Replicas : SweepBegin(r)
         \/ \E skipped \in SUBSET Expired : SweepExpired(skipped)
         \/ SweepTimedOut
         \/ SweepReap
         \/ SweepError
         \/ SweepUnlock

Next == \/ Submit
        \/ Work
        \/ Sweep
        \/ Tick
        \/ \E r \in Replicas : Crash(r)

Spec == Init /\ [][Next]_vars

-----------------------------------------------------------------------------
(***************************************************************************)
(* The queue implements JobLedger: a row is its job's entry, open while it *)
(* is pending or leased; a token names the try it was drawn for.           *)
(***************************************************************************)
EntryOf(rw) ==
    [status |-> CASE rw.state \in {"pending", "leased"} -> "open"
                  [] rw.state \in Terminal -> rw.state
                  [] OTHER -> IF rw.id = 0 THEN "new" ELSE "gone",
     tries  |-> rw.attempts,
     by     |-> IF rw.result > 0 THEN rw.attempts ELSE 0]

Ledger == INSTANCE JobLedger WITH job <- [j \in Jobs |-> EntryOf(row[j])]

-----------------------------------------------------------------------------
(***************************************************************************)
(* Properties.                                                             *)
(***************************************************************************)
\* Every variable has its type.
TypeOK ==
    /\ row \in [Jobs -> Row]
    /\ nextId \in Nat \ {0}
    /\ fence \in Nat
    /\ counted \subseteq Jobs
    /\ held \subseteq Lease
    /\ sweeper \in Replicas \union {None}
    /\ phase \in Phase

\* Fencing, in the state: no two leases that replicas still work on carry
\* the same token, and a row that is settled or waiting for a new lease can
\* be overtaken by none of them (their tokens are not newer than the row's).
ExclusiveLease ==
    /\ \A g, h \in held : g.token = h.token => g = h
    /\ \A h \in held : row[h.job].state # "absent"
                          => h.token <= row[h.job].token

\* A stored result is the one computed under the last lease ever granted for
\* the job: a worker whose lease was taken over never has its write accepted
\* (the double execution inference_queue.cppm warns of).
ResultOfLastLease ==
    \A j \in Jobs : /\ row[j].state = "done" => row[j].result > 0
                    /\ row[j].result > 0 => row[j].result = row[j].token

\* lease() does not look at max_attempts; the sweeper alone keeps a job from
\* being tried more often.
AttemptsBounded ==
    \A j \in Jobs : /\ row[j].attempts <= MaxAttempts
                    /\ row[j].state = "pending" => row[j].attempts < MaxAttempts

\* The overshoot that QueueConfig's comment derives: submitters that counted
\* before either inserted exceed the bound by at most one less than the
\* connections they share, and it does not compound.  Said of the rows not yet
\* leased: one that the sweeper requeues is counted by no one, so that the
\* comment's bound on all pending rows is not the code's.
FreshPendingBounded ==
    Cardinality({j \in In("pending") : row[j].attempts = 0})
        <= PendingBound + PoolSize - 1

\* A settled row changes only by being deleted: no worker, sweep or late
\* write gives a second outcome to a job.
SettledOnce ==
    [][\A j \in Jobs : row[j].state \in Terminal
          => \/ row'[j].state = "absent"
             \/ /\ row'[j].state = row[j].state
                /\ row'[j].result = row[j].result]_vars

\* The queue keeps the promise stated by JobLedger.
ImplementsLedger == Ledger!LedgerSpec

-----------------------------------------------------------------------------
(***************************************************************************)
(* The inductive invariant behind them, in named parts.                    *)
(***************************************************************************)
\* What each state of a row implies about its columns, `drawn` tokens having
\* been drawn so far.
RowOK(rw, drawn) ==
    /\ rw \in Row
    /\ rw.id = 0 => rw.state = "absent"
    /\ rw.state = "absent" => rw.attempts = 0 /\ rw.token = 0 /\ rw.result = 0
    /\ rw.state = "pending" => rw.attempts < MaxAttempts /\ rw.result = 0
    /\ rw.state = "leased" => rw.attempts > 0 /\ rw.result = 0
    /\ rw.state = "done" => rw.result > 0
    /\ rw.result > 0 => rw.result = rw.token /\ rw.attempts > 0
    /\ rw.attempts <= MaxAttempts
    /\ rw.token <= drawn

RowsOK == \A j \in Jobs : RowOK(row[j], fence)

\* A lease is of a job that has a row, and its token was drawn for that row.
LeaseOK(h) ==
    /\ 0 < h.token /\ h.token <= fence
    /\ row[h.job].id # 0
    /\ row[h.job].state # "absent" => h.token <= row[h.job].token

LeasesOK == /\ \A h \in held : LeaseOK(h)
            /\ \A g, h \in held : g.token = h.token => g = h

\* An INSERT in flight is the first of its submission.
CountedOK == \A j \in counted : row[j].id = 0

\* The pending rows never leased, and the INSERTs that may add to them.
Fresh == {j \in In("pending") : row[j].attempts = 0}

FreshOK == Cardinality(Fresh \union counted) <= PendingBound + PoolSize - 1

\* Inductive: its parts refer to each other, and each property follows.
QueueInv == TypeOK /\ RowsOK /\ LeasesOK /\ CountedOK /\ FreshOK
=============================================================================
