------------------------------ MODULE JobLedger ------------------------------
(***************************************************************************)
(* What the shared inference queue promises, without tables, tokens,       *)
(* leases or sweeps: a job is opened once, is tried a bounded number of    *)
(* times, and settles at most once; a result is that of its last try.      *)
(***************************************************************************)
EXTENDS Integers

CONSTANTS Jobs, MaxAttempts

VARIABLE job

Status == {"new", "open", "done", "failed", "dead", "gone"}

\* `by` is the try whose outcome the job settled with, 0 if none of them.
Entry == [status: Status, tries: 0..MaxAttempts, by: 0..MaxAttempts]

LedgerInit == job = [j \in Jobs |-> [status |-> "new", tries |-> 0, by |-> 0]]

Open(e, f) == e.status = "new" /\ f = [e EXCEPT !.status = "open"]

Try(e, f) == /\ e.status = "open" /\ e.tries < MaxAttempts
             /\ f = [e EXCEPT !.tries = @ + 1]

\* A worker's outcome, from the last try.
Report(e, f) ==
    /\ e.status = "open" /\ e.tries > 0
    /\ f \in [status: {"done", "failed"}, tries: {e.tries}, by: {e.tries}]

\* The queue gives up: on a job still waiting, or after the last lease.
GiveUp(e, f) ==
    /\ e.status = "open"
    /\ \/ e.tries < MaxAttempts /\ f = [e EXCEPT !.status = "failed"]
       \/ e.tries > 0 /\ f = [e EXCEPT !.status = "dead"]

Forget(e, f) ==
    /\ e.status \in {"done", "failed", "dead"}
    /\ f = [status |-> "gone", tries |-> 0, by |-> 0]

EntryStep(e, f) ==
    Open(e, f) \/ Try(e, f) \/ Report(e, f) \/ GiveUp(e, f) \/ Forget(e, f)

\* One statement of the sweeper settles or forgets many jobs.
LedgerNext == \A j \in Jobs : EntryStep(job[j], job'[j]) \/ job'[j] = job[j]

LedgerSpec == LedgerInit /\ [][LedgerNext]_job
=============================================================================
