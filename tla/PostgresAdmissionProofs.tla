----------------------- MODULE PostgresAdmissionProofs -----------------------
(***************************************************************************)
(* What holds of PostgresAdmission for every set of requests and replicas  *)
(* and every deadline: it uses the queue only as InferenceQueue allows, so *)
(* all that is proved of the queue holds here too; a caller's answer       *)
(* agrees with its row; and a row outlives the wait for it.                *)
(***************************************************************************)
EXTENDS PostgresAdmission, InferenceQueueProofs

(***************************************************************************)
(* The inductive invariant.  An answered request has been inserted, so its *)
(* row can only stay settled or be deleted.  A waiting request's row, once *)
(* settled, has at least as long to be kept as the request has left.       *)
(***************************************************************************)
AnswerOK(j) ==
    pc[j] \in {"ok", "error"} =>
        /\ row[j].id # 0
        /\ row[j].state # "absent" =>
             /\ pc[j] = "ok" => row[j].state = "done" /\ got[j] = row[j].result
             /\ pc[j] = "error" => row[j].state \in {"failed", "dead"}

KeptOK(j) ==
    pc[j] \in Waiting =>
        /\ row[j].id # 0
        /\ row[j].state \in Terminal => left[j] <= row[j].keep
        /\ row[j].state = "absent" => left[j] < 0

AdmVarsOK == /\ pc \in [Jobs -> Pc]
             /\ left \in [Jobs -> -1..Window]
             /\ got \in [Jobs -> Nat]

AdmInv == /\ QueueInv /\ AdmVarsOK
          /\ \A j \in Jobs : AnswerOK(j) /\ KeptOK(j)

(***************************************************************************)
(* Every step of the composed system is a step of the queue, or none.      *)
(***************************************************************************)
LEMMA AdmStepIsQueueStep ==
    ASSUME AdmVarsOK, [AdmNext]_allVars
    PROVE  [Next]_vars
<1>1. \A j \in Jobs : left[j] \in Windows
  BY AdmissionAssumption DEF AdmVarsOK
<1>2. ASSUME NEW j \in Jobs, Handler(j) PROVE Submit \/ UNCHANGED vars
  BY <1>1, <1>2
     DEF Handler, Submit, SubmitStart, SubmitFull, SubmitNoConnection, SubmitDone,
         SubmitReplyLost, SubmitFailed, PollSettled, PollOpen, PollNotFound,
         PollError, CheckDeadline
<1>3. ASSUME NEW j \in Jobs, OrphanInsert(j) PROVE Submit
  BY <1>1, <1>3 DEF OrphanInsert, Submit
<1>4. AdmWork => Work
  BY DEF AdmWork, Work
<1>5. \A r \in Replicas : AdmCrash(r) => Crash(r)
  BY DEF AdmCrash
<1>6. UNCHANGED allVars => UNCHANGED vars
  BY DEF allVars, vars
<1> QED BY <1>2, <1>3, <1>4, <1>5, <1>6 DEF AdmNext, AdmSweep, AdmTick, Next

(***************************************************************************)
(* Retention.  A row settles with one of the two retentions and, unless    *)
(* time passes, keeps it; it is deleted only when none is left.            *)
(***************************************************************************)
Keeps(rw, new) ==
    /\ new.state \in Terminal =>
         \/ rw.state \in Terminal /\ new.keep = rw.keep
         \/ rw.state \notin Terminal /\ new.keep \in {DoneTicks, DeadTicks}
    /\ new.state = "absent" =>
         rw.state = "absent" \/ (rw.state \in Terminal /\ rw.keep < 0)

NonTick == [Submit \/ Work \/ Sweep \/ \E r \in Replicas : Crash(r)]_vars

LEMMA SweepKeeps ==
    ASSUME QueueInv, NEW j \in Jobs,
           (\E skipped \in SUBSET Expired : SweepExpired(skipped))
             \/ SweepTimedOut \/ SweepReap
    PROVE  Keeps(row[j], row'[j])
<1>1. row \in [Jobs -> Row] /\ row[j] \in Row
  BY DEF QueueInv, TypeOK
<1>2. ASSUME NEW skipped \in SUBSET Expired, SweepExpired(skipped)
      PROVE  Keeps(row[j], row'[j])
  <2>1. CASE j \in Expired \ skipped /\ Retryable(row[j])
    BY <1>1, <1>2, <2>1
       DEF SweepExpired, Expired, In, Requeue, Row, Keeps, Terminal
  <2>2. CASE j \in Expired \ skipped /\ ~Retryable(row[j])
    BY <1>1, <1>2, <2>2
       DEF SweepExpired, Expired, In, Bury, Row, Keeps, Terminal
  <2>3. CASE j \notin Expired \ skipped
    BY <1>2, <2>3 DEF SweepExpired, Keeps
  <2> QED BY <2>1, <2>2, <2>3
<1>3. CASE SweepTimedOut
  <2>1. CASE j \in TimedOut
    BY <1>1, <1>3, <2>1 DEF SweepTimedOut, TimedOut, In, Row, Keeps, Terminal
  <2>2. CASE j \notin TimedOut
    BY <1>3, <2>2 DEF SweepTimedOut, Keeps
  <2> QED BY <2>1, <2>2
<1>4. CASE SweepReap
  <2>1. CASE j \in Old
    BY <1>1, <1>4, <2>1 DEF SweepReap, Old, NoRow, Keeps, Terminal
  <2>2. CASE j \notin Old
    BY <1>4, <2>2 DEF SweepReap, Keeps
  <2> QED BY <2>1, <2>2
<1> QED BY <1>2, <1>3, <1>4

LEMMA RowKeeps ==
    ASSUME QueueInv, NonTick, NEW j \in Jobs
    PROVE  Keeps(row[j], row'[j])
<1>1. row \in [Jobs -> Row] /\ row[j] \in Row
  BY DEF QueueInv, TypeOK
<1>2. CASE row'[j] = row[j]
  BY <1>2 DEF Keeps
<1>3. ASSUME NEW i \in Jobs, NEW w \in Windows, SubmitInsert(i, w)
      PROVE  Keeps(row[j], row'[j])
  BY <1>1, <1>3 DEF SubmitInsert, NoRow, Keeps, Terminal
<1>4. ASSUME NEW i \in Jobs, Claim(i)
      PROVE  Keeps(row[j], row'[j])
  BY <1>2, <1>4, ClaimRow DEF Keeps, Terminal
<1>5. ASSUME NEW h \in held, Heartbeat(h)
      PROVE  Keeps(row[j], row'[j])
  BY <1>1, <1>5 DEF Heartbeat, Row, Keeps
<1>6. ASSUME NEW h \in held, Complete(h) \/ Fail(h)
      PROVE  Keeps(row[j], row'[j])
  <2>1. PICK state : state \in {"done", "failed"} /\ WriteBack(h, state)
    BY <1>6 DEF Complete, Fail
  <2>2. CASE h.job = j /\ FencedIn(h)
    <3>1. row'[j] = [row[j] EXCEPT !.state = state, !.result = h.token,
                                   !.submit = 0, !.lease = 0, !.keep = DoneTicks]
      BY <1>1, <2>1, <2>2 DEF WriteBack
    <3>2. row[j].state = "leased" /\ row'[j].state = state /\ row'[j].keep = DoneTicks
      BY <1>1, <2>2, <3>1 DEF FencedIn, Row
    <3> QED BY <2>1, <3>2 DEF Keeps, Terminal
  <2>3. CASE ~(h.job = j /\ FencedIn(h))
    <3>1. row'[j] = row[j]
      BY <1>1, <2>1, <2>3 DEF WriteBack
    <3> QED BY <1>2, <3>1
  <2> QED BY <2>2, <2>3
<1>7. CASE Submit
  BY <1>2, <1>3, <1>7 DEF Submit, SubmitCount, SubmitAbort
<1>8. CASE Work
  BY <1>2, <1>4, <1>5, <1>6, <1>8 DEF Work, LeaseJob, LeaseReplyLost, WriteBackLost
<1>9. CASE Sweep
  BY <1>2, <1>9, SweepKeeps DEF Sweep, SweepBegin, SweepError, SweepUnlock
<1>10. CASE UNCHANGED vars \/ \E r \in Replicas : Crash(r)
  BY <1>2, <1>10 DEF vars, Crash
<1> QED BY <1>7, <1>8, <1>9, <1>10 DEF NonTick

(***************************************************************************)
(* The invariant is inductive.                                             *)
(***************************************************************************)
\* A handler that does not move while anything but time does.
LEMMA Bystander ==
    ASSUME AdmInv, [Next]_vars, NonTick, NEW j \in Jobs,
           pc'[j] = pc[j], left'[j] = left[j], got'[j] = got[j]
    PROVE  AnswerOK(j)' /\ KeptOK(j)'
<1>1. /\ Moves(row[j], row'[j]) /\ Keeps(row[j], row'[j])
      /\ RowOK(row[j], fence) /\ AnswerOK(j) /\ KeptOK(j)
      /\ left[j] \in -1..Window
  BY RowMoves, RowKeeps DEF AdmInv, AdmVarsOK, QueueInv, RowsOK
<1>2. AnswerOK(j)'
  BY <1>1 DEF AnswerOK, Moves, Stays, Same, Inserted, Claimed, Written, GivenUp,
              Reaped, Terminal
<1>3. row[j].id # 0 => row'[j].id # 0
  BY <1>1 DEF Moves, Stays, Same, Inserted, Claimed, Written, GivenUp, Reaped
<1>4. row'[j].state = "absent" /\ row[j].id # 0 /\ pc[j] \in Waiting => left[j] < 0
  <2>1. row[j].state \in Terminal => row[j].keep \in Int
    BY <1>1 DEF RowOK, Row, Ticks
  <2> QED BY <1>1, <2>1 DEF Keeps, KeptOK
<1>5. row'[j].state \in Terminal /\ pc[j] \in Waiting => left[j] <= row'[j].keep
  BY <1>1, AdmissionAssumption, QueueAssumption DEF Keeps, KeptOK
<1> QED BY <1>1, <1>2, <1>3, <1>4, <1>5 DEF KeptOK

\* A handler's own step: it inserts, or reads a row it does not change.
LEMMA OwnStep ==
    ASSUME AdmInv, NEW j \in Jobs, Handler(j)
    PROVE  AnswerOK(j)' /\ KeptOK(j)'
<1>1. /\ row \in [Jobs -> Row] /\ RowOK(row[j], fence)
      /\ nextId # 0 /\ fence \in Nat
      /\ pc \in [Jobs -> Pc] /\ left \in [Jobs -> -1..Window]
      /\ got \in [Jobs -> Nat] /\ AnswerOK(j) /\ KeptOK(j)
  BY DEF AdmInv, QueueInv, TypeOK, RowsOK, AdmVarsOK
<1>2. CASE pc'[j] \in {"insert", "local"}
  BY <1>2 DEF AnswerOK, KeptOK, Waiting
<1>3. CASE SubmitDone(j)
  <2>1. pc'[j] = "poll"
    BY <1>1, <1>3 DEF SubmitDone, Goto
  <2>2. row'[j].id # 0 /\ row'[j].state = "pending"
    BY <1>1, <1>3 DEF SubmitDone, SubmitInsert, NoRow
  <2> QED BY <2>1, <2>2 DEF AnswerOK, KeptOK, Terminal
<1>4. CASE PollSettled(j)
  <2>1. row'[j] = row[j] /\ row[j].state \in Terminal /\ row[j].id # 0
    BY <1>1, <1>4 DEF PollSettled, vars, RowOK, Terminal
  <2>2. /\ got'[j] = row[j].result
        /\ \/ row[j].state = "done" /\ pc'[j] = "ok"
           \/ row[j].state \in {"failed", "dead"} /\ pc'[j] = "error"
    BY <1>1, <1>4 DEF PollSettled, Return
  <2> QED BY <2>1, <2>2 DEF AnswerOK, KeptOK, Waiting
<1>5. CASE pc[j] \in Waiting /\ pc'[j] \in Waiting /\ UNCHANGED <<vars, left>>
  BY <1>1, <1>5 DEF AnswerOK, KeptOK, Waiting, vars
<1>6. PollOpen(j) \/ CheckDeadline(j) =>
        \/ pc'[j] = "local"
        \/ pc[j] \in Waiting /\ pc'[j] \in Waiting /\ UNCHANGED <<vars, left>>
  BY <1>1 DEF PollOpen, CheckDeadline, Goto, Waiting
<1>7. (\/ SubmitStart(j) \/ SubmitFull(j) \/ SubmitNoConnection(j)
       \/ SubmitReplyLost(j) \/ SubmitFailed(j) \/ PollNotFound(j) \/ PollError(j))
        => pc'[j] \in {"insert", "local"}
  BY <1>1 DEF SubmitStart, SubmitFull, SubmitNoConnection, SubmitReplyLost,
              SubmitFailed, PollNotFound, PollError, SetDeadline, Goto
<1> QED BY <1>2, <1>3, <1>4, <1>5, <1>6, <1>7 DEF Handler

\* A handler moves only itself, in one of three ways.
LEMMA HandlerAlone ==
    ASSUME AdmInv, NEW j \in Jobs, Handler(j)
    PROVE  /\ AdmVarsOK'
           /\ \A i \in Jobs : i # j =>
                pc'[i] = pc[i] /\ left'[i] = left[i] /\ got'[i] = got[i]
<1>1. /\ AdmVarsOK /\ Window \in -1..Window /\ row[j].result \in Nat
  BY AdmissionAssumption DEF AdmInv, QueueInv, TypeOK, Row
<1>2. \/ \E there \in {"insert", "local"} : SetDeadline(j, there)
      \/ \E there \in Waiting \union {"local"} : Goto(j, there)
      \/ \E kind \in {"ok", "error"} : Return(j, kind)
  BY DEF Handler, SubmitStart, SubmitFull, SubmitNoConnection, SubmitDone,
         SubmitReplyLost, SubmitFailed, PollSettled, PollOpen, PollNotFound,
         PollError, CheckDeadline, Waiting
<1>3. {"insert", "local", "ok", "error"} \union Waiting \subseteq Pc
  BY DEF Pc, Waiting, Answered
<1>4. ASSUME NEW there \in {"insert", "local"}, SetDeadline(j, there)
      PROVE  /\ AdmVarsOK'
             /\ \A i \in Jobs : i # j =>
                  pc'[i] = pc[i] /\ left'[i] = left[i] /\ got'[i] = got[i]
  BY <1>1, <1>3, <1>4 DEF SetDeadline, AdmVarsOK
<1>5. ASSUME NEW there \in Waiting \union {"local"}, Goto(j, there)
      PROVE  /\ AdmVarsOK'
             /\ \A i \in Jobs : i # j =>
                  pc'[i] = pc[i] /\ left'[i] = left[i] /\ got'[i] = got[i]
  BY <1>1, <1>3, <1>5 DEF Goto, AdmVarsOK
<1>6. ASSUME NEW kind \in {"ok", "error"}, Return(j, kind)
      PROVE  /\ AdmVarsOK'
             /\ \A i \in Jobs : i # j =>
                  pc'[i] = pc[i] /\ left'[i] = left[i] /\ got'[i] = got[i]
  BY <1>1, <1>3, <1>6 DEF Return, AdmVarsOK
<1> QED BY <1>2, <1>4, <1>5, <1>6

LEMMA TimeStep ==
    ASSUME AdmInv, AdmTick, NEW j \in Jobs
    PROVE  AnswerOK(j)' /\ KeptOK(j)'
<1>1. /\ row'[j] = RowTick(row[j]) /\ pc'[j] = pc[j] /\ got'[j] = got[j]
      /\ left'[j] = IF pc[j] \in {"insert"} \union Waiting
                    THEN Elapse(left[j]) ELSE left[j]
  BY DEF AdmTick, Tick
<1>2. /\ row[j] \in Row /\ RowOK(row[j], fence) /\ fence \in Nat
      /\ left[j] \in -1..Window /\ Window \in Nat
      /\ AnswerOK(j) /\ KeptOK(j)
  BY AdmissionAssumption DEF AdmInv, AdmVarsOK, QueueInv, TypeOK, RowsOK
<1>3. /\ row'[j].state = row[j].state /\ row'[j].id = row[j].id
      /\ row'[j].result = row[j].result
  BY <1>1, <1>2, RowTickOK
<1>4. AnswerOK(j)'
  BY <1>1, <1>2, <1>3 DEF AnswerOK
<1>5. ASSUME row[j].state \in Terminal, pc[j] \in Waiting
      PROVE  left'[j] <= row'[j].keep
  <2>1. row'[j].keep = Elapse(row[j].keep) /\ left'[j] = Elapse(left[j])
    BY <1>1, <1>2, <1>5 DEF RowTick, Row
  <2>2. row[j].keep \in Int /\ left[j] <= row[j].keep
    BY <1>2, <1>5 DEF KeptOK, Row, Ticks
  <2> QED BY <1>2, <2>1, <2>2 DEF Elapse
<1>6. left[j] < 0 => left'[j] < 0
  BY <1>1, <1>2 DEF Elapse
<1>7. KeptOK(j)'
  BY <1>1, <1>2, <1>3, <1>5, <1>6 DEF KeptOK
<1> QED BY <1>4, <1>7

LEMMA AdmStepInv == AdmInv /\ [AdmNext]_allVars => AdmInv'
<1> SUFFICES ASSUME AdmInv, [AdmNext]_allVars PROVE AdmInv'
  OBVIOUS
<1>1. AdmVarsOK /\ QueueInv
  BY DEF AdmInv
<1>2. [Next]_vars /\ QueueInv'
  BY <1>1, AdmStepIsQueueStep, StepInv
<1>3. ASSUME NEW i \in Jobs, Handler(i)
      PROVE  AdmVarsOK' /\ \A j \in Jobs : AnswerOK(j)' /\ KeptOK(j)'
  <2>1. NonTick
    BY <1>1, <1>3, AdmissionAssumption
       DEF Handler, SubmitStart, SubmitFull, SubmitNoConnection, SubmitDone,
           SubmitReplyLost, SubmitFailed, PollSettled, PollOpen, PollNotFound,
           PollError, CheckDeadline, NonTick, Submit, AdmVarsOK
  <2> QED BY <1>2, <1>3, <2>1, OwnStep, HandlerAlone, Bystander
<1>4. ASSUME UNCHANGED admVars, NonTick
      PROVE  AdmVarsOK' /\ \A j \in Jobs : AnswerOK(j)' /\ KeptOK(j)'
  BY <1>1, <1>2, <1>4, Bystander DEF admVars, AdmVarsOK
<1>5. ASSUME NEW j \in Jobs, OrphanInsert(j)
      PROVE  UNCHANGED admVars /\ NonTick
  BY <1>1, <1>5, AdmissionAssumption DEF OrphanInsert, NonTick, Submit, AdmVarsOK
<1>6. AdmWork \/ AdmSweep \/ UNCHANGED allVars => UNCHANGED admVars /\ NonTick
  BY DEF AdmWork, AdmSweep, Work, NonTick, allVars, admVars, vars
<1>7. CASE AdmTick
  <2>1. \A t \in -1..Window : Elapse(t) \in -1..Window
    BY AdmissionAssumption DEF Elapse
  <2>2. AdmVarsOK'
    BY <1>1, <1>7, <2>1 DEF AdmTick, AdmVarsOK
  <2> QED BY <1>2, <1>7, <2>2, TimeStep DEF AdmInv
<1>8. ASSUME NEW r \in Replicas, AdmCrash(r)
      PROVE  AdmVarsOK' /\ \A j \in Jobs : AnswerOK(j)' /\ KeptOK(j)'
  <2>1. AdmVarsOK'
    BY <1>1, <1>8 DEF AdmCrash, AdmVarsOK, Pc
  <2>2. NonTick
    BY <1>8 DEF AdmCrash, NonTick
  <2>3. ASSUME NEW j \in Jobs, pc'[j] = pc[j]
        PROVE  AnswerOK(j)' /\ KeptOK(j)'
    BY <1>2, <1>8, <2>2, <2>3, Bystander DEF AdmCrash
  <2>4. ASSUME NEW j \in Jobs, pc'[j] = "crashed"
        PROVE  AnswerOK(j)' /\ KeptOK(j)'
    BY <2>4 DEF AnswerOK, KeptOK, Waiting
  <2>5. \A j \in Jobs : pc'[j] = pc[j] \/ pc'[j] = "crashed"
    BY <1>8 DEF AdmCrash
  <2> QED BY <2>1, <2>3, <2>4, <2>5
<1> QED BY <1>2, <1>3, <1>4, <1>5, <1>6, <1>7, <1>8 DEF AdmNext, AdmInv

LEMMA AdmInitInv == AdmInit => AdmInv
<1> SUFFICES ASSUME AdmInit PROVE AdmInv
  OBVIOUS
<1>1. QueueInv
  BY InitInv DEF AdmInit
<1>2. AdmVarsOK
  BY AdmissionAssumption DEF AdmInit, AdmVarsOK, Pc
<1>3. \A j \in Jobs : AnswerOK(j) /\ KeptOK(j)
  BY DEF AdmInit, AnswerOK, KeptOK, Waiting
<1> QED BY <1>1, <1>2, <1>3 DEF AdmInv

(***************************************************************************)
(* The theorems.                                                           *)
(***************************************************************************)
THEOREM AdmInvariance == AdmSpec => []AdmInv
<1>1. AdmInit => AdmInv
  BY AdmInitInv
<1>2. AdmInv /\ [AdmNext]_allVars => AdmInv'
  BY AdmStepInv
<1> QED BY <1>1, <1>2, PTL DEF AdmSpec

\* The handlers, workers and sweepers of PostgresAdmission use the table only
\* as inference_queue.cpp lets them: each of its behaviours is one of the
\* queue, so each of the queue's theorems holds of it.
THEOREM AdmissionUsesQueue == AdmSpec => Spec
<1>1. AdmInit => Init
  BY DEF AdmInit
<1>2. AdmInv /\ [AdmNext]_allVars => [Next]_vars
  BY AdmStepIsQueueStep DEF AdmInv
<1> QED BY <1>1, <1>2, AdmInvariance, PTL DEF AdmSpec, Spec

\* The variables of the queue and of the handlers have their types.
THEOREM AdmTyping == AdmSpec => []AdmTypeOK
<1>1. AdmInv => AdmTypeOK
  BY DEF AdmInv, AdmVarsOK, QueueInv, AdmTypeOK
<1> QED BY <1>1, AdmInvariance, PTL

\* await_result() and submit(): a caller is told what the row says, and no
\* later write makes the row say something else.
THEOREM AnswersAgree == AdmSpec => []AnswerAgreesWithRow
<1>1. AdmInv => AnswerAgreesWithRow
  BY DEF AdmInv, AnswerOK, AnswerAgreesWithRow
<1> QED BY <1>1, AdmInvariance, PTL

\* sweep_once() deletes no row whose submitter still has time to read it,
\* given that both retentions are at least the deadline.
THEOREM RowsOutliveWaits == AdmSpec => []WaitingRowIsKept
<1>1. AdmInv => WaitingRowIsKept
  <2> SUFFICES ASSUME AdmInv, NEW j \in Jobs, pc[j] \in Waiting, left[j] >= 0
               PROVE  row[j].state # "absent"
    BY DEF WaitingRowIsKept
  <2> QED BY DEF AdmInv, AdmVarsOK, KeptOK
<1> QED BY <1>1, AdmInvariance, PTL
=============================================================================
