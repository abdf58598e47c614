------------------------------ MODULE Assistant ------------------------------
(***************************************************************************)
(* The strategy assistant's store (useAssistantStore) and its panel: an    *)
(* utterance is sent to be parsed, the answer is shown, and parameters the *)
(* user applies drive the calculator, the expiry once its chain is there.  *)
(***************************************************************************)
EXTENDS Calculator

VARIABLE asst

\* Submissions are numbered; `said' is the last.  An outcome remembers which
\* submission it answers; `prior' is the one whose question is still open.
Outcome   == [of: 1..MaxOps, kind: {"params", "clarification", "refusal", "failed"}]
AsstStore == [said: 0..MaxOps, parsing: BOOLEAN, shown: SUBSET Outcome,
              calls: SUBSET [of: 1..MaxOps, prior: 0..MaxOps],
              prior: 0..MaxOps, pending: BOOLEAN]

AsstInit == asst = [said |-> 0, parsing |-> FALSE, shown |-> {}, calls |-> {},
                    prior |-> 0, pending |-> FALSE]

\* parse(): the earlier outcomes go, and an open question is sent along.
Parse(a) == [a EXCEPT !.said = @ + 1, !.parsing = TRUE, !.shown = {},
                      !.calls = @ \union {[of |-> a.said + 1, prior |-> a.prior]}]

\* Mutant: the button stays on while an answer is awaited.
SubmitAnyway == Spend /\ asst' = Parse(asst) /\ UNCHANGED calc

\* submit() in the panel: nothing is sent while an answer is awaited.
Submit ==
    /\ ~asst.parsing
    /\ Spend
    /\ asst' = Parse(asst)
    /\ UNCHANGED calc

SubmitNothing ==
    /\ ~asst.parsing
    /\ Spend
    /\ asst' = [asst EXCEPT !.said = @ + 1,
                            !.shown = {[of |-> asst.said + 1, kind |-> "failed"]}]
    /\ UNCHANGED calc

\* The answer is written beside what is shown; each kind has its field, a
\* denial, a model limit and an error ("failed") one of their own each.
ParseReply(call, kind) ==
    /\ asst' = [asst EXCEPT
         !.calls = @ \ {call}, !.parsing = FALSE,
         !.shown = {o \in @ : o.kind # kind} \union {[of |-> call.of, kind |-> kind]},
         !.prior = CASE kind \in {"params", "refusal"} -> 0
                     [] kind = "clarification" -> call.of
                     [] OTHER -> @]
    /\ UNCHANGED <<calc, ops>>

\* applyParams(): what the parameters name, and whether they state an expiry,
\* is chosen here.  A class or a strategy this build does not offer is refused
\* with a message and changes nothing.
ApplyParams(i, days) ==
    /\ \E o \in asst.shown : o.kind = "params"
    /\ Spend
    /\ calc' = SetSymbol(calc, i, Nil)
    /\ asst' = [asst EXCEPT !.pending = days]

(***************************************************************************)
(* resolvePendingExpiry(), which the panel's effect runs after every       *)
(* change of the chain, before the next event: the nearest expiry listed   *)
(* is selected, or a chain without any ends the wait.                      *)
(***************************************************************************)
\* Mutant: a chain that fails is waited for.
ChainReadyOnly(c) == ExpiriesShown(c) \/ c.chainStatus = "ready"

ChainSettled(c) == ExpiriesShown(c) \/ c.chainStatus \in {"ready", "error"}

MustResolve == asst.pending /\ ChainSettled(calc)

ResolvePending ==
    /\ MustResolve
    /\ IF ExpiriesShown(calc)
       THEN \E e \in Listed(calc.chain.inst) : calc' = SetSelectedExpiration(calc, e)
       ELSE UNCHANGED calc
    /\ asst' = [asst EXCEPT !.pending = FALSE]
    /\ UNCHANGED ops

AsstStep ==
    \/ Submit \/ SubmitNothing
    \/ \E i \in Instruments, days \in BOOLEAN : ApplyParams(i, days)

AsstReply ==
    \E call \in asst.calls, kind \in {"params", "clarification", "refusal", "failed"} :
        ParseReply(call, kind)

-----------------------------------------------------------------------------
\* The assistant's state has its type.
AsstTypeOK == asst \in AsstStore

\* One outcome is shown, and it answers the last utterance: an answer to an
\* earlier one is never read as the answer to what the user asked since.
OneOutcomeForTheLastUtterance ==
    /\ \A o, p \in asst.shown : o = p
    /\ \A o \in asst.shown : o.of = asst.said

\* The stated expiry does not wait for ever: a chain that fails, or a curve in
\* its place, ends the wait too.
PendingExpiryIsResolved == asst.pending ~> ~asst.pending
=============================================================================
