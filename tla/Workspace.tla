------------------------------ MODULE Workspace ------------------------------
(***************************************************************************)
(* The calculator page: one tab's calculator, its assistant, its exercise- *)
(* style pricer and the scenarios saved from it.  They share the           *)
(* calculator's store and, here, one bound on what the user does.          *)
(***************************************************************************)
EXTENDS Assistant, TreePricer

CONSTANTS Names, Cap,
          Classify(_)   \* the instrument a bare symbol is taken for

ASSUME WorkspaceAssumption ==
    (\A i \in Instruments : Classify(i) \in Instruments) /\ Cap \in Nat

VARIABLES rows, nextId, tab

Scenario == [of: Instruments, legs: {l \in Legs : Len(l) <= MaxLegs},
             spot: Instruments \union {Nil}]

Saved == INSTANCE SavedScenarios WITH Scenarios <- Scenario

vars == <<calc, ops, asst, tree, rows, nextId, tab>>
savedVars == <<rows, nextId, tab>>

\* save(), behind a button that wants legs and a name; refused while there is
\* no rate.
SaveScenario(name) ==
    /\ calc.legs # <<>>
    /\ Spend
    /\ IF RateKnown(calc)
       THEN Saved!SaveAs(name, [of |-> calc.inst, legs |-> calc.legs,
                                spot |-> calc.spot])
       ELSE Saved!SaveRefused
    /\ UNCHANGED <<calc, asst>>

\* apply(): the saved symbol is classified again, the saved price stands in
\* for a quote, and the legs are those of the instrument it is taken for.
Reopened(c, s) ==
    LET i == Classify(s.of)
        cleared == ClearLegs(SetSymbolAt(c, i, s.spot))
    IN  [cleared EXCEPT !.retired = Nil,
           !.legs = [n \in DOMAIN s.legs |-> [s.legs[n] EXCEPT !.inst = i]]]

OpenScenario(row) ==
    /\ Spend
    /\ calc' = Effect(Calculate(Reopened(calc, row.scenario)))
    /\ UNCHANGED <<asst, savedVars>>

SavedStep ==
    \/ \E name \in Names : SaveScenario(name)
    \/ \E n \in DOMAIN tab.list :
         \/ OpenScenario(tab.list[n])
         \/ /\ Spend /\ Saved!RemoveRow(tab.list[n].id)
            /\ UNCHANGED <<calc, asst>>
    \/ Spend /\ Saved!Refresh /\ UNCHANGED <<calc, asst>>

TreeStep == TogglePanel \/ \E style \in 0..2 : SetStyle(style)

WorkspaceInit == CalcInit /\ AsstInit /\ TreeInit /\ Saved!SavedInit

\* Effects run to their end before the next event.
Event ==
    /\ ~MustResolve
    /\ \/ UserStep /\ UNCHANGED <<asst, savedVars>> /\ TreeFollows
       \/ AsstStep /\ UNCHANGED savedVars /\ TreeFollows
       \/ SavedStep /\ TreeFollows
       \/ TreeStep /\ UNCHANGED <<asst, savedVars>>

Reply ==
    /\ ~MustResolve
    /\ \/ NetworkStep /\ UNCHANGED <<asst, savedVars>> /\ TreeFollows
       \/ AsstReply /\ UNCHANGED <<tree, savedVars>>
       \/ Saved!CallStep /\ UNCHANGED <<calc, ops, asst, tree>>
       \/ (ExecutePricing \/ TreeReplies) /\ UNCHANGED <<asst, savedVars>>

RunEffects == ResolvePending /\ UNCHANGED savedVars /\ TreeFollows

WorkspaceNext == Event \/ Reply \/ RunEffects

WorkspaceSpec == WorkspaceInit /\ [][WorkspaceNext]_vars

(***************************************************************************)
(* Fairness: a request ends, with an answer or with a failure, a timer     *)
(* fires and the event loop runs the effects.  The user may stop.          *)
(***************************************************************************)
FairWorkspaceSpec == WorkspaceSpec /\ WF_vars(Reply \/ RunEffects)

-----------------------------------------------------------------------------
\* The store, the assistant, the pricer and the saved rows have their types.
WorkspaceTypeOK == CalcTypeOK /\ AsstTypeOK /\ TreeTypeOK /\ Saved!SavedTypeOK

\* Saving again under a name replaces its row, also when the first save is
\* still open because its reply was lost.
OneRowPerName == Saved!OneRowPerName
=============================================================================
