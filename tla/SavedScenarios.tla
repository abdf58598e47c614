--------------------------- MODULE SavedScenarios ---------------------------
(***************************************************************************)
(* One user's saved scenarios: the rows of saved_strategies, the           *)
(* statements PgStrategyStore runs on them at READ COMMITTED, and the      *)
(* calls of the user's browser tab (useSavedScenariosStore).               *)
(***************************************************************************)
EXTENDS Naturals, Sequences, SequencesExt

CONSTANTS Names,
          Scenarios,  \* what a row holds: a request, opaque here
          Cap         \* kMaxPerUser

VARIABLES rows,       \* the user's rows, the last written first
          nextId,     \* gen_random_uuid()
          tab         \* what the panel shows and its calls in flight

Row  == [id: Nat, name: Names, scenario: Scenarios]
Seen == Seq(Row)

\* A call is on its way ("sent"), has its snapshot ("open") or its answer; of
\* an "orphan" the tab no longer awaits the answer.
Call == [op: {"save"}, name: Names, scenario: Scenarios, seen: Seen,
         at: {"sent", "open", "orphan", "ok", "failed"}]
  \union [op: {"list"}, at: {"sent", "ok", "failed"}, seen: Seen, saving: BOOLEAN]
  \union [op: {"delete"}, at: {"sent", "ok", "failed"}, id: Nat]

Tab == [list: Seen, status: {"loading", "ready", "error"}, failure: BOOLEAN,
        saved: Names \union {""}, busy: BOOLEAN, calls: Seq(Call)]

NamesIn(s) == {r.name : r \in ToSet(s)}
OfName(s, name) == {r \in ToSet(s) : r.name = name}
OfId(s, id)     == {r \in ToSet(s) : r.id = id}

\* The rows of s that are not gone, in their order.
Without(s, gone) ==
    LET left[n \in 0..Len(s)] ==
          IF n = 0 THEN <<>>
          ELSE IF s[n] \in gone THEN left[n - 1] ELSE Append(left[n - 1], s[n])
    IN  left[Len(s)]

Becomes(n, at, seen) ==
    tab' = [tab EXCEPT !.calls[n] =
              IF @.op = "delete" THEN [@ EXCEPT !.at = at]
              ELSE [@ EXCEPT !.at = at, !.seen = seen]]

-----------------------------------------------------------------------------
(***************************************************************************)
(* The server.  A statement sees the rows that are committed when it       *)
(* begins; its insert meets the rows that are there when it ends.          *)
(***************************************************************************)
\* Mutant: without ON CONFLICT.
UpsertAppends(s, name, scenario) ==
    <<[id |-> nextId, name |-> name, scenario |-> scenario]>> \o s

Upsert(s, name, scenario) ==
    LET old == OfName(s, name)
        row == [id |-> IF old = {} THEN nextId ELSE (CHOOSE r \in old : TRUE).id,
                name |-> name, scenario |-> scenario]
    IN  <<row>> \o Without(s, old)

HasRoom(call) == Len(call.seen) < Cap \/ call.name \in NamesIn(call.seen)

SaveBegins(n) ==
    /\ tab.calls[n].op = "save" /\ tab.calls[n].at = "sent"
    /\ Becomes(n, "open", rows)
    /\ UNCHANGED <<rows, nextId>>

\* The upsert commits, or nothing is inserted because the user is at capacity.
Insert(call) ==
    IF HasRoom(call)
    THEN /\ rows' = Upsert(rows, call.name, call.scenario)
         /\ nextId' = IF call.name \in NamesIn(rows) THEN nextId ELSE nextId + 1
    ELSE UNCHANGED <<rows, nextId>>

SaveEnds(n) ==
    LET call == tab.calls[n] IN
    /\ call.op = "save" /\ call.at \in {"open", "orphan"}
    /\ Insert(call)
    /\ IF call.at = "orphan"
       THEN tab' = [tab EXCEPT !.calls = RemoveAt(@, n)]
       ELSE Becomes(n, IF HasRoom(call) THEN "ok" ELSE "failed", <<>>)

ListServed(n) ==
    /\ tab.calls[n].op = "list" /\ tab.calls[n].at = "sent"
    /\ Becomes(n, "ok",
               SubSeq(rows, 1, IF Len(rows) < Cap THEN Len(rows) ELSE Cap))
    /\ UNCHANGED <<rows, nextId>>

DeleteServed(n) ==
    /\ tab.calls[n].op = "delete" /\ tab.calls[n].at = "sent"
    /\ rows' = Without(rows, OfId(rows, tab.calls[n].id))
    /\ Becomes(n, "ok", <<>>)
    /\ UNCHANGED nextId

\* No connection, no entitlement, no store: the statement is not run.
Refused(n) ==
    /\ tab.calls[n].at = "sent"
    /\ Becomes(n, "failed", <<>>)
    /\ UNCHANGED <<rows, nextId>>

-----------------------------------------------------------------------------
(***************************************************************************)
(* The tab.                                                                *)
(***************************************************************************)
ListCall(saving) == [op |-> "list", at |-> "sent", seen |-> <<>>,
                     saving |-> saving]

Send(s, call) == [s EXCEPT !.calls = Append(@, call), !.failure = FALSE]

\* refresh(), from the panel's effect on [pro] or after a save or a delete.
Refreshed(s, saving) == [Send(s, ListCall(saving)) EXCEPT !.status = "loading"]

Refresh ==
    /\ tab' = Refreshed(tab, FALSE)
    /\ UNCHANGED <<rows, nextId>>

\* onSave(): the panel is busy until the refresh after the save is over.
SaveAs(name, scenario) ==
    /\ ~tab.busy
    /\ tab' = [Send(tab, [op |-> "save", name |-> name, scenario |-> scenario,
                          seen |-> <<>>, at |-> "sent"])
                EXCEPT !.status = "loading", !.busy = TRUE]
    /\ UNCHANGED <<rows, nextId>>

SaveRefused ==
    /\ ~tab.busy
    /\ tab' = [tab EXCEPT !.failure = TRUE]
    /\ UNCHANGED <<rows, nextId>>

\* The row's button; nothing disables it while another call is out.
RemoveRow(id) ==
    /\ id \in {r.id : r \in ToSet(tab.list)}
    /\ tab' = Send(tab, [op |-> "delete", id |-> id, at |-> "sent"])
    /\ UNCHANGED <<rows, nextId>>

Failed(s) == [s EXCEPT !.status = "error", !.failure = TRUE]

\* The answer of call n reaches the tab.
Returns(n) ==
    LET call == tab.calls[n]
        s    == [tab EXCEPT !.calls = RemoveAt(@, n)]
        idle == [s EXCEPT !.busy = @ /\ (call.op = "delete"
                                         \/ (call.op = "list" /\ ~call.saving))]
    IN  /\ call.at \in {"ok", "failed"}
        /\ tab' =
             IF call.at = "failed"
             THEN [Failed(idle) EXCEPT !.list = IF call.op = "list" THEN <<>> ELSE @]
             ELSE CASE call.op = "save" -> Refreshed([s EXCEPT !.saved = call.name], TRUE)
                    [] call.op = "delete" ->
                         Refreshed([s EXCEPT !.list = Without(@, OfId(@, call.id))],
                                   FALSE)
                    [] OTHER -> [idle EXCEPT !.list = call.seen, !.status = "ready",
                                             !.failure = FALSE]
        /\ UNCHANGED <<rows, nextId>>

\* The connection breaks while the server works on: the tab is told of a
\* failure, and may save again.
GivenUp(n) ==
    /\ tab.calls[n].op = "save" /\ tab.calls[n].at = "open"
    /\ tab' = [Failed(tab) EXCEPT !.busy = FALSE, !.calls[n].at = "orphan"]
    /\ UNCHANGED <<rows, nextId>>

CallStep ==
    \E n \in DOMAIN tab.calls :
        \/ SaveBegins(n) \/ SaveEnds(n) \/ ListServed(n)
        \/ DeleteServed(n) \/ Refused(n)
        \/ Returns(n) \/ GivenUp(n)

\* The panel is mounted and its first list, an empty one, is there.
SavedInit ==
    /\ rows = <<>> /\ nextId = 1
    /\ tab = [list |-> <<>>, status |-> "ready", failure |-> FALSE,
              saved |-> "", busy |-> FALSE, calls |-> <<>>]

-----------------------------------------------------------------------------
\* The rows, the lists and the calls have their types.
SavedTypeOK == rows \in Seen /\ nextId \in Nat /\ tab \in Tab

\* Saving again under a name replaces, also when the first save is still open
\* because its reply was lost: a user never has two rows of one name.
OneRowPerName ==
    \A i, j \in DOMAIN rows : rows[i].name = rows[j].name => i = j
=============================================================================
