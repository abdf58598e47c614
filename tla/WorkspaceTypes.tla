----------------------------- MODULE WorkspaceTypes -----------------------------
(***************************************************************************)
(* Proofs of what the stores of the calculator page hold, and of the rows  *)
(* of saved scenarios.  The type of a scenario that is saved is that of    *)
(* the calculator's position, and a scenario that is opened becomes the    *)
(* position again, so one invariant covers them all.                       *)
(***************************************************************************)
EXTENDS Workspace, SequenceTheorems, WellFoundedInduction, TLAPS

-----------------------------------------------------------------------------
(***************************************************************************)
(* What is left of a sequence.  The recursion is unfolded by an induction  *)
(* over its least counterexample.                                          *)
(***************************************************************************)

\* A set of naturals has a least element: the induction principle that needs
\* no operator parameter.
LEMMA LeastOf ==
    ASSUME NEW T, T \subseteq Nat, T # {}
    PROVE  \E x \in T : \A y \in T : x <= y
<1>1. IsWellFoundedOn(OpToRel(<, Nat), Nat)
  BY NatLessThanWellFounded
<1>2. PICK x \in T : \A y \in T : ~(<<y, x>> \in OpToRel(<, Nat))
  BY <1>1, WFMin
<1>3. \A y \in T : ~(y < x)
  BY <1>2 DEF OpToRel
<1> QED BY <1>3

\* The recursive function that Without() takes the last value of.
Left(s, gone, f, m) == [n \in 0..m |->
    IF n = 0 THEN <<>>
    ELSE IF s[n] \in gone THEN f[n - 1] ELSE Append(f[n - 1], s[n])]

\* It exists.
LEMMA LeftExists ==
    ASSUME NEW s, NEW gone, NEW m \in Nat
    PROVE  \E f : f = Left(s, gone, f, m)
<1> DEFINE T == {k \in Nat : ~\E f : f = Left(s, gone, f, k)}
<1> SUFFICES ASSUME T # {} PROVE FALSE
  OBVIOUS
<1>1. PICK k \in T : \A j \in T : k <= j
  <2> HIDE DEF T
  <2>1. T \subseteq Nat
    BY DEF T
  <2> QED BY <2>1, LeastOf
<1>2. CASE k = 0
  <2>1. PICK f : f = [n \in 0..0 |-> <<>>]
    OBVIOUS
  <2>2. f = Left(s, gone, f, 0)
    BY <2>1 DEF Left
  <2> QED BY <1>2, <2>2
<1>3. CASE k # 0
  <2>1. k - 1 \in Nat /\ k - 1 \notin T
    BY <1>1, <1>3
  <2>2. PICK f : f = Left(s, gone, f, k - 1)
    BY <2>1
  <2>3. PICK g : g = [n \in 0..k |-> IF n = k
                      THEN (IF s[k] \in gone THEN f[k - 1] ELSE Append(f[k - 1], s[k]))
                      ELSE f[n]]
    OBVIOUS
  <2>4. \A n \in 0..(k - 1) : g[n] = f[n]
    BY <2>1, <2>3
  <2>5. \A n \in 0..k : g[n] = IF n = 0 THEN <<>>
           ELSE IF s[n] \in gone THEN g[n - 1] ELSE Append(g[n - 1], s[n])
    <3> SUFFICES ASSUME NEW n \in 0..k
                 PROVE  g[n] = IF n = 0 THEN <<>>
                   ELSE IF s[n] \in gone THEN g[n - 1] ELSE Append(g[n - 1], s[n])
      OBVIOUS
    <3>1. CASE n = k
      <4>1. n # 0 /\ n - 1 \in 0..(k - 1)
        BY <1>3, <2>1, <3>1
      <4> QED BY <2>3, <2>4, <3>1, <4>1
    <3>2. CASE n # k
      <4>1. n \in 0..(k - 1)
        BY <3>2
      <4>2. g[n] = f[n]
        BY <2>4, <4>1
      <4>3. f[n] = IF n = 0 THEN <<>>
                   ELSE IF s[n] \in gone THEN f[n - 1] ELSE Append(f[n - 1], s[n])
        BY <2>2, <4>1 DEF Left
      <4>4. n # 0 => g[n - 1] = f[n - 1]
        BY <2>4, <4>1
      <4> QED BY <4>2, <4>3, <4>4
    <3> QED BY <3>1, <3>2
  <2>6. g = Left(s, gone, g, k)
    BY <2>3, <2>5 DEF Left
  <2> QED BY <2>6
<1> QED BY <1>2, <1>3

\* t is what is left of s: its rows are the rows of s at increasing places,
\* all those that are not gone.
Places(s, gone, t, l, at, m) ==
    /\ at \in [1..l -> 1..m]
    /\ \A i \in 1..l : t[i] = s[at[i]]
    /\ \A i, j \in 1..l : i < j => at[i] < at[j]
    /\ \A n \in 1..m : s[n] \notin gone => \E i \in 1..l : at[i] = n

Leaves(s, gone, t, m) ==
    /\ t \in Seq({s[n] : n \in 1..m} \ gone)
    /\ \E at : Places(s, gone, t, Len(t), at, m)

LEMMA LeavesNone == ASSUME NEW s, NEW gone PROVE Leaves(s, gone, <<>>, 0)
<1>1. PICK at : at = [i \in 1..0 |-> 0]
  OBVIOUS
<1>2. <<>> \in Seq({s[n] : n \in 1..0} \ gone) /\ Len(<<>>) = 0
  OBVIOUS
<1>3. Places(s, gone, <<>>, 0, at, 0)
  BY <1>1 DEF Places
<1> QED BY <1>2, <1>3 DEF Leaves

LEMMA LeavesNext ==
    ASSUME NEW s, NEW gone, NEW m \in Nat, NEW t, Leaves(s, gone, t, m)
    PROVE  /\ s[m + 1] \in gone => Leaves(s, gone, t, m + 1)
           /\ s[m + 1] \notin gone => Leaves(s, gone, Append(t, s[m + 1]), m + 1)
<1> DEFINE Of(k) == {s[n] : n \in 1..k} \ gone
<1>1. t \in Seq(Of(m))
  BY DEF Leaves
<1>2. PICK l, at : l = Len(t) /\ Places(s, gone, t, l, at, m)
  BY DEF Leaves
<1>3. Of(m) \subseteq Of(m + 1) /\ (s[m + 1] \notin gone => s[m + 1] \in Of(m + 1))
  OBVIOUS
<1>4. 1..(m + 1) = 1..m \union {m + 1} /\ m + 1 \notin 1..m
  OBVIOUS
<1>5. t \in Seq(Of(m + 1))
  BY ONLY <1>1, <1>3, SeqMonotonic
<1>6. Len(t) \in Nat
  BY <1>1, LenProperties
<1>7. ASSUME s[m + 1] \in gone PROVE Leaves(s, gone, t, m + 1)
  <2>1. Places(s, gone, t, l, at, m + 1)
    BY <1>2, <1>4, <1>7 DEF Places
  <2> QED BY <1>2, <1>5, <2>1 DEF Leaves
<1>8. ASSUME s[m + 1] \notin gone PROVE Leaves(s, gone, Append(t, s[m + 1]), m + 1)
  <2>1. PICK u : u = Append(t, s[m + 1])
    OBVIOUS
  <2>2. l \in Nat
    BY <1>2, <1>6
  <2>3. /\ u \in Seq(Of(m + 1)) /\ Len(u) = l + 1 /\ u[l + 1] = s[m + 1]
        /\ \A i \in 1..l : u[i] = t[i]
    <3> HIDE DEF Of
    <3> QED BY <1>3, <1>5, <1>8, <2>1, <2>2, <1>2, AppendProperties
  <2>4. 1..(l + 1) = 1..l \union {l + 1} /\ l + 1 \notin 1..l
    BY <2>2
  <2>5. PICK to : to = [i \in 1..(l + 1) |-> IF i = l + 1 THEN m + 1 ELSE at[i]]
    OBVIOUS
  <2>6. to[l + 1] = m + 1 /\ \A i \in 1..l : to[i] = at[i] /\ at[i] \in 1..m
    BY <1>2, <2>2, <2>4, <2>5 DEF Places
  <2>7. to \in [1..(l + 1) -> 1..(m + 1)]
    BY <1>4, <2>4, <2>5, <2>6
  <2>8. \A i \in 1..(l + 1) : u[i] = s[to[i]]
    BY <1>2, <2>2, <2>3, <2>4, <2>6 DEF Places
  <2>9. \A i, j \in 1..(l + 1) : i < j => to[i] < to[j]
    <3> SUFFICES ASSUME NEW i \in 1..(l + 1), NEW j \in 1..(l + 1), i < j
                 PROVE  to[i] < to[j]
      OBVIOUS
    <3>1. i \in 1..l
      BY <2>2
    <3>2. CASE j = l + 1
      BY <2>6, <3>1, <3>2
    <3>3. CASE j # l + 1
      BY <1>2, <2>2, <2>6, <3>1, <3>3 DEF Places
    <3> QED BY <3>2, <3>3
  <2>10. \A n \in 1..(m + 1) : s[n] \notin gone => \E i \in 1..(l + 1) : to[i] = n
    <3> SUFFICES ASSUME NEW n \in 1..(m + 1), s[n] \notin gone
                 PROVE  \E i \in 1..(l + 1) : to[i] = n
      OBVIOUS
    <3>1. CASE n = m + 1
      BY <2>4, <2>6, <3>1
    <3>2. CASE n \in 1..m
      <4>1. PICK i \in 1..l : at[i] = n
        BY <1>2, <2>2, <3>2 DEF Places
      <4> QED BY <2>4, <2>6, <4>1
    <3> QED BY <1>4, <3>1, <3>2
  <2>11. Places(s, gone, u, l + 1, to, m + 1)
    BY ONLY <2>7, <2>8, <2>9, <2>10, Zenon DEF Places
  <2> QED BY <2>1, <2>3, <2>11 DEF Leaves
<1> QED BY <1>7, <1>8

LEMMA WithoutLeaves ==
    ASSUME NEW S, NEW s \in Seq(S), NEW gone
    PROVE  Leaves(s, gone, Saved!Without(s, gone), Len(s))
<1>0. PICK l \in Nat : l = Len(s)
  BY LenProperties
<1>1. PICK f : f = Left(s, gone, f, l) /\ Saved!Without(s, gone) = f[l]
  <2>1. \E f : f = Left(s, gone, f, Len(s))
    BY <1>0, LeftExists
  <2>2. Saved!Without(s, gone) = (CHOOSE f : f = Left(s, gone, f, Len(s)))[Len(s)]
    BY DEF Saved!Without, Left
  <2> QED BY <1>0, <2>1, <2>2
<1>2. PICK g : g = f /\ f = Left(s, gone, g, l)
  BY <1>1
<1>3. /\ f[0] = <<>>
      /\ \A n \in 1..l : f[n] = IF s[n] \in gone THEN f[n - 1] ELSE Append(f[n - 1], s[n])
  <2>1. f[0] = <<>>
    BY <1>2 DEF Left
  <2>2. ASSUME NEW n \in 1..l
        PROVE  f[n] = IF s[n] \in gone THEN g[n - 1] ELSE Append(g[n - 1], s[n])
    <3>1. n \in 0..l /\ n # 0
      OBVIOUS
    <3>2. f[n] = Left(s, gone, g, l)[n]
      BY <1>2, Zenon
    <3> QED BY <3>1, <3>2 DEF Left
  <2> QED BY <1>2, <2>1, <2>2
<1> DEFINE T == {m \in 0..l : ~Leaves(s, gone, f[m], m)}
<1>4. T = {}
  <2> SUFFICES ASSUME T # {} PROVE FALSE
    OBVIOUS
  <2>1. PICK k \in T : \A j \in T : k <= j
    <3>1. T \subseteq Nat
      OBVIOUS
    <3> HIDE DEF T
    <3> QED BY <3>1, LeastOf
  <2>2. k # 0
    BY <1>3, LeavesNone
  <2>3. PICK m \in Nat : k = m + 1
    <3>1. k \in Nat /\ k - 1 \in Nat /\ k = (k - 1) + 1
      BY <2>2
    <3> QED BY <3>1
  <2>4. Leaves(s, gone, f[m], m)
    BY <2>1, <2>3
  <2>5. f[k] = IF s[k] \in gone THEN f[m] ELSE Append(f[m], s[k])
    BY <1>3, <2>3
  <2>6. Leaves(s, gone, f[k], k)
    BY <2>3, <2>4, <2>5, LeavesNext
  <2> QED BY <2>6
<1>5. Leaves(s, gone, f[l], l)
  BY <1>4
<1> QED BY <1>0, <1>1, <1>5

\* What a deletion leaves is rows of s, from different places of s, and none
\* of those that are gone.
LEMMA WithoutKeeps ==
    ASSUME NEW S, NEW s \in Seq(S), NEW gone
    PROVE  LET t == Saved!Without(s, gone) IN
           /\ t \in Seq(S)
           /\ \A i \in DOMAIN t : t[i] \in S \ gone /\ \E a \in DOMAIN s : t[i] = s[a]
           /\ \A i, j \in DOMAIN t : i # j =>
                \E a, b \in DOMAIN s : a # b /\ t[i] = s[a] /\ t[j] = s[b]
<1>1. PICK t, l : t = Saved!Without(s, gone) /\ l = Len(s)
  OBVIOUS
<1> DEFINE Rest == {s[n] : n \in 1..l} \ gone
<1>2. t \in Seq(Rest) /\ \E at : Places(s, gone, t, Len(t), at, l)
  BY <1>1, WithoutLeaves DEF Leaves
<1>3. l \in Nat /\ DOMAIN s = 1..l /\ \A n \in 1..l : s[n] \in S
  BY <1>1, LenProperties, ElementOfSeq
<1>4. Rest \subseteq S \ gone
  BY <1>3
<1>5. t \in Seq(S \ gone)
  BY ONLY <1>2, <1>4, SeqMonotonic
<1>6. t \in Seq(S)
  BY ONLY <1>5, SeqMonotonic
<1>7. PICK m \in Nat : m = Len(t) /\ DOMAIN t = 1..m
  BY <1>6, LenProperties
<1>8. \A i \in 1..m : t[i] \in S \ gone
  <2> HIDE DEF Rest
  <2> QED BY <1>5, <1>7, ElementOfSeq
<1>9. PICK at : Places(s, gone, t, m, at, l)
  BY <1>2, <1>7
<1>10. \A i \in 1..m : at[i] \in 1..l /\ t[i] = s[at[i]]
  BY <1>9 DEF Places
<1>11. \A i, j \in 1..m : i # j => at[i] # at[j]
  <2> SUFFICES ASSUME NEW i \in 1..m, NEW j \in 1..m, i # j PROVE at[i] # at[j]
    OBVIOUS
  <2>1. at[i] \in Nat /\ at[j] \in Nat /\ (i < j \/ j < i)
    BY <1>3, <1>7, <1>10
  <2>2. (i < j => at[i] < at[j]) /\ (j < i => at[j] < at[i])
    BY <1>9 DEF Places
  <2> QED BY <2>1, <2>2
<1>12. \A i \in DOMAIN t : t[i] \in S \ gone /\ \E a \in DOMAIN s : t[i] = s[a]
  BY <1>3, <1>7, <1>8, <1>10
<1>13. ASSUME NEW i \in DOMAIN t, NEW j \in DOMAIN t, i # j
       PROVE  \E a, b \in DOMAIN s : a # b /\ t[i] = s[a] /\ t[j] = s[b]
  BY <1>3, <1>7, <1>10, <1>11, <1>13
<1> QED BY <1>1, <1>6, <1>12, <1>13

\* So is what is left without the call that has ended.
LEMMA RemoveAtKeeps ==
    ASSUME NEW S, NEW s \in Seq(S), NEW n \in DOMAIN s
    PROVE  Saved!RemoveAt(s, n) \in Seq(S)
<1>1. PICK l \in Nat : l = Len(s) /\ DOMAIN s = 1..l
  BY LenProperties
<1>2. SubSeq(s, 1, n - 1) \in Seq(S) /\ SubSeq(s, n + 1, l) \in Seq(S)
  <2>1. \A i \in 1..(n - 1) : i \in 1..Len(s)
    BY <1>1
  <2>2. \A i \in (n + 1)..l : i \in 1..Len(s)
    BY <1>1
  <2> QED BY <1>1, <2>1, <2>2, SubSeqProperties
<1>3. SubSeq(s, 1, n - 1) \o SubSeq(s, n + 1, l) \in Seq(S)
  BY <1>2, ConcatProperties
<1> QED BY <1>1, <1>3 DEF Saved!RemoveAt

-----------------------------------------------------------------------------
(***************************************************************************)
(* The saved rows and the calls of the panel.                              *)
(***************************************************************************)
SaveCall   == [op: {"save"}, name: Names, scenario: Scenario, seen: Saved!Seen,
               at: {"sent", "open", "orphan", "ok", "failed"}]
ListCalls  == [op: {"list"}, at: {"sent", "ok", "failed"}, seen: Saved!Seen,
               saving: BOOLEAN]
DeleteCall == [op: {"delete"}, at: {"sent", "ok", "failed"}, id: Nat]

\* Each kind of call has its fields.
LEMMA CallKinds ==
    ASSUME NEW c \in Saved!Call
    PROVE  /\ c \in SaveCall \/ c \in ListCalls \/ c \in DeleteCall
           /\ c.op = "save" => c \in SaveCall
           /\ c.op = "list" => c \in ListCalls
           /\ c.op = "delete" => c \in DeleteCall
           /\ c.op \in {"save", "list", "delete"}
  BY DEF Saved!Call, SaveCall, ListCalls, DeleteCall

LEMMA CallIs == SaveCall \union ListCalls \union DeleteCall = Saved!Call
  BY DEF Saved!Call, SaveCall, ListCalls, DeleteCall

\* A call in flight is one of the tab's.
LEMMA CallOfTab ==
    ASSUME tab \in Saved!Tab, NEW n \in DOMAIN tab.calls
    PROVE  /\ tab.calls[n] \in Saved!Call /\ tab.calls \in Seq(Saved!Call)
           /\ n \in 1..Len(tab.calls)
<1>1. tab.calls \in Seq(Saved!Call)
  BY DEF Saved!Tab
<1>2. n \in 1..Len(tab.calls)
  BY <1>1, LenProperties
<1> QED BY <1>1, <1>2, ElementOfSeq

\* A call that takes a step is still a call.
LEMMA BecomesKeeps ==
    ASSUME tab \in Saved!Tab, NEW n \in DOMAIN tab.calls, NEW at,
           NEW seen \in Saved!Seen,
           at \in {"ok", "failed"} \/ (at = "open" /\ tab.calls[n].op = "save"),
           Saved!Becomes(n, at, seen)
    PROVE  tab' \in Saved!Tab
<1>1. PICK c : c = tab.calls[n]
  OBVIOUS
<1>2. c \in Saved!Call /\ tab.calls \in Seq(Saved!Call) /\ n \in 1..Len(tab.calls)
  BY <1>1, CallOfTab
<1>3. PICK d : d = IF c.op = "delete" THEN [c EXCEPT !.at = at]
                   ELSE [c EXCEPT !.at = at, !.seen = seen]
  OBVIOUS
<1>4. d \in Saved!Call
  <2>1. CASE c \in SaveCall
    <3>1. d \in SaveCall
      BY <1>1, <1>3, <2>1 DEF SaveCall
    <3> QED BY <3>1, CallIs
  <2>2. CASE c \in ListCalls
    <3>1. d \in ListCalls
      BY <1>1, <1>3, <2>2 DEF ListCalls
    <3> QED BY <3>1, CallIs
  <2>3. CASE c \in DeleteCall
    <3>1. d \in DeleteCall
      BY <1>1, <1>3, <2>3 DEF DeleteCall
    <3> QED BY <3>1, CallIs
  <2> QED BY <1>2, <2>1, <2>2, <2>3, CallKinds
<1>5. [tab.calls EXCEPT ![n] = d] \in Seq(Saved!Call)
  BY <1>2, <1>4, ExceptSeq
<1>6. tab' = [tab EXCEPT !.calls = [tab.calls EXCEPT ![n] = d]]
  BY <1>1, <1>3 DEF Saved!Becomes, Saved!Tab
<1> QED BY <1>5, <1>6 DEF Saved!Tab

\* A new call is one more of them.
LEMMA SendKeeps ==
    ASSUME NEW s \in Saved!Tab, NEW c \in Saved!Call
    PROVE  Saved!Send(s, c) \in Saved!Tab
<1>1. Append(s.calls, c) \in Seq(Saved!Call)
  BY AppendProperties DEF Saved!Tab
<1> QED BY <1>1 DEF Saved!Send, Saved!Tab

LEMMA RefreshedKeeps ==
    ASSUME NEW s \in Saved!Tab, NEW saving \in BOOLEAN
    PROVE  Saved!Refreshed(s, saving) \in Saved!Tab
<1>1. Saved!ListCall(saving) \in ListCalls
  <2>1. <<>> \in Saved!Seen
    BY DEF Saved!Seen
  <2> QED BY <2>1 DEF Saved!ListCall, ListCalls
<1>2. PICK t \in Saved!Tab : t = Saved!Send(s, Saved!ListCall(saving))
  BY <1>1, CallIs, SendKeeps
<1>3. Saved!Refreshed(s, saving) = [t EXCEPT !.status = "loading"]
  BY <1>2 DEF Saved!Refreshed
<1> QED BY <1>2, <1>3 DEF Saved!Tab

\* A user's rows: their type, and one row to a name.
RowsInv(s) == /\ s \in Saved!Seen
              /\ \A i, j \in DOMAIN s : s[i].name = s[j].name => i = j

SavedInv == Saved!SavedTypeOK /\ OneRowPerName

LEMMA SavedInvIs ==
    SavedInv <=> RowsInv(rows) /\ nextId \in Nat /\ tab \in Saved!Tab
  BY DEF SavedInv, RowsInv, OneRowPerName, Saved!SavedTypeOK, Saved!OneRowPerName

LEMMA RowsOf ==
    ASSUME NEW s \in Saved!Seen
    PROVE  /\ Saved!ToSet(s) \subseteq Saved!Row
           /\ \A i \in DOMAIN s : s[i] \in Saved!ToSet(s) /\ s[i] \in Saved!Row
<1>1. s \in Seq(Saved!Row) /\ DOMAIN s = 1..Len(s)
  BY LenProperties DEF Saved!Seen
<1> QED BY <1>1, ElementOfSeq DEF Saved!ToSet

\* A deletion leaves rows of different names.
LEMMA DeletionKeeps ==
    ASSUME NEW s, RowsInv(s), NEW gone
    PROVE  RowsInv(Saved!Without(s, gone))
<1>1. PICK t : t = Saved!Without(s, gone)
  OBVIOUS
<1>2. s \in Seq(Saved!Row)
  BY DEF RowsInv, Saved!Seen
<1>3. /\ t \in Seq(Saved!Row)
      /\ \A i, j \in DOMAIN t : i # j =>
           \E a, b \in DOMAIN s : a # b /\ t[i] = s[a] /\ t[j] = s[b]
  BY <1>1, <1>2, WithoutKeeps
<1>4. ASSUME NEW i \in DOMAIN t, NEW j \in DOMAIN t, t[i].name = t[j].name, i # j
      PROVE  FALSE
  <2>1. PICK a \in DOMAIN s, b \in DOMAIN s : a # b /\ t[i] = s[a] /\ t[j] = s[b]
    BY <1>3, <1>4
  <2> QED BY <1>4, <2>1 DEF RowsInv
<1> QED BY <1>1, <1>3, <1>4 DEF RowsInv, Saved!Seen

\* An upsert replaces the row of its name, or adds one.
LEMMA UpsertKeeps ==
    ASSUME RowsInv(rows), nextId \in Nat, NEW name \in Names, NEW sc \in Scenario
    PROVE  RowsInv(Saved!Upsert(rows, name, sc))
<1> DEFINE old == Saved!OfName(rows, name)
           id == IF old = {} THEN nextId ELSE (CHOOSE r \in old : TRUE).id
           t == Saved!Without(rows, old)
<1>1. rows \in Seq(Saved!Row) /\ rows \in Saved!Seen /\ old \subseteq Saved!Row
  BY RowsOf DEF RowsInv, Saved!Seen, Saved!OfName
<1>2. id \in Nat
  BY <1>1 DEF Saved!Row
<1>3. PICK row \in Saved!Row : row = [id |-> id, name |-> name, scenario |-> sc]
  BY <1>2 DEF Saved!Row
<1>4. RowsInv(t)
  BY DeletionKeeps
<1>5. /\ t \in Seq(Saved!Row) /\ DOMAIN t = 1..Len(t) /\ Len(t) \in Nat
      /\ \A i \in DOMAIN t : t[i] \notin old /\ \E a \in DOMAIN rows : t[i] = rows[a]
  <2>1. t \in Seq(Saved!Row)
    BY <1>4 DEF RowsInv, Saved!Seen
  <2>2. \A i \in DOMAIN t : t[i] \in Saved!Row \ old /\ \E a \in DOMAIN rows : t[i] = rows[a]
    BY <1>1, WithoutKeeps
  <2> HIDE DEF t
  <2> QED BY <2>1, <2>2, LenProperties
<1>6. \A i \in DOMAIN t : t[i].name # name
  BY <1>1, <1>5, RowsOf DEF Saved!OfName
<1>7. PICK u : u = <<row>> \o t
  OBVIOUS
<1>8. u = Saved!Upsert(rows, name, sc)
  BY <1>3, <1>7 DEF Saved!Upsert
<1> HIDE DEF t
<1>9. /\ <<row>> \in Seq(Saved!Row) /\ Len(<<row>>) = 1 /\ <<row>>[1] = row
  OBVIOUS
<1>10. /\ u \in Seq(Saved!Row) /\ Len(u) = 1 + Len(t)
       /\ \A i \in 1..(1 + Len(t)) : u[i] = IF i <= 1 THEN row ELSE t[i - 1]
  BY <1>5, <1>7, <1>9, ConcatProperties
<1>11. DOMAIN u = 1..(1 + Len(t))
  BY <1>10, LenProperties
<1>12. /\ u[1] = row
       /\ \A i \in DOMAIN u : i # 1 => i - 1 \in DOMAIN t /\ u[i] = t[i - 1]
  BY <1>5, <1>10, <1>11
<1>13. ASSUME NEW i \in DOMAIN u, NEW j \in DOMAIN u, u[i].name = u[j].name
       PROVE  i = j
  <2>1. i \in Nat /\ j \in Nat
    BY <1>5, <1>11
  <2>2. row.name = name
    BY <1>3
  <2>3. CASE i = 1 \/ j = 1
    BY <1>6, <1>12, <1>13, <2>2, <2>3
  <2>4. CASE i # 1 /\ j # 1
    <3>1. t[i - 1].name = t[j - 1].name /\ i - 1 \in DOMAIN t /\ j - 1 \in DOMAIN t
      BY <1>12, <1>13, <2>4
    <3>2. i - 1 = j - 1
      BY <1>4, <3>1 DEF RowsInv
    <3> QED BY <2>1, <3>2
  <2> QED BY <2>3, <2>4
<1> QED BY <1>8, <1>10, <1>13 DEF RowsInv, Saved!Seen

\* What the server commits keeps the rows.
LEMMA InsertKeeps ==
    ASSUME RowsInv(rows), nextId \in Nat, NEW call \in SaveCall, Saved!Insert(call)
    PROVE  RowsInv(rows') /\ nextId' \in Nat
<1>1. CASE Saved!HasRoom(call)
  <2>1. RowsInv(Saved!Upsert(rows, call.name, call.scenario))
    BY UpsertKeeps DEF SaveCall
  <2> QED BY <1>1, <2>1 DEF Saved!Insert
<1>2. CASE ~Saved!HasRoom(call)
  BY <1>2 DEF Saved!Insert
<1> QED BY <1>1, <1>2

\* The calls keep the invariant, whatever becomes of them.
LEMMA CallStepKeeps ==
    ASSUME SavedInv, WorkspaceAssumption, Saved!CallStep
    PROVE  SavedInv'
<1>1. RowsInv(rows) /\ nextId \in Nat /\ tab \in Saved!Tab
  BY SavedInvIs
<1>2. PICK n \in DOMAIN tab.calls :
        \/ Saved!SaveBegins(n) \/ Saved!SaveEnds(n) \/ Saved!ListServed(n)
        \/ Saved!DeleteServed(n) \/ Saved!Refused(n)
        \/ Saved!Returns(n) \/ Saved!GivenUp(n)
  BY DEF Saved!CallStep
<1>3. PICK c \in Saved!Call : c = tab.calls[n]
  BY <1>1, CallOfTab
<1>4. tab.calls \in Seq(Saved!Call) /\ n \in 1..Len(tab.calls)
  BY <1>1, CallOfTab
<1>5. <<>> \in Saved!Seen /\ rows \in Saved!Seen
  BY <1>1 DEF Saved!Seen, RowsInv
<1>6. Saved!RemoveAt(tab.calls, n) \in Seq(Saved!Call)
  BY <1>4, RemoveAtKeeps
<1>7. PICK s \in Saved!Tab : s = [tab EXCEPT !.calls = Saved!RemoveAt(@, n)]
  <2>1. [tab EXCEPT !.calls = Saved!RemoveAt(@, n)] \in Saved!Tab
    BY <1>1, <1>6 DEF Saved!Tab
  <2> QED BY <2>1
<1> SUFFICES RowsInv(rows') /\ nextId' \in Nat /\ tab' \in Saved!Tab
  BY DEF SavedInv, RowsInv, OneRowPerName, Saved!SavedTypeOK, Saved!OneRowPerName
<1>8. CASE Saved!SaveBegins(n)
  <2>1. tab' \in Saved!Tab
    BY <1>1, <1>5, <1>8, BecomesKeeps DEF Saved!SaveBegins
  <2> QED BY <1>1, <1>8, <2>1 DEF Saved!SaveBegins
<1>9. CASE Saved!SaveEnds(n)
  <2>1. c \in SaveCall /\ Saved!Insert(c)
    BY <1>3, <1>9, CallKinds DEF Saved!SaveEnds
  <2>2. RowsInv(rows') /\ nextId' \in Nat
    BY <1>1, <2>1, InsertKeeps
  <2>3. CASE c.at = "orphan"
    BY <1>3, <1>7, <1>9, <2>2, <2>3 DEF Saved!SaveEnds
  <2>4. CASE c.at # "orphan"
    <3>1. Saved!Becomes(n, IF Saved!HasRoom(c) THEN "ok" ELSE "failed", <<>>)
      BY <1>3, <1>9, <2>4 DEF Saved!SaveEnds
    <3>2. tab' \in Saved!Tab
      BY <1>1, <1>5, <3>1, BecomesKeeps
    <3> QED BY <2>2, <3>2
  <2> QED BY <2>3, <2>4
<1>10. CASE Saved!ListServed(n)
  <2> DEFINE upto == IF Len(rows) < Cap THEN Len(rows) ELSE Cap
  <2>1. SubSeq(rows, 1, upto) \in Saved!Seen
    <3>1. rows \in Seq(Saved!Row)
      BY <1>1 DEF RowsInv, Saved!Seen
    <3>2. upto \in Int /\ \A i \in 1..upto : i \in 1..Len(rows)
      BY <3>1, LenProperties DEF WorkspaceAssumption
    <3>3. \A i \in 1..upto : rows[i] \in Saved!Row
      BY <3>1, <3>2, ElementOfSeq
    <3> HIDE DEF upto
    <3> QED BY <3>2, <3>3, SubSeqProperties DEF Saved!Seen
  <2>2. Saved!Becomes(n, "ok", SubSeq(rows, 1, upto))
    BY <1>10 DEF Saved!ListServed
  <2> HIDE DEF upto
  <2>3. tab' \in Saved!Tab
    BY <1>1, <2>1, <2>2, BecomesKeeps
  <2> QED BY <1>1, <1>10, <2>3 DEF Saved!ListServed
<1>11. CASE Saved!DeleteServed(n)
  <2>1. tab' \in Saved!Tab
    BY <1>1, <1>5, <1>11, BecomesKeeps DEF Saved!DeleteServed
  <2>2. RowsInv(rows')
    BY <1>1, <1>11, DeletionKeeps DEF Saved!DeleteServed
  <2> QED BY <1>1, <1>11, <2>1, <2>2 DEF Saved!DeleteServed
<1>12. CASE Saved!Refused(n)
  <2>1. tab' \in Saved!Tab
    BY <1>1, <1>5, <1>12, BecomesKeeps DEF Saved!Refused
  <2> QED BY <1>1, <1>12, <2>1 DEF Saved!Refused
<1>13. CASE Saved!Returns(n)
  <2> DEFINE idle == [s EXCEPT !.busy = @ /\ (c.op = "delete"
                                         \/ (c.op = "list" /\ ~c.saving))]
  <2>1. idle \in Saved!Tab
    <3>1. (s.busy /\ (c.op = "delete" \/ (c.op = "list" /\ ~c.saving))) \in BOOLEAN
      OBVIOUS
    <3> QED BY <3>1 DEF Saved!Tab
  <2>2. rows' = rows /\ nextId' = nextId
    BY <1>13 DEF Saved!Returns
  <2>3. tab' =
             IF c.at = "failed"
             THEN [Saved!Failed(idle) EXCEPT !.list = IF c.op = "list" THEN <<>> ELSE @]
             ELSE CASE c.op = "save" -> Saved!Refreshed([s EXCEPT !.saved = c.name], TRUE)
                    [] c.op = "delete" ->
                         Saved!Refreshed([s EXCEPT !.list = Saved!Without(@, Saved!OfId(@, c.id))],
                                   FALSE)
                    [] OTHER -> [idle EXCEPT !.list = c.seen, !.status = "ready",
                                             !.failure = FALSE]
    BY <1>3, <1>7, <1>13 DEF Saved!Returns
  <2> HIDE DEF idle
  <2>4. CASE c.at = "failed"
    <3>1. Saved!Failed(idle) \in Saved!Tab
      BY <2>1 DEF Saved!Failed, Saved!Tab
    <3>2. tab' \in Saved!Tab
      BY <1>5, <2>3, <2>4, <3>1 DEF Saved!Tab
    <3> QED BY <1>1, <2>2, <3>2
  <2>5. CASE c.at # "failed" /\ c.op = "save"
    <3>1. [s EXCEPT !.saved = c.name] \in Saved!Tab
      <4>1. c.name \in Names
        BY <2>5, CallKinds DEF SaveCall
      <4> QED BY <4>1 DEF Saved!Tab
    <3>2. tab' \in Saved!Tab
      BY <2>3, <2>5, <3>1, RefreshedKeeps
    <3> QED BY <1>1, <2>2, <3>2
  <2>6. CASE c.at # "failed" /\ c.op = "delete"
    <3>1. PICK left : left = Saved!Without(s.list, Saved!OfId(s.list, c.id))
      OBVIOUS
    <3>2. left \in Saved!Seen
      <4>1. s.list \in Seq(Saved!Row)
        BY DEF Saved!Tab, Saved!Seen
      <4>2. left \in Seq(Saved!Row)
        BY <3>1, <4>1, WithoutKeeps
      <4> QED BY <4>2 DEF Saved!Seen
    <3>3. [s EXCEPT !.list = left] \in Saved!Tab
      BY <3>2 DEF Saved!Tab
    <3>4. tab' = Saved!Refreshed([s EXCEPT !.list = left], FALSE)
      BY <2>3, <2>6, <3>1
    <3>5. tab' \in Saved!Tab
      BY <3>3, <3>4, RefreshedKeeps
    <3> QED BY <1>1, <2>2, <3>5
  <2>7. CASE c.at # "failed" /\ c.op = "list"
    <3>1. c.seen \in Saved!Seen
      BY <2>7, CallKinds DEF ListCalls
    <3>2. tab' = [idle EXCEPT !.list = c.seen, !.status = "ready", !.failure = FALSE]
      BY <2>3, <2>7
    <3>3. tab' \in Saved!Tab
      BY <2>1, <3>1, <3>2 DEF Saved!Tab
    <3> QED BY <1>1, <2>2, <3>3
  <2> QED BY <2>4, <2>5, <2>6, <2>7, CallKinds
<1>14. CASE Saved!GivenUp(n)
  <2>1. c \in SaveCall
    BY <1>3, <1>14, CallKinds DEF Saved!GivenUp
  <2>2. [c EXCEPT !.at = "orphan"] \in SaveCall
    BY <2>1 DEF SaveCall
  <2>3. [tab.calls EXCEPT ![n] = [c EXCEPT !.at = "orphan"]] \in Seq(Saved!Call)
    BY <1>4, <2>2, CallIs, ExceptSeq
  <2>4. PICK t \in Saved!Tab : t = Saved!Failed(tab)
    BY <1>1 DEF Saved!Failed, Saved!Tab
  <2>5. t.calls = tab.calls
    BY <1>1, <2>4 DEF Saved!Failed, Saved!Tab
  <2>6. tab' = [t EXCEPT !.busy = FALSE,
                         !.calls = [tab.calls EXCEPT ![n] = [c EXCEPT !.at = "orphan"]]]
    BY <1>3, <1>14, <2>4, <2>5 DEF Saved!GivenUp, Saved!Tab
  <2>7. tab' \in Saved!Tab
    BY <2>3, <2>6 DEF Saved!Tab
  <2> QED BY <1>1, <1>14, <2>7 DEF Saved!GivenUp
<1> QED BY <1>2, <1>8, <1>9, <1>10, <1>11, <1>12, <1>13, <1>14

-----------------------------------------------------------------------------
(***************************************************************************)
(* The calculator's store.  A position that Undo may bring back fits the   *)
(* bound too.                                                              *)
(***************************************************************************)
Short(legs) == Len(legs) <= MaxLegs

Typed(c) == /\ c \in Store /\ Short(c.legs)
            /\ c.retired # Nil => Short(c.retired.legs)

LEMMA NoLegs == <<>> \in Legs /\ Short(<<>>) /\ Len(<<>>) = 0
  BY CalculatorAssumption DEF Legs, Short

LEMMA TypedResume ==
    ASSUME NEW c, Typed(c), NEW calls \in SUBSET Call
    PROVE  Typed(Resume(c, calls))
<1>1. c.sent \union calls \in SUBSET Call
  BY DEF Typed, Store
<1>2. Typed([c EXCEPT !.isLoading = TRUE, !.error = FALSE, !.sent = @ \union calls])
  <2>1. PICK x : x = [c EXCEPT !.isLoading = TRUE, !.error = FALSE, !.sent = @ \union calls]
    OBVIOUS
  <2>2. Typed(x)
    BY ONLY <1>1, Typed(c), <2>1 DEF Typed, Store
  <2> QED BY <2>1, <2>2
<1>3. Typed([c EXCEPT !.result = Nil, !.error = TRUE, !.notReady = "no",
                      !.isLoading = FALSE])
  <2>1. PICK x : x = [c EXCEPT !.result = Nil, !.error = TRUE, !.notReady = "no",
                            !.isLoading = FALSE]
    OBVIOUS
  <2>2. Typed(x)
    BY ONLY Typed(c), <2>1 DEF Typed, Store
  <2> QED BY <2>1, <2>2
<1> QED BY <1>2, <1>3 DEF Resume

LEMMA TypedCalculate ==
    ASSUME NEW c, Typed(c) PROVE Typed(Calculate(c))
<1> DEFINE call == [newest |-> TRUE, inst |-> c.inst, legs |-> c.legs]
           new  == [c EXCEPT !.parked = Superseded(@), !.sent = Superseded(@),
                          !.gateDenied = FALSE, !.modelLimit = FALSE,
                          !.notReady = "no"]
<1>1. Superseded(c.parked) \in SUBSET Call /\ Superseded(c.sent) \in SUBSET Call
  <2>1. ASSUME NEW calls \in SUBSET Call PROVE Superseded(calls) \in SUBSET Call
    BY DEF Superseded, Call
  <2> QED BY <2>1 DEF Typed, Store
<1>2. {call} \in SUBSET Call
  BY DEF Typed, Store, Call
<1>3. Typed(new)
  <2>1. PICK p, q : p = Superseded(c.parked) /\ q = Superseded(c.sent)
    OBVIOUS
  <2>2. p \in SUBSET Call /\ q \in SUBSET Call
    BY <1>1, <2>1
  <2>3. PICK x : x = [c EXCEPT !.parked = p, !.sent = q, !.gateDenied = FALSE,
                               !.modelLimit = FALSE, !.notReady = "no"]
    OBVIOUS
  <2>4. Typed(x)
    BY ONLY Typed(c), <2>2, <2>3 DEF Typed, Store
  <2> QED BY <2>1, <2>3, <2>4
<1>4. Calculate(c) \in {Refuse(new, "no"), Refuse(new, "position"),
        [new EXCEPT !.rateAsked = TRUE, !.parked = @ \union {call}],
        Resume(new, {call})}
  BY DEF Calculate
<1> HIDE DEF new, call
<1>5. ASSUME NEW why \in {"no", "position"}
      PROVE  Typed(Refuse(new, why))
  <2>1. PICK d : d = new
    OBVIOUS
  <2>2. PICK x : x = [d EXCEPT !.result = Nil, !.notReady = why,
                               !.error = FALSE, !.isLoading = FALSE]
    OBVIOUS
  <2>3. Typed(d)
    BY <1>3, <2>1
  <2>4. Typed(x)
    BY ONLY <2>2, <2>3, why \in {"no", "position"} DEF Typed, Store
  <2> QED BY <2>1, <2>2, <2>4 DEF Refuse
<1>6. Typed([new EXCEPT !.rateAsked = TRUE, !.parked = @ \union {call}])
  <2>1. PICK d : d = new
    OBVIOUS
  <2>2. PICK k \in SUBSET Call : k = d.parked \union {call}
    BY <1>2, <1>3, <2>1 DEF Typed, Store
  <2>3. Typed([d EXCEPT !.rateAsked = TRUE, !.parked = k])
    <3>0. Typed(d)
      BY <1>3, <2>1
    <3>1. PICK x : x = [d EXCEPT !.rateAsked = TRUE, !.parked = k]
      OBVIOUS
    <3>2. Typed(x)
      BY ONLY <3>0, <3>1, k \in SUBSET Call DEF Typed, Store
    <3> QED BY <3>1, <3>2
  <2> QED BY <2>1, <2>2, <2>3
<1>7. Typed(Resume(new, {call}))
  BY <1>2, <1>3, TypedResume
<1> QED BY <1>4, <1>5, <1>6, <1>7

LEMMA TypedEffect == ASSUME NEW c, Typed(c) PROVE Typed(Effect(c))
  BY TypedCalculate DEF Effect

LEMMA UnsetIsExpiry == Unset \in Expiries
  BY DEF Expiries

LEMMA TypedLoad ==
    ASSUME NEW c, Typed(c), NEW wanted \in Expiries
    PROVE  Typed(LoadChain(c, wanted))
<1>1. PICK at \in ChainKey :
        at = <<c.inst, IF wanted = Unset THEN c.selected ELSE wanted>>
  <2>1. c.inst \in Instruments /\ c.selected \in Expiries
    BY DEF Typed, Store
  <2>2. PICK e \in Expiries : e = IF wanted = Unset THEN c.selected ELSE wanted
    BY <2>1
  <2>3. <<c.inst, e>> \in ChainKey
    BY <2>1 DEF ChainKey
  <2> QED BY <2>2, <2>3
<1>2. c.loads \in [ChainKey -> Nat]
  BY DEF Typed, Store
<1>3. PICK f : f = [c.loads EXCEPT ![at] = @ + 1]
  OBVIOUS
<1>4. f \in [ChainKey -> Nat]
  BY ONLY <1>2, <1>3
<1>5. PICK x : x = [c EXCEPT !.chainStatus = "loading", !.loads = f]
  OBVIOUS
<1>6. Typed(x)
  BY ONLY Typed(c), <1>4, <1>5 DEF Typed, Store
<1>7. LoadChain(c, wanted) = x
  BY <1>1, <1>3, <1>5 DEF LoadChain
<1> QED BY <1>6, <1>7

LEMMA TypedSwitch ==
    ASSUME NEW c, Typed(c), NEW i \in Instruments, NEW price \in Instruments \union {Nil},
           NEW restore, restore = Nil \/ (restore \in Position /\ Short(restore.legs))
    PROVE  Typed(Switched(c, i, price, restore))
<1> DEFINE retire == i # c.inst /\ c.legs # <<>> /\ restore = Nil
           legs == IF retire THEN <<>> ELSE IF restore # Nil THEN restore.legs ELSE c.legs
           old == IF retire THEN [inst |-> c.inst, legs |-> c.legs]
                  ELSE IF restore # Nil THEN Nil ELSE c.retired
           set == [c EXCEPT
            !.inst = i, !.result = Nil, !.spot = price,
            !.legs = IF retire THEN <<>>
                     ELSE IF restore # Nil THEN restore.legs ELSE @,
            !.retired = IF retire THEN [inst |-> c.inst, legs |-> c.legs]
                        ELSE IF restore # Nil THEN Nil ELSE @,
            !.error = FALSE, !.notReady = "no",
            !.gateDenied = @ /\ ~retire, !.modelLimit = @ /\ ~retire,
            !.chain = Nil, !.selected = Unset, !.chainStatus = "idle"]
<1>1. Unset \in Expiries
  BY UnsetIsExpiry
<1>2. <<>> \in Legs /\ Short(<<>>)
  BY NoLegs
<1>3. legs \in Legs /\ Short(legs)
  BY <1>2 DEF Typed, Store, Position
<1>4. old \in Position \union {Nil} /\ (old # Nil => Short(old.legs))
  BY DEF Typed, Store, Position
<1>5. (c.gateDenied /\ ~retire) \in BOOLEAN /\ (c.modelLimit /\ ~retire) \in BOOLEAN
  OBVIOUS
<1>6. set = [c EXCEPT !.inst = i, !.result = Nil, !.spot = price, !.legs = legs,
            !.retired = old, !.error = FALSE, !.notReady = "no",
            !.gateDenied = c.gateDenied /\ ~retire, !.modelLimit = c.modelLimit /\ ~retire,
            !.chain = Nil, !.selected = Unset, !.chainStatus = "idle"]
  BY DEF Typed, Store
<1> HIDE DEF retire, legs, old
<1>7. Typed(set)
  <2> HIDE DEF set
  <2>1. PICK l, o, g, m : l = legs /\ o = old /\ g = (c.gateDenied /\ ~retire)
                          /\ m = (c.modelLimit /\ ~retire)
    OBVIOUS
  <2>2. /\ l \in Legs /\ Short(l) /\ g \in BOOLEAN /\ m \in BOOLEAN
        /\ o \in Position \union {Nil} /\ (o # Nil => Short(o.legs))
    BY <1>3, <1>4, <1>5, <2>1
  <2>3. PICK b : b = [c EXCEPT !.inst = i, !.result = Nil, !.spot = price,
                               !.error = FALSE, !.notReady = "no",
                               !.chain = Nil, !.selected = Unset, !.chainStatus = "idle"]
    OBVIOUS
  <2>4. b \in Store
    BY ONLY Typed(c), <1>1, <2>3, i \in Instruments, price \in Instruments \union {Nil}
       DEF Typed, Store
  <2>5. PICK d : d = [b EXCEPT !.legs = l, !.retired = o]
    OBVIOUS
  <2>6. d \in Store /\ d.legs = l /\ d.retired = o
    BY ONLY <2>2, <2>4, <2>5 DEF Store
  <2>7. Typed(d)
    BY <2>2, <2>6 DEF Typed
  <2>8. PICK e : e = [d EXCEPT !.gateDenied = g]
    OBVIOUS
  <2>9. Typed(e)
    BY ONLY <2>2, <2>7, <2>8 DEF Typed, Store
  <2>10. PICK f : f = [e EXCEPT !.modelLimit = m]
    OBVIOUS
  <2>11. Typed(f)
    BY ONLY <2>2, <2>9, <2>10 DEF Typed, Store
  <2>12. set = f
    <3>1. PICK F : F = DOMAIN c /\ c = [n \in F |-> c[n]]
      BY ONLY Typed(c) DEF Typed, Store
    <3>2. PICK x : x = [c EXCEPT !.inst = i, !.result = Nil, !.spot = price, !.legs = l,
            !.retired = o, !.error = FALSE, !.notReady = "no", !.gateDenied = g,
            !.modelLimit = m, !.chain = Nil, !.selected = Unset, !.chainStatus = "idle"]
      OBVIOUS
    <3>3. set = x
      BY <1>6, <2>1, <3>2
    <3>4. x = f
      BY ONLY <2>3, <2>5, <2>8, <2>10, <3>1, <3>2
    <3> QED BY <3>3, <3>4
  <2> QED BY <2>11, <2>12
<1>8. Switched(c, i, price, restore) \in
        {[set EXCEPT !.spot = Nil, !.chainStatus = "error"], LoadChain(set, Unset)}
  BY DEF Switched, retire
<1> HIDE DEF set
<1>9. Typed(LoadChain(set, Unset))
  BY <1>1, <1>7, TypedLoad
<1>10. Typed([set EXCEPT !.spot = Nil, !.chainStatus = "error"])
  <2>1. PICK x : x = [set EXCEPT !.spot = Nil, !.chainStatus = "error"]
    OBVIOUS
  <2>2. Typed(x)
    BY ONLY <1>7, <2>1 DEF Typed, Store
  <2> QED BY <2>1, <2>2
<1> QED BY <1>8, <1>9, <1>10

LEMMA TypedSymbol ==
    ASSUME NEW c, Typed(c), NEW i \in Instruments,
           NEW restore, restore = Nil \/ (restore \in Position /\ Short(restore.legs))
    PROVE  Typed(SetSymbol(c, i, restore))
<1>1. PICK d : d = Switched(c, i, Nil, restore) /\ Typed(d)
  BY TypedSwitch
<1>2. Typed([d EXCEPT !.quotes[i] = @ + 1])
  <2>1. d.quotes \in [Instruments -> Nat]
    BY <1>1 DEF Typed, Store
  <2>2. PICK q \in [Instruments -> Nat] : q = [d.quotes EXCEPT ![i] = @ + 1]
    <3>1. [d.quotes EXCEPT ![i] = @ + 1] \in [Instruments -> Nat]
      BY ONLY <2>1
    <3> QED BY <3>1
  <2>3. Typed([d EXCEPT !.quotes = q])
    <3>1. PICK x : x = [d EXCEPT !.quotes = q]
      OBVIOUS
    <3>2. Typed(x)
      BY ONLY <1>1, <2>2, <3>1 DEF Typed, Store
    <3> QED BY <3>1, <3>2
  <2>4. [d EXCEPT !.quotes[i] = @ + 1] = [d EXCEPT !.quotes = q]
    BY ONLY <2>2
  <2> QED BY <2>3, <2>4
<1>3. SetSymbol(c, i, restore) = IF i.cls = "CRYPTO" THEN d ELSE [d EXCEPT !.quotes[i] = @ + 1]
  BY <1>1 DEF SetSymbol
<1> QED BY <1>1, <1>2, <1>3

LEMMA TypedAddLeg ==
    ASSUME NEW c, Typed(c), Len(c.legs) < MaxLegs, NEW kind \in LegKinds
    PROVE  Typed(AddLeg(c, kind))
<1> DEFINE Leg == [inst: Instruments, kind: LegKinds, qty: 1..2]
<1>1. c.legs \in Seq(Leg) /\ c.inst \in Instruments /\ Legs = Seq(Leg)
  BY DEF Typed, Store, Legs
<1>2. PICK leg \in Leg : leg = [inst |-> c.inst, kind |-> kind, qty |-> 1]
  <2>1. [inst |-> c.inst, kind |-> kind, qty |-> 1] \in Leg
    BY <1>1
  <2> QED BY <2>1
<1> HIDE DEF Leg
<1>3. PICK l : l = Append(c.legs, leg)
  OBVIOUS
<1>4. l \in Seq(Leg) /\ Len(l) = Len(c.legs) + 1 /\ Len(c.legs) \in Nat
  BY <1>1, <1>3, AppendProperties, LenProperties
<1>5. l \in Legs /\ Short(l)
  BY <1>1, <1>4, CalculatorAssumption DEF Short
<1>6. Typed([c EXCEPT !.legs = l, !.retired = Nil])
  <2>1. PICK x : x = [c EXCEPT !.legs = l, !.retired = Nil]
    OBVIOUS
  <2>2. Typed(x)
    BY ONLY <1>5, Typed(c), <2>1 DEF Typed, Store
  <2> QED BY <2>1, <2>2
<1>7. AddLeg(c, kind) = [c EXCEPT !.legs = l, !.retired = Nil]
  BY <1>2, <1>3 DEF AddLeg
<1> QED BY <1>6, <1>7

LEMMA TypedClear ==
    ASSUME NEW c, Typed(c) PROVE Typed(ClearLegs(c)) /\ ClearLegs(c).legs = <<>>
<1>1. <<>> \in Legs /\ Short(<<>>)
  BY NoLegs
<1>2. PICK x : x = [c EXCEPT !.legs = <<>>, !.result = Nil, !.gateDenied = FALSE,
                             !.modelLimit = FALSE, !.notReady = "no"]
  OBVIOUS
<1>3. Typed(x) /\ x.legs = <<>>
  BY ONLY Typed(c), <1>1, <1>2 DEF Typed, Store
<1> QED BY <1>2, <1>3 DEF ClearLegs

LEMMA TypedRemove ==
    ASSUME NEW c, Typed(c), NEW n \in DOMAIN c.legs
    PROVE  Typed(RemoveLegAt(c, n))
<1> DEFINE left == [k \in 1..(Len(c.legs) - 1) |-> c.legs[IF k < n THEN k ELSE k + 1]]
           Leg == [inst: Instruments, kind: LegKinds, qty: 1..2]
<1>1. c.legs \in Seq(Leg) /\ Legs = Seq(Leg)
  BY DEF Typed, Store, Legs
<1> HIDE DEF Leg
<1>2. PICK m \in Nat : m = Len(c.legs) /\ DOMAIN c.legs = 1..m /\ \A k \in 1..m : c.legs[k] \in Leg
  BY <1>1, LenProperties, ElementOfSeq
<1>3. m - 1 \in Nat /\ n \in 1..m
  BY <1>2
<1>4. \A k \in 1..(m - 1) : left[k] \in Leg
  BY <1>2, <1>3
<1>5. PICK l : l = left
  OBVIOUS
<1>6. l \in Seq(Leg) /\ Len(l) = m - 1
  <2>1. l \in [1..(m - 1) -> Leg]
    BY <1>2, <1>4, <1>5
  <2> QED BY <1>3, <2>1
<1>7. l \in Legs /\ Short(l)
  BY <1>1, <1>2, <1>6, CalculatorAssumption DEF Typed, Short
<1>8. PICK d : d = [c EXCEPT !.legs = l]
  OBVIOUS
<1>9. Typed(d)
  BY ONLY Typed(c), <1>7, <1>8 DEF Typed, Store
<1>10. CASE left = <<>>
  <2>1. RemoveLegAt(c, n) = [d EXCEPT !.result = Nil, !.gateDenied = FALSE,
                                      !.modelLimit = FALSE, !.notReady = "no"]
    BY <1>5, <1>8, <1>10 DEF RemoveLegAt, Typed, Store
  <2>2. Typed([d EXCEPT !.result = Nil, !.gateDenied = FALSE,
                        !.modelLimit = FALSE, !.notReady = "no"])
    <3>1. PICK x : x = [d EXCEPT !.result = Nil, !.gateDenied = FALSE,
                              !.modelLimit = FALSE, !.notReady = "no"]
      OBVIOUS
    <3>2. Typed(x)
      BY ONLY <1>9, <3>1 DEF Typed, Store
    <3> QED BY <3>1, <3>2
  <2> QED BY <2>1, <2>2
<1>11. CASE left # <<>>
  <2>1. RemoveLegAt(c, n) = d
    BY <1>5, <1>8, <1>11 DEF RemoveLegAt, Typed, Store
  <2> QED BY <1>9, <2>1
<1> QED BY <1>10, <1>11

LEMMA TypedUpdate ==
    ASSUME NEW c, Typed(c), NEW n \in DOMAIN c.legs
    PROVE  Typed(UpdateLeg(c, n))
<1> DEFINE Leg == [inst: Instruments, kind: LegKinds, qty: 1..2]
<1>1. c.legs \in Seq(Leg) /\ Legs = Seq(Leg)
  BY DEF Typed, Store, Legs
<1>2. n \in 1..Len(c.legs) /\ c.legs[n] \in Leg
  <2> HIDE DEF Leg
  <2> QED BY <1>1, LenProperties, ElementOfSeq
<1>3. PICK leg \in Leg : leg = [c.legs[n] EXCEPT !.qty = 3 - @]
  <2>1. \A q \in 1..2 : 3 - q \in 1..2
    OBVIOUS
  <2>2. [c.legs[n] EXCEPT !.qty = 3 - @] \in Leg
    BY <1>2, <2>1
  <2> QED BY <2>2
<1> HIDE DEF Leg
<1>4. PICK l : l = [c.legs EXCEPT ![n] = leg] /\ l \in Seq(Leg) /\ Len(l) = Len(c.legs)
  <2>1. /\ [c.legs EXCEPT ![n] = leg] \in Seq(Leg)
        /\ Len([c.legs EXCEPT ![n] = leg]) = Len(c.legs)
    BY <1>1, <1>2, <1>3, ExceptSeq
  <2> QED BY <2>1
<1>5. Typed([c EXCEPT !.legs = l])
  <2>1. PICK x : x = [c EXCEPT !.legs = l]
    OBVIOUS
  <2>2. l \in Legs /\ Short(l)
    BY <1>1, <1>4 DEF Typed, Short
  <2>3. Typed(x)
    BY ONLY Typed(c), <2>1, <2>2 DEF Typed, Store
  <2> QED BY <2>1, <2>3
<1>6. UpdateLeg(c, n) = [c EXCEPT !.legs = l]
  BY <1>3, <1>4 DEF UpdateLeg
<1> QED BY <1>5, <1>6

\* What a listing offers is an expiry.
LEMMA ListedExpiries ==
    ASSUME NEW c, Typed(c), ExpiriesShown(c), NEW e \in Listed(c.chain.inst)
    PROVE  e \in Expiries
<1>1. c.chain.inst \in Instruments
  BY DEF Typed, Store, Chain, ExpiriesShown
<1> QED BY <1>1 DEF Expiries

\* A chain that is answered is one of the instrument asked for; the expiry put
\* above it is that of its rows, unless the server had only another's.
LEMMA AnswerIsLabelled ==
    ASSUME NEW i \in Instruments, NEW wanted \in Expiries,
           NEW chain \in Answers(i, wanted), NEW label,
           label = IF wanted # Unset THEN wanted ELSE chain.exp
    PROVE  /\ chain \in Chain /\ chain.inst = i /\ label \in Expiries
           /\ chain.exp = label \/ chain.rows = "other"
<1>1. PICK asked : asked = IF wanted # Unset THEN {wanted}
                           ELSE IF Listed(i) # {} THEN Listed(i) ELSE {Unset}
  OBVIOUS
<1>2. asked \subseteq Expiries /\ Listed(i) \subseteq Expiries
  BY <1>1 DEF Expiries
<1>3. \/ chain \in [inst: {i}, exp: asked, rows: {"asked", "none"}]
      \/ chain \in [inst: {i}, exp: Listed(i) \ asked, rows: {"other"}]
  BY <1>1, Zenon DEF Answers
<1>4. /\ chain \in Chain /\ chain.inst = i
      /\ chain.exp \in asked \/ chain.rows = "other"
  BY <1>2, <1>3 DEF Chain
<1> QED BY <1>1, <1>4 DEF Chain

LEMMA TypedSelect ==
    ASSUME NEW c, Typed(c), NEW e \in Expiries
    PROVE  Typed(SetSelectedExpiration(c, e))
<1>1. PICK d : d = [c EXCEPT !.selected = e]
  OBVIOUS
<1>2. Typed(d)
  BY <1>1 DEF Typed, Store
<1> QED BY <1>1, <1>2, TypedLoad DEF SetSelectedExpiration

\* An operation of the user keeps the store's type.
LEMMA TypedUser ==
    ASSUME Typed(calc), UserStep
    PROVE  Typed(calc')
<1>1. CASE \E i \in Instruments : SwitchSymbol(i)
  BY <1>1, TypedSymbol DEF SwitchSymbol
<1>2. CASE Undo
  <2>1. calc.retired \in Position /\ Short(calc.retired.legs)
    BY <1>2 DEF Undo, Typed, Store
  <2>2. calc.retired.inst \in Instruments
    BY <2>1 DEF Position
  <2> QED BY <1>2, <2>1, <2>2, TypedSymbol, TypedEffect DEF Undo
<1>3. CASE \E px \in {"unpriced", "priced"}, e \in Expiries : PickStrike(px, e)
  <2>1. PICK px \in {"unpriced", "priced"}, e \in Expiries : PickStrike(px, e)
    BY <1>3
  <2>2. PICK t \in Ticket : t = [contract |-> px, exp |-> e]
    BY DEF Ticket
  <2>3. PICK x : x = [calc EXCEPT !.ticket = t]
    OBVIOUS
  <2>4. Typed(x)
    BY ONLY Typed(calc), <2>3, t \in Ticket DEF Typed, Store
  <2> QED BY <2>1, <2>2, <2>3, <2>4 DEF PickStrike
<1>4. CASE \E e \in Expiries : PickExpiry(e)
  <2>1. PICK e \in Expiries : PickExpiry(e)
    BY <1>4
  <2>2. PICK d : d = [calc EXCEPT !.ticket = [contract |-> "none", exp |-> e]]
    OBVIOUS
  <2>3. Typed(d)
    <3>1. [contract |-> "none", exp |-> e] \in Ticket
      BY DEF Ticket
    <3> QED BY ONLY Typed(calc), <2>2, <3>1 DEF Typed, Store
  <2> QED BY <2>1, <2>2, <2>3, TypedSelect DEF PickExpiry
<1>5. ASSUME NEW kind \in LegKinds, CommitTicket(kind)
      PROVE  Typed(calc')
  <2>1. PICK d : d = AddLeg(calc, kind) /\ Typed(d)
    BY <1>5, TypedAddLeg DEF CommitTicket
  <2>2. Typed([d EXCEPT !.error = FALSE, !.notReady = "no"])
    <3>1. Typed(d)
      BY <2>1
    <3>2. PICK x : x = [d EXCEPT !.error = FALSE, !.notReady = "no"]
      OBVIOUS
    <3>3. Typed(x)
      BY ONLY <3>1, <3>2 DEF Typed, Store
    <3> QED BY <3>2, <3>3
  <2>3. Typed([calc EXCEPT !.error = FALSE, !.notReady = "ticket"])
    <3>1. PICK x : x = [calc EXCEPT !.error = FALSE, !.notReady = "ticket"]
      OBVIOUS
    <3>2. Typed(x)
      BY ONLY Typed(calc), <3>1 DEF Typed, Store
    <3> QED BY <3>1, <3>2
  <2>4. \/ calc' = Effect([d EXCEPT !.error = FALSE, !.notReady = "no"])
        \/ calc' = [calc EXCEPT !.error = FALSE, !.notReady = "ticket"]
    BY <1>5, <2>1 DEF CommitTicket
  <2> QED BY <2>2, <2>3, <2>4, TypedEffect
<1>6. ASSUME NEW kind \in LegKinds, ApplyStrategy(kind)
      PROVE  Typed(calc')
  <2>1. PICK d : d = ClearLegs(calc) /\ Typed(d) /\ d.legs = <<>>
    BY TypedClear
  <2>2. Len(d.legs) < MaxLegs
    BY <2>1, CalculatorAssumption
  <2>3. Typed(Effect(AddLeg(d, kind)))
    BY <2>1, <2>2, TypedAddLeg, TypedEffect
  <2>4. calc' \in {d, Effect(AddLeg(d, kind))}
    BY <1>6, <2>1 DEF ApplyStrategy
  <2> QED BY <2>1, <2>3, <2>4
<1>7. CASE AddFuture
  BY <1>7, TypedAddLeg, TypedEffect DEF AddFuture
<1>8. ASSUME NEW n \in DOMAIN calc.legs, RemoveLeg(n) \/ EditLeg(n)
      PROVE  Typed(calc')
  BY <1>8, TypedRemove, TypedUpdate, TypedCalculate, TypedEffect DEF RemoveLeg, EditLeg
<1>9. CASE ClearPosition
  BY <1>9, TypedClear, TypedEffect DEF ClearPosition
<1>10. CASE Recalculate
  BY <1>10, TypedCalculate DEF Recalculate
<1>11. CASE SetRiskFreeRate
  BY <1>11 DEF SetRiskFreeRate, Typed, Store
<1> QED BY <1>1, <1>2, <1>3, <1>4, <1>5, <1>6, <1>7, <1>8, <1>9, <1>10, <1>11 DEF UserStep

\* An operation of the user is counted.
LEMMA UserSpends == UserStep => Spend
  BY DEF UserStep, SwitchSymbol, Undo, PickStrike, PickExpiry, CommitTicket, ApplyStrategy,
         AddFuture, RemoveLeg, EditLeg, ClearPosition, Recalculate, SetRiskFreeRate

\* So does an answer of the network.
LEMMA TypedNetwork ==
    ASSUME Typed(calc), NetworkStep
    PROVE  Typed(calc')
<1>1. ASSUME NEW i \in Instruments, NEW ok \in BOOLEAN, QuoteReply(i, ok)
      PROVE  Typed(calc')
  <2>1. calc.quotes \in [Instruments -> Nat] /\ calc.quotes[i] > 0
    BY <1>1 DEF QuoteReply, Typed, Store
  <2>2. [calc.quotes EXCEPT ![i] = @ - 1] \in [Instruments -> Nat]
    BY ONLY <2>1
  <2>3. PICK c : c = [calc EXCEPT !.quotes[i] = @ - 1]
    OBVIOUS
  <2>4. Typed(c)
    BY ONLY Typed(calc), <2>2, <2>3 DEF Typed, Store
  <2>5. Typed([c EXCEPT !.spot = i, !.error = FALSE])
    <3>1. PICK x : x = [c EXCEPT !.spot = i, !.error = FALSE]
      OBVIOUS
    <3>2. Typed(x)
      BY ONLY <2>4, i \in Instruments, <3>1 DEF Typed, Store
    <3> QED BY <3>1, <3>2
  <2>6. Typed([c EXCEPT !.spot = Nil, !.error = TRUE, !.notReady = "no"])
    <3>1. PICK x : x = [c EXCEPT !.spot = Nil, !.error = TRUE, !.notReady = "no"]
      OBVIOUS
    <3>2. Typed(x)
      BY ONLY <2>4, <3>1 DEF Typed, Store
    <3> QED BY <3>1, <3>2
  <2>7. calc' \in {c, Effect([c EXCEPT !.spot = i, !.error = FALSE]),
                   [c EXCEPT !.spot = Nil, !.error = TRUE, !.notReady = "no"]}
    BY <1>1, <2>3 DEF QuoteReply
  <2> QED BY <2>4, <2>5, <2>6, <2>7, TypedEffect
<1>2. ASSUME NEW i \in Instruments, NEW wanted \in Expiries, ChainReply(i, wanted)
      PROVE  Typed(calc')
  <2>1. <<i, wanted>> \in ChainKey
    BY DEF ChainKey
  <2>2. PICK at \in ChainKey : at = <<i, wanted>>
    BY <2>1
  <2>3. calc.loads \in [ChainKey -> Nat] /\ calc.loads[at] > 0
    BY <1>2, <2>2 DEF ChainReply, Typed, Store
  <2>4. [calc.loads EXCEPT ![at] = @ - 1] \in [ChainKey -> Nat]
    BY ONLY <2>3
  <2>5. PICK c : c = [calc EXCEPT !.loads[at] = @ - 1]
    OBVIOUS
  <2>6. Typed(c)
    BY ONLY Typed(calc), <2>4, <2>5 DEF Typed, Store
  <2>7. ASSUME NEW chain \in Answers(i, wanted), NEW label,
               label = IF wanted # Unset THEN wanted ELSE chain.exp,
               NEW d \in Seeded(ChainLanded(c, chain, label))
        PROVE  Typed(d)
    <3>1. chain \in Chain /\ label \in Expiries
      BY <2>7, AnswerIsLabelled
    <3>2. PICK t, status : /\ t = [c.ticket EXCEPT !.exp = label]
                           /\ status = IF chain.rows = "none" THEN "error" ELSE "ready"
      OBVIOUS
    <3>3. t \in Ticket /\ status \in {"error", "ready"}
      BY ONLY <2>6, <3>1, <3>2 DEF Typed, Store, Ticket
    <3>4. PICK x : x = [c EXCEPT !.chain = chain, !.selected = label, !.ticket = t,
                                 !.chainStatus = status]
      OBVIOUS
    <3>5. Typed(x)
      BY ONLY <2>6, <3>1, <3>3, <3>4 DEF Typed, Store
    <3>6. ChainLanded(c, chain, label) = x
      BY ONLY <2>6, <3>2, <3>4 DEF Typed, Store, ChainLanded
    <3>7. ASSUME NEW px \in {"none", "unpriced", "priced"}
          PROVE  Typed([x EXCEPT !.ticket.contract = px])
      <4>1. PICK u : u = [x.ticket EXCEPT !.contract = px]
        OBVIOUS
      <4>2. u \in Ticket
        BY ONLY <3>5, <4>1, px \in {"none", "unpriced", "priced"} DEF Typed, Store, Ticket
      <4>3. PICK y : y = [x EXCEPT !.ticket = u]
        OBVIOUS
      <4>4. Typed(y)
        BY ONLY <3>5, <4>2, <4>3 DEF Typed, Store
      <4> QED BY <4>1, <4>3, <4>4
    <3>8. \/ d = x
          \/ \E px \in {"none", "unpriced", "priced"} : d = [x EXCEPT !.ticket.contract = px]
      BY <2>7, <3>6 DEF Seeded
    <3> QED BY <3>5, <3>7, <3>8
  <2>8. Typed(NoChain(c))
    BY ONLY <2>6 DEF NoChain, Typed, Store
  <2>9. \/ calc' = c
        \/ \E chain \in Answers(i, wanted) :
             calc' \in Seeded(ChainLanded(c, chain, IF wanted # Unset THEN wanted
                                                                     ELSE chain.exp))
        \/ calc' = NoChain(c)
    BY <1>2, <2>2, <2>5, Zenon DEF ChainReply
  <2> QED BY <2>6, <2>7, <2>8, <2>9
<1>3. ASSUME NEW ok \in BOOLEAN, RateReply(ok)
      PROVE  Typed(calc')
  <2>1. PICK r : r = IF calc.rate = "user" THEN "user"
                     ELSE IF ok THEN "measured" ELSE "unavailable"
    OBVIOUS
  <2>2. PICK c : c = [calc EXCEPT !.rate = r, !.rateAsked = FALSE, !.parked = {}]
    OBVIOUS
  <2>3. r \in {"measured", "unavailable", "user"}
    BY <2>1
  <2>4. Typed(c)
    BY ONLY Typed(calc), <2>2, <2>3 DEF Typed, Store
  <2>5. calc' \in {c, Resume(c, calc.parked)}
    BY <1>3, <2>1, <2>2 DEF RateReply
  <2>6. calc.parked \in SUBSET Call
    BY DEF Typed, Store
  <2> QED BY <2>4, <2>5, <2>6, TypedResume
<1>4. ASSUME NEW call \in calc.sent, NEW outcome \in {"ok", "denied", "limit", "failed"},
             CalcReply(call, outcome)
      PROVE  Typed(calc')
  <2>1. call \in Call
    BY DEF Typed, Store
  <2>2. PICK c : c = [calc EXCEPT !.sent = @ \ {call}]
    OBVIOUS
  <2>3. Typed(c)
    BY ONLY Typed(calc), <2>2 DEF Typed, Store
  <2>4. PICK r \in Position \union {Nil} :
          r = IF outcome = "ok" THEN [inst |-> call.inst, legs |-> call.legs] ELSE Nil
    <3>1. [inst |-> call.inst, legs |-> call.legs] \in Position
      BY <2>1 DEF Call, Position
    <3> QED BY <3>1
  <2>5. Typed([c EXCEPT !.isLoading = FALSE, !.notReady = "no", !.result = r,
                        !.error = outcome = "failed", !.gateDenied = outcome = "denied",
                        !.modelLimit = outcome = "limit"])
    <3>1. ASSUME NEW e \in BOOLEAN, NEW g \in BOOLEAN, NEW m \in BOOLEAN
          PROVE  Typed([c EXCEPT !.isLoading = FALSE, !.notReady = "no", !.result = r,
                                 !.error = e, !.gateDenied = g, !.modelLimit = m])
      <4>1. PICK d : d = [c EXCEPT !.isLoading = FALSE, !.notReady = "no", !.result = r]
        OBVIOUS
      <4>2. Typed(d)
        BY ONLY <2>3, <4>1, r \in Position \union {Nil} DEF Typed, Store
      <4>3. PICK f : f = [d EXCEPT !.error = e]
        OBVIOUS
      <4>4. Typed(f)
        BY ONLY <4>2, <4>3, e \in BOOLEAN DEF Typed, Store
      <4>5. PICK h : h = [f EXCEPT !.gateDenied = g]
        OBVIOUS
      <4>6. Typed(h)
        BY ONLY <4>4, <4>5, g \in BOOLEAN DEF Typed, Store
      <4>7. Typed([h EXCEPT !.modelLimit = m])
        <5>1. PICK x : x = [h EXCEPT !.modelLimit = m]
          OBVIOUS
        <5>2. Typed(x)
          BY ONLY <4>6, m \in BOOLEAN, <5>1 DEF Typed, Store
        <5> QED BY <5>1, <5>2
      <4> QED BY <4>1, <4>3, <4>5, <4>7
    <3> QED BY <3>1
  <2>6. calc' \in {c, Land(c, call, outcome)}
    BY <1>4, <2>2 DEF CalcReply
  <2>7. Typed(Land(c, call, outcome))
    BY <2>4, <2>5 DEF Land
  <2> QED BY <2>3, <2>6, <2>7
<1> QED BY <1>1, <1>2, <1>3, <1>4 DEF NetworkStep

\* The position a scenario opens is one of the instrument its symbol is taken
\* for, as long as it was when saved.
LEMMA ReopenedLegs ==
    ASSUME NEW s \in Scenario, NEW i \in Instruments, NEW legs,
           legs = [n \in DOMAIN s.legs |-> [s.legs[n] EXCEPT !.inst = i]]
    PROVE  legs \in Legs /\ Short(legs)
<1> DEFINE Leg == [inst: Instruments, kind: LegKinds, qty: 1..2]
<1>1. PICK l : l = s.legs /\ l \in Legs /\ Short(l)
  BY DEF Scenario, Short
<1>2. l \in Seq(Leg)
  BY <1>1 DEF Legs
<1>3. PICK m \in Nat : m = Len(l) /\ DOMAIN l = 1..m /\ \A n \in 1..m : l[n] \in Leg
  <2> HIDE DEF Leg
  <2> QED BY <1>2, LenProperties, ElementOfSeq
<1>4. \A n \in 1..m : [l[n] EXCEPT !.inst = i] \in Leg
  BY <1>3
<1> HIDE DEF Leg
<1>5. legs \in [1..m -> Leg]
  BY <1>1, <1>3, <1>4
<1>6. legs \in Seq(Leg) /\ Len(legs) = m
  BY ONLY <1>5, m \in Nat
<1> QED BY <1>1, <1>3, <1>6 DEF Leg, Legs, Short

LEMMA TypedReopened ==
    ASSUME NEW c, Typed(c), NEW s \in Scenario
    PROVE  Typed(Reopened(c, s))
<1>1. PICK i \in Instruments : i = Classify(s.of)
  BY WorkspaceAssumption DEF WorkspaceAssumption, Scenario
<1>2. s.spot \in Instruments \union {Nil}
  BY DEF Scenario
<1>3. PICK b : b = SetSymbolAt(c, i, s.spot) /\ Typed(b)
  BY <1>2, TypedSwitch DEF SetSymbolAt
<1>4. PICK d : d = ClearLegs(b) /\ Typed(d)
  BY <1>3, TypedClear
<1>5. PICK legs : legs = [n \in DOMAIN s.legs |-> [s.legs[n] EXCEPT !.inst = i]]
  OBVIOUS
<1>6. legs \in Legs /\ Short(legs)
  BY <1>5, ReopenedLegs
<1>7. Typed([d EXCEPT !.retired = Nil, !.legs = legs])
  <2>1. Typed(d)
    BY <1>4
  <2> QED BY ONLY <1>6, <2>1 DEF Typed, Store
<1>8. Reopened(c, s) = [d EXCEPT !.retired = Nil, !.legs = legs]
  BY <1>1, <1>3, <1>4, <1>5, Zenon DEF Reopened
<1> QED BY <1>7, <1>8

-----------------------------------------------------------------------------
(***************************************************************************)
(* The assistant.  What was said is counted by the operations.             *)
(***************************************************************************)
AsstTyped == AsstTypeOK /\ ops \in 0..MaxOps /\ asst.said + ops <= MaxOps

LEMMA TypedParse ==
    ASSUME AsstTyped, ops > 0
    PROVE  /\ Parse(asst) \in AsstStore /\ Parse(asst).said = asst.said + 1
           /\ [asst EXCEPT !.said = @ + 1,
                           !.shown = {[of |-> asst.said + 1, kind |-> "failed"]}] \in AsstStore
<1>1. asst.said + 1 \in 1..MaxOps /\ asst.said + 1 \in 0..MaxOps
  BY CalculatorAssumption DEF AsstTyped, AsstTypeOK, AsstStore
<1>2. PICK call \in [of: 1..MaxOps, prior: 0..MaxOps] :
        call = [of |-> asst.said + 1, prior |-> asst.prior]
  <2>1. [of |-> asst.said + 1, prior |-> asst.prior] \in [of: 1..MaxOps, prior: 0..MaxOps]
    BY <1>1 DEF AsstTyped, AsstTypeOK, AsstStore
  <2> QED BY <2>1
<1>3. PICK n \in 0..MaxOps : n = asst.said + 1
  BY <1>1
<1>4. Parse(asst) = [asst EXCEPT !.said = n, !.parsing = TRUE, !.shown = {},
                                 !.calls = @ \union {call}]
  BY <1>2, <1>3 DEF Parse, AsstTyped, AsstTypeOK, AsstStore
<1>5. asst.calls \union {call} \in SUBSET [of: 1..MaxOps, prior: 0..MaxOps]
  BY <1>2 DEF AsstTyped, AsstTypeOK, AsstStore
<1>6. Parse(asst) \in AsstStore /\ Parse(asst).said = n
  BY <1>4, <1>5 DEF AsstTyped, AsstTypeOK, AsstStore
<1>7. {[of |-> n, kind |-> "failed"]} \in SUBSET Outcome
  BY <1>1, <1>3 DEF Outcome
<1>8. [asst EXCEPT !.said = n, !.shown = {[of |-> n, kind |-> "failed"]}] \in AsstStore
  BY <1>7 DEF AsstTyped, AsstTypeOK, AsstStore
<1>9. [asst EXCEPT !.said = @ + 1, !.shown = {[of |-> asst.said + 1, kind |-> "failed"]}]
        = [asst EXCEPT !.said = n, !.shown = {[of |-> n, kind |-> "failed"]}]
  BY <1>3
<1> QED BY <1>3, <1>6, <1>8, <1>9

\* Spending an operation leaves a count.
LEMMA SpendCounts ==
    ASSUME ops \in 0..MaxOps, Spend
    PROVE  ops > 0 /\ ops' = ops - 1 /\ ops' \in 0..MaxOps
  BY CalculatorAssumption DEF Spend

LEMMA TypedAsst ==
    ASSUME AsstTyped, Typed(calc), AsstStep
    PROVE  AsstTyped' /\ Typed(calc')
<1>1. ops > 0 /\ ops' = ops - 1 /\ ops' \in 0..MaxOps
  BY SpendCounts DEF AsstTyped, AsstStep, Submit, SubmitNothing, ApplyParams
<1>2. asst.said \in Nat /\ ops \in Nat /\ asst.said + ops <= MaxOps
  BY DEF AsstTyped, AsstTypeOK, AsstStore
<1>3. CASE Submit
  <2>1. asst' = Parse(asst) /\ calc' = calc
    BY <1>3 DEF Submit
  <2>2. asst' \in AsstStore /\ asst'.said = asst.said + 1
    BY <1>1, <2>1, TypedParse
  <2> QED BY <1>1, <1>2, <2>1, <2>2, CalculatorAssumption DEF AsstTyped, AsstTypeOK
<1>4. CASE SubmitNothing
  <2>1. /\ asst' = [asst EXCEPT !.said = @ + 1,
                      !.shown = {[of |-> asst.said + 1, kind |-> "failed"]}]
        /\ calc' = calc
    BY <1>4 DEF SubmitNothing
  <2>2. asst' \in AsstStore
    BY <1>1, <2>1, TypedParse
  <2>3. asst'.said = asst.said + 1
    BY <2>1 DEF AsstTyped, AsstTypeOK, AsstStore
  <2> QED BY <1>1, <1>2, <2>1, <2>2, <2>3, CalculatorAssumption DEF AsstTyped, AsstTypeOK
<1>5. ASSUME NEW i \in Instruments, NEW days \in BOOLEAN, ApplyParams(i, days)
      PROVE  AsstTyped' /\ Typed(calc')
  <2>1. Typed(calc')
    BY <1>5, TypedSymbol DEF ApplyParams
  <2>2. asst' \in AsstStore /\ asst'.said = asst.said
    BY <1>5 DEF ApplyParams, AsstTyped, AsstTypeOK, AsstStore
  <2> QED BY <1>1, <1>2, <2>1, <2>2, CalculatorAssumption DEF AsstTyped, AsstTypeOK
<1> QED BY <1>3, <1>4, <1>5 DEF AsstStep

LEMMA TypedAsstReply ==
    ASSUME AsstTyped, AsstReply
    PROVE  AsstTyped'
<1>1. PICK call \in asst.calls, kind \in {"params", "clarification", "refusal", "failed"} :
        ParseReply(call, kind)
  BY DEF AsstReply
<1>2. call \in [of: 1..MaxOps, prior: 0..MaxOps]
  BY DEF AsstTyped, AsstTypeOK, AsstStore
<1>3. PICK shown : shown = {o \in asst.shown : o.kind # kind}
                             \union {[of |-> call.of, kind |-> kind]}
  OBVIOUS
<1>4. shown \in SUBSET Outcome
  BY <1>2, <1>3 DEF Outcome, AsstTyped, AsstTypeOK, AsstStore
<1>5. PICK prior : prior = CASE kind \in {"params", "refusal"} -> 0
                             [] kind = "clarification" -> call.of
                             [] OTHER -> asst.prior
  OBVIOUS
<1>6. prior \in 0..MaxOps
  BY <1>2, <1>5, CalculatorAssumption DEF AsstTyped, AsstTypeOK, AsstStore
<1>7. asst' = [asst EXCEPT !.calls = @ \ {call}, !.parsing = FALSE,
                           !.shown = shown, !.prior = prior]
  BY <1>1, <1>3, <1>5 DEF ParseReply, AsstTyped, AsstTypeOK, AsstStore
<1>8. asst' \in AsstStore /\ asst'.said = asst.said
  BY <1>4, <1>6, <1>7 DEF AsstTyped, AsstTypeOK, AsstStore
<1> QED BY <1>1, <1>8 DEF ParseReply, AsstTyped, AsstTypeOK

LEMMA TypedResolve ==
    ASSUME AsstTyped, Typed(calc), ResolvePending
    PROVE  AsstTyped' /\ Typed(calc')
<1>1. Typed(calc')
  <2>1. CASE ExpiriesShown(calc)
    <3>1. PICK e \in Listed(calc.chain.inst) : calc' = SetSelectedExpiration(calc, e)
      BY <2>1 DEF ResolvePending
    <3> QED BY <2>1, <3>1, ListedExpiries, TypedSelect
  <2>2. CASE ~ExpiriesShown(calc)
    BY <2>2 DEF ResolvePending
  <2> QED BY <2>1, <2>2
<1>2. asst' \in AsstStore /\ asst'.said = asst.said /\ ops' = ops
  BY DEF ResolvePending, AsstTyped, AsstTypeOK, AsstStore
<1> QED BY <1>1, <1>2 DEF AsstTyped, AsstTypeOK

-----------------------------------------------------------------------------
(***************************************************************************)
(* The exercise-style pricer.                                              *)
(***************************************************************************)
LEMMA TicketExpiryTyped ==
    ASSUME NEW c, Typed(c) PROVE TicketExpiry(c) \in Expiries
  BY DEF Typed, Store, Ticket, TicketExpiry

LEMMA TypedTreeResume ==
    ASSUME NEW t \in TreeStore, NEW c, NEW calls \in SUBSET TreeCall
    PROVE  TreeResume(t, c, calls) \in TreeStore
<1>1. CASE RateKnown(c) /\ t.style # 0
  <2>1. PICK new : new = {[newest |-> k.newest, price |->
                        [spot |-> k.spot, exp |-> k.exp, rate |-> c.rate,
                         style |-> t.style]] : k \in calls}
    OBVIOUS
  <2>2. t.style \in 1..2 /\ c.rate \in {"measured", "user"}
    BY <1>1 DEF TreeStore, RateKnown
  <2>3. ASSUME NEW k \in calls
        PROVE  [newest |-> k.newest, price |->
                 [spot |-> k.spot, exp |-> k.exp, rate |-> c.rate, style |-> t.style]]
                 \in [newest: BOOLEAN, price: Price]
    <3>1. k \in TreeCall
      OBVIOUS
    <3> QED BY <2>2, <3>1 DEF TreeCall, Price
  <2>4. new \in SUBSET [newest: BOOLEAN, price: Price]
    BY <2>1, <2>3
  <2>5. TreeResume(t, c, calls)
          = [t EXCEPT !.loading = TRUE, !.error = FALSE, !.notReady = FALSE,
                      !.sent = @ \union new]
    BY <1>1, <2>1 DEF TreeResume
  <2> QED BY <2>4, <2>5 DEF TreeStore
<1>2. CASE ~(RateKnown(c) /\ t.style # 0)
  <2>1. PICK newest : newest = (\E k \in calls : k.newest)
    OBVIOUS
  <2>2. PICK r, e, y : /\ r = IF newest THEN Nil ELSE t.results
                       /\ e = (t.error \/ (newest /\ ~RateKnown(c)))
                       /\ y = (t.notReady \/ (newest /\ RateKnown(c)))
    OBVIOUS
  <2>3. r \in Price \union {Nil} /\ e \in BOOLEAN /\ y \in BOOLEAN
    BY <2>2 DEF TreeStore
  <2>4. PICK d : d = [t EXCEPT !.results = r, !.error = e]
    OBVIOUS
  <2>5. d \in TreeStore
    BY ONLY <2>3, <2>4, t \in TreeStore DEF TreeStore
  <2>6. [d EXCEPT !.notReady = y] \in TreeStore
    BY ONLY <2>3, <2>5 DEF TreeStore
  <2>7. TreeResume(t, c, calls) = [d EXCEPT !.notReady = y]
    BY <1>2, <2>1, <2>2, <2>4 DEF TreeResume, TreeStore
  <2> QED BY <2>6, <2>7
<1> QED BY <1>1, <1>2

\* The effect of a change of the calculator keeps the pricer's type.
LEMMA TypedFollows ==
    ASSUME TreeTypeOK, TreeFollows PROVE TreeTypeOK'
<1>1. PICK t : t = IF calc.rateAsked /\ ~calc'.rateAsked /\ tree.parked # {}
                   THEN [TreeResume(tree, calc', tree.parked) EXCEPT !.parked = {}]
                   ELSE tree
  OBVIOUS
<1>2. tree.parked \in SUBSET TreeCall
  BY DEF TreeTypeOK, TreeStore
<1>3. PICK d : d = TreeResume(tree, calc', tree.parked)
  OBVIOUS
<1>4. d \in TreeStore
  BY <1>2, <1>3, TypedTreeResume DEF TreeTypeOK
<1>5. [d EXCEPT !.parked = {}] \in TreeStore
  BY ONLY <1>4 DEF TreeStore
<1>6. t \in TreeStore
  BY <1>1, <1>3, <1>5 DEF TreeTypeOK
<1>7. PICK o \in BOOLEAN : o = (t.open /\ calc'.inst.cls # "FUTURES")
  OBVIOUS
<1>8. PICK on \in BOOLEAN : on = (t.timer \/ (o /\ Watched(calc') # Watched(calc)))
  OBVIOUS
<1>9. tree' = [t EXCEPT !.open = o, !.timer = on]
  BY <1>1, <1>6, <1>7, <1>8 DEF TreeFollows, TreeStore
<1>10. PICK u : u = [t EXCEPT !.open = o]
  OBVIOUS
<1>11. u \in TreeStore
  BY ONLY <1>6, <1>10, o \in BOOLEAN DEF TreeStore
<1>12. [u EXCEPT !.timer = on] \in TreeStore
  BY ONLY <1>11, on \in BOOLEAN DEF TreeStore
<1> QED BY <1>9, <1>10, <1>12 DEF TreeTypeOK

LEMMA TypedTreeStep ==
    ASSUME TreeTypeOK, TreeStep PROVE TreeTypeOK' /\ Spend /\ calc' = calc
<1>1. CASE TogglePanel
  <2>1. PICK o \in BOOLEAN, on \in BOOLEAN : o = ~tree.open /\ on = (tree.timer \/ ~tree.open)
    OBVIOUS
  <2>2. tree' = [tree EXCEPT !.open = o, !.timer = on]
    BY <1>1, <2>1 DEF TogglePanel, TreeTypeOK, TreeStore
  <2>3. PICK t : t = [tree EXCEPT !.open = o]
    OBVIOUS
  <2>4. t \in TreeStore
    BY ONLY TreeTypeOK, <2>3, o \in BOOLEAN DEF TreeTypeOK, TreeStore
  <2>5. [t EXCEPT !.timer = on] \in TreeStore
    BY ONLY <2>4, on \in BOOLEAN DEF TreeStore
  <2> QED BY <1>1, <2>2, <2>3, <2>5 DEF TogglePanel, TreeTypeOK
<1>2. ASSUME NEW style \in 0..2, SetStyle(style)
      PROVE  TreeTypeOK' /\ Spend /\ calc' = calc
  <2>1. [tree EXCEPT !.style = style, !.timer = TRUE] \in TreeStore
    BY DEF TreeTypeOK, TreeStore
  <2>2. calc' = calc /\ Spend
    BY <1>2 DEF SetStyle
  <2> QED BY <1>2, <2>1, <2>2 DEF SetStyle, TreeTypeOK
<1> QED BY <1>1, <1>2 DEF TreeStep

LEMMA TypedExecute ==
    ASSUME TreeTypeOK, Typed(calc), ExecutePricing PROVE TreeTypeOK'
<1> DEFINE new  == [tree EXCEPT !.timer = FALSE,
                   !.parked = Superseded(@), !.sent = Superseded(@),
                   !.gateDenied = FALSE, !.notReady = FALSE]
           call == [newest |-> TRUE, spot |-> calc.spot, exp |-> TicketExpiry(calc)]
<1>1. Superseded(tree.parked) \in SUBSET TreeCall
  <2>1. ASSUME NEW calls \in SUBSET TreeCall PROVE Superseded(calls) \in SUBSET TreeCall
    BY DEF Superseded, TreeCall
  <2> QED BY <2>1 DEF TreeTypeOK, TreeStore
<1>2. Superseded(tree.sent) \in SUBSET [newest: BOOLEAN, price: Price]
  <2>1. ASSUME NEW calls \in SUBSET [newest: BOOLEAN, price: Price]
        PROVE  Superseded(calls) \in SUBSET [newest: BOOLEAN, price: Price]
    BY DEF Superseded
  <2> QED BY <2>1 DEF TreeTypeOK, TreeStore
<1>3. PICK t : t = new
  OBVIOUS
<1>4. t \in TreeStore
  <2>1. PICK p, q : p = Superseded(tree.parked) /\ q = Superseded(tree.sent)
    OBVIOUS
  <2>2. t = [tree EXCEPT !.timer = FALSE, !.parked = p, !.sent = q,
                         !.gateDenied = FALSE, !.notReady = FALSE]
    BY <1>3, <2>1
  <2>3. p \in SUBSET TreeCall /\ q \in SUBSET [newest: BOOLEAN, price: Price]
    BY <1>1, <1>2, <2>1
  <2> QED BY ONLY TreeTypeOK, <2>2, <2>3 DEF TreeTypeOK, TreeStore
<1>5. [t EXCEPT !.results = Nil, !.notReady = TRUE] \in TreeStore
  BY ONLY <1>4 DEF TreeStore
<1>6. ASSUME TicketReady(calc)
      PROVE  {call} \in SUBSET TreeCall
  <2>1. calc.spot \in Instruments /\ TicketExpiry(calc) \in Expiries
    BY <1>6, TicketExpiryTyped DEF Typed, Store, TicketReady
  <2> QED BY <2>1 DEF TreeCall
<1>7. PICK k : k = call
  OBVIOUS
<1>8. \/ tree' = [t EXCEPT !.results = Nil, !.notReady = TRUE]
      \/ TicketReady(calc) /\ tree' = [t EXCEPT !.parked = @ \union {k}]
      \/ TicketReady(calc) /\ tree' = TreeResume(t, calc, {k})
  BY <1>3, <1>7 DEF ExecutePricing
<1>9. ASSUME TicketReady(calc)
      PROVE  [t EXCEPT !.parked = @ \union {k}] \in TreeStore /\ TreeResume(t, calc, {k}) \in TreeStore
  <2>1. {k} \in SUBSET TreeCall
    BY <1>6, <1>7, <1>9
  <2>2. TreeResume(t, calc, {k}) \in TreeStore
    BY <1>4, <2>1, TypedTreeResume
  <2>3. t.parked \union {k} \in SUBSET TreeCall
    BY ONLY <1>4, <2>1 DEF TreeStore
  <2>4. [t EXCEPT !.parked = @ \union {k}] \in TreeStore
    BY ONLY <1>4, <2>3 DEF TreeStore
  <2> QED BY <2>2, <2>4
<1> QED BY <1>5, <1>8, <1>9 DEF TreeTypeOK

LEMMA TypedTreeReplies ==
    ASSUME TreeTypeOK, TreeReplies PROVE TreeTypeOK'
<1>1. PICK call \in tree.sent, outcome \in {"ok", "denied", "failed"} : TreeReply(call, outcome)
  BY DEF TreeReplies
<1>2. call \in [newest: BOOLEAN, price: Price]
  BY DEF TreeTypeOK, TreeStore
<1>3. PICK t : t = [tree EXCEPT !.sent = @ \ {call}]
  OBVIOUS
<1>4. t \in TreeStore
  BY <1>3 DEF TreeTypeOK, TreeStore
<1>5. [t EXCEPT !.loading = FALSE, !.error = FALSE, !.notReady = FALSE,
                !.results = call.price] \in TreeStore
  BY ONLY <1>2, <1>4 DEF TreeStore
<1>6. PICK e \in BOOLEAN, g \in BOOLEAN : e = (outcome = "failed") /\ g = (outcome = "denied")
  OBVIOUS
<1>7. [t EXCEPT !.loading = FALSE, !.results = Nil, !.error = e, !.gateDenied = g] \in TreeStore
  <2>1. PICK d : d = [t EXCEPT !.loading = FALSE, !.results = Nil, !.error = e]
    OBVIOUS
  <2>2. d \in TreeStore
    BY ONLY <1>4, <2>1, e \in BOOLEAN DEF TreeStore
  <2>3. [d EXCEPT !.gateDenied = g] \in TreeStore
    BY ONLY <2>2, g \in BOOLEAN DEF TreeStore
  <2> QED BY <2>1, <2>3
<1>8. tree' \in {t, [t EXCEPT !.loading = FALSE, !.error = FALSE, !.notReady = FALSE,
                              !.results = call.price],
                 [t EXCEPT !.loading = FALSE, !.results = Nil, !.error = e, !.gateDenied = g]}
  BY <1>1, <1>3, <1>6 DEF TreeReply
<1> QED BY <1>4, <1>5, <1>7, <1>8 DEF TreeTypeOK

-----------------------------------------------------------------------------
(***************************************************************************)
(* The page.                                                               *)
(***************************************************************************)
TypeInv == Typed(calc) /\ AsstTyped /\ TreeTypeOK /\ SavedInv

\* What the panel sends is a call, and what it opens a position.
LEMMA TypedSaved ==
    ASSUME Typed(calc), SavedInv, SavedStep
    PROVE  SavedInv' /\ Typed(calc') /\ Spend /\ asst' = asst
<1>1. RowsInv(rows) /\ nextId \in Nat /\ tab \in Saved!Tab
  BY SavedInvIs
<1>2. ASSUME rows' = rows, nextId' = nextId, tab' \in Saved!Tab
      PROVE  SavedInv'
  BY <1>1, <1>2 DEF SavedInv, RowsInv, OneRowPerName, Saved!SavedTypeOK, Saved!OneRowPerName
<1>3. ASSUME NEW name \in Names, SaveScenario(name)
      PROVE  SavedInv' /\ Typed(calc') /\ Spend /\ asst' = asst
  <2>1. calc' = calc /\ asst' = asst /\ Spend
    BY <1>3 DEF SaveScenario
  <2>2. CASE RateKnown(calc)
    <3>1. PICK sc : sc = [of |-> calc.inst, legs |-> calc.legs, spot |-> calc.spot]
      OBVIOUS
    <3>2. sc \in Scenario
      BY <3>1 DEF Scenario, Typed, Store, Short
    <3>3. PICK call : call = [op |-> "save", name |-> name, scenario |-> sc,
                              seen |-> <<>>, at |-> "sent"]
      OBVIOUS
    <3>4. call \in Saved!Call
      <4>1. <<>> \in Saved!Seen
        BY DEF Saved!Seen
      <4>2. call \in SaveCall
        BY <3>2, <3>3, <4>1 DEF SaveCall
      <4> QED BY <4>2, CallIs
    <3>5. PICK t \in Saved!Tab : t = Saved!Send(tab, call)
      BY <1>1, <3>4, SendKeeps
    <3>6. Saved!SaveAs(name, sc)
      BY <1>3, <2>2, <3>1 DEF SaveScenario
    <3>7. /\ tab' = [t EXCEPT !.status = "loading", !.busy = TRUE]
          /\ rows' = rows /\ nextId' = nextId
      BY <3>3, <3>5, <3>6 DEF Saved!SaveAs
    <3>8. tab' \in Saved!Tab
      BY ONLY <3>7, t \in Saved!Tab DEF Saved!Tab
    <3> QED BY <1>2, <2>1, <3>7, <3>8
  <2>3. CASE ~RateKnown(calc)
    <3>1. Saved!SaveRefused
      BY <1>3, <2>3 DEF SaveScenario
    <3>2. tab' \in Saved!Tab /\ rows' = rows /\ nextId' = nextId
      BY <1>1, <3>1 DEF Saved!SaveRefused, Saved!Tab
    <3> QED BY <1>2, <2>1, <3>2
  <2> QED BY <2>2, <2>3
<1>4. ASSUME NEW n \in DOMAIN tab.list
      PROVE  tab.list[n] \in Saved!Row
  <2>1. tab.list \in Saved!Seen
    BY <1>1 DEF Saved!Tab
  <2> QED BY <2>1, <1>4, RowsOf
<1>5. ASSUME NEW n \in DOMAIN tab.list, OpenScenario(tab.list[n])
      PROVE  SavedInv' /\ Typed(calc') /\ Spend /\ asst' = asst
  <2>1. PICK row \in Saved!Row : row = tab.list[n]
    BY <1>4
  <2>2. row.scenario \in Scenario
    BY DEF Saved!Row
  <2>3. Typed(Effect(Calculate(Reopened(calc, row.scenario))))
    BY <2>2, TypedReopened, TypedCalculate, TypedEffect
  <2>4. /\ calc' = Effect(Calculate(Reopened(calc, row.scenario))) /\ Spend
        /\ asst' = asst /\ rows' = rows /\ nextId' = nextId /\ tab' = tab
    BY <1>5, <2>1 DEF OpenScenario, savedVars
  <2> QED BY <1>1, <1>2, <2>3, <2>4
<1>6. ASSUME NEW n \in DOMAIN tab.list, Spend, Saved!RemoveRow(tab.list[n].id),
             calc' = calc, asst' = asst
      PROVE  SavedInv' /\ Typed(calc') /\ Spend /\ asst' = asst
  <2>1. tab.list[n].id \in Nat
    BY <1>4 DEF Saved!Row
  <2>2. PICK call : call = [op |-> "delete", id |-> tab.list[n].id, at |-> "sent"]
    OBVIOUS
  <2>3. call \in Saved!Call
    <3>1. call \in DeleteCall
      BY <2>1, <2>2 DEF DeleteCall
    <3> QED BY <3>1, CallIs
  <2>4. tab' \in Saved!Tab /\ rows' = rows /\ nextId' = nextId
    BY <1>1, <1>6, <2>2, <2>3, SendKeeps DEF Saved!RemoveRow
  <2> QED BY <1>2, <1>6, <2>4
<1>7. ASSUME Spend, Saved!Refresh, calc' = calc, asst' = asst
      PROVE  SavedInv' /\ Typed(calc') /\ Spend /\ asst' = asst
  <2>1. tab' \in Saved!Tab /\ rows' = rows /\ nextId' = nextId
    BY <1>1, <1>7, RefreshedKeeps DEF Saved!Refresh
  <2> QED BY <1>2, <1>7, <2>1
<1> QED BY <1>3, <1>5, <1>6, <1>7 DEF SavedStep

LEMMA TypeInit == WorkspaceInit => TypeInv
<1> SUFFICES ASSUME WorkspaceInit PROVE TypeInv
  OBVIOUS
<1>1. Typed(calc) /\ ops = MaxOps
  <2>1. PICK c : c = Created(Home)
    OBVIOUS
  <2>2. Typed(c)
    <3>1. <<>> \in Legs /\ Short(<<>>) /\ Home \in Instruments /\ Unset \in Expiries
      BY CalculatorAssumption, UnsetIsExpiry, NoLegs
    <3>2. /\ [j \in Instruments |-> 0] \in [Instruments -> Nat]
          /\ [l \in ChainKey |-> 0] \in [ChainKey -> Nat]
      OBVIOUS
    <3>3. [contract |-> "none", exp |-> Unset] \in Ticket
      BY <3>1 DEF Ticket
    <3> QED BY <2>1, <3>1, <3>2, <3>3 DEF Created, Typed, Store
  <2>3. PICK d : d = SetSymbol(c, Home, Nil)
    OBVIOUS
  <2>4. Typed(d)
    BY <2>2, <2>3, TypedSymbol, CalculatorAssumption
  <2>5. Typed([d EXCEPT !.rateAsked = TRUE])
    <3>1. PICK x : x = [d EXCEPT !.rateAsked = TRUE]
      OBVIOUS
    <3>2. Typed(x)
      BY ONLY <2>4, <3>1 DEF Typed, Store
    <3> QED BY <3>1, <3>2
  <2> QED BY <2>1, <2>3, <2>5 DEF WorkspaceInit, CalcInit
<1>2. AsstTyped
  BY <1>1, CalculatorAssumption
     DEF WorkspaceInit, AsstInit, AsstTyped, AsstTypeOK, AsstStore, Outcome
<1>3. TreeTypeOK
  BY DEF WorkspaceInit, TreeInit, TreeTypeOK, TreeStore
<1>4. SavedInv
  <2>1. rows = <<>> /\ nextId = 1
    BY DEF WorkspaceInit, Saved!SavedInit
  <2>4. DOMAIN rows = 1..0
    <3>1. rows \in Seq(Saved!Row) /\ Len(rows) = 0
      BY <2>1
    <3> QED BY <3>1, LenProperties
  <2>2. <<>> \in Saved!Seen /\ <<>> \in Seq(Saved!Call)
    BY DEF Saved!Seen
  <2>3. tab \in Saved!Tab
    BY <2>2 DEF WorkspaceInit, Saved!SavedInit, Saved!Tab
  <2> QED BY <2>1, <2>2, <2>3, <2>4
          DEF SavedInv, Saved!SavedTypeOK, OneRowPerName, Saved!OneRowPerName
<1> QED BY <1>1, <1>2, <1>3, <1>4 DEF TypeInv

LEMMA TypeStep == TypeInv /\ [WorkspaceNext]_vars => TypeInv'
<1> SUFFICES ASSUME TypeInv, [WorkspaceNext]_vars PROVE TypeInv'
  OBVIOUS
<1>1. Typed(calc) /\ AsstTyped /\ TreeTypeOK /\ SavedInv
  BY DEF TypeInv
<1>2. ASSUME asst' = asst, ops' = ops \/ Spend
      PROVE  AsstTyped'
  <2>1. asst.said \in Nat /\ ops \in Nat
    BY <1>1 DEF AsstTyped, AsstTypeOK, AsstStore
  <2> QED BY <1>1, <1>2, <2>1, SpendCounts, CalculatorAssumption DEF AsstTyped, AsstTypeOK
<1>3. UNCHANGED savedVars => SavedInv'
  BY <1>1 DEF savedVars, SavedInv, Saved!SavedTypeOK, OneRowPerName, Saved!OneRowPerName
<1>4. CASE Event
  <2>1. CASE UserStep /\ UNCHANGED <<asst, savedVars>> /\ TreeFollows
    BY <1>1, <1>2, <1>3, <2>1, UserSpends, TypedUser, TypedFollows DEF TypeInv
  <2>2. CASE AsstStep /\ UNCHANGED savedVars /\ TreeFollows
    BY <1>1, <1>3, <2>2, TypedAsst, TypedFollows DEF TypeInv
  <2>3. CASE SavedStep /\ TreeFollows
    BY <1>1, <1>2, <2>3, TypedSaved, TypedFollows DEF TypeInv
  <2>4. CASE TreeStep /\ UNCHANGED <<asst, savedVars>>
    BY <1>1, <1>2, <1>3, <2>4, TypedTreeStep DEF TypeInv
  <2> QED BY <1>4, <2>1, <2>2, <2>3, <2>4 DEF Event
<1>5. CASE Reply
  <2>1. CASE NetworkStep /\ UNCHANGED <<asst, savedVars>> /\ TreeFollows
    <3>1. ops' = ops
      BY <2>1 DEF NetworkStep, QuoteReply, ChainReply, RateReply, CalcReply
    <3> QED BY <1>1, <1>2, <1>3, <2>1, <3>1, TypedNetwork, TypedFollows DEF TypeInv
  <2>2. CASE AsstReply /\ UNCHANGED <<tree, savedVars>>
    <3>1. calc' = calc
      BY <2>2 DEF AsstReply, ParseReply
    <3> QED BY <1>1, <1>3, <2>2, <3>1, TypedAsstReply DEF TypeInv, TreeTypeOK
  <2>3. CASE Saved!CallStep /\ UNCHANGED <<calc, ops, asst, tree>>
    BY <1>1, <1>2, <2>3, CallStepKeeps, WorkspaceAssumption DEF TypeInv, TreeTypeOK
  <2>4. CASE (ExecutePricing \/ TreeReplies) /\ UNCHANGED <<asst, savedVars>>
    <3>1. calc' = calc /\ ops' = ops
      BY <2>4 DEF ExecutePricing, TreeReplies, TreeReply
    <3>2. TreeTypeOK'
      BY <1>1, <2>4, TypedExecute, TypedTreeReplies
    <3> QED BY <1>1, <1>2, <1>3, <2>4, <3>1, <3>2 DEF TypeInv
  <2> QED BY <1>5, <2>1, <2>2, <2>3, <2>4 DEF Reply
<1>6. CASE RunEffects
  BY <1>1, <1>3, <1>6, TypedResolve, TypedFollows DEF RunEffects, TypeInv
<1>7. CASE UNCHANGED vars
  BY <1>1, <1>2, <1>3, <1>7 DEF vars, savedVars, TypeInv, TreeTypeOK
<1> QED BY <1>4, <1>5, <1>6, <1>7 DEF WorkspaceNext

\* The stores of the page and the saved rows have their types, whatever the
\* user does and in whatever order the answers come.
THEOREM TypesHold == WorkspaceSpec => []WorkspaceTypeOK
<1>1. TypeInv => WorkspaceTypeOK
  BY DEF TypeInv, Typed, Short, AsstTyped, SavedInv, WorkspaceTypeOK, CalcTypeOK
<1> QED BY <1>1, TypeInit, TypeStep, PTL DEF WorkspaceSpec

\* A user never has two rows of one name, with any number of saves and of
\* deletions in flight, and also when a reply is lost and the save repeated.
THEOREM OneRowToAName == WorkspaceSpec => []OneRowPerName
<1>1. TypeInv => OneRowPerName
  BY DEF TypeInv, SavedInv
<1> QED BY <1>1, TypeInit, TypeStep, PTL DEF WorkspaceSpec
====
