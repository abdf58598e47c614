-------------------------- MODULE WorkspaceProofs --------------------------
(***************************************************************************)
(* Proofs about the calculator page, for any instruments, listings, legs   *)
(* and number of operations.  The invariant has a part for each store; of  *)
(* the saved rows only their type is used, which WorkspaceTypes proves.    *)
(* Store functions are composed, so the lemmas say what each does to a     *)
(* store.                                                                  *)
(***************************************************************************)
EXTENDS WorkspaceTypes

Fields == {"inst", "legs", "retired", "spot", "rate", "rateAsked", "result", "isLoading",
           "error", "notReady", "gateDenied", "modelLimit", "chainStatus", "chain",
           "selected", "ticket", "parked", "sent", "quotes", "loads"}

\* These legs are legs of instrument i.
OfOne(i, legs) == i \in Instruments /\ legs \in Legs /\ \A n \in DOMAIN legs : legs[n].inst = i

\* What holds of the store also between two functions of one turn: the legs
\* are of the header, an offered Undo covers none, and nothing was priced
\* before there was a rate.
Loose(c) ==
    /\ Fields \subseteq DOMAIN c
    /\ OfOne(c.inst, c.legs)
    /\ c.retired # Nil => /\ OfOne(c.retired.inst, c.retired.legs)
                          /\ c.legs = <<>>
    /\ c.parked \subseteq Call /\ c.sent \subseteq Call
    /\ c.rate = "pending" => c.result = Nil /\ c.sent = {}
    /\ c.isLoading \in BOOLEAN

\* The newest call in flight is for the legs on the screen.
Newest(c) == c.legs # <<>> =>
    \A k \in c.parked \union c.sent :
        k.newest = TRUE => k.inst = c.inst /\ k.legs = c.legs

Shown(c) == c.result # Nil /\ c.legs # <<>> /\ c.isLoading = FALSE =>
    /\ c.result = [inst |-> c.inst, legs |-> c.legs]
    /\ c.gateDenied = FALSE /\ c.modelLimit = FALSE

StoreInv(c) == Loose(c) /\ Newest(c) /\ Shown(c)

\* Taking a new token leaves no newest call.
LEMMA SupersededCalls ==
    ASSUME NEW s \in SUBSET Call
    PROVE  /\ Superseded(s) \subseteq Call
           /\ \A k \in Superseded(s) : k.newest = FALSE
           /\ s = {} => Superseded(s) = {}
  BY DEF Superseded, Call

\* What follows the wait for the rate keeps the invariant, and the rate.
LEMMA ResumeKeeps ==
    ASSUME NEW c, Loose(c), Newest(c), NEW calls \in SUBSET Call,
           c.legs # <<>> => \A k \in calls : k.newest = TRUE => k.inst = c.inst /\ k.legs = c.legs,
           c.rate # "pending",
           RateKnown(c) \/ (\E k \in calls : k.newest = TRUE) \/ Shown(c)
    PROVE  StoreInv(Resume(c, calls)) /\ Resume(c, calls).rate = c.rate
<1>1. CASE RateKnown(c)
  <2> DEFINE d == [c EXCEPT !.isLoading = TRUE, !.error = FALSE, !.sent = @ \union calls]
  <2>1. /\ DOMAIN d = DOMAIN c
        /\ d.inst = c.inst /\ d.legs = c.legs /\ d.retired = c.retired /\ d.rate = c.rate
        /\ d.result = c.result /\ d.parked = c.parked
        /\ d.sent = c.sent \union calls /\ d.isLoading = TRUE
    BY DEF Loose, Fields
  <2>2. Resume(c, calls) = d
    BY <1>1 DEF Resume
  <2> HIDE DEF d
  <2>3. Loose(d) 
    BY <2>1 DEF Loose
  <2>4. Newest(d)
    BY <2>1 DEF Newest
  <2>5. Shown(d)
    BY <2>1 DEF Shown
  <2> QED BY <2>1, <2>2, <2>3, <2>4, <2>5 DEF StoreInv
<1>2. CASE ~RateKnown(c) /\ \E k \in calls : k.newest = TRUE
  <2> DEFINE d == [c EXCEPT !.result = Nil, !.error = TRUE, !.notReady = "no",
                   !.isLoading = FALSE]
  <2>1. /\ DOMAIN d = DOMAIN c
        /\ d.inst = c.inst /\ d.legs = c.legs /\ d.retired = c.retired /\ d.rate = c.rate
        /\ d.result = Nil /\ d.parked = c.parked
        /\ d.sent = c.sent /\ d.isLoading = FALSE
    BY DEF Loose, Fields
  <2>2. Resume(c, calls) = d
    BY <1>2 DEF Resume
  <2> HIDE DEF d
  <2>3. Loose(d) 
    BY <2>1 DEF Loose
  <2>4. Newest(d)
    BY <2>1 DEF Newest
  <2>5. Shown(d)
    BY <2>1 DEF Shown
  <2> QED BY <2>1, <2>2, <2>3, <2>4, <2>5 DEF StoreInv
<1>3. CASE ~RateKnown(c) /\ ~\E k \in calls : k.newest = TRUE
  <2>1. \A k \in calls : k.newest \in BOOLEAN
    BY DEF Call
  <2>2. Resume(c, calls) = c
    BY <1>3, <2>1 DEF Resume
  <2> QED BY <1>3, <2>2 DEF StoreInv
<1> QED BY <1>1, <1>2, <1>3

\* A calculation of any loose store gives one that satisfies the invariant.
LEMMA CalculateKeeps ==
    ASSUME NEW c, Loose(c)
    PROVE  StoreInv(Calculate(c)) /\ Calculate(c).rate = c.rate
<1>1. PICK call : call = [newest |-> TRUE, inst |-> c.inst, legs |-> c.legs]
  OBVIOUS
<1>2. PICK new : new = [c EXCEPT !.parked = Superseded(@), !.sent = Superseded(@),
                          !.gateDenied = FALSE, !.modelLimit = FALSE,
                          !.notReady = "no"]
  OBVIOUS
<1>3. /\ DOMAIN new = DOMAIN c
      /\ new.inst = c.inst /\ new.legs = c.legs /\ new.retired = c.retired /\ new.rate = c.rate
      /\ new.result = c.result /\ new.isLoading = c.isLoading
      /\ new.parked = Superseded(c.parked) /\ new.sent = Superseded(c.sent)
      /\ new.gateDenied = FALSE /\ new.modelLimit = FALSE
  BY <1>2 DEF Loose, Fields
<1>4. Loose(new) /\ Newest(new)
  BY <1>3, SupersededCalls DEF Loose, Newest
<1>5. call \in Call
  BY <1>1 DEF Loose, OfOne, Call
<1>6. ASSUME NEW why
      PROVE StoreInv(Refuse(new, why)) /\ Refuse(new, why).rate = c.rate
  <2> DEFINE d == Refuse(new, why)
  <2>1. /\ DOMAIN d = DOMAIN new
        /\ d.inst = new.inst /\ d.legs = new.legs /\ d.retired = new.retired /\ d.rate = new.rate
        /\ d.result = Nil /\ d.parked = new.parked
        /\ d.sent = new.sent /\ d.isLoading = FALSE
    BY <1>4 DEF Loose, Fields, Refuse
  <2> HIDE DEF d
  <2>2. StoreInv(d)
    BY <1>4, <2>1 DEF Loose, Newest, Shown, StoreInv
  <2> QED BY <1>3, <2>1, <2>2 DEF d
<1>7. ASSUME c.rate = "pending", NEW d,
             d = [new EXCEPT !.rateAsked = TRUE, !.parked = @ \union {call}]
      PROVE StoreInv(d) /\ d.rate = c.rate
  <2>1. /\ DOMAIN d = DOMAIN new
        /\ d.inst = new.inst /\ d.legs = new.legs /\ d.retired = new.retired /\ d.rate = new.rate
        /\ d.result = new.result /\ d.parked = new.parked \union {call}
        /\ d.sent = new.sent /\ d.isLoading = new.isLoading
    BY <1>4, <1>7 DEF Loose, Fields
  <2>2. Loose(d)
    BY <1>4, <1>5, <2>1 DEF Loose
  <2>3. Newest(d)
    BY <1>1, <1>3, <1>4, <2>1 DEF Newest
  <2>4. Shown(d)
    BY <1>7, <1>3, <1>4, <2>1 DEF Loose, Shown
  <2> QED BY <1>3, <2>1, <2>2, <2>3, <2>4 DEF StoreInv
<1>8. ASSUME c.rate # "pending"
      PROVE StoreInv(Resume(new, {call})) /\ Resume(new, {call}).rate = c.rate
  <2>1. \A k \in {call} : k.newest = TRUE /\ k.inst = new.inst /\ k.legs = new.legs
    BY <1>1, <1>3
  <2>2. {call} \in SUBSET Call
    BY <1>5
  <2>3. new.rate # "pending"
    BY <1>3, <1>8
  <2> QED BY <1>3, <1>4, <2>1, <2>2, <2>3, ResumeKeeps
<1>9. Calculate(c) = IF c.legs = <<>> THEN Refuse(new, "no")
        ELSE IF Unpriceable(c) THEN Refuse(new, "position")
        ELSE IF c.rate = "pending"
        THEN [new EXCEPT !.rateAsked = TRUE, !.parked = @ \union {call}]
        ELSE Resume(new, {call})
  BY <1>1, <1>2, Zenon DEF Calculate
<1> QED BY <1>6, <1>7, <1>8, <1>9

\* So does the effect on [legs].
LEMMA EffectKeeps ==
    ASSUME NEW c, Loose(c)
    PROVE  StoreInv(Effect(c)) /\ Effect(c).rate = c.rate
<1>1. CASE c.legs = <<>>
  BY <1>1 DEF Effect, StoreInv, Newest, Shown
<1>2. CASE c.legs # <<>>
  BY <1>2, CalculateKeeps DEF Effect
<1> QED BY <1>1, <1>2

\* The fields the invariant speaks of are the same.
SameCore(c, d) ==
    /\ Fields \subseteq DOMAIN d
    /\ d.inst = c.inst /\ d.legs = c.legs /\ d.retired = c.retired
    /\ d.rate = c.rate /\ d.result = c.result /\ d.isLoading = c.isLoading
    /\ d.gateDenied = c.gateDenied /\ d.modelLimit = c.modelLimit
    /\ d.parked = c.parked /\ d.sent = c.sent

\* The invariant depends on these fields only.
LEMMA CoreKeeps ==
    ASSUME NEW c, NEW d, SameCore(c, d)
    PROVE  /\ Loose(c) => Loose(d)
           /\ StoreInv(c) => StoreInv(d)
           /\ d.rate = c.rate
  BY DEF SameCore, Loose, Newest, Shown, StoreInv

\* Asking for a chain, or selecting an expiry, touches none of them.
LEMMA LoadChainKeeps ==
    ASSUME NEW c, NEW e, Loose(c)
    PROVE  SameCore(c, LoadChain(c, e)) /\ SameCore(c, SetSelectedExpiration(c, e))
<1>1. ASSUME NEW b, Fields \subseteq DOMAIN b, NEW w PROVE SameCore(b, LoadChain(b, w))
  <2>1. PICK n : LoadChain(b, w) = [b EXCEPT !.chainStatus = "loading", !.loads = n]
    BY DEF LoadChain
  <2> QED BY <1>1, <2>1 DEF SameCore, Fields
<1>2. PICK b : b = [c EXCEPT !.selected = e]
  OBVIOUS
<1>3. Fields \subseteq DOMAIN b /\ SameCore(c, b)
  BY <1>2 DEF Loose, SameCore, Fields
<1>4. SameCore(b, LoadChain(b, e))
  BY <1>1, <1>3
<1>5. SameCore(c, LoadChain(b, e))
  BY <1>3, <1>4 DEF SameCore
<1>6. SetSelectedExpiration(c, e) = LoadChain(b, e)
  BY <1>2 DEF SetSelectedExpiration
<1> QED BY <1>1, <1>5, <1>6 DEF Loose

\* A switch of the symbol keeps the store loose, also when it restores what
\* was retired, and without a restore it keeps the invariant.
LEMMA SwitchKeeps ==
    ASSUME NEW c, Loose(c), NEW i \in Instruments, NEW price, NEW restore,
           restore = Nil \/ (c.retired # Nil /\ restore = c.retired /\ i = restore.inst)
    PROVE  \A d \in {Switched(c, i, price, restore), SetSymbol(c, i, restore)} :
               /\ Loose(d) /\ d.inst = i /\ d.rate = c.rate
               /\ restore = Nil /\ StoreInv(c) => StoreInv(d)
<1> DEFINE retire == i # c.inst /\ c.legs # <<>> /\ restore = Nil
           set(p) == [c EXCEPT
            !.inst = i, !.result = Nil, !.spot = p,
            !.legs = IF retire THEN <<>>
                     ELSE IF restore # Nil THEN restore.legs ELSE @,
            !.retired = IF retire THEN [inst |-> c.inst, legs |-> c.legs]
                        ELSE IF restore # Nil THEN Nil ELSE @,
            !.error = FALSE, !.notReady = "no",
            !.gateDenied = @ /\ ~retire, !.modelLimit = @ /\ ~retire,
            !.chain = Nil, !.selected = Unset, !.chainStatus = "idle"]
           Good(d) == /\ Loose(d) /\ d.inst = i /\ d.rate = c.rate
                      /\ restore = Nil /\ StoreInv(c) => StoreInv(d)
<1>1. ASSUME NEW p PROVE Good(set(p))
  <2>1. PICK d : d = set(p)
    OBVIOUS
  <2>2. /\ Fields \subseteq DOMAIN d
        /\ d.inst = i /\ d.result = Nil
        /\ d.legs = IF retire THEN <<>>
                     ELSE IF restore # Nil THEN restore.legs ELSE c.legs
        /\ d.retired = IF retire THEN [inst |-> c.inst, legs |-> c.legs]
                        ELSE IF restore # Nil THEN Nil ELSE c.retired
        /\ d.rate = c.rate /\ d.isLoading = c.isLoading
        /\ d.parked = c.parked /\ d.sent = c.sent
    BY <2>1 DEF Loose, Fields
  <2>3. <<>> \in Legs
    BY DEF Legs
  <2>4. Loose(d)
    BY <2>2, <2>3 DEF Loose, OfOne
  <2>5. ASSUME restore = Nil, StoreInv(c) PROVE Newest(d) /\ Shown(d)
    BY <2>2, <2>5 DEF StoreInv, Newest, Shown
  <2> QED BY <2>1, <2>2, <2>4, <2>5 DEF StoreInv
<1> HIDE DEF set
<1>2. ASSUME NEW p PROVE Good([set(p) EXCEPT !.spot = Nil, !.chainStatus = "error"])
  <2>1. PICK b : b = set(p)
    OBVIOUS
  <2>2. PICK d : d = [b EXCEPT !.spot = Nil, !.chainStatus = "error"]
    OBVIOUS
  <2>3. Good(b)
    BY <1>1, <2>1
  <2>4. SameCore(b, d)
    BY <2>2, <2>3 DEF SameCore, Loose, Fields
  <2>5. /\ Loose(d) /\ d.rate = b.rate /\ d.inst = b.inst
        /\ StoreInv(b) => StoreInv(d)
    BY <2>3, <2>4, CoreKeeps DEF SameCore
  <2>6. Good(d)
    BY <2>3, <2>5
  <2> HIDE DEF Good
  <2> QED BY <2>1, <2>2, <2>6
<1>3. ASSUME NEW p PROVE Good(LoadChain(set(p), Unset))
  BY <1>1, LoadChainKeeps, CoreKeeps DEF SameCore
<1>4. ASSUME NEW p PROVE Switched(c, i, p, restore) =
           IF i.cls = "CRYPTO"
           THEN [set(p) EXCEPT !.spot = Nil, !.chainStatus = "error"]
           ELSE LoadChain(set(p), Unset)
  BY Zenon DEF Switched, set
<1>5. ASSUME NEW p PROVE Good(Switched(c, i, p, restore))
  <2> HIDE DEF Good
  <2> QED BY <1>2, <1>3, <1>4
<1>6. ASSUME NEW d, Good(d) PROVE Good([d EXCEPT !.quotes[i] = @ + 1])
  <2>1. PICK n : [d EXCEPT !.quotes[i] = @ + 1] = [d EXCEPT !.quotes = n]
    OBVIOUS
  <2>2. SameCore(d, [d EXCEPT !.quotes = n])
    BY <1>6 DEF SameCore, Loose, Fields
  <2> QED BY <1>6, <2>1, <2>2, CoreKeeps DEF SameCore
<1>7. Good(SetSymbol(c, i, restore))
  BY <1>5, <1>6 DEF SetSymbol
<1> QED BY <1>5, <1>7

\* Adding, removing, changing and clearing legs keep the store loose.
LEMMA LegsKeep ==
    ASSUME NEW c, Loose(c)
    PROVE  /\ \A kind \in LegKinds :
                  Loose(AddLeg(c, kind)) /\ AddLeg(c, kind).rate = c.rate
           /\ \A n \in DOMAIN c.legs :
                  \A d \in {RemoveLegAt(c, n), UpdateLeg(c, n)} :
                      Loose(d) /\ d.rate = c.rate
           /\ StoreInv(ClearLegs(c))
           /\ ClearLegs(c).rate = c.rate /\ ClearLegs(c).inst = c.inst
<1> DEFINE Leg == [inst: Instruments, kind: LegKinds, qty: 1..2]
<1>0. c.legs \in Seq(Leg) /\ \A m \in DOMAIN c.legs : c.legs[m].inst = c.inst
  BY DEF Loose, OfOne, Legs
<1>1. ASSUME NEW kind \in LegKinds
      PROVE Loose(AddLeg(c, kind)) /\ AddLeg(c, kind).rate = c.rate
  <2>1. PICK leg : leg = [inst |-> c.inst, kind |-> kind, qty |-> 1]
    OBVIOUS
  <2>2. leg \in Leg /\ leg.inst = c.inst
    BY <2>1 DEF Loose, OfOne
  <2>3. OfOne(c.inst, Append(c.legs, leg))
    BY <1>0, <2>2 DEF Loose, OfOne, Legs
  <2>4. PICK d : d = AddLeg(c, kind)
    OBVIOUS
  <2>5. /\ Fields \subseteq DOMAIN d
        /\ d.inst = c.inst /\ d.legs = Append(c.legs, leg) /\ d.retired = Nil
        /\ d.rate = c.rate /\ d.result = c.result /\ d.isLoading = c.isLoading
        /\ d.parked = c.parked /\ d.sent = c.sent
    BY <2>1, <2>4 DEF AddLeg, Loose, Fields
  <2>6. Loose(d)
    BY <2>3, <2>5 DEF Loose
  <2> QED BY <2>4, <2>5, <2>6
<1>2. ASSUME NEW n \in DOMAIN c.legs
      PROVE Loose(RemoveLegAt(c, n)) /\ RemoveLegAt(c, n).rate = c.rate
  <2>1. PICK left : left = [k \in 1..(Len(c.legs) - 1) |-> c.legs[IF k < n THEN k ELSE k + 1]]
    OBVIOUS
  <2>2. OfOne(c.inst, left)
    <3> HIDE DEF Leg
    <3>1. PICK l \in Seq(Leg) : l = c.legs
      BY <1>0
    <3>0. n \in DOMAIN l
      BY <3>1, Zenon
    <3>a. DOMAIN l = 1..Len(l) /\ Len(l) \in Nat /\ \A k \in 1..Len(l) : l[k] \in Leg
      BY ONLY l \in Seq(Leg)
    <3>b. n \in 1..Len(l) /\ Len(l) \in Nat
      BY ONLY <3>0, <3>a
    <3>c. Len(l) - 1 \in Nat
      BY ONLY <3>b
    <3>2. PICK m \in Nat : m = Len(l) - 1
      BY ONLY <3>c
    <3>3. Len(l) = m + 1 /\ DOMAIN l = 1..(m + 1) /\ \A k \in 1..(m + 1) : l[k] \in Leg
      BY ONLY <3>2, <3>a
    <3>4. left = [k \in 1..m |-> l[IF k < n THEN k ELSE k + 1]]
      BY <2>1, <3>1, <3>2
    <3>5. n \in 1..(m + 1)
      BY <3>0, <3>3
    <3>6. \A k \in 1..m : (IF k < n THEN k ELSE k + 1) \in 1..(m + 1)
      BY <3>5
    <3>7. left \in [1..m -> Leg]
      BY <3>3, <3>4, <3>6
    <3>8. left \in Seq(Leg)
      BY <3>7, <3>2
    <3>9. \A k \in 1..m : left[k].inst = c.inst
      BY <1>0, <3>1, <3>3, <3>4, <3>6
    <3> QED BY <3>7, <3>8, <3>9 DEF Loose, OfOne, Legs, Leg
  <2>3. PICK d : d = RemoveLegAt(c, n)
    OBVIOUS
  <2>4. /\ Fields \subseteq DOMAIN d
        /\ d.inst = c.inst /\ d.legs = left /\ d.retired = c.retired
        /\ d.rate = c.rate /\ d.isLoading = c.isLoading
        /\ d.result = IF left = <<>> THEN Nil ELSE c.result
        /\ d.parked = c.parked /\ d.sent = c.sent
    BY <2>1, <2>3 DEF RemoveLegAt, Loose, Fields
  <2>5. c.retired = Nil
    BY <1>0 DEF Loose
  <2>6. Loose(d)
    BY <2>2, <2>4, <2>5 DEF Loose
  <2> QED BY <2>3, <2>4, <2>6
<1>3. ASSUME NEW n \in DOMAIN c.legs
      PROVE Loose(UpdateLeg(c, n)) /\ UpdateLeg(c, n).rate = c.rate
  <2>1. PICK legs : legs = [c.legs EXCEPT ![n].qty = 3 - @]
    OBVIOUS
  <2>2. OfOne(c.inst, legs)
    <3>1. PICK l \in Seq(Leg) : l = c.legs
      BY <1>0
    <3>2. PICK leg : leg = [l[n] EXCEPT !.qty = 3 - @]
      OBVIOUS
    <3>3. legs = [l EXCEPT ![n] = leg]
      BY <2>1, <3>1, <3>2
    <3>4. leg \in Leg /\ leg.inst = c.inst
      <4>1. l[n] \in Leg /\ l[n].inst = c.inst
        <5>1. n \in DOMAIN l
          BY <3>1, Zenon
        <5>2. l[n] \in Leg
          <6> HIDE DEF Leg
          <6>1. n \in 1..Len(l)
            BY ONLY <5>1, l \in Seq(Leg)
          <6> QED BY ONLY <6>1, l \in Seq(Leg), ElementOfSeq, Zenon
        <5>3. c.legs[n].inst = c.inst
          BY <1>0
        <5> QED BY <5>2, <5>3, <3>1, Zenon
      <4>2. l[n].qty \in {1, 2}
        BY <4>1
      <4>3. 3 - l[n].qty \in 1..2
        BY <4>2
      <4> QED BY <4>1, <4>3, <3>2
    <3>5. legs \in Seq(Leg) /\ DOMAIN legs = DOMAIN l
      BY <3>1, <3>3, <3>4
    <3>6. \A k \in DOMAIN l : legs[k].inst = c.inst
      BY <1>0, <3>1, <3>3, <3>4
    <3> QED BY <3>5, <3>6 DEF Loose, OfOne, Legs
  <2>3. PICK d : d = UpdateLeg(c, n)
    OBVIOUS
  <2>4. d = [c EXCEPT !.legs = legs]
    BY <2>1, <2>3 DEF UpdateLeg, Loose, Fields
  <2>5. /\ Fields \subseteq DOMAIN d
        /\ d.inst = c.inst /\ d.legs = legs /\ d.retired = c.retired
        /\ d.rate = c.rate /\ d.result = c.result /\ d.isLoading = c.isLoading
        /\ d.parked = c.parked /\ d.sent = c.sent
    BY <2>4 DEF Loose, Fields
  <2>6. c.retired = Nil
    BY <1>0 DEF Loose
  <2>7. Loose(d)
    BY <2>2, <2>5, <2>6 DEF Loose
  <2> QED BY <2>3, <2>5, <2>7
<1>4. /\ StoreInv(ClearLegs(c))
      /\ ClearLegs(c).rate = c.rate /\ ClearLegs(c).inst = c.inst
  <2>1. PICK d : d = ClearLegs(c)
    OBVIOUS
  <2>2. /\ Fields \subseteq DOMAIN d
        /\ d.inst = c.inst /\ d.legs = <<>> /\ d.retired = c.retired
        /\ d.rate = c.rate /\ d.result = Nil /\ d.isLoading = c.isLoading
        /\ d.parked = c.parked /\ d.sent = c.sent
    BY <2>1 DEF ClearLegs, Loose, Fields
  <2>3. Loose(d)
    BY <2>2 DEF Loose, OfOne, Legs
  <2> QED BY <2>1, <2>2, <2>3 DEF StoreInv, Newest, Shown
<1> QED BY <1>1, <1>2, <1>3, <1>4

\* A step of the store: the invariant, and the user's rate.
Kept(c, d) == /\ StoreInv(d)
              /\ c.rate = "user" => d.rate = "user"
              /\ d.rate = "pending" => c.rate = "pending"

\* What the user does keeps the invariant and the user's rate.
LEMMA UserKeeps ==
    ASSUME StoreInv(calc), UserStep
    PROVE  Kept(calc, calc')
<1>0. Loose(calc)
  BY DEF StoreInv
<1>1. ASSUME NEW i \in Instruments, SwitchSymbol(i) PROVE Kept(calc, calc')
  BY <1>0, <1>1, SwitchKeeps DEF SwitchSymbol, Kept
<1>2. CASE Undo
  <2>0. calc.retired # Nil /\ calc.retired.inst \in Instruments
    BY <1>0, <1>2 DEF Undo, Loose, OfOne
  <2>1. /\ Loose(SetSymbol(calc, calc.retired.inst, calc.retired))
        /\ SetSymbol(calc, calc.retired.inst, calc.retired).rate = calc.rate
    BY ONLY <1>0, <2>0, SwitchKeeps
  <2> QED BY <1>2, <2>1, EffectKeeps DEF Undo, Kept
<1>3. ASSUME NEW px, NEW e, PickStrike(px, e) PROVE Kept(calc, calc')
  <2>1. SameCore(calc, calc')
    BY <1>0, <1>3 DEF PickStrike, SameCore, Loose, Fields
  <2> QED BY <2>1, CoreKeeps DEF Kept
<1>4. ASSUME NEW e, PickExpiry(e) PROVE Kept(calc, calc')
  <2>1. PICK c : c = [calc EXCEPT !.ticket = [contract |-> "none", exp |-> e]]
    OBVIOUS
  <2>2. SameCore(calc, c)
    BY <1>0, <2>1 DEF SameCore, Loose, Fields
  <2>3. StoreInv(c) /\ Loose(c) /\ c.rate = calc.rate
    BY <1>0, <2>2, CoreKeeps DEF Kept
  <2>4. calc' = SetSelectedExpiration(c, e)
    BY <1>4, <2>1 DEF PickExpiry
  <2> QED BY <2>3, <2>4, LoadChainKeeps, CoreKeeps DEF Kept
<1>5. ASSUME NEW kind \in LegKinds, CommitTicket(kind) PROVE Kept(calc, calc')
  <2>1. PICK a : a = AddLeg(calc, kind)
    OBVIOUS
  <2>2. Loose(a) /\ a.rate = calc.rate
    BY <1>0, <2>1, LegsKeep DEF Kept
  <2>3. /\ Loose([a EXCEPT !.error = FALSE, !.notReady = "no"])
        /\ [a EXCEPT !.error = FALSE, !.notReady = "no"].rate = calc.rate
    <3>1. SameCore(a, [a EXCEPT !.error = FALSE, !.notReady = "no"])
      BY <2>2 DEF SameCore, Loose, Fields
    <3> QED BY <3>1, <2>2, CoreKeeps DEF Kept
  <2>4. /\ StoreInv([calc EXCEPT !.error = FALSE, !.notReady = "ticket"])
        /\ [calc EXCEPT !.error = FALSE, !.notReady = "ticket"].rate = calc.rate
    <3>1. SameCore(calc, [calc EXCEPT !.error = FALSE, !.notReady = "ticket"])
      BY <1>0 DEF SameCore, Loose, Fields
    <3> QED BY <3>1, CoreKeeps DEF Kept
  <2>5. \/ calc' = Effect([a EXCEPT !.error = FALSE, !.notReady = "no"])
        \/ calc' = [calc EXCEPT !.error = FALSE, !.notReady = "ticket"]
    BY <1>5, <2>1, Zenon DEF CommitTicket
  <2> QED BY <2>3, <2>4, <2>5, EffectKeeps DEF Kept
<1>6. ASSUME NEW kind \in LegKinds, ApplyStrategy(kind) PROVE Kept(calc, calc')
  <2>1. /\ Loose(AddLeg(ClearLegs(calc), kind)) /\ StoreInv(ClearLegs(calc))
        /\ AddLeg(ClearLegs(calc), kind).rate = calc.rate
        /\ ClearLegs(calc).rate = calc.rate
    BY <1>0, LegsKeep DEF StoreInv
  <2>2. calc' = ClearLegs(calc) \/ calc' = Effect(AddLeg(ClearLegs(calc), kind))
    BY <1>6 DEF ApplyStrategy
  <2> QED BY <2>1, <2>2, EffectKeeps DEF Kept
<1>7. CASE AddFuture
  BY <1>0, <1>7, LegsKeep, EffectKeeps DEF AddFuture, Kept
<1>8. ASSUME NEW n \in DOMAIN calc.legs, RemoveLeg(n) \/ EditLeg(n) PROVE Kept(calc, calc')
  <2>1. \A d \in {RemoveLegAt(calc, n), UpdateLeg(calc, n)} :
            Loose(d) /\ d.rate = calc.rate
    BY <1>0, LegsKeep
  <2>2. \A d \in {Calculate(RemoveLegAt(calc, n)), Calculate(UpdateLeg(calc, n))} :
            Loose(d) /\ d.rate = calc.rate
    BY <2>1, CalculateKeeps DEF StoreInv
  <2> QED BY <1>8, <2>2, EffectKeeps DEF RemoveLeg, EditLeg, Kept
<1>9. CASE ClearPosition
  <2>1. Loose(ClearLegs(calc)) /\ ClearLegs(calc).rate = calc.rate
    BY <1>0, LegsKeep DEF StoreInv
  <2> QED BY <1>9, <2>1, EffectKeeps DEF ClearPosition, Kept
<1>10. CASE Recalculate
  BY <1>0, <1>10, CalculateKeeps DEF Recalculate, Kept
<1>11. CASE SetRiskFreeRate
  <2>1. /\ Fields \subseteq DOMAIN calc'
        /\ calc'.inst = calc.inst /\ calc'.legs = calc.legs /\ calc'.retired = calc.retired
        /\ calc'.rate = "user" /\ calc'.result = calc.result /\ calc'.isLoading = calc.isLoading
        /\ calc'.gateDenied = calc.gateDenied /\ calc'.modelLimit = calc.modelLimit
        /\ calc'.parked = calc.parked /\ calc'.sent = calc.sent
    BY <1>0, <1>11 DEF SetRiskFreeRate, Loose, Fields
  <2>2. PICK d : d = calc'
    OBVIOUS
  <2>3. StoreInv(d)
    BY <2>1, <2>2 DEF StoreInv, Loose, Newest, Shown
  <2> QED BY <2>1, <2>2, <2>3 DEF Kept
<1> QED
  BY <1>1, <1>2, <1>3, <1>4, <1>5, <1>6, <1>7, <1>8, <1>9, <1>10, <1>11 DEF UserStep

\* So does every reply, in whatever order they come.
LEMMA NetworkKeeps ==
    ASSUME StoreInv(calc), NetworkStep
    PROVE  Kept(calc, calc')
<1>0. Loose(calc)
  BY DEF StoreInv
<1>1. ASSUME NEW i \in Instruments, NEW ok \in BOOLEAN, QuoteReply(i, ok) PROVE Kept(calc, calc')
  <2>1. PICK q : [calc EXCEPT !.quotes[i] = @ - 1] = [calc EXCEPT !.quotes = q]
    OBVIOUS
  <2>2. PICK c : c = [calc EXCEPT !.quotes = q]
    OBVIOUS
  <2>3. SameCore(calc, c)
    BY <1>0, <2>2 DEF SameCore, Loose, Fields
  <2>4. /\ SameCore(calc, [c EXCEPT !.spot = i, !.error = FALSE])
        /\ SameCore(calc, [c EXCEPT !.spot = Nil, !.error = TRUE, !.notReady = "no"])
    BY <2>3 DEF SameCore, Fields
  <2>5. \/ calc' = c
        \/ calc' = Effect([c EXCEPT !.spot = i, !.error = FALSE])
        \/ calc' = [c EXCEPT !.spot = Nil, !.error = TRUE, !.notReady = "no"]
    BY <1>1, <2>1, <2>2, Zenon DEF QuoteReply
  <2> QED BY <1>0, <2>3, <2>4, <2>5, CoreKeeps, EffectKeeps DEF Kept
<1>2. ASSUME NEW i \in Instruments, NEW w \in Expiries, ChainReply(i, w) PROVE Kept(calc, calc')
  <2>1. PICK q : [calc EXCEPT !.loads[<<i, w>>] = @ - 1] = [calc EXCEPT !.loads = q]
    OBVIOUS
  <2>2. PICK c : c = [calc EXCEPT !.loads = q]
    OBVIOUS
  <2>3. SameCore(calc, c)
    BY <1>0, <2>2 DEF SameCore, Loose, Fields
  <2>4. ASSUME NEW chain, NEW label, NEW s \in Seeded(ChainLanded(c, chain, label))
        PROVE  SameCore(calc, s)
    <3>1. PICK d : d = ChainLanded(c, chain, label)
      OBVIOUS
    <3>2. PICK t, status : d = [c EXCEPT !.chain = chain, !.selected = label,
                                         !.ticket = t, !.chainStatus = status]
      BY <2>3, <3>1 DEF SameCore, Fields, ChainLanded
    <3>3. SameCore(calc, d)
      BY <2>3, <3>2 DEF SameCore, Fields
    <3>4. PICK u : s = [d EXCEPT !.ticket = u] \/ s = d
      BY <2>4, <3>1 DEF Seeded
    <3> QED BY <3>3, <3>4 DEF SameCore, Fields
  <2>5. SameCore(calc, NoChain(c))
    BY <2>3 DEF SameCore, NoChain, Fields
  <2>6. \/ calc' = c
        \/ \E chain, label : calc' \in Seeded(ChainLanded(c, chain, label))
        \/ calc' = NoChain(c)
    BY <1>2, <2>1, <2>2, Zenon DEF ChainReply
  <2> QED BY <2>3, <2>4, <2>5, <2>6, CoreKeeps DEF Kept
<1>3. ASSUME NEW ok \in BOOLEAN, RateReply(ok) PROVE Kept(calc, calc')
  <2>1. PICK c : c = [calc EXCEPT !.rate = IF @ = "user" THEN "user"
                                   ELSE IF ok THEN "measured" ELSE "unavailable",
                          !.rateAsked = FALSE, !.parked = {}]
    OBVIOUS
  <2>2. /\ Fields \subseteq DOMAIN c
        /\ c.inst = calc.inst /\ c.legs = calc.legs /\ c.retired = calc.retired
        /\ c.rate = (IF calc.rate = "user" THEN "user"
                     ELSE IF ok THEN "measured" ELSE "unavailable")
        /\ c.result = calc.result /\ c.isLoading = calc.isLoading
        /\ c.gateDenied = calc.gateDenied /\ c.modelLimit = calc.modelLimit
        /\ c.parked = {} /\ c.sent = calc.sent
    BY <1>0, <2>1 DEF Loose, Fields
  <2>3. c.rate # "pending"
    BY <2>2
  <2>4. StoreInv(c)
    BY <2>2, <2>3 DEF StoreInv, Loose, Newest, Shown
  <2>5. StoreInv(Resume(c, calc.parked)) /\ Resume(c, calc.parked).rate = c.rate
    <3>1. calc.parked \in SUBSET Call
      BY <1>0 DEF Loose
    <3>2. c.legs # <<>> => \A k \in calc.parked : k.newest = TRUE => k.inst = c.inst /\ k.legs = c.legs
      BY <2>2 DEF StoreInv, Newest
    <3> QED BY <2>3, <2>4, <3>1, <3>2, ResumeKeeps DEF StoreInv
  <2>6. calc' = c \/ calc' = Resume(c, calc.parked)
    BY <1>3, <2>1, Zenon DEF RateReply
  <2> QED BY <2>2, <2>4, <2>5, <2>6 DEF Kept
<1>4. ASSUME NEW call \in calc.sent, NEW outcome \in {"ok", "denied", "limit", "failed"},
             CalcReply(call, outcome)
      PROVE Kept(calc, calc')
  <2>1. PICK c : c = [calc EXCEPT !.sent = @ \ {call}]
    OBVIOUS
  <2>2. /\ Fields \subseteq DOMAIN c
        /\ c.inst = calc.inst /\ c.legs = calc.legs /\ c.retired = calc.retired
        /\ c.rate = calc.rate
        /\ c.result = calc.result /\ c.isLoading = calc.isLoading
        /\ c.gateDenied = calc.gateDenied /\ c.modelLimit = calc.modelLimit
        /\ c.parked = calc.parked /\ c.sent = calc.sent \ {call}
    BY <1>0, <2>1 DEF Loose, Fields
  <2>3. StoreInv(c)
    BY <2>2 DEF StoreInv, Loose, Newest, Shown
  <2>4. call \in Call
    BY <1>0 DEF Loose
  <2>5. CASE call.newest
    <3>1. c.legs # <<>> => call.inst = c.inst /\ call.legs = c.legs
      BY <2>2, <2>5 DEF StoreInv, Newest
    <3>2. calc.rate # "pending"
      BY <1>0 DEF Loose
    <3>3. PICK d : d = Land(c, call, outcome)
      OBVIOUS
    <3>4. /\ Fields \subseteq DOMAIN d
          /\ d.inst = c.inst /\ d.legs = c.legs /\ d.retired = c.retired
          /\ d.rate = c.rate /\ d.isLoading = FALSE
          /\ d.parked = c.parked /\ d.sent = c.sent
          /\ d.result = IF outcome = "ok"
                        THEN [inst |-> call.inst, legs |-> call.legs] ELSE Nil
      BY <2>2, <3>3 DEF Land, Fields
    <3>5. outcome = "ok" => d.gateDenied = FALSE /\ d.modelLimit = FALSE
      <4>1. /\ d.gateDenied = (outcome = "denied")
            /\ d.modelLimit = (outcome = "limit")
        BY <2>2, <3>3 DEF Land, Fields
      <4>2. outcome = "ok" => (outcome = "denied") = FALSE /\ (outcome = "limit") = FALSE
        OBVIOUS
      <4> QED BY <4>1, <4>2, Zenon
    <3>6. StoreInv(d)
      BY <2>2, <2>3, <3>1, <3>2, <3>4, <3>5 DEF StoreInv, Loose, Newest, Shown
    <3>7. calc' = d
      BY <1>4, <2>1, <2>5, <3>3 DEF CalcReply
    <3> QED BY <2>2, <3>4, <3>6, <3>7 DEF Kept
  <2>6. CASE ~call.newest
    BY <1>4, <2>1, <2>2, <2>3, <2>6 DEF CalcReply, Kept
  <2> QED BY <2>5, <2>6
<1> QED BY <1>1, <1>2, <1>3, <1>4 DEF NetworkStep

\* A saved scenario opens as a position of the instrument its symbol is taken
\* for.
LEMMA OpenKeeps ==
    ASSUME Loose(calc), NEW s \in Scenario
    PROVE  Loose(Reopened(calc, s)) /\ Reopened(calc, s).rate = calc.rate
<1>1. PICK i : i = Classify(s.of)
  OBVIOUS
<1>2. i \in Instruments
  BY <1>1, WorkspaceAssumption DEF WorkspaceAssumption, Scenario
<1>3. PICK c : c = ClearLegs(SetSymbolAt(calc, i, s.spot))
  OBVIOUS
<1>4. Loose(c) /\ c.rate = calc.rate
  BY <1>2, <1>3, SwitchKeeps, LegsKeep DEF SetSymbolAt, StoreInv
<1>5. PICK legs : legs = [n \in DOMAIN s.legs |-> [s.legs[n] EXCEPT !.inst = i]]
  OBVIOUS
<1>6. OfOne(i, legs)
  <2>1. PICK l \in Legs : l = s.legs
    BY DEF Scenario
  <2>2. \A n \in DOMAIN l : l[n] \in [inst: Instruments, kind: LegKinds, qty: 1..2]
    <3> DEFINE Leg == [inst: Instruments, kind: LegKinds, qty: 1..2]
    <3>1. l \in Seq(Leg)
      BY DEF Legs
    <3> HIDE DEF Leg
    <3>2. \A n \in DOMAIN l : l[n] \in Leg
      BY ONLY <3>1
    <3> QED BY <3>2 DEF Leg
  <2>3. \A n \in DOMAIN l : /\ [l[n] EXCEPT !.inst = i] \in [inst: Instruments, kind: LegKinds, qty: 1..2]
                            /\ [l[n] EXCEPT !.inst = i].inst = i
    BY <1>2, <2>2
  <2>4. PICK m \in Nat : DOMAIN l = 1..m
    BY DEF Legs
  <2>5. legs \in [1..m -> [inst: Instruments, kind: LegKinds, qty: 1..2]]
    BY <1>5, <2>1, <2>3, <2>4
  <2>6. \A n \in DOMAIN legs : legs[n].inst = i
    BY <1>5, <2>1, <2>3
  <2>7. legs \in Legs
    <3> DEFINE Leg == [inst: Instruments, kind: LegKinds, qty: 1..2]
    <3>1. legs \in [1..m -> Leg]
      BY <2>5
    <3> HIDE DEF Leg
    <3>2. legs \in Seq(Leg)
      BY <3>1
    <3> QED BY <3>2 DEF Leg, Legs
  <2> QED BY <1>2, <2>6, <2>7 DEF OfOne
<1>7. PICK d : d = [c EXCEPT !.retired = Nil, !.legs = legs]
  OBVIOUS
<1>8. /\ Fields \subseteq DOMAIN d
      /\ d.inst = c.inst /\ d.legs = legs /\ d.retired = Nil
      /\ d.rate = c.rate /\ d.result = c.result /\ d.isLoading = c.isLoading
      /\ d.parked = c.parked /\ d.sent = c.sent
  BY <1>4, <1>7 DEF Loose, Fields
<1>9. c.inst = i
  <2>1. PICK b : b = SetSymbolAt(calc, i, s.spot)
    OBVIOUS
  <2>2. Loose(b) /\ b.inst = i
    BY <2>1, <1>2, SwitchKeeps DEF SetSymbolAt
  <2> QED BY <1>3, <2>1, <2>2, LegsKeep
<1>10. Loose(d)
  BY <1>4, <1>6, <1>8, <1>9 DEF Loose
<1>11. Reopened(calc, s) = d
  BY <1>1, <1>3, <1>5, <1>7, Zenon DEF Reopened
<1> QED BY <1>4, <1>8, <1>10, <1>11

\* The store satisfies the invariant once the page is mounted.
LEMMA InitHolds ==
    ASSUME CalcInit
    PROVE  StoreInv(calc)
<1>1. Loose(Created(Home))
  BY CalculatorAssumption DEF CalculatorAssumption, Created, Loose, Fields, OfOne, Legs
<1>2. PICK c : c = SetSymbol(Created(Home), Home, Nil)
  OBVIOUS
<1>3. StoreInv(Created(Home))
  BY <1>1 DEF StoreInv, Newest, Shown, Created
<1>4. StoreInv(c)
  BY <1>1, <1>2, <1>3, SwitchKeeps, CalculatorAssumption DEF CalculatorAssumption
<1>5. PICK d : d = [c EXCEPT !.rateAsked = TRUE]
  OBVIOUS
<1>6. SameCore(c, d)
  BY <1>4, <1>5 DEF SameCore, Loose, Fields, StoreInv
<1>7. calc = d
  BY <1>2, <1>5, Zenon DEF CalcInit
<1> QED BY <1>4, <1>6, <1>7, CoreKeeps

\* Every step of the page keeps the invariant of the calculator.
LEMMA StepKeeps ==
    ASSUME Saved!SavedTypeOK, StoreInv(calc), WorkspaceNext
    PROVE  Kept(calc, calc')
<1>0. Loose(calc)
  BY DEF StoreInv
<1>1. CASE UserStep
  BY <1>1, UserKeeps
<1>2. CASE NetworkStep
  BY <1>2, NetworkKeeps
<1>3. CASE UNCHANGED calc
  BY <1>3 DEF Kept
<1>4. ASSUME NEW n \in DOMAIN tab.list, OpenScenario(tab.list[n])
      PROVE Kept(calc, calc')
  <2>1. tab.list[n].scenario \in Scenario
    <3>1. tab.list \in Saved!Seen
      BY DEF Saved!SavedTypeOK, Saved!Tab
    <3>2. tab.list[n] \in Saved!Row
      BY <1>4, <3>1, RowsOf
    <3> QED BY <3>2 DEF Saved!Row
  <2>2. PICK c : c = Reopened(calc, tab.list[n].scenario)
    OBVIOUS
  <2>3. Loose(c) /\ c.rate = calc.rate
    BY <1>0, <2>1, <2>2, OpenKeeps
  <2>4. Loose(Calculate(c)) /\ Calculate(c).rate = calc.rate
    BY <2>3, CalculateKeeps DEF StoreInv
  <2>5. calc' = Effect(Calculate(c))
    BY <1>4, <2>2, Zenon DEF OpenScenario
  <2> QED BY <2>4, <2>5, EffectKeeps DEF Kept
<1>5. CASE SavedStep
  BY <1>3, <1>4, <1>5 DEF SavedStep, SaveScenario
<1>6. ASSUME NEW i \in Instruments, NEW days, ApplyParams(i, days)
      PROVE Kept(calc, calc')
  BY <1>0, <1>6, SwitchKeeps DEF ApplyParams, Kept
<1>7. CASE AsstStep
  BY <1>3, <1>6, <1>7 DEF AsstStep, Submit, SubmitNothing
<1>8. ASSUME NEW e, calc' = SetSelectedExpiration(calc, e)
      PROVE Kept(calc, calc')
  BY <1>0, <1>8, LoadChainKeeps, CoreKeeps DEF Kept
<1>9. CASE ResolvePending
  BY <1>3, <1>8, <1>9 DEF ResolvePending
<1>10. CASE TreeStep
  BY <1>3, <1>10 DEF TreeStep, TogglePanel, SetStyle
<1>11. CASE AsstReply
  BY <1>3, <1>11 DEF AsstReply, ParseReply
<1>12. CASE ExecutePricing \/ TreeReplies
  BY <1>3, <1>12 DEF ExecutePricing, TreeReplies, TreeReply
<1>13. CASE Event
  BY <1>1, <1>5, <1>7, <1>10, <1>13 DEF Event
<1>14. CASE Reply
  BY <1>2, <1>3, <1>11, <1>12, <1>14 DEF Reply
<1>15. CASE RunEffects
  BY <1>9, <1>15 DEF RunEffects
<1> QED BY <1>13, <1>14, <1>15 DEF WorkspaceNext

-----------------------------------------------------------------------------
(***************************************************************************)
(* The chain on the screen.                                                *)
(***************************************************************************)
\* The two stores differ at most in the fields F.
Touches(c, d, F) == DOMAIN d = DOMAIN c /\ \A f \in DOMAIN c \ F : d[f] = c[f]

Pricing == {"rateAsked", "result", "isLoading", "error", "notReady",
            "gateDenied", "modelLimit", "parked", "sent"}

\* A calculation touches neither the instrument nor the chain.
LEMMA CalculateTouches ==
    ASSUME NEW c, Fields \subseteq DOMAIN c
    PROVE  Touches(c, Calculate(c), Pricing) /\ Touches(c, Effect(c), Pricing)
<1>1. PICK call : call = [newest |-> TRUE, inst |-> c.inst, legs |-> c.legs]
  OBVIOUS
<1>2. PICK new : new = [c EXCEPT !.parked = Superseded(@), !.sent = Superseded(@),
                          !.gateDenied = FALSE, !.modelLimit = FALSE,
                          !.notReady = "no"]
  OBVIOUS
<1>3. Touches(c, new, Pricing)
  BY <1>2 DEF Touches, Pricing
<1>4. ASSUME NEW why PROVE Touches(c, Refuse(new, why), Pricing)
  BY <1>3 DEF Touches, Pricing, Refuse
<1>5. Touches(c, [new EXCEPT !.rateAsked = TRUE, !.parked = @ \union {call}], Pricing)
  BY <1>3 DEF Touches, Pricing
<1>6. ASSUME NEW calls PROVE Touches(c, Resume(new, calls), Pricing)
  BY <1>3 DEF Touches, Pricing, Resume
<1>7. Calculate(c) = IF c.legs = <<>> THEN Refuse(new, "no")
        ELSE IF Unpriceable(c) THEN Refuse(new, "position")
        ELSE IF c.rate = "pending"
        THEN [new EXCEPT !.rateAsked = TRUE, !.parked = @ \union {call}]
        ELSE Resume(new, {call})
  BY <1>1, <1>2, Zenon DEF Calculate
<1>8. Touches(c, Calculate(c), Pricing)
  BY <1>4, <1>5, <1>6, <1>7
<1> QED BY <1>8 DEF Effect, Touches

\* ChainIsTheOneSelected, of a store.
ChainOK(c) ==
    /\ "exp" \in DOMAIN c.ticket
    /\ c.chainStatus = "ready" =>
        /\ c.chain # Nil /\ c.chain.inst.sym = c.inst.sym
        /\ c.ticket.exp = c.selected
        /\ c.chain.exp = c.selected \/ c.chain.rows = "other"

\* Whoever touches other fields keeps it.
LEMMA ChainUntouched ==
    ASSUME NEW c, NEW d, NEW F, Fields \subseteq DOMAIN c, ChainOK(c), Touches(c, d, F),
           F \intersect {"inst", "chainStatus", "chain", "selected", "ticket"} = {}
    PROVE  ChainOK(d) /\ Fields \subseteq DOMAIN d
<1>1. /\ d.inst = c.inst /\ d.chainStatus = c.chainStatus /\ d.chain = c.chain
      /\ d.selected = c.selected /\ d.ticket = c.ticket
  BY DEF Touches, Fields
<1> QED BY <1>1 DEF ChainOK, Touches

\* A calculation and the effect on [legs] do.
LEMMA EffectChain ==
    ASSUME NEW c, Fields \subseteq DOMAIN c, ChainOK(c)
    PROVE  /\ ChainOK(Calculate(c)) /\ Fields \subseteq DOMAIN Calculate(c)
           /\ ChainOK(Effect(c)) /\ Fields \subseteq DOMAIN Effect(c)
<1>1. Pricing \intersect {"inst", "chainStatus", "chain", "selected", "ticket"} = {}
  BY DEF Pricing
<1> QED BY <1>1, CalculateTouches, ChainUntouched

\* Changes of the legs do.
LEMMA LegsChain ==
    ASSUME NEW c, Fields \subseteq DOMAIN c, ChainOK(c)
    PROVE  /\ \A kind : ChainOK(AddLeg(c, kind)) /\ Fields \subseteq DOMAIN AddLeg(c, kind)
           /\ \A n : \A d \in {RemoveLegAt(c, n), UpdateLeg(c, n)} :
                  ChainOK(d) /\ Fields \subseteq DOMAIN d
           /\ ChainOK(ClearLegs(c)) /\ Fields \subseteq DOMAIN ClearLegs(c)
<1> DEFINE F == {"legs", "retired", "result", "gateDenied", "modelLimit", "notReady"}
<1>1. ASSUME NEW kind PROVE Touches(c, AddLeg(c, kind), F)
  BY DEF AddLeg, Touches
<1>2. ASSUME NEW n PROVE Touches(c, RemoveLegAt(c, n), F)
  <2>1. PICK left : left = [k \in 1..(Len(c.legs) - 1) |-> c.legs[IF k < n THEN k ELSE k + 1]]
    OBVIOUS
  <2> QED BY <2>1 DEF RemoveLegAt, Touches
<1>3. ASSUME NEW n PROVE Touches(c, UpdateLeg(c, n), F)
  <2>1. PICK legs : legs = [c.legs EXCEPT ![n].qty = 3 - @]
    OBVIOUS
  <2>2. UpdateLeg(c, n) = [c EXCEPT !.legs = legs]
    BY <2>1 DEF UpdateLeg, Fields
  <2> QED BY <2>2 DEF Touches
<1>4. Touches(c, ClearLegs(c), F)
  BY DEF ClearLegs, Touches
<1>5. F \intersect {"inst", "chainStatus", "chain", "selected", "ticket"} = {}
  OBVIOUS
<1> QED BY <1>1, <1>2, <1>3, <1>4, <1>5, ChainUntouched

\* Asking for a chain, or selecting an expiry, ends the readiness.
LEMMA LoadChainChain ==
    ASSUME NEW c, Fields \subseteq DOMAIN c, "exp" \in DOMAIN c.ticket
    PROVE  \A e : \A d \in {LoadChain(c, e), SetSelectedExpiration(c, e)} :
               ChainOK(d) /\ Fields \subseteq DOMAIN d /\ d.ticket = c.ticket
<1>1. ASSUME NEW b, Fields \subseteq DOMAIN b, b.ticket = c.ticket, NEW w
      PROVE  /\ ChainOK(LoadChain(b, w)) /\ Fields \subseteq DOMAIN LoadChain(b, w)
             /\ LoadChain(b, w).ticket = c.ticket
  <2>1. PICK n : LoadChain(b, w) = [b EXCEPT !.chainStatus = "loading", !.loads = n]
    BY DEF LoadChain
  <2> QED BY <1>1, <2>1 DEF ChainOK, Fields
<1>2. ASSUME NEW e PROVE /\ Fields \subseteq DOMAIN [c EXCEPT !.selected = e]
                        /\ [c EXCEPT !.selected = e].ticket = c.ticket
  BY DEF Fields
<1> QED BY <1>1, <1>2 DEF SetSelectedExpiration

\* So does a switch of the symbol.
LEMMA SwitchChain ==
    ASSUME NEW c, Fields \subseteq DOMAIN c, "exp" \in DOMAIN c.ticket
    PROVE  \A i, price, restore :
               \A d \in {Switched(c, i, price, restore), SetSymbol(c, i, restore)} :
                   ChainOK(d) /\ Fields \subseteq DOMAIN d /\ d.ticket = c.ticket
<1> SUFFICES ASSUME NEW i, NEW price, NEW restore
             PROVE  \A d \in {Switched(c, i, price, restore), SetSymbol(c, i, restore)} :
                        ChainOK(d) /\ Fields \subseteq DOMAIN d /\ d.ticket = c.ticket
  OBVIOUS
<1> DEFINE Good(d) == ChainOK(d) /\ Fields \subseteq DOMAIN d /\ d.ticket = c.ticket
<1>1. ASSUME NEW p PROVE Good(Switched(c, i, p, restore))
  <2> DEFINE retire == i # c.inst /\ c.legs # <<>> /\ restore = Nil
             set == [c EXCEPT
            !.inst = i, !.result = Nil, !.spot = p,
            !.legs = IF retire THEN <<>>
                     ELSE IF restore # Nil THEN restore.legs ELSE @,
            !.retired = IF retire THEN [inst |-> c.inst, legs |-> c.legs]
                        ELSE IF restore # Nil THEN Nil ELSE @,
            !.error = FALSE, !.notReady = "no",
            !.gateDenied = @ /\ ~retire, !.modelLimit = @ /\ ~retire,
            !.chain = Nil, !.selected = Unset, !.chainStatus = "idle"]
  <2>2. Switched(c, i, p, restore) =
               IF i.cls = "CRYPTO"
               THEN [set EXCEPT !.spot = Nil, !.chainStatus = "error"]
               ELSE LoadChain(set, Unset)
    BY Zenon DEF Switched
  <2>3. Fields \subseteq DOMAIN set /\ set.ticket = c.ticket
    <3> HIDE DEF retire
    <3> QED BY DEF Fields
  <2> HIDE DEF set
  <2>4. Good([set EXCEPT !.spot = Nil, !.chainStatus = "error"])
    BY <2>3 DEF ChainOK, Fields
  <2>5. Good(LoadChain(set, Unset))
    BY <2>3, LoadChainChain
  <2> HIDE DEF Good
  <2> QED BY <2>2, <2>4, <2>5
<1>2. ASSUME NEW d, Good(d) PROVE Good([d EXCEPT !.quotes[i] = @ + 1])
  <2>1. PICK n : [d EXCEPT !.quotes[i] = @ + 1] = [d EXCEPT !.quotes = n]
    OBVIOUS
  <2>2. Good([d EXCEPT !.quotes = n])
    BY <1>2 DEF ChainOK, Fields
  <2> QED BY <2>1, <2>2
<1>3. Good(SetSymbol(c, i, restore))
  <2>1. SetSymbol(c, i, restore) \in {Switched(c, i, Nil, restore),
                                      [Switched(c, i, Nil, restore) EXCEPT !.quotes[i] = @ + 1]}
    BY DEF SetSymbol
  <2> HIDE DEF Good
  <2> QED BY <1>1, <1>2, <2>1
<1> QED BY <1>1, <1>3

\* Every step of the page keeps the chain the one selected.
LEMMA ChainStep ==
    ASSUME WorkspaceNext, Fields \subseteq DOMAIN calc, ChainOK(calc)
    PROVE  ChainOK(calc')
<1>0. "exp" \in DOMAIN calc.ticket
  BY DEF ChainOK
<1>1. ASSUME NEW i, SwitchSymbol(i) PROVE ChainOK(calc')
  BY <1>0, <1>1, SwitchChain DEF SwitchSymbol
<1>2. CASE Undo
  BY <1>0, <1>2, SwitchChain, EffectChain DEF Undo
<1>3. ASSUME NEW px, NEW e, PickStrike(px, e) PROVE ChainOK(calc')
  <2>1. /\ calc'.inst = calc.inst /\ calc'.chainStatus = calc.chainStatus
        /\ calc'.chain = calc.chain /\ calc'.selected = calc.selected
        /\ calc'.ticket = [contract |-> px, exp |-> e]
        /\ e \in {calc.ticket.exp, calc.selected}
    BY <1>3 DEF PickStrike, Fields
  <2>2. PICK d : d = calc'
    OBVIOUS
  <2>3. ChainOK(d)
    BY <2>1, <2>2 DEF ChainOK
  <2> QED BY <2>2, <2>3
<1>4. ASSUME NEW e, PickExpiry(e) PROVE ChainOK(calc')
  <2>1. PICK c : c = [calc EXCEPT !.ticket = [contract |-> "none", exp |-> e]]
    OBVIOUS
  <2>2. Fields \subseteq DOMAIN c /\ "exp" \in DOMAIN c.ticket
    BY <2>1 DEF Fields
  <2>3. calc' = SetSelectedExpiration(c, e)
    BY <1>4, <2>1 DEF PickExpiry
  <2> QED BY <2>2, <2>3, LoadChainChain
<1>5. ASSUME NEW kind, CommitTicket(kind) PROVE ChainOK(calc')
  <2> DEFINE quiet == {"error", "notReady"}
  <2>1. PICK a : a = AddLeg(calc, kind)
    OBVIOUS
  <2>2. ChainOK(a) /\ Fields \subseteq DOMAIN a
    BY <2>1, LegsChain
  <2>3. Touches(a, [a EXCEPT !.error = FALSE, !.notReady = "no"], quiet)
    BY DEF Touches
  <2>4. Touches(calc, [calc EXCEPT !.error = FALSE, !.notReady = "ticket"], quiet)
    BY DEF Touches
  <2>5. \/ calc' = Effect([a EXCEPT !.error = FALSE, !.notReady = "no"])
        \/ calc' = [calc EXCEPT !.error = FALSE, !.notReady = "ticket"]
    BY <1>5, <2>1, Zenon DEF CommitTicket
  <2>6. quiet \intersect {"inst", "chainStatus", "chain", "selected", "ticket"} = {}
    OBVIOUS
  <2> HIDE DEF quiet
  <2> QED BY <2>2, <2>3, <2>4, <2>5, <2>6, ChainUntouched, EffectChain
<1>6. ASSUME NEW kind, ApplyStrategy(kind) PROVE ChainOK(calc')
  BY <1>6, LegsChain, EffectChain DEF ApplyStrategy
<1>7. CASE AddFuture
  BY <1>7, LegsChain, EffectChain DEF AddFuture
<1>8. ASSUME NEW n, RemoveLeg(n) \/ EditLeg(n) PROVE ChainOK(calc')
  <2>1. \A d \in {RemoveLegAt(calc, n), UpdateLeg(calc, n)} :
            ChainOK(d) /\ Fields \subseteq DOMAIN d
    BY LegsChain
  <2>2. \A d \in {Calculate(RemoveLegAt(calc, n)), Calculate(UpdateLeg(calc, n))} :
            ChainOK(d) /\ Fields \subseteq DOMAIN d
    BY <2>1, EffectChain
  <2> QED BY <1>8, <2>2, EffectChain DEF RemoveLeg, EditLeg
<1>9. CASE ClearPosition
  BY <1>9, LegsChain, EffectChain DEF ClearPosition
<1>10. CASE Recalculate
  BY <1>10, EffectChain DEF Recalculate
<1>11. ASSUME NEW d, NEW F, Touches(calc, d, F), calc' = d,
              F \intersect {"inst", "chainStatus", "chain", "selected", "ticket"} = {}
       PROVE  ChainOK(calc')
  BY <1>11, ChainUntouched
<1>12. CASE SetRiskFreeRate
  <2>1. Touches(calc, [calc EXCEPT !.rate = "user"], {"rate"})
    BY DEF Touches
  <2> QED BY <1>11, <1>12, <2>1 DEF SetRiskFreeRate
<1>13. CASE UserStep
  BY <1>1, <1>2, <1>3, <1>4, <1>5, <1>6, <1>7, <1>8, <1>9, <1>10, <1>12, <1>13 DEF UserStep
<1>14. ASSUME NEW i, NEW ok, QuoteReply(i, ok) PROVE ChainOK(calc')
  <2> DEFINE F == {"quotes", "spot", "error", "notReady"}
  <2>1. PICK q : [calc EXCEPT !.quotes[i] = @ - 1] = [calc EXCEPT !.quotes = q]
    OBVIOUS
  <2>2. PICK c : c = [calc EXCEPT !.quotes = q]
    OBVIOUS
  <2>3. Touches(calc, c, F)
    BY <2>2 DEF Touches
  <2>4. /\ Touches(calc, [c EXCEPT !.spot = i, !.error = FALSE], F)
        /\ Touches(calc, [c EXCEPT !.spot = Nil, !.error = TRUE, !.notReady = "no"], F)
    BY <2>3 DEF Touches
  <2>5. \/ calc' = c
        \/ calc' = Effect([c EXCEPT !.spot = i, !.error = FALSE])
        \/ calc' = [c EXCEPT !.spot = Nil, !.error = TRUE, !.notReady = "no"]
    BY <1>14, <2>1, <2>2, Zenon DEF QuoteReply
  <2>6. F \intersect {"inst", "chainStatus", "chain", "selected", "ticket"} = {}
    OBVIOUS
  <2> HIDE DEF F
  <2> QED BY <2>3, <2>4, <2>5, <2>6, ChainUntouched, EffectChain
<1>15. ASSUME NEW i \in Instruments, NEW w \in Expiries, ChainReply(i, w) PROVE ChainOK(calc')
  <2>1. PICK q : [calc EXCEPT !.loads[<<i, w>>] = @ - 1] = [calc EXCEPT !.loads = q]
    OBVIOUS
  <2>2. PICK c : c = [calc EXCEPT !.loads = q]
    OBVIOUS
  <2>3. Fields \subseteq DOMAIN c /\ ChainOK(c)
    BY <2>2 DEF ChainOK, Fields
  <2>4. ASSUME c.inst.sym = i.sym, NEW chain \in Answers(i, w), NEW label,
               label = IF w # Unset THEN w ELSE chain.exp,
               NEW s \in Seeded(ChainLanded(c, chain, label))
        PROVE  ChainOK(s)
    <3>1. PICK d : d = ChainLanded(c, chain, label)
      OBVIOUS
    <3>2. /\ Fields \subseteq DOMAIN d
          /\ d.chain = chain /\ d.selected = label /\ d.inst = c.inst
          /\ d.ticket.exp = label /\ DOMAIN d.ticket = DOMAIN c.ticket
      BY <2>3, <3>1 DEF ChainLanded, ChainOK, Fields
    <3>3. /\ chain # Nil /\ chain.inst = i
          /\ chain.exp = label \/ chain.rows = "other"
      BY <2>4, AnswerIsLabelled, CalculatorAssumption DEF CalculatorAssumption
    <3>4. ChainOK(d)
      BY <2>3, <2>4, <3>2, <3>3 DEF ChainOK
    <3>5. ASSUME NEW px, s = [d EXCEPT !.ticket.contract = px]
          PROVE  ChainOK(s)
      <4>1. /\ s.chain = d.chain /\ s.chainStatus = d.chainStatus /\ s.selected = d.selected
            /\ s.inst = d.inst
            /\ s.ticket = [d.ticket EXCEPT !.contract = px]
        BY <3>2, <3>5 DEF Fields
      <4>2. DOMAIN s.ticket = DOMAIN d.ticket /\ s.ticket.exp = d.ticket.exp
        BY <3>4, <4>1 DEF ChainOK
      <4> QED BY <3>4, <4>1, <4>2 DEF ChainOK
    <3> QED BY <2>4, <3>1, <3>4, <3>5 DEF Seeded
  <2>5. ChainOK(NoChain(c))
    BY <2>3 DEF NoChain, ChainOK, Fields
  <2>6. \/ calc' = c
        \/ /\ c.inst.sym = i.sym
           /\ \E chain \in Answers(i, w) :
                calc' \in Seeded(ChainLanded(c, chain, IF w # Unset THEN w ELSE chain.exp))
        \/ calc' = NoChain(c)
    BY <1>15, <2>1, <2>2, Zenon DEF ChainReply
  <2> QED BY <2>3, <2>4, <2>5, <2>6
<1>16. ASSUME NEW ok, RateReply(ok) PROVE ChainOK(calc')
  <2> DEFINE F == {"rate", "rateAsked", "parked", "isLoading", "error", "sent", "result", "notReady"}
  <2>1. PICK c : c = [calc EXCEPT !.rate = IF @ = "user" THEN "user"
                                   ELSE IF ok THEN "measured" ELSE "unavailable",
                          !.rateAsked = FALSE, !.parked = {}]
    OBVIOUS
  <2>2. Touches(calc, c, F)
    BY <2>1 DEF Touches
  <2>3. Touches(calc, Resume(c, calc.parked), F)
    BY <2>2 DEF Touches, Resume
  <2>4. calc' = c \/ calc' = Resume(c, calc.parked)
    BY <1>16, <2>1, Zenon DEF RateReply
  <2>5. F \intersect {"inst", "chainStatus", "chain", "selected", "ticket"} = {}
    OBVIOUS
  <2> HIDE DEF F
  <2> QED BY <2>2, <2>3, <2>4, <2>5, <1>11
<1>17. ASSUME NEW call, NEW outcome, CalcReply(call, outcome) PROVE ChainOK(calc')
  <2> DEFINE F == {"sent", "isLoading", "notReady", "result", "error", "gateDenied", "modelLimit"}
  <2>1. PICK c : c = [calc EXCEPT !.sent = @ \ {call}]
    OBVIOUS
  <2>2. Touches(calc, c, F)
    BY <2>1 DEF Touches
  <2>3. Touches(calc, Land(c, call, outcome), F)
    BY <2>2 DEF Touches, Land
  <2>4. calc' = c \/ calc' = Land(c, call, outcome)
    BY <1>17, <2>1, Zenon DEF CalcReply
  <2>5. F \intersect {"inst", "chainStatus", "chain", "selected", "ticket"} = {}
    OBVIOUS
  <2> HIDE DEF F
  <2> QED BY <2>2, <2>3, <2>4, <2>5, <1>11
<1>18. CASE NetworkStep
  BY <1>14, <1>15, <1>16, <1>17, <1>18 DEF NetworkStep
<1>19. CASE UNCHANGED calc
  BY <1>19 DEF ChainOK
<1>20. ASSUME NEW row, OpenScenario(row) PROVE ChainOK(calc')
  <2>1. PICK i : i = Classify(row.scenario.of)
    OBVIOUS
  <2>2. PICK c : c = ClearLegs(SetSymbolAt(calc, i, row.scenario.spot))
    OBVIOUS
  <2>3. ChainOK(c) /\ Fields \subseteq DOMAIN c
    BY <1>0, <2>2, SwitchChain, LegsChain DEF SetSymbolAt
  <2>4. PICK legs : Reopened(calc, row.scenario) = [c EXCEPT !.retired = Nil, !.legs = legs]
    BY <2>1, <2>2, Zenon DEF Reopened
  <2>5. Touches(c, [c EXCEPT !.retired = Nil, !.legs = legs], {"retired", "legs"})
    BY DEF Touches
  <2>6. {"retired", "legs"} \intersect {"inst", "chainStatus", "chain", "selected", "ticket"} = {}
    OBVIOUS
  <2>7. PICK d : d = Reopened(calc, row.scenario)
    OBVIOUS
  <2>8. ChainOK(d) /\ Fields \subseteq DOMAIN d
    BY <2>3, <2>4, <2>5, <2>6, <2>7, ChainUntouched
  <2>9. ChainOK(Calculate(d)) /\ Fields \subseteq DOMAIN Calculate(d)
    BY <2>8, EffectChain
  <2> QED BY <1>20, <2>7, <2>9, EffectChain DEF OpenScenario
<1>21. CASE SavedStep
  BY <1>19, <1>20, <1>21 DEF SavedStep, SaveScenario
<1>25. ASSUME NEW i, NEW days, ApplyParams(i, days) PROVE ChainOK(calc')
  <2>1. calc' = SetSymbol(calc, i, Nil)
    BY <1>25 DEF ApplyParams
  <2> QED BY <1>0, <2>1, SwitchChain
<1>22. CASE AsstStep
  BY <1>19, <1>22, <1>25 DEF AsstStep, Submit, SubmitNothing
<1>23. CASE ResolvePending
  BY <1>0, <1>19, <1>23, LoadChainChain DEF ResolvePending
<1>24. CASE TreeStep \/ AsstReply \/ ExecutePricing \/ TreeReplies
  BY <1>19, <1>24 DEF TreeStep, TogglePanel, SetStyle, AsstReply, ParseReply,
       ExecutePricing, TreeReplies, TreeReply
<1> QED
  BY <1>13, <1>18, <1>19, <1>21, <1>22, <1>23, <1>24
  DEF WorkspaceNext, Event, Reply, RunEffects

-----------------------------------------------------------------------------
(***************************************************************************)
(* The assistant.  At most one answer is awaited, it is to the last        *)
(* utterance, and nothing is shown meanwhile.                              *)
(***************************************************************************)
AsstInv ==
    /\ {"said", "parsing", "shown", "calls", "prior", "pending"} \subseteq DOMAIN asst
    /\ asst.parsing \in BOOLEAN
    /\ \A k \in asst.calls : k.of = asst.said /\ asst.parsing = TRUE
    /\ \A k, l \in asst.calls : k = l
    /\ asst.parsing = TRUE => asst.shown = {}
    /\ \A o \in asst.shown : o.of = asst.said
    /\ \A o, p \in asst.shown : o = p

\* Every step of the page keeps that.
LEMMA AsstStepKeeps ==
    ASSUME AsstInv, WorkspaceNext
    PROVE  AsstInv'
<1>1. CASE UNCHANGED asst
  BY <1>1 DEF AsstInv
<1>2. CASE Submit
  <2>1. PICK a : a = Parse(asst)
    OBVIOUS
  <2>2. asst.calls = {}
    BY <1>2 DEF AsstInv, Submit
  <2>3. /\ DOMAIN a = DOMAIN asst
        /\ a.said = asst.said + 1 /\ a.parsing = TRUE /\ a.shown = {}
        /\ a.calls = {[of |-> asst.said + 1, prior |-> asst.prior]}
    BY <2>1, <2>2 DEF AsstInv, Parse
  <2>4. asst' = a
    BY <1>2, <2>1 DEF Submit
  <2>5. PICK k : k = [of |-> asst.said + 1, prior |-> asst.prior]
    OBVIOUS
  <2>6. k.of = a.said /\ a.calls = {k}
    BY <2>3, <2>5
  <2>7. DOMAIN a = DOMAIN asst /\ a.parsing = TRUE /\ a.shown = {}
    BY <2>3
  <2> HIDE <2>3
  <2> QED BY <2>4, <2>6, <2>7 DEF AsstInv
<1>3. CASE SubmitNothing
  <2>1. asst.calls = {} /\ asst.parsing = FALSE
    BY <1>3 DEF AsstInv, SubmitNothing
  <2>2. PICK a : a = asst'
    OBVIOUS
  <2>3. /\ DOMAIN a = DOMAIN asst
        /\ a.said = asst.said + 1 /\ a.parsing = asst.parsing /\ a.calls = asst.calls
        /\ a.shown = {[of |-> asst.said + 1, kind |-> "failed"]}
    BY <1>3, <2>2 DEF AsstInv, SubmitNothing
  <2> QED BY <2>1, <2>2, <2>3 DEF AsstInv
<1>4. ASSUME NEW call \in asst.calls, NEW kind, ParseReply(call, kind) PROVE AsstInv'
  <2>1. asst.shown = {} /\ asst.calls = {call} /\ call.of = asst.said
    BY <1>4 DEF AsstInv
  <2>2. PICK a : a = asst'
    OBVIOUS
  <2>3. PICK o : o = [of |-> call.of, kind |-> kind]
    OBVIOUS
  <2>4. PICK prior : asst' = [asst EXCEPT !.calls = @ \ {call}, !.parsing = FALSE,
             !.shown = {q \in @ : q.kind # kind} \union {o}, !.prior = prior]
    BY <1>4, <2>3 DEF ParseReply
  <2>5. /\ DOMAIN a = DOMAIN asst /\ a.said = asst.said /\ a.parsing = FALSE
        /\ a.calls = {} /\ a.shown = {o}
    BY <2>1, <2>2, <2>4 DEF AsstInv
  <2>6. o.of = asst.said
    BY <2>1, <2>3
  <2> QED BY <2>2, <2>5, <2>6 DEF AsstInv
<1>5. ASSUME NEW days, asst' = [asst EXCEPT !.pending = days] PROVE AsstInv'
  <2>1. PICK a : a = asst'
    OBVIOUS
  <2>2. /\ DOMAIN a = DOMAIN asst /\ a.said = asst.said /\ a.parsing = asst.parsing
        /\ a.calls = asst.calls /\ a.shown = asst.shown
    BY <1>5, <2>1 DEF AsstInv
  <2> QED BY <2>1, <2>2 DEF AsstInv
<1>6. CASE AsstStep
  <2> HIDE DEF AsstInv
  <2> QED BY <1>2, <1>3, <1>5, <1>6 DEF AsstStep, ApplyParams
<1>7. CASE AsstReply
  BY <1>4, <1>7 DEF AsstReply
<1>8. CASE ResolvePending
  <2>1. asst' = [asst EXCEPT !.pending = FALSE]
    BY <1>8 DEF ResolvePending
  <2> QED BY <1>5, <2>1
<1>9. CASE SavedStep
  BY <1>1, <1>9 DEF SavedStep, SaveScenario, OpenScenario
<1> QED
  BY <1>1, <1>6, <1>7, <1>8, <1>9 DEF WorkspaceNext, Event, Reply, RunEffects
-----------------------------------------------------------------------------
(***************************************************************************)
(* The exercise-style pricer.                                              *)
(***************************************************************************)
TreeFields == {"open", "timer", "style", "loading", "error", "notReady",
               "gateDenied", "results", "parked", "sent"}

\* The price that what is on the page asks for.
Wanted(t, c) == [spot |-> c.spot, exp |-> TicketExpiry(c), rate |-> c.rate,
                 style |-> t.style]

TreeLoose(t) ==
    /\ TreeFields \subseteq DOMAIN t
    /\ t.open \in BOOLEAN /\ t.timer \in BOOLEAN /\ t.loading \in BOOLEAN
    /\ \A k \in t.parked : DOMAIN k = {"newest", "spot", "exp"} /\ k.newest \in BOOLEAN
    /\ \A k \in t.sent : DOMAIN k = {"newest", "price"} /\ k.newest \in BOOLEAN

\* Nothing was priced before there was a rate.
TreeNothing(t, c) == c.rate = "pending" => t.results = Nil /\ t.sent = {}

\* The newest of these calls, if it is among them, is for what is on the page.
Current(calls, c) ==
    \A k \in calls : k.newest = TRUE => k.spot = c.spot /\ k.exp = TicketExpiry(c)

\* The newest call and the prices shown are for what is on the page.
TreeFresh(t, c) ==
    /\ Current(t.parked, c)
    /\ \A k \in t.sent : k.newest = TRUE => k.price = Wanted(t, c)
    /\ t.results # Nil /\ t.loading = FALSE => t.results = Wanted(t, c)
    /\ ~RateKnown(c) => t.results = Nil /\ \A k \in t.sent : k.newest = FALSE

\* They are, unless the panel is closed or about to price again.
TreeOK(t, c) ==
    /\ TreeLoose(t) /\ TreeNothing(t, c)
    /\ t.open = TRUE /\ t.timer = FALSE => TreeFresh(t, c)

\* What follows the wait for the rate keeps the newest call fresh, or makes it
\* so.
LEMMA ResumeTree ==
    ASSUME NEW t, NEW c, TreeLoose(t), TreeNothing(t, c),
           NEW calls, \A k \in calls : DOMAIN k = {"newest", "spot", "exp"} /\ k.newest \in BOOLEAN
    PROVE  /\ TreeLoose(TreeResume(t, c, calls)) /\ TreeNothing(TreeResume(t, c, calls), c)
           /\ TreeResume(t, c, calls).open = t.open /\ TreeResume(t, c, calls).timer = t.timer
           /\ TreeResume(t, c, calls).parked = t.parked
           /\ Current(calls, c) /\ TreeFresh(t, c)
                => TreeFresh(TreeResume(t, c, calls), c)
           /\ /\ Current(calls, c) /\ \E k \in calls : k.newest = TRUE
              /\ \A k \in t.parked \union t.sent : k.newest = FALSE
              => TreeFresh(TreeResume(t, c, calls), c)
<1>1. CASE RateKnown(c) /\ t.style # 0
  <2>1. PICK new : new = {[newest |-> k.newest, price |->
                        [spot |-> k.spot, exp |-> k.exp, rate |-> c.rate,
                         style |-> t.style]] : k \in calls}
    OBVIOUS
  <2>2. PICK d : d = [t EXCEPT !.loading = TRUE, !.error = FALSE, !.notReady = FALSE,
                   !.sent = @ \union new]
    OBVIOUS
  <2>3. TreeResume(t, c, calls) = d
    BY <1>1, <2>1, <2>2 DEF TreeResume
  <2>4. /\ TreeFields \subseteq DOMAIN d
        /\ d.open = t.open /\ d.timer = t.timer /\ d.parked = t.parked /\ d.loading = TRUE
        /\ d.results = t.results /\ d.style = t.style /\ d.sent = t.sent \union new
    BY <2>2 DEF TreeLoose, TreeFields
  <2>5. \A k \in new : DOMAIN k = {"newest", "price"} /\ k.newest \in BOOLEAN
    BY <2>1
  <2>6. TreeLoose(d) /\ TreeNothing(d, c)
    BY <1>1, <2>4, <2>5 DEF TreeLoose, TreeNothing, RateKnown
  <2>7. ASSUME Current(calls, c)
        PROVE  \A k \in new : k.newest = TRUE => k.price = Wanted(d, c)
    BY <2>1, <2>4, <2>7 DEF Wanted, Current
  <2>8. Wanted(d, c) = Wanted(t, c)
    BY <2>4 DEF Wanted
  <2>9. Current(calls, c) /\ TreeFresh(t, c) => TreeFresh(d, c)
    BY <1>1, <2>4, <2>7, <2>8 DEF TreeFresh
  <2>10. ASSUME Current(calls, c), \A k \in t.parked \union t.sent : k.newest = FALSE
         PROVE  TreeFresh(d, c)
    BY <1>1, <2>4, <2>7, <2>10 DEF TreeFresh, Current
  <2> QED BY <2>3, <2>4, <2>6, <2>9, <2>10
<1>2. CASE ~(RateKnown(c) /\ t.style # 0)
  <2>1. PICK newest : newest = (\E k \in calls : k.newest)
    OBVIOUS
  <2>2. PICK d : d = [t EXCEPT !.results = IF newest THEN Nil ELSE @,
                   !.error = @ \/ (newest /\ ~RateKnown(c)),
                   !.notReady = @ \/ (newest /\ RateKnown(c))]
    OBVIOUS
  <2>3. TreeResume(t, c, calls) = d
    BY <1>2, <2>1, <2>2, Zenon DEF TreeResume
  <2>4. /\ TreeFields \subseteq DOMAIN d
        /\ d.open = t.open /\ d.timer = t.timer /\ d.parked = t.parked /\ d.loading = t.loading
        /\ d.results = IF newest THEN Nil ELSE t.results
        /\ d.style = t.style /\ d.sent = t.sent
    BY <2>2 DEF TreeLoose, TreeFields
  <2>5. TreeLoose(d) /\ TreeNothing(d, c)
    BY <2>4 DEF TreeLoose, TreeNothing
  <2>6. Wanted(d, c) = Wanted(t, c)
    BY <2>4 DEF Wanted
  <2>7. TreeFresh(t, c) => TreeFresh(d, c)
    BY <2>4, <2>6 DEF TreeFresh
  <2>8. ASSUME \A k \in t.parked \union t.sent : k.newest = FALSE, \E k \in calls : k.newest = TRUE
        PROVE  TreeFresh(d, c)
    <3>1. newest
      BY <2>1, <2>8
    <3> QED BY <2>4, <2>8, <3>1 DEF TreeFresh, Current
  <2> QED BY <2>3, <2>4, <2>5, <2>7, <2>8
<1> QED BY <1>1, <1>2

\* A change of the calculator that the panel does not watch changes nothing
\* that a price depends on; one that it watches restarts the pause.
LEMMA TreeFollowsKeeps ==
    ASSUME TreeOK(tree, calc), TreeFollows,
           calc'.rate = "pending" => calc.rate = "pending"
    PROVE  TreeOK(tree, calc)'
<1>1. PICK t : t = IF calc.rateAsked /\ ~calc'.rateAsked /\ tree.parked # {}
                   THEN [TreeResume(tree, calc', tree.parked) EXCEPT !.parked = {}]
                   ELSE tree
  OBVIOUS
<1>2. PICK c : c = calc'
  OBVIOUS
<1>3. TreeLoose(tree) /\ TreeNothing(tree, c)
  BY <1>2 DEF TreeOK, TreeNothing
<1>4. Watched(c) = Watched(calc) =>
        /\ c.spot = calc.spot /\ TicketExpiry(c) = TicketExpiry(calc)
        /\ RateKnown(c) <=> RateKnown(calc)
        /\ RateKnown(calc) => c.rate = calc.rate
  BY DEF Watched, TicketExpiry, RateKnown
<1>5. ASSUME tree.open = TRUE, tree.timer = FALSE, Watched(c) = Watched(calc)
      PROVE  TreeFresh(tree, c)
  <2>1. TreeFresh(tree, calc)
    BY <1>5 DEF TreeOK
  <2>2. RateKnown(calc) => Wanted(tree, c) = Wanted(tree, calc)
    BY <1>4, <1>5 DEF Wanted
  <2> QED BY <1>3, <1>4, <1>5, <2>1, <2>2 DEF TreeFresh, TreeLoose, Current
<1>6. /\ TreeLoose(t) /\ TreeNothing(t, c) /\ t.open = tree.open /\ t.timer = tree.timer
      /\ TreeFresh(tree, c) => TreeFresh(t, c)
  <2>1. CASE t = tree
    BY <1>3, <2>1
  <2>2. CASE t = [TreeResume(tree, c, tree.parked) EXCEPT !.parked = {}]
    <3>1. PICK d : d = TreeResume(tree, c, tree.parked)
      OBVIOUS
    <3>2. \A k \in tree.parked : DOMAIN k = {"newest", "spot", "exp"} /\ k.newest \in BOOLEAN
      BY <1>3 DEF TreeLoose
    <3>3. TreeFresh(tree, c) => Current(tree.parked, c)
      BY DEF TreeFresh
    <3>4. /\ TreeLoose(d) /\ TreeNothing(d, c) /\ d.open = tree.open /\ d.timer = tree.timer
          /\ TreeFresh(tree, c) => TreeFresh(d, c)
      BY <1>3, <3>1, <3>2, <3>3, ResumeTree
    <3>5. /\ TreeFields \subseteq DOMAIN t /\ t.parked = {}
          /\ t.open = d.open /\ t.timer = d.timer /\ t.loading = d.loading
          /\ t.sent = d.sent /\ t.results = d.results /\ t.style = d.style
      BY <2>2, <3>1, <3>4 DEF TreeLoose, TreeFields
    <3>6. Wanted(t, c) = Wanted(d, c)
      BY <3>5 DEF Wanted
    <3> QED BY <3>4, <3>5, <3>6 DEF TreeLoose, TreeNothing, TreeFresh, Current
  <2> QED BY <1>1, <1>2, <2>1, <2>2
<1>7. PICK u : u = tree'
  OBVIOUS
<1>8. PICK o : /\ o = (t.open /\ c.inst.cls # "FUTURES")
               /\ u = [t EXCEPT !.open = o,
                                !.timer = @ \/ (o /\ Watched(c) # Watched(calc))]
  BY <1>1, <1>2, <1>7, Zenon DEF TreeFollows
<1>9. /\ TreeFields \subseteq DOMAIN u /\ u.open = o /\ u.loading = t.loading
      /\ u.sent = t.sent /\ u.parked = t.parked /\ u.results = t.results /\ u.style = t.style
      /\ u.timer = (t.timer \/ (o /\ Watched(c) # Watched(calc)))
  BY <1>6, <1>8 DEF TreeLoose, TreeFields
<1>10. o \in BOOLEAN /\ u.timer \in BOOLEAN
  BY <1>8, <1>9, Zenon
<1>11. u.open = TRUE /\ u.timer = FALSE =>
         t.open = TRUE /\ t.timer = FALSE /\ Watched(c) = Watched(calc)
  <2>1. t.open \in BOOLEAN /\ t.timer \in BOOLEAN
    BY <1>6 DEF TreeLoose
  <2>2. (o => t.open) /\ u.open = o
    BY <1>8, <1>9, Zenon
  <2> QED BY <1>9, <1>10, <2>1, <2>2, Zenon
<1>12. TreeLoose(u) /\ TreeNothing(u, c)
  BY <1>6, <1>9, <1>10 DEF TreeLoose, TreeNothing
<1>13. u.open = TRUE /\ u.timer = FALSE => TreeFresh(u, c)
  <2>1. Wanted(u, c) = Wanted(t, c)
    BY <1>9 DEF Wanted
  <2>2. TreeFresh(t, c) => TreeFresh(u, c)
    BY <1>9, <2>1 DEF TreeFresh
  <2> QED BY <1>5, <1>6, <1>11, <2>2
<1>14. TreeOK(u, c)
  BY <1>12, <1>13 DEF TreeOK
<1> QED BY <1>2, <1>7, <1>14

\* When the pause ends, the newest call is the one just made.
LEMMA ExecuteKeeps ==
    ASSUME TreeOK(tree, calc), ExecutePricing
    PROVE  TreeOK(tree, calc)'
<1>1. PICK new : new = [tree EXCEPT !.timer = FALSE,
                   !.parked = Superseded(@), !.sent = Superseded(@),
                   !.gateDenied = FALSE, !.notReady = FALSE]
  OBVIOUS
<1>2. PICK call : call = [newest |-> TRUE, spot |-> calc.spot, exp |-> TicketExpiry(calc)]
  OBVIOUS
<1>3. TreeLoose(tree) /\ TreeNothing(tree, calc)
  BY DEF TreeOK
<1>4. /\ \A k \in Superseded(tree.parked) :
            DOMAIN k = {"newest", "spot", "exp"} /\ k.newest = FALSE
      /\ \A k \in Superseded(tree.sent) : DOMAIN k = {"newest", "price"} /\ k.newest = FALSE
      /\ tree.sent = {} => Superseded(tree.sent) = {}
  BY <1>3 DEF TreeLoose, Superseded
<1>5. /\ TreeFields \subseteq DOMAIN new /\ new.open = tree.open /\ new.timer = FALSE
      /\ new.loading = tree.loading /\ new.results = tree.results /\ new.style = tree.style
      /\ new.parked = Superseded(tree.parked) /\ new.sent = Superseded(tree.sent)
  BY <1>1, <1>3 DEF TreeLoose, TreeFields
<1>6. TreeLoose(new) /\ TreeNothing(new, calc)
  BY <1>3, <1>4, <1>5 DEF TreeLoose, TreeNothing
<1>7. ASSUME NEW d, d = [new EXCEPT !.results = Nil, !.notReady = TRUE]
      PROVE  TreeOK(d, calc)
  <2>1. /\ TreeFields \subseteq DOMAIN d /\ d.open = new.open /\ d.timer = FALSE
        /\ d.loading = new.loading /\ d.results = Nil /\ d.style = new.style
        /\ d.parked = new.parked /\ d.sent = new.sent
    BY <1>5, <1>7 DEF TreeFields
  <2>2. TreeLoose(d) /\ TreeNothing(d, calc)
    BY <1>6, <2>1 DEF TreeLoose, TreeNothing
  <2>3. \A k \in d.parked \union d.sent : k.newest = FALSE
    BY <1>4, <1>5, <2>1
  <2>4. TreeFresh(d, calc)
    BY <2>1, <2>3 DEF TreeFresh, Current
  <2> QED BY <2>2, <2>4 DEF TreeOK
<1>8. ASSUME NEW d, d = [new EXCEPT !.parked = @ \union {call}], calc.rate = "pending"
      PROVE  TreeOK(d, calc)
  <2>1. /\ TreeFields \subseteq DOMAIN d /\ d.open = new.open /\ d.timer = FALSE
        /\ d.loading = new.loading /\ d.results = new.results /\ d.style = new.style
        /\ d.parked = new.parked \union {call} /\ d.sent = new.sent
    BY <1>5, <1>8 DEF TreeFields
  <2>2. /\ DOMAIN call = {"newest", "spot", "exp"} /\ call.newest = TRUE
        /\ call.spot = calc.spot /\ call.exp = TicketExpiry(calc)
    BY <1>2
  <2>3. TreeLoose(d) /\ TreeNothing(d, calc)
    BY <1>6, <2>1, <2>2 DEF TreeLoose, TreeNothing
  <2>4. d.results = Nil /\ d.sent = {}
    BY <1>6, <1>8, <2>1 DEF TreeNothing
  <2>5. Current(d.parked, calc)
    BY <1>4, <1>5, <2>1, <2>2 DEF Current
  <2>6. TreeFresh(d, calc)
    BY <2>4, <2>5 DEF TreeFresh
  <2> QED BY <2>3, <2>6 DEF TreeOK
<1>9. TreeOK(TreeResume(new, calc, {call}), calc)
  <2>1. /\ \A k \in {call} : DOMAIN k = {"newest", "spot", "exp"} /\ k.newest \in BOOLEAN
        /\ Current({call}, calc) /\ \E k \in {call} : k.newest = TRUE
    BY <1>2 DEF Current
  <2>2. \A k \in new.parked \union new.sent : k.newest = FALSE
    BY <1>4, <1>5
  <2> QED BY <1>6, <2>1, <2>2, ResumeTree DEF TreeOK
<1>10. \/ tree' = [new EXCEPT !.results = Nil, !.notReady = TRUE]
       \/ tree' = [new EXCEPT !.parked = @ \union {call}] /\ calc.rate = "pending"
       \/ tree' = TreeResume(new, calc, {call})
  BY <1>1, <1>2, Zenon DEF ExecutePricing
<1>11. PICK u : u = tree'
  OBVIOUS
<1>12. TreeOK(u, calc)
  BY <1>7, <1>8, <1>9, <1>10, <1>11
<1>13. calc' = calc
  BY DEF ExecutePricing
<1> QED BY <1>11, <1>12, <1>13

\* A reply shows the newest call's price or none.
LEMMA TreeReplyKeeps ==
    ASSUME TreeOK(tree, calc), NEW call \in tree.sent, NEW outcome, TreeReply(call, outcome)
    PROVE  TreeOK(tree, calc)'
<1>1. TreeLoose(tree) /\ TreeNothing(tree, calc) /\ calc' = calc
  BY DEF TreeOK, TreeReply
<1>2. PICK t : t = [tree EXCEPT !.sent = @ \ {call}]
  OBVIOUS
<1>3. /\ TreeFields \subseteq DOMAIN t /\ t.open = tree.open /\ t.timer = tree.timer
      /\ t.loading = tree.loading /\ t.results = tree.results /\ t.style = tree.style
      /\ t.parked = tree.parked /\ t.sent = tree.sent \ {call}
  BY <1>1, <1>2 DEF TreeLoose, TreeFields
<1>4. TreeOK(t, calc)
  <2>1. Wanted(t, calc) = Wanted(tree, calc)
    BY <1>3 DEF Wanted
  <2>2. TreeLoose(t) /\ TreeNothing(t, calc)
    BY <1>1, <1>3 DEF TreeLoose, TreeNothing
  <2>3. TreeFresh(tree, calc) => TreeFresh(t, calc)
    BY <1>3, <2>1 DEF TreeFresh
  <2> QED BY <1>3, <2>2, <2>3 DEF TreeOK
<1>5. ASSUME call.newest = TRUE, NEW d, /\ TreeFields \subseteq DOMAIN d /\ d.open = t.open
             /\ d.timer = t.timer /\ d.loading = FALSE /\ d.style = t.style
             /\ d.parked = t.parked /\ d.sent = t.sent
             /\ d.results \in {call.price, Nil}
      PROVE  TreeOK(d, calc)
  <2>1. TreeLoose(t) /\ calc.rate # "pending"
    BY <1>1, <1>4 DEF TreeOK, TreeNothing
  <2>2. TreeLoose(d) /\ TreeNothing(d, calc)
    BY <1>5, <2>1 DEF TreeLoose, TreeNothing
  <2>3. Wanted(d, calc) = Wanted(tree, calc) /\ Wanted(d, calc) = Wanted(t, calc)
    BY <1>3, <1>5 DEF Wanted
  <2>4. ASSUME d.open = TRUE, d.timer = FALSE PROVE TreeFresh(d, calc)
    <3>1. TreeFresh(tree, calc) /\ TreeFresh(t, calc)
      BY <1>3, <1>4, <1>5, <2>4 DEF TreeOK
    <3>2. call.price = Wanted(d, calc) /\ RateKnown(calc)
      BY <1>5, <2>3, <3>1 DEF TreeFresh
    <3> QED BY <1>5, <2>3, <3>1, <3>2 DEF TreeFresh
  <2> QED BY <2>2, <2>4 DEF TreeOK
<1>6. PICK u : u = tree'
  OBVIOUS
<1>7. CASE call.newest
  <2>1. call.newest = TRUE
    BY <1>1, <1>7 DEF TreeLoose
  <2>2. \/ u = [t EXCEPT !.loading = FALSE, !.error = FALSE,
                        !.notReady = FALSE, !.results = call.price]
        \/ u = [t EXCEPT !.loading = FALSE, !.results = Nil,
                        !.error = outcome = "failed",
                        !.gateDenied = outcome = "denied"]
    BY <1>2, <1>6, <1>7, Zenon DEF TreeReply
  <2>3. /\ TreeFields \subseteq DOMAIN u /\ u.open = t.open
        /\ u.timer = t.timer /\ u.loading = FALSE /\ u.style = t.style
        /\ u.parked = t.parked /\ u.sent = t.sent
        /\ u.results \in {call.price, Nil}
    BY <1>3, <2>2 DEF TreeFields
  <2>4. TreeOK(u, calc)
    BY <1>5, <2>1, <2>3
  <2> QED BY <1>1, <1>6, <2>4
<1>8. CASE ~call.newest
  <2>1. u = t
    BY <1>2, <1>6, <1>8, Zenon DEF TreeReply
  <2> QED BY <1>1, <1>4, <1>6, <2>1
<1> QED BY <1>7, <1>8

\* Opening the panel and changing a setting restart the pause.
LEMMA PanelKeeps ==
    ASSUME TreeOK(tree, calc), TreeStep
    PROVE  TreeOK(tree, calc)'
<1>1. TreeLoose(tree) /\ TreeNothing(tree, calc)
  BY DEF TreeOK
<1>2. calc' = calc
  BY DEF TreeStep, TogglePanel, SetStyle
<1>3. PICK u : u = tree'
  OBVIOUS
<1>4. CASE TogglePanel
  <2>1. u = [tree EXCEPT !.open = ~@, !.timer = @ \/ ~tree.open]
    BY <1>3, <1>4 DEF TogglePanel
  <2>2. /\ TreeFields \subseteq DOMAIN u /\ u.open = ~tree.open
        /\ u.timer = (tree.timer \/ ~tree.open)
        /\ u.loading = tree.loading /\ u.results = tree.results /\ u.style = tree.style
        /\ u.parked = tree.parked /\ u.sent = tree.sent
    BY <1>1, <2>1 DEF TreeLoose, TreeFields
  <2>3. /\ u.open \in BOOLEAN /\ u.timer \in BOOLEAN
        /\ ~(u.open = TRUE /\ u.timer = FALSE)
    <3>1. tree.open \in BOOLEAN /\ tree.timer \in BOOLEAN
      BY <1>1 DEF TreeLoose
    <3>2. u.open \in BOOLEAN /\ u.timer \in BOOLEAN
      BY <2>2, Zenon
    <3>3. u.open = TRUE => u.timer = TRUE
      BY <2>2, <3>1, Zenon
    <3> QED BY <3>2, <3>3
  <2>4. TreeOK(u, calc)
    BY <1>1, <2>2, <2>3 DEF TreeOK, TreeLoose, TreeNothing
  <2> QED BY <1>2, <1>3, <2>4
<1>5. ASSUME NEW style, SetStyle(style) PROVE TreeOK(tree, calc)'
  <2>1. u = [tree EXCEPT !.style = style, !.timer = TRUE]
    BY <1>3, <1>5 DEF SetStyle
  <2>2. /\ TreeFields \subseteq DOMAIN u /\ u.open = tree.open /\ u.timer = TRUE
        /\ u.loading = tree.loading /\ u.results = tree.results
        /\ u.parked = tree.parked /\ u.sent = tree.sent
    BY <1>1, <2>1 DEF TreeLoose, TreeFields
  <2>3. TreeOK(u, calc)
    BY <1>1, <2>2 DEF TreeOK, TreeLoose, TreeNothing
  <2> QED BY <1>2, <1>3, <2>3
<1> QED BY <1>4, <1>5 DEF TreeStep

\* Every step of the page keeps the pricer's invariant.
LEMMA TreeStepKeeps ==
    ASSUME TreeOK(tree, calc), WorkspaceNext, Kept(calc, calc')
    PROVE  TreeOK(tree, calc)'
<1>1. CASE TreeFollows
  BY <1>1, TreeFollowsKeeps DEF Kept
<1>2. CASE UNCHANGED <<tree, calc>>
  BY <1>2 DEF TreeOK
<1>3. CASE TreeReplies
  BY <1>3, TreeReplyKeeps DEF TreeReplies
<1>4. CASE TreeStep \/ ExecutePricing
  BY <1>4, PanelKeeps, ExecuteKeeps
<1>5. CASE AsstReply /\ UNCHANGED tree
  BY <1>2, <1>5 DEF AsstReply, ParseReply
<1> QED BY <1>1, <1>2, <1>3, <1>4, <1>5 DEF WorkspaceNext, Event, Reply, RunEffects

-----------------------------------------------------------------------------
(***************************************************************************)
(* The page.                                                               *)
(***************************************************************************)
PageInv == StoreInv(calc) /\ ChainOK(calc) /\ AsstInv /\ TreeOK(tree, calc)

\* The page is mounted with the invariant.
LEMMA PageInit == WorkspaceInit => PageInv
<1> SUFFICES ASSUME WorkspaceInit PROVE PageInv
  OBVIOUS
<1>1. StoreInv(calc)
  BY InitHolds DEF WorkspaceInit
<1>2. ChainOK(calc)
  <2>1. PICK c : c = SetSymbol(Created(Home), Home, Nil)
    OBVIOUS
  <2>2. Fields \subseteq DOMAIN Created(Home) /\ "exp" \in DOMAIN Created(Home).ticket
    BY DEF Created, Fields
  <2>3. ChainOK(c) /\ Fields \subseteq DOMAIN c
    BY <2>1, <2>2, SwitchChain
  <2>4. calc = [c EXCEPT !.rateAsked = TRUE]
    BY <2>1, Zenon DEF WorkspaceInit, CalcInit
  <2>5. Touches(c, calc, {"rateAsked"})
    BY <2>4 DEF Touches
  <2>6. {"rateAsked"} \intersect {"inst", "chainStatus", "chain", "selected", "ticket"} = {}
    OBVIOUS
  <2> QED BY <2>3, <2>5, <2>6, ChainUntouched
<1>3. AsstInv
  BY DEF WorkspaceInit, AsstInit, AsstInv
<1>4. TreeOK(tree, calc)
  BY DEF WorkspaceInit, TreeInit, TreeOK, TreeLoose, TreeFields, TreeNothing
<1> QED BY <1>1, <1>2, <1>3, <1>4 DEF PageInv

\* A step keeps it, and the user's rate.
LEMMA PageStep ==
    ASSUME PageInv, Saved!SavedTypeOK, [WorkspaceNext]_vars
    PROVE  PageInv' /\ (calc.rate = "user" => calc'.rate = "user")
<1>1. CASE WorkspaceNext
  <2>1. Kept(calc, calc')
    BY <1>1, StepKeeps DEF PageInv
  <2>2. ChainOK(calc')
    BY <1>1, ChainStep DEF PageInv, StoreInv, Loose
  <2>3. AsstInv'
    BY <1>1, AsstStepKeeps DEF PageInv
  <2>4. TreeOK(tree, calc)'
    BY <1>1, <2>1, TreeStepKeeps DEF PageInv
  <2> QED BY <2>1, <2>2, <2>3, <2>4 DEF PageInv, Kept
<1>2. CASE UNCHANGED vars
  BY <1>2 DEF PageInv, AsstInv, vars
<1> QED BY <1>1, <1>2

\* The invariant of the page; what the tab lists are scenarios.
THEOREM Invariance == WorkspaceSpec => []PageInv
<1>1. WorkspaceInit => PageInv
  BY PageInit
<1>2. PageInv /\ Saved!SavedTypeOK /\ [WorkspaceNext]_vars => PageInv'
  BY PageStep
<1>3. WorkspaceTypeOK => Saved!SavedTypeOK
  BY DEF WorkspaceTypeOK
<1> QED BY <1>1, <1>2, <1>3, TypesHold, PTL DEF WorkspaceSpec

\* No leg is ever under the header of another instrument, and the Undo that a
\* switch offers never covers a newer position.
THEOREM PositionStaysWithItsHeader == WorkspaceSpec => []PositionIsOfTheHeader
<1>1. PageInv => PositionIsOfTheHeader
  BY DEF PageInv, StoreInv, Loose, OfOne, PositionIsOfTheHeader, Range
<1> QED BY <1>1, Invariance, PTL

\* However many calculations overlap, an answer that is not being replaced is
\* the one for the legs on the screen, with no refusal drawn over it.
THEOREM AnswerIsForTheLegs == WorkspaceSpec => []ShownAnswerIsForTheLegs
<1>1. PageInv => ShownAnswerIsForTheLegs
  BY DEF PageInv, StoreInv, Loose, Shown, ShownAnswerIsForTheLegs
<1> QED BY <1>1, Invariance, PTL

\* In whatever order chain replies land, the chain shown is of the symbol in the
\* header, the ticket commits the expiry selected above it, and the rows are of
\* that expiry unless the server answered with those of another.
THEOREM ChainIsSelected == WorkspaceSpec => []ChainIsTheOneSelected
<1>1. PageInv => ChainIsTheOneSelected
  BY DEF PageInv, ChainOK, ChainIsTheOneSelected
<1> QED BY <1>1, Invariance, PTL

\* The assistant shows one outcome, and it answers the last utterance.
THEOREM OneOutcomeIsShown == WorkspaceSpec => []OneOutcomeForTheLastUtterance
<1>1. PageInv => OneOutcomeForTheLastUtterance
  BY DEF PageInv, AsstInv, OneOutcomeForTheLastUtterance
<1> QED BY <1>1, Invariance, PTL

\* Prices neither being replaced nor about to be are those of the quote, the
\* expiry, the rate and the style on the page.
THEOREM TreePricesFollowTheTicket == WorkspaceSpec => []TreePricesAreForTheTicket
<1>1. PageInv => TreePricesAreForTheTicket
  BY DEF PageInv, TreeOK, TreeLoose, TreeFresh, Wanted, TreePricesAreForTheTicket
<1> QED BY <1>1, Invariance, PTL

\* The feed's rate never replaces the one the user has set.
THEOREM UsersRateStays == WorkspaceSpec => TypedRateStays
<1>1. PageInv /\ Saved!SavedTypeOK /\ [WorkspaceNext]_vars
        => [calc.rate = "user" => calc'.rate = "user"]_calc
  BY PageStep
<1>2. WorkspaceTypeOK => Saved!SavedTypeOK
  BY DEF WorkspaceTypeOK
<1> QED BY <1>1, <1>2, Invariance, TypesHold, PTL DEF WorkspaceSpec, TypedRateStays
=============================================================================
