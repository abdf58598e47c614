------------------------------ MODULE BillingProofs ------------------------------
(***************************************************************************)
(* What holds of Billing for any subscriptions and any number of events:   *)
(* the events of other products change nothing, and whoever subscribed     *)
(* has a way in.                                                           *)
(***************************************************************************)
EXTENDS Billing, FiniteSetTheorems, TLAPS

(***************************************************************************)
(* The inductive invariant.  The handler of another product's event gets   *)
(* no further than its prices; and until a licence has been mailed, the    *)
(* checkout of a subscription of ours is not acknowledged, unless Stripe   *)
(* or the mail has failed it.                                              *)
(***************************************************************************)
OthersWait == \A e \in Handling : e.sub \notin Ours => running[e] = "prices"

Checkouts(s) == {e \in events : e.sub = s /\ e.type = "checkout"}

CheckoutsComplete == \A e \in events : e.type = "checkout" => e.status = "complete"

WayIn ==
    "stripe" \notin faults /\ "mail" \notin faults =>
        \A s \in Ours : status[s] # "none" => mailed = TRUE \/ Checkouts(s) # {}

BillingInv == TypeOK /\ OthersWait /\ CheckoutsComplete /\ WayIn

LEMMA InitHolds == Init => BillingInv
<1> SUFFICES ASSUME Init PROVE BillingInv
  OBVIOUS
<1>1. Handling = {}
  BY DEF Init, Handling
<1>2. TypeOK
  <2>1. status \in [Subs -> Status] /\ emitted \in 0..MaxEvents
    BY BillingAssumption DEF Init, Status
  <2>2. {account, mailed} \subseteq BOOLEAN
    BY DEF Init
  <2>3. events \subseteq Event /\ tier \in {"free", "pro"} /\ faults \subseteq Fault
        /\ Handling \subseteq events
    BY <1>1 DEF Init
  <2> QED  BY <2>1, <2>2, <2>3, <1>1 DEF TypeOK
<1> QED  BY <1>1, <1>2, BillingAssumption
         DEF Init, BillingInv, OthersWait, CheckoutsComplete, WayIn

(***************************************************************************)
(* Stripe emits events of a subscription: one, or a checkout with it.      *)
(***************************************************************************)
LEMMA EmitKeeps ==
    ASSUME BillingInv, NEW s \in Subs, NEW to \in Status, NEW kinds,
           Emit(s, to, kinds), IsFiniteSet(kinds),
           kinds \subseteq {"checkout", "subscription"}
                             \X {"complete", "active", "past_due", "canceled"},
           \A k \in kinds : k[1] = "checkout" => k[2] = "complete",
           status[s] = "none" => \E k \in kinds : k[1] = "checkout"
    PROVE  BillingInv'
<1> USE DEF BillingInv
<1>1. /\ UNCHANGED <<running, account, tier, mailed, faults>>
      /\ status' = [status EXCEPT ![s] = to]
      /\ emitted' = emitted + Cardinality(kinds)
      /\ emitted + Cardinality(kinds) <= MaxEvents
  BY DEF Emit, supabase
<1>2. PICK new : new = {[no |-> emitted, sub |-> s, type |-> k[1], status |-> k[2]] : k \in kinds}
  OBVIOUS
<1>3. events' = events \union new
  BY <1>2 DEF Emit
<1>4. \A e \in new : e \in Event /\ e.sub = s /\ (e.type = "checkout" => e.status = "complete")
  <2> SUFFICES ASSUME NEW k \in kinds
               PROVE  LET e == [no |-> emitted, sub |-> s, type |-> k[1], status |-> k[2]]
                      IN  e \in Event /\ e.sub = s /\ (e.type = "checkout" => e.status = "complete")
    BY <1>2
  <2> QED  BY DEF TypeOK, Event
<1>5. TypeOK'
  <2>1. emitted' \in 0..MaxEvents
    <3>1. PICK n : n = Cardinality(kinds)
      OBVIOUS
    <3>2. n \in Nat /\ emitted \in Nat /\ MaxEvents \in Nat
      BY <3>1, FS_CardinalityType, BillingAssumption DEF TypeOK
    <3>3. emitted + n <= MaxEvents /\ emitted' = emitted + n
      BY <3>1, <1>1
    <3> QED  BY <3>2, <3>3
  <2>2. status' \in [Subs -> Status] /\ events' \subseteq Event
    BY <1>1, <1>3, <1>4 DEF TypeOK
  <2> QED  BY <2>1, <2>2, <1>1, <1>3 DEF TypeOK, Handling
<1>6. OthersWait'
  BY <1>1 DEF OthersWait, Handling
<1>7. CheckoutsComplete'
  BY <1>3, <1>4 DEF CheckoutsComplete
<1>8. WayIn'
  <2> SUFFICES ASSUME "stripe" \notin faults, "mail" \notin faults, NEW q \in Ours,
                      status'[q] # "none", mailed # TRUE
               PROVE  Checkouts(q)' # {}
    BY <1>1 DEF WayIn
  <2>1. Checkouts(q) \subseteq Checkouts(q)'
    BY <1>3 DEF Checkouts
  <2>2. CASE status[q] # "none"
    BY <2>1, <2>2 DEF WayIn
  <2>3. CASE status[q] = "none"
    <3>1. q = s
      BY <2>3, <1>1, BillingAssumption DEF TypeOK
    <3>2. PICK k \in kinds : k[1] = "checkout"
      BY <2>3, <3>1
    <3>3. [no |-> emitted, sub |-> s, type |-> k[1], status |-> k[2]] \in events'
      BY <1>2, <1>3
    <3> QED  BY <3>1, <3>2, <3>3 DEF Checkouts
  <2> QED  BY <2>2, <2>3
<1> QED  BY <1>5, <1>6, <1>7, <1>8

LEMMA StripeKeeps ==
    ASSUME BillingInv, NEW s \in Subs, Subscribe(s) \/ PaymentFails(s) \/ Recover(s) \/ Cancel(s)
    PROVE  BillingInv'
<1>1. CASE Subscribe(s)
  <2>1. PICK kinds : kinds = {<<"checkout", "complete">>, <<"subscription", "active">>}
    OBVIOUS
  <2>2. Emit(s, "active", kinds)
    BY <1>1, <2>1 DEF Subscribe
  <2>3. IsFiniteSet(kinds)
    <3>1. IsFiniteSet({<<"checkout", "complete">>})
      BY FS_Singleton
    <3>2. kinds = {<<"checkout", "complete">>} \union {<<"subscription", "active">>}
      BY <2>1
    <3> QED  BY <3>1, <3>2, FS_AddElement
  <2>4. /\ kinds \subseteq {"checkout", "subscription"}
                             \X {"complete", "active", "past_due", "canceled"}
        /\ \A k \in kinds : k[1] = "checkout" => k[2] = "complete"
        /\ \E k \in kinds : k[1] = "checkout"
    BY <2>1
  <2>5. "active" \in Status
    BY DEF Status
  <2> QED  BY <2>2, <2>3, <2>4, <2>5, EmitKeeps
<1>2. ASSUME NEW to \in {"active", "past_due", "canceled"}, status[s] # "none",
             Emit(s, to, {<<"subscription", to>>})
      PROVE  BillingInv'
  <2>1. IsFiniteSet({<<"subscription", to>>})
    BY FS_Singleton
  <2> QED  BY <1>2, <2>1, EmitKeeps DEF Status
<1> QED  BY <1>1, <1>2 DEF PaymentFails, Recover, Cancel

(***************************************************************************)
(* A step of the handling of one event that the invariant allows: it goes  *)
(* on, or is given up, or acknowledges its event.                          *)
(***************************************************************************)
Steps(e) == \/ \E stage \in Stage : (e.sub \notin Ours => stage = "prices") /\ GoOn(e, stage)
            \/ Acknowledge(e) \/ Throw(e)

LEMMA StepKeeps ==
    ASSUME BillingInv, NEW e \in events, e \in Handling, Steps(e),
           UNCHANGED <<status, emitted, account>>,
           tier' \in {"free", "pro"},
           mailed' = mailed \/ mailed' = TRUE,
           faults \subseteq faults', faults' \subseteq Fault,
           e.type = "checkout" /\ events' # events =>
              \/ e.sub \notin Ours
              \/ mailed' = TRUE \/ "stripe" \in faults' \/ "mail" \in faults'
    PROVE  BillingInv'
<1> USE DEF BillingInv
<1>1. events' = events \/ events' = events \ {e}
  BY DEF Steps, GoOn, Acknowledge, Throw
<1>2. \A f \in Handling' :
        /\ f \in Handling
        /\ f \in events'
        /\ running'[f] \in Stage
        /\ f.sub \notin Ours => running'[f] = "prices"
  <2>1. CASE Acknowledge(e) \/ Throw(e)
    <3>1. Handling' = Handling \ {e} /\ \A f \in Handling' : running'[f] = running[f]
      BY <2>1 DEF Acknowledge, Throw, Leave, Handling
    <3> QED  BY <3>1, <1>1 DEF TypeOK, OthersWait
  <2>2. ASSUME NEW stage \in Stage, e.sub \notin Ours => stage = "prices", GoOn(e, stage)
        PROVE  \A f \in Handling' :
                 /\ f \in Handling
                 /\ f \in events'
                 /\ running'[f] \in Stage
                 /\ f.sub \notin Ours => running'[f] = "prices"
    <3>1. /\ Handling' = Handling /\ events' = events
          /\ \A f \in Handling : running'[f] = IF f = e THEN stage ELSE running[f]
      BY <2>2 DEF GoOn, Handling
    <3> QED  BY <3>1, <2>2 DEF TypeOK, OthersWait
  <2> QED  BY <2>1, <2>2 DEF Steps
<1>3. TypeOK'
  <2>1. {account', mailed'} \subseteq BOOLEAN
    BY DEF TypeOK
  <2>2. events' \subseteq Event /\ Handling' \subseteq events'
    BY <1>1, <1>2 DEF TypeOK
  <2> QED  BY <2>1, <2>2, <1>2 DEF TypeOK
<1>4. OthersWait'
  BY <1>2 DEF OthersWait
<1>5. CheckoutsComplete'
  BY <1>1 DEF CheckoutsComplete
<1>6. WayIn'
  <2> SUFFICES ASSUME "stripe" \notin faults', "mail" \notin faults', NEW s \in Ours,
                      status[s] # "none", mailed' # TRUE
               PROVE  Checkouts(s)' # {}
    BY DEF WayIn
  <2>1. mailed # TRUE /\ "stripe" \notin faults /\ "mail" \notin faults
    OBVIOUS
  <2>2. PICK c \in events : c.sub = s /\ c.type = "checkout"
    BY <2>1 DEF WayIn, Checkouts
  <2>3. c \in events'
    BY <2>1, <2>2, <1>1
  <2> QED  BY <2>2, <2>3 DEF Checkouts
<1> QED  BY <1>3, <1>4, <1>5, <1>6

LEMMA HandlerKeeps ==
    ASSUME BillingInv, NEW e \in events, HandleWebhook(e)
    PROVE  BillingInv'
<1>1. /\ e \in Handling /\ UNCHANGED <<status, emitted>>
      /\ e.sub \in Ours \/ running[e] = "prices"
      /\ tier \in {"free", "pro"} /\ faults \subseteq Fault
  BY DEF BillingInv, TypeOK, OthersWait, HandleWebhook, ResolvePrices, PricesUnknown, FindEmail,
         Lookup, LookupFailed, WriteTier, WriteFailed, SendLicence, At, stripe
<1>2. e.type = "checkout" => Grants(e) /\ ~Grace(e)
  BY DEF BillingInv, CheckoutsComplete, Grants, Grace, Revokes
<1>3. \A stage \in Stage : e.sub \in Ours /\ GoOn(e, stage) => Steps(e) /\ events' = events
  BY DEF Steps, GoOn
<1>4. Throw(e) => Steps(e) /\ events' = events
  BY DEF Steps, Throw
<1>5. Acknowledge(e) => Steps(e)
  BY DEF Steps
<1>6. TierDone(e) /\ e.sub \in Ours => Steps(e) /\ (e.type = "checkout" => events' = events)
  <2>1. "send" \in Stage
    BY DEF Stage
  <2> QED  BY <2>1, <1>2, <1>3, <1>5 DEF TierDone
<1>7. CASE ResolvePrices(e)
  <2>1. /\ UNCHANGED <<account, tier, mailed>>
        /\ \/ faults' = faults
           \/ faults' = faults \union {"stripe"}
    BY <1>7 DEF ResolvePrices, PricesUnknown, Goes, supabase
  <2>2. /\ Steps(e)
        /\ e.sub \in Ours => events' = events \/ "stripe" \in faults'
    <3>1. "email" \in Stage
      BY DEF Stage
    <3> QED  BY <1>3, <1>5, <1>7, <3>1 DEF ResolvePrices, PricesUnknown, Priced, Goes
  <2>3. faults' \subseteq Fault
    BY <2>1, <1>1 DEF Fault
  <2> QED  BY <1>1, <2>1, <2>2, <2>3, StepKeeps
<1>8. CASE FindEmail(e)
  <2>1. e.sub \in Ours
    BY <1>1, <1>8 DEF FindEmail, At
  <2>2. /\ UNCHANGED <<account, tier, mailed>>
        /\ faults' = faults \/ faults' = faults \union {"stripe"}
    BY <1>8 DEF FindEmail, Goes, supabase
  <2>3. Steps(e) /\ (e.type = "checkout" => events' = events)
    <3>1. "lookup" \in Stage
      BY DEF Stage
    <3> QED  BY <1>2, <1>3, <1>4, <1>5, <1>8, <2>1, <3>1 DEF FindEmail
  <2>4. faults' \subseteq Fault
    BY <2>2, <1>1 DEF Fault
  <2> QED  BY <1>1, <2>2, <2>3, <2>4, StepKeeps
<1>9. CASE Lookup(e)
  <2>1. e.sub \in Ours
    BY <1>1, <1>9 DEF Lookup, LookupFailed, At
  <2>2. /\ UNCHANGED <<account, tier, mailed>>
        /\ \/ faults' = faults
           \/ faults' = faults \union {"supabase"}
           \/ faults' = faults \union {"no account"}
    BY <1>9 DEF Lookup, LookupFailed, Goes, supabase
  <2>3. Steps(e) /\ (e.type = "checkout" => events' = events)
    <3>1. "write" \in Stage
      BY DEF Stage
    <3> QED  BY <1>3, <1>6, <1>9, <2>1, <3>1 DEF Lookup, LookupFailed
  <2>4. faults' \subseteq Fault /\ faults \subseteq faults'
    BY <2>2, <1>1 DEF Fault
  <2> QED  BY <1>1, <2>2, <2>3, <2>4, StepKeeps
<1>10. CASE WriteTier(e) \/ WriteFailed(e)
  <2>1. e.sub \in Ours
    BY <1>1, <1>10 DEF WriteTier, WriteFailed, At
  <2>2. /\ UNCHANGED <<account, mailed>> /\ tier' \in {"free", "pro"}
        /\ faults' = faults \/ faults' = faults \union {"supabase"}
    BY <1>1, <1>10 DEF WriteTier, WriteFailed, Goes, supabase
  <2>3. Steps(e) /\ (e.type = "checkout" => events' = events)
    BY <1>6, <1>10, <2>1 DEF WriteTier, WriteFailed
  <2>4. faults' \subseteq Fault
    BY <2>2, <1>1 DEF Fault
  <2> QED  BY <1>1, <2>2, <2>3, <2>4, StepKeeps
<1>11. CASE SendLicence(e)
  <2>1. UNCHANGED <<account, tier>>
    BY <1>11 DEF SendLicence, supabase
  <2>2. CASE mailed' = TRUE /\ Acknowledge(e) /\ UNCHANGED faults
    BY <1>1, <1>5, <2>1, <2>2, StepKeeps
  <2>3. CASE UNCHANGED mailed /\ Throw(e) /\ UNCHANGED faults
    BY <1>1, <1>4, <2>1, <2>3, StepKeeps
  <2>4. CASE UNCHANGED mailed /\ Acknowledge(e) /\ Goes({"mail"})
    <3>1. faults' = faults \union {"mail"} /\ "mail" \in faults' /\ faults' \subseteq Fault
      BY <1>1, <2>4 DEF Goes, Fault
    <3> QED  BY <1>1, <1>5, <2>1, <2>4, <3>1, StepKeeps
  <2> QED  BY <1>11, <2>2, <2>3, <2>4 DEF SendLicence
<1> QED  BY <1>7, <1>8, <1>9, <1>10, <1>11 DEF HandleWebhook

LEMMA DeliverKeeps ==
    ASSUME BillingInv, NEW e \in events, Deliver(e)
    PROVE  BillingInv'
<1>1. /\ UNCHANGED <<status, emitted, events, account, tier, mailed>>
      /\ faults \subseteq faults' /\ faults' \subseteq faults \union {"order"}
  BY DEF Deliver, stripe, supabase
<1>2. /\ Handling' = Handling \union {e}
      /\ \A f \in Handling' : running'[f] = IF f = e THEN "prices" ELSE running[f]
  BY DEF Deliver, Handling
<1>3. TypeOK'
  BY <1>1, <1>2 DEF BillingInv, TypeOK, Stage, Fault
<1>4. OthersWait'
  BY <1>2 DEF BillingInv, OthersWait
<1> QED  BY <1>1, <1>3, <1>4 DEF BillingInv, CheckoutsComplete, WayIn, Checkouts

LEMMA SignUpKeeps ==
    ASSUME BillingInv, SignUp
    PROVE  BillingInv'
<1>1. /\ UNCHANGED <<status, emitted, events, running, tier, mailed, faults>>
      /\ account' = TRUE
  BY DEF SignUp, stripe
<1>2. TypeOK'
  BY <1>1 DEF BillingInv, TypeOK, Handling
<1> QED  BY <1>1, <1>2 DEF BillingInv, OthersWait, Handling, CheckoutsComplete, WayIn, Checkouts

LEMMA NextKeeps == BillingInv /\ [Next]_vars => BillingInv'
<1> SUFFICES ASSUME BillingInv, [Next]_vars PROVE BillingInv'
  OBVIOUS
<1>1. CASE UNCHANGED vars
  BY <1>1 DEF vars, supabase, BillingInv, TypeOK, OthersWait, Handling, CheckoutsComplete,
              WayIn, Checkouts
<1>2. ASSUME NEW s \in Subs, Subscribe(s) \/ PaymentFails(s) \/ Recover(s) \/ Cancel(s)
      PROVE  BillingInv'
  BY <1>2, StripeKeeps
<1>3. ASSUME NEW e \in events, Deliver(e) \/ HandleWebhook(e) PROVE BillingInv'
  BY <1>3, DeliverKeeps, HandlerKeeps
<1>4. CASE SignUp
  BY <1>4, SignUpKeeps
<1> QED  BY <1>1, <1>2, <1>3, <1>4 DEF Next

(***************************************************************************)
(* What a step of another product's event can change.                      *)
(***************************************************************************)
OthersStep == \A e \in events : e.sub \notin Ours /\ Moves(e) => UNCHANGED <<tier, mailed>>

LEMMA OthersStepHolds == BillingInv /\ [Next]_vars => OthersStep
<1> SUFFICES ASSUME BillingInv, [Next]_vars, NEW e \in events, e.sub \notin Ours, Moves(e)
             PROVE  UNCHANGED <<tier, mailed>>
  BY DEF OthersStep
<1>1. e \in Handling /\ running[e] = "prices"
  BY DEF Moves, BillingInv, OthersWait
<1>2. ASSUME NEW f \in events, WriteTier(f) \/ SendLicence(f)
      PROVE  FALSE
  <2>1. f # e
    BY <1>1, <1>2 DEF WriteTier, SendLicence, At
  <2>2. Leave(f) \/ \E stage \in Stage : GoOn(f, stage)
    BY <1>2 DEF WriteTier, SendLicence, TierDone, Acknowledge, Throw, Stage
  <2>3. e \in DOMAIN running' /\ running'[e] = running[e]
    BY <1>1, <2>1, <2>2 DEF Leave, GoOn, Handling
  <2> QED  BY <2>3 DEF Moves
<1>3. ASSUME NEW s \in Subs, Subscribe(s) \/ PaymentFails(s) \/ Recover(s) \/ Cancel(s)
      PROVE  UNCHANGED <<tier, mailed>>
  BY <1>3 DEF Subscribe, PaymentFails, Recover, Cancel, Emit, supabase
<1>4. ASSUME NEW f \in events, Deliver(f) \/ ResolvePrices(f) \/ FindEmail(f) \/ Lookup(f)
                               \/ WriteFailed(f)
      PROVE  UNCHANGED <<tier, mailed>>
  BY <1>4 DEF Deliver, ResolvePrices, PricesUnknown, FindEmail, Lookup, LookupFailed,
              WriteFailed, supabase
<1>5. CASE SignUp \/ UNCHANGED vars
  BY <1>5 DEF SignUp, vars, supabase
<1> QED  BY <1>2, <1>3, <1>4, <1>5 DEF Next, HandleWebhook

(***************************************************************************)
(* The tier of one subscription.  As long as nothing but the mail has gone *)
(* wrong, one event is handled at a time and none before an older one of   *)
(* its subscription is acknowledged, so the tier follows the newest event: *)
(* it is that of the status, or the event that will make it so is pending. *)
(***************************************************************************)
OneOfOurs == \A s, q \in Ours : s = q

EventsOf(s) == {e \in events : e.sub = s}

NumbersOK == \A e \in events : e.no < emitted

\* The cancellation is the last event of a subscription, and only its.
EventsOK(s) ==
    /\ status[s] = "none" => EventsOf(s) = {}
    /\ status[s] \in {"active", "past_due"} => \A e \in EventsOf(s) : ~Revokes(e)
    /\ \A e, f \in EventsOf(s) : Revokes(e) => f = e \/ f.no < e.no

InOrder ==
    /\ \A e, f \in Handling : e = f
    /\ \A e \in Handling : ~Overtakes(e)

TierOK(s) ==
    /\ status[s] = "none" => tier = "free"
    /\ status[s] \in {"active", "past_due"} =>
          tier = "pro" \/ \E e \in EventsOf(s) : Grants(e)
    /\ status[s] = "canceled" =>
          (tier = "free" /\ EventsOf(s) = {}) \/ \E e \in EventsOf(s) : Revokes(e)

SentOK == \A e \in Handling : running[e] = "send" => Grants(e) /\ tier = "pro"

OnlyMail == faults \subseteq {"mail"}

TierInv ==
    /\ NumbersOK /\ \A s \in Ours : EventsOK(s)
    /\ OnlyMail => InOrder /\ SentOK /\ \A s \in Ours : TierOK(s)

LEMMA TierInit == Init => TierInv
<1> SUFFICES ASSUME Init PROVE TierInv
  OBVIOUS
<1>1. Handling = {} /\ events = {} /\ tier = "free" /\ \A s \in Ours : status[s] = "none"
  BY BillingAssumption DEF Init, Handling
<1> QED  BY <1>1 DEF TierInv, NumbersOK, EventsOK, EventsOf, InOrder, SentOK, TierOK

\* Emitting the events of one change of a subscription.
LEMMA EmitTier ==
    ASSUME BillingInv, TierInv, NEW q \in Subs, NEW to, NEW kinds,
           Emit(q, to, kinds), IsFiniteSet(kinds), kinds # {},
           \/ /\ status[q] = "none" /\ to = "active"
              /\ kinds = {<<"checkout", "complete">>, <<"subscription", "active">>}
           \/ /\ status[q] = "active" /\ to = "past_due"
              /\ kinds = {<<"subscription", to>>}
           \/ /\ status[q] = "past_due" /\ to = "active"
              /\ kinds = {<<"subscription", to>>}
           \/ /\ status[q] \in {"active", "past_due"} /\ to = "canceled"
              /\ kinds = {<<"subscription", to>>}
    PROVE  TierInv'
<1>1. /\ UNCHANGED <<running, account, tier, mailed, faults>>
      /\ status' = [status EXCEPT ![q] = to]
      /\ emitted' = emitted + Cardinality(kinds)
  BY DEF Emit, supabase
<1>2. PICK new : new = {[no |-> emitted, sub |-> q, type |-> k[1], status |-> k[2]] : k \in kinds}
  OBVIOUS
<1>3. events' = events \union new
  BY <1>2 DEF Emit
<1>4. /\ \A e \in new : e.no = emitted /\ e.sub = q
      /\ to = "canceled" => \E e \in new : new = {e} /\ Revokes(e)
      /\ to \in {"active", "past_due"} => \A e \in new : ~Revokes(e)
      /\ status[q] = "none" => \E e \in new : Grants(e)
  <2>1. /\ \A e \in new : e.no = emitted /\ e.sub = q
        /\ \A e \in new : \E k \in kinds : e.status = k[2]
        /\ \A k \in kinds : \E e \in new : e.status = k[2]
    <3> DEFINE Rec(k) == [no |-> emitted, sub |-> q, type |-> k[1], status |-> k[2]]
    <3>1. \A k \in kinds : Rec(k).no = emitted /\ Rec(k).sub = q /\ Rec(k).status = k[2]
      OBVIOUS
    <3>2. new = {Rec(k) : k \in kinds}
      BY <1>2
    <3> HIDE DEF Rec
    <3> QED  BY <3>1, <3>2
  <2>2. CASE kinds = {<<"checkout", "complete">>, <<"subscription", "active">>}
             /\ to = "active"
    BY <2>1, <2>2 DEF Revokes, Grants, Grace
  <2>3. CASE kinds = {<<"subscription", to>>} /\ status[q] # "none"
    <3>1. PICK e : e = [no |-> emitted, sub |-> q, type |-> "subscription", status |-> to]
      OBVIOUS
    <3>2. new = {e} /\ e.status = to
      BY <1>2, <2>3, <3>1
    <3> QED  BY <2>1, <2>3, <3>2 DEF Revokes
  <2> QED  BY <2>2, <2>3
<1>5. emitted \in Nat /\ emitted' \in Nat /\ emitted < emitted'
  <2>1. PICK n : n = Cardinality(kinds)
    OBVIOUS
  <2>2. n \in Nat /\ n # 0
    BY <2>1, FS_CardinalityType, FS_EmptySet
  <2>3. emitted \in Nat
    BY BillingAssumption DEF BillingInv, TypeOK
  <2> QED  BY <1>1, <2>1, <2>2, <2>3
<1>6. \A e \in events : e.no \in Nat /\ e.no < emitted
  BY BillingAssumption DEF BillingInv, TypeOK, Event, TierInv, NumbersOK
<1>7. NumbersOK'
  BY <1>3, <1>4, <1>5, <1>6 DEF NumbersOK
<1>8. \A s \in Subs : /\ s # q => EventsOf(s)' = EventsOf(s) /\ status'[s] = status[s]
                      /\ s = q => EventsOf(s)' = EventsOf(s) \union new /\ status'[s] = to
  BY <1>1, <1>3, <1>4 DEF EventsOf, BillingInv, TypeOK
<1>9. ASSUME NEW s \in Ours PROVE EventsOK(s)'
  <2>1. s \in Subs /\ EventsOK(s)
    BY BillingAssumption DEF TierInv
  <2>2. CASE s # q
    BY <1>8, <2>1, <2>2 DEF EventsOK, Revokes
  <2>3. CASE s = q
    <3>1. \A e \in EventsOf(s) : ~Revokes(e)
      BY <2>1, <2>3 DEF EventsOK
    <3>2. EventsOf(s)' = EventsOf(s) \union new /\ status'[s] = to
      BY <1>8, <2>1, <2>3
    <3>3. to \in {"active", "past_due", "canceled"}
      OBVIOUS
    <3>4. \A e \in EventsOf(s) : e.no < emitted
      BY <1>6 DEF EventsOf
    <3>5. \A e, f \in EventsOf(s)' : Revokes(e) => f = e \/ f.no < e.no
      BY <1>4, <3>1, <3>2, <3>3, <3>4
    <3> QED  BY <1>4, <3>1, <3>2, <3>3, <3>5 DEF EventsOK, Revokes
  <2> QED  BY <2>2, <2>3
<1>10. ASSUME OnlyMail' PROVE InOrder' /\ SentOK' /\ \A s \in Ours : TierOK(s)'
  <2>1. InOrder /\ SentOK /\ \A s \in Ours : TierOK(s)
    BY <1>1, <1>10 DEF OnlyMail, TierInv
  <2>2. Handling' = Handling /\ Handling \subseteq events
    BY <1>1 DEF Handling, BillingInv, TypeOK
  <2>3. ASSUME NEW e \in Handling PROVE ~Overtakes(e)'
    <3>1. e \in events /\ ~Overtakes(e)
      BY <2>1, <2>2, <2>3 DEF InOrder
    <3>2. \A f \in new : ~(f.no < e.no)
      BY <1>4, <1>5, <1>6, <3>1
    <3> QED  BY <1>3, <3>1, <3>2 DEF Overtakes
  <2>4. InOrder' /\ SentOK'
    BY <1>1, <2>1, <2>2, <2>3 DEF InOrder, SentOK, Grants, Revokes, Grace
  <2>5. ASSUME NEW s \in Ours PROVE TierOK(s)'
    <3>1. s \in Subs /\ TierOK(s)
      BY <2>1, BillingAssumption
    <3>2. CASE s # q
      BY <1>1, <1>8, <3>1, <3>2 DEF TierOK, Grants, Revokes, Grace
    <3>3. CASE s = q
      <4>1. EventsOf(s)' = EventsOf(s) \union new /\ status'[s] = to
        BY <1>8, <3>1, <3>3
      <4>2. CASE to = "canceled"
        BY <1>4, <4>1, <4>2 DEF TierOK, Grants, Revokes, Grace
      <4>3. CASE status[q] = "none"
        BY <1>4, <3>3, <4>1, <4>3 DEF TierOK, Grants, Revokes, Grace
      <4>4. CASE status[q] # "none" /\ to # "canceled"
        BY <1>1, <3>1, <3>3, <4>1, <4>4 DEF TierOK, Grants, Revokes, Grace
      <4> QED  BY <4>2, <4>3, <4>4
    <3> QED  BY <3>2, <3>3
  <2> QED  BY <2>4, <2>5
<1> QED  BY <1>7, <1>9, <1>10 DEF TierInv

LEMMA StripeTier ==
    ASSUME BillingInv, TierInv, NEW q \in Subs,
           Subscribe(q) \/ PaymentFails(q) \/ Recover(q) \/ Cancel(q)
    PROVE  TierInv'
<1>1. CASE Subscribe(q)
  <2>1. PICK kinds : kinds = {<<"checkout", "complete">>, <<"subscription", "active">>}
    OBVIOUS
  <2>2. IsFiniteSet(kinds)
    <3>1. IsFiniteSet({<<"checkout", "complete">>})
      BY FS_Singleton
    <3>2. kinds = {<<"checkout", "complete">>} \union {<<"subscription", "active">>}
      BY <2>1
    <3> QED  BY <3>1, <3>2, FS_AddElement
  <2>3. status[q] = "none" /\ Emit(q, "active", kinds) /\ kinds # {}
    BY <1>1, <2>1 DEF Subscribe
  <2> QED  BY <2>1, <2>2, <2>3, EmitTier
<1>2. ASSUME NEW to, Emit(q, to, {<<"subscription", to>>}),
             \/ status[q] = "active" /\ to = "past_due"
             \/ status[q] = "past_due" /\ to = "active"
             \/ status[q] \in {"active", "past_due"} /\ to = "canceled"
      PROVE  TierInv'
  <2>1. IsFiniteSet({<<"subscription", to>>}) /\ {<<"subscription", to>>} # {}
    BY FS_Singleton
  <2> QED  BY <1>2, <2>1, EmitTier
<1> QED  BY <1>1, <1>2 DEF PaymentFails, Recover, Cancel

\* What a step of the handler of e may do: the tier is written only for a
\* subscription of ours, a licence sent only once the tier is there, and an
\* event of ours is acknowledged only when it is done with, or at a fault.
TierStep(e) ==
    /\ events' = events \/ events' = events \ {e}
    /\ Handling' \subseteq Handling
    /\ \A f \in Handling' : f # e => running'[f] = running[f]
    /\ UNCHANGED <<status, emitted>> /\ faults \subseteq faults'
    /\ tier' = tier \/ (e.sub \in Ours /\ tier' = IF Revokes(e) THEN "free" ELSE "pro")
    /\ OnlyMail' /\ e \in Handling' /\ running'[e] = "send" => Grants(e) /\ tier' = "pro"
    /\ OnlyMail' /\ events' # events /\ e.sub \in Ours =>
          Grace(e) \/ (Revokes(e) /\ tier' = "free") \/ (Grants(e) /\ tier' = "pro")

LEMMA HandlerTier ==
    ASSUME BillingInv, TierInv, OneOfOurs, NEW e \in events, e \in Handling, TierStep(e)
    PROVE  TierInv'
<1>1. NumbersOK'
  BY DEF TierStep, TierInv, NumbersOK
<1>2. \A s \in Subs : /\ EventsOf(s)' \subseteq EventsOf(s)
                      /\ e.sub # s => EventsOf(s)' = EventsOf(s)
                      /\ \A f \in EventsOf(s) : f # e => f \in EventsOf(s)'
  BY DEF TierStep, EventsOf
<1>3. \A s \in Ours : EventsOK(s)'
  BY <1>2, BillingAssumption DEF TierStep, TierInv, EventsOK, Revokes
<1>4. ASSUME OnlyMail' PROVE InOrder' /\ SentOK' /\ \A s \in Ours : TierOK(s)'
  <2>1. InOrder /\ SentOK /\ \A s \in Ours : TierOK(s)
    BY <1>4 DEF TierStep, OnlyMail, TierInv
  <2>2. \A f \in Handling' : f = e
    BY <2>1 DEF InOrder, TierStep
  <2>3. ~Overtakes(e)'
    BY <2>1 DEF InOrder, TierStep, Overtakes
  <2>4. InOrder' /\ SentOK'
    BY <1>4, <2>2, <2>3 DEF InOrder, SentOK, TierStep, Grants, Revokes, Grace
  <2>5. ASSUME NEW s \in Ours PROVE TierOK(s)'
    <3>1. /\ s \in Subs /\ TierOK(s) /\ EventsOK(s) /\ EventsOK(s)'
          /\ status'[s] = status[s] /\ status[s] \in Status
          /\ e.sub \in Ours => e.sub = s
      BY <1>3, <2>1, BillingAssumption DEF TierInv, TierStep, OneOfOurs, BillingInv, TypeOK
    <3>2. CASE e.sub # s
      BY <1>2, <3>1, <3>2 DEF TierOK, TierStep, Grants, Revokes, Grace
    <3>3. CASE e.sub = s
      <4>1. e \in EventsOf(s) /\ status[s] # "none"
        BY <3>1, <3>3 DEF EventsOf, EventsOK
      <4>2. CASE status[s] \in {"active", "past_due"}
        <5>1. ~Revokes(e)
          BY <3>1, <4>1, <4>2 DEF EventsOK
        <5>2. tier' = tier \/ tier' = "pro"
          BY <5>1 DEF TierStep
        <5>3. CASE events' = events
          BY <3>1, <4>2, <5>2, <5>3 DEF TierOK, EventsOf, Grants, Revokes, Grace
        <5>4. CASE events' # events
          <6>1. Grace(e) \/ tier' = "pro"
            BY <1>4, <3>3, <5>1, <5>4 DEF TierStep
          <6>2. CASE Grace(e) /\ tier' # "pro"
            <7>1. PICK f \in EventsOf(s) : Grants(f)
              BY <3>1, <4>2, <5>2, <6>2 DEF TierOK
            <7>2. f \in EventsOf(s)'
              BY <1>2, <3>1, <6>2, <7>1 DEF Grants
            <7> QED  BY <3>1, <4>2, <7>1, <7>2 DEF TierOK, Grants, Revokes, Grace
          <6> QED  BY <3>1, <4>2, <6>1, <6>2 DEF TierOK
        <5> QED  BY <5>3, <5>4
      <4>3. CASE status[s] = "canceled"
        <5>1. PICK f \in EventsOf(s) : Revokes(f)
          BY <3>1, <4>1, <4>3 DEF TierOK
        <5>2. CASE f \in EventsOf(s)'
          BY <3>1, <4>3, <5>1, <5>2 DEF TierOK, Revokes
        <5>3. CASE f \notin EventsOf(s)'
          <6>1. f = e /\ events' # events
            BY <1>2, <3>1, <5>3 DEF EventsOf
          <6>2. tier' = "free"
            BY <1>4, <3>3, <5>1, <6>1 DEF TierStep, Grace, Grants, Revokes
          <6>3. EventsOf(s)' = {}
            <7> SUFFICES ASSUME NEW g \in EventsOf(s)' PROVE FALSE
              OBVIOUS
            <7>1. g \in EventsOf(s) /\ g # e
              BY <1>2, <3>1, <5>3, <6>1
            <7>2. g.no < e.no
              BY <3>1, <4>1, <5>1, <6>1, <7>1 DEF EventsOK
            <7>3. Overtakes(e)
              BY <4>1, <7>1, <7>2 DEF Overtakes, EventsOf
            <7> QED  BY <2>1, <7>3 DEF InOrder
          <6> QED  BY <3>1, <4>3, <6>2, <6>3 DEF TierOK
        <5> QED  BY <5>2, <5>3
      <4> QED  BY <3>1, <4>1, <4>2, <4>3 DEF Status
    <3> QED  BY <3>2, <3>3
  <2> QED  BY <2>4, <2>5
<1> QED  BY <1>1, <1>3, <1>4 DEF TierInv

LEMMA HandlerIsTierStep ==
    ASSUME BillingInv, TierInv, NEW e \in events, HandleWebhook(e)
    PROVE  e \in Handling /\ TierStep(e)
<1>1. /\ e \in Handling /\ UNCHANGED <<status, emitted>>
      /\ e.sub \in Ours \/ running[e] = "prices"
      /\ OnlyMail => (running[e] = "send" => Grants(e) /\ tier = "pro")
  BY DEF BillingInv, OthersWait, TierInv, SentOK, HandleWebhook, ResolvePrices, PricesUnknown,
         FindEmail, Lookup, LookupFailed, WriteTier, WriteFailed, SendLicence, At, stripe
<1>2. ASSUME NEW stage, GoOn(e, stage)
      PROVE  /\ events' = events /\ Handling' = Handling
             /\ \A f \in Handling : running'[f] = IF f = e THEN stage ELSE running[f]
  BY <1>2 DEF GoOn, Handling
<1>3. ASSUME Acknowledge(e) \/ Throw(e)
      PROVE  /\ events' = events \/ (Acknowledge(e) /\ events' = events \ {e})
             /\ Handling' = Handling \ {e}
             /\ \A f \in Handling' : running'[f] = running[f]
  BY <1>3 DEF Acknowledge, Throw, Leave, Handling
<1>4. Throw(e) => events' = events
  BY DEF Throw
<1>5. CASE ResolvePrices(e)
  <2>1. /\ UNCHANGED tier /\ faults \subseteq faults'
        /\ GoOn(e, "email") \/ (Acknowledge(e) /\ (e.sub \notin Ours \/ "stripe" \in faults'))
    BY <1>5 DEF ResolvePrices, PricesUnknown, Priced, Goes, supabase
  <2> QED  BY <1>1, <1>2, <1>3, <2>1 DEF TierStep, OnlyMail
<1>6. CASE FindEmail(e)
  <2>1. /\ UNCHANGED tier /\ faults \subseteq faults'
        /\ \/ GoOn(e, "lookup") \/ Throw(e)
           \/ Acknowledge(e) /\ (Grace(e) \/ "stripe" \in faults')
    BY <1>6 DEF FindEmail, Goes, supabase
  <2> QED  BY <1>1, <1>2, <1>3, <1>4, <2>1 DEF TierStep, OnlyMail
<1>7. CASE Lookup(e) \/ WriteFailed(e)
  <2>1. /\ UNCHANGED tier /\ faults \subseteq faults'
        /\ \/ GoOn(e, "write")
           \/ /\ GoOn(e, "send") \/ Acknowledge(e)
              /\ "supabase" \in faults' \/ "no account" \in faults'
    BY <1>7 DEF Lookup, LookupFailed, WriteFailed, TierDone, Goes, supabase
  <2>2. CASE GoOn(e, "write")
    <3>1. /\ events' = events /\ Handling' = Handling
          /\ \A f \in Handling : running'[f] = IF f = e THEN "write" ELSE running[f]
      BY <1>2, <2>2
    <3> QED  BY <1>1, <2>1, <3>1 DEF TierStep
  <2>3. CASE ~OnlyMail' /\ (GoOn(e, "send") \/ Acknowledge(e))
    BY <1>1, <1>2, <1>3, <2>1, <2>3 DEF TierStep
  <2> QED  BY <2>1, <2>2, <2>3 DEF OnlyMail
<1>8. CASE WriteTier(e)
  <2>1. /\ tier' = IF Revokes(e) THEN "free" ELSE "pro"
        /\ UNCHANGED faults /\ e.sub \in Ours
        /\ IF Grants(e) THEN GoOn(e, "send") ELSE Acknowledge(e)
    BY <1>1, <1>8 DEF WriteTier, TierDone, At
  <2>2. CASE Grants(e)
    BY <1>1, <1>2, <2>1, <2>2 DEF TierStep, OnlyMail, Grants
  <2>3. CASE ~Grants(e)
    BY <1>1, <1>3, <2>1, <2>3 DEF TierStep, OnlyMail, Grants
  <2> QED  BY <2>2, <2>3
<1>9. CASE SendLicence(e)
  <2>1. /\ UNCHANGED tier /\ faults \subseteq faults' /\ running[e] = "send"
        /\ Acknowledge(e) \/ Throw(e)
    BY <1>9 DEF SendLicence, Goes, At, supabase
  <2>2. OnlyMail' => Grants(e) /\ tier = "pro"
    BY <1>1, <2>1 DEF OnlyMail
  <2> QED  BY <1>1, <1>3, <2>1, <2>2 DEF TierStep
<1> QED  BY <1>1, <1>5, <1>6, <1>7, <1>8, <1>9 DEF HandleWebhook

LEMMA DeliverTier ==
    ASSUME BillingInv, TierInv, NEW e \in events, Deliver(e)
    PROVE  TierInv'
<1>1. /\ UNCHANGED <<status, emitted, events, tier>> /\ faults \subseteq faults'
      /\ Handling # {} \/ Overtakes(e) => "order" \in faults'
  BY DEF Deliver, stripe, supabase
<1>2. /\ Handling' = Handling \union {e}
      /\ \A f \in Handling' : running'[f] = IF f = e THEN "prices" ELSE running[f]
  BY DEF Deliver, Handling
<1>3. NumbersOK' /\ \A s \in Ours : EventsOK(s)'
  BY <1>1 DEF TierInv, NumbersOK, EventsOK, EventsOf, Revokes
<1>4. ASSUME OnlyMail' PROVE InOrder' /\ SentOK' /\ \A s \in Ours : TierOK(s)'
  <2>1. Handling = {} /\ ~Overtakes(e) /\ OnlyMail
    BY <1>1, <1>4 DEF OnlyMail
  <2>2. InOrder' /\ SentOK'
    BY <1>1, <1>2, <2>1 DEF InOrder, SentOK, Overtakes, Grants, Revokes, Grace
  <2>3. \A s \in Ours : TierOK(s)'
    BY <1>1, <2>1 DEF TierInv, TierOK, EventsOf, Grants, Revokes, Grace
  <2> QED  BY <2>2, <2>3
<1> QED  BY <1>3, <1>4 DEF TierInv

LEMMA TierKeeps ==
    ASSUME BillingInv, TierInv, OneOfOurs, [Next]_vars
    PROVE  TierInv'
<1>1. CASE UNCHANGED <<status, emitted, events, running, tier, faults>>
  BY <1>1 DEF TierInv, NumbersOK, EventsOK, EventsOf, InOrder, SentOK, TierOK, OnlyMail,
              Handling, Overtakes, Grants, Revokes, Grace
<1>2. CASE SignUp \/ UNCHANGED vars
  BY <1>1, <1>2 DEF SignUp, vars, stripe, supabase
<1>3. ASSUME NEW e \in events, Deliver(e) \/ HandleWebhook(e) PROVE TierInv'
  BY <1>3, DeliverTier, HandlerIsTierStep, HandlerTier
<1>4. ASSUME NEW q \in Subs, Subscribe(q) \/ PaymentFails(q) \/ Recover(q) \/ Cancel(q)
      PROVE  TierInv'
  BY <1>4, StripeTier
<1> QED  BY <1>2, <1>3, <1>4 DEF Next

\* Every state of the billing worker satisfies the inductive invariant.
THEOREM Invariance == Spec => []BillingInv
  BY InitHolds, NextKeeps, PTL DEF Spec

\* The variables keep their types, and only unacknowledged events are handled.
THEOREM Typing == Spec => []TypeOK
<1>1. BillingInv => TypeOK
  BY DEF BillingInv
<1> QED  BY <1>1, Invariance, PTL

\* The entitlement guard of handleWebhook(): no event of a product that is
\* not ours changes the tier or sends a licence, however many there are.
THEOREM OthersAreIgnored == Spec => OthersChangeNothing
<1>1. BillingInv /\ [Next]_vars => [OthersStep]_vars
  BY OthersStepHolds
<1>2. Spec => [][OthersStep]_vars
  BY <1>1, Invariance, PTL DEF Spec
<1> QED  BY <1>2 DEF OthersChangeNothing, OthersStep

\* However events are ordered, repeated or dropped by the accounts' service,
\* whoever subscribed to ours has been mailed a licence once all events are
\* acknowledged, unless Stripe or the mail failed the checkout.
THEOREM SubscribersHaveAWayIn == Spec => []SubscriberHasAWayIn
<1>1. BillingInv => SubscriberHasAWayIn
  <2> SUFFICES ASSUME BillingInv, events = {}, faults \subseteq {"order", "supabase", "no account"},
                      NEW s \in Ours, status[s] # "none"
               PROVE  mailed
    BY DEF SubscriberHasAWayIn, Quiet
  <2>1. Checkouts(s) = {}
    BY DEF Checkouts
  <2>2. mailed = TRUE
    BY <2>1 DEF BillingInv, WayIn
  <2> QED  BY <2>2
<1> QED  BY <1>1, Invariance, PTL

\* With one subscription of ours, whatever happens to those of other products:
\* if the events are delivered in order and Stripe and the accounts answer, the
\* tier is that of the subscription once every event is acknowledged, however
\* often one is delivered and whether or not the mail is sent.
THEOREM TierIsOfTheSubscription ==
    ASSUME OneOfOurs
    PROVE  Spec => []TierFollowsStripe
<1>1. BillingInv /\ TierInv => TierFollowsStripe
  <2> SUFFICES ASSUME BillingInv, TierInv, events = {}, OnlyMail, NEW s \in Ours
               PROVE  tier = IF status[s] \in {"active", "past_due"} THEN "pro" ELSE "free"
    BY DEF TierFollowsStripe, Quiet, OnlyMail
  <2>1. TierOK(s) /\ EventsOf(s) = {} /\ status[s] \in Status
    BY BillingAssumption DEF TierInv, EventsOf, BillingInv, TypeOK
  <2> QED  BY <2>1 DEF TierOK, Status
<1>2. BillingInv /\ TierInv /\ [Next]_vars => TierInv'
  BY TierKeeps
<1> QED  BY <1>1, <1>2, Invariance, TierInit, PTL DEF Spec
=============================================================================
