------------------------------- MODULE Billing -------------------------------
(***************************************************************************)
(* The billing worker (workers/billing/src/index.ts): Stripe tells it of   *)
(* one customer's subscriptions by webhook, and it writes the tier of that *)
(* customer's account and mails a licence.  Stripe's account is shared     *)
(* with other products, and its deliveries are at least once, in any order *)
(* and concurrent; each await of a handler is a step of its own.           *)
(***************************************************************************)
EXTENDS Integers, FiniteSets

CONSTANTS
    Subs,       \* the customer's subscriptions
    Ours,       \* those at PRICE_MONTHLY or PRICE_ANNUAL
    MaxEvents   \* a bound on the events Stripe emits

ASSUME BillingAssumption == Ours \subseteq Subs /\ MaxEvents \in Nat

VARIABLES
    status,     \* each subscription, at Stripe
    emitted,    \* events emitted so far
    events,     \* events not acknowledged
    running,    \* the handler of each event being handled: its next await
    account,    \* the customer has signed up
    tier,       \* app_metadata.tier of the account
    mailed,     \* a licence has been mailed
    faults      \* what has gone wrong so far

stripe   == <<status, emitted>>
supabase == <<account, tier>>
vars     == <<status, emitted, events, running, account, tier, mailed, faults>>

Status == {"none", "active", "past_due", "canceled"}
Stage  == {"prices", "email", "lookup", "write", "send"}
Fault  == {"order", "stripe", "supabase", "no account", "mail"}

\* A checkout session's own status is "complete".
Event == [no: 0..MaxEvents, sub: Subs, type: {"checkout", "subscription"},
          status: {"complete", "active", "past_due", "canceled"}]

Handling == DOMAIN running

-----------------------------------------------------------------------------
(***************************************************************************)
(* Stripe.                                                                 *)
(***************************************************************************)
Emit(s, to, kinds) ==
    /\ emitted + Cardinality(kinds) <= MaxEvents
    /\ status' = [status EXCEPT ![s] = to]
    /\ emitted' = emitted + Cardinality(kinds)
    /\ events' = events \union
         {[no |-> emitted, sub |-> s, type |-> k[1], status |-> k[2]] : k \in kinds}
    /\ UNCHANGED <<running, supabase, mailed, faults>>

Subscribe(s) ==
    /\ status[s] = "none"
    /\ Emit(s, "active", {<<"checkout", "complete">>, <<"subscription", "active">>})

PaymentFails(s) ==
    status[s] = "active" /\ Emit(s, "past_due", {<<"subscription", "past_due">>})

Recover(s) ==
    status[s] = "past_due" /\ Emit(s, "active", {<<"subscription", "active">>})

Cancel(s) ==
    /\ status[s] \in {"active", "past_due"}
    /\ Emit(s, "canceled", {<<"subscription", "canceled">>})

Overtakes(e) == \E f \in events : f.sub = e.sub /\ f.no < e.no

\* An event is delivered first before an older one of the subscription is
\* acknowledged, or while another is being handled.
Deliver(e) ==
    /\ e \notin Handling
    /\ running' = [f \in Handling \union {e} |-> IF f = e THEN "prices" ELSE running[f]]
    /\ faults' = faults \union
         (IF Handling # {} \/ Overtakes(e) THEN {"order"} ELSE {})
    /\ UNCHANGED <<stripe, events, supabase, mailed>>

-----------------------------------------------------------------------------
(***************************************************************************)
(* handleWebhook(), one await at a time.                                   *)
(***************************************************************************)
At(e, stage) == e \in Handling /\ running[e] = stage /\ UNCHANGED stripe

Leave(e) == running' = [f \in Handling \ {e} |-> running[f]]

\* A 200, which Stripe may not receive; with anything else it tries again.
Acknowledge(e) == Leave(e) /\ events' \in {events \ {e}, events}

Throw(e) == Leave(e) /\ UNCHANGED events

GoOn(e, stage) == running' = [running EXCEPT ![e] = stage] /\ UNCHANGED events

Goes(wrong) == faults' = faults \union wrong

\* Mutant: a deletion is an event like the others.
RevokesNothing(e) == FALSE

Revokes(e) == e.status = "canceled"
Grace(e)   == e.status = "past_due"
Grants(e)  == ~Revokes(e) /\ ~Grace(e)

Priced(e) ==
    IF e.sub \in Ours THEN GoOn(e, "email") ELSE Acknowledge(e)

\* Mutant: prices that cannot be determined count as ours.
PricesUnknownOpen(e) ==
    /\ At(e, "prices") /\ e.type = "checkout"
    /\ GoOn(e, "email") /\ Goes({"stripe"})
    /\ UNCHANGED <<supabase, mailed>>

\* The line items cannot be listed: fail closed.
PricesUnknown(e) ==
    /\ At(e, "prices") /\ e.type = "checkout"
    /\ Acknowledge(e) /\ Goes({"stripe"})
    /\ UNCHANGED <<supabase, mailed>>

ResolvePrices(e) ==
    \/ At(e, "prices") /\ Priced(e) /\ UNCHANGED <<supabase, mailed, faults>>
    \/ PricesUnknown(e)

\* The address is on a checkout session, and asked of Stripe for a
\* subscription: the call throws, or answers without one.
FindEmail(e) ==
    /\ At(e, "email")
    /\ \/ /\ IF Grace(e) THEN Acknowledge(e) ELSE GoOn(e, "lookup")
          /\ UNCHANGED faults
       \/ e.type = "subscription" /\ Throw(e) /\ UNCHANGED faults
       \/ /\ e.type = "subscription"
          /\ Acknowledge(e)
          /\ Goes(IF Grace(e) THEN {} ELSE {"stripe"})
    /\ UNCHANGED <<supabase, mailed>>

\* setSupabaseTier() has returned: revoking is over, granting mails too.
TierDone(e) == IF Grants(e) THEN GoOn(e, "send") ELSE Acknowledge(e)

\* Mutant: no tier, no licence.
LookupFailedReturns(e) ==
    /\ At(e, "lookup")
    /\ Acknowledge(e) /\ Goes(IF account THEN {"supabase"} ELSE {"no account"})
    /\ UNCHANGED <<supabase, mailed>>

LookupFailed(e) ==
    /\ At(e, "lookup")
    /\ TierDone(e) /\ Goes(IF account THEN {"supabase"} ELSE {"no account"})
    /\ UNCHANGED <<supabase, mailed>>

Lookup(e) ==
    \/ /\ At(e, "lookup") /\ account
       /\ GoOn(e, "write") /\ UNCHANGED <<supabase, mailed, faults>>
    \/ LookupFailed(e)

\* Mutant: the subscription's status is written.
WriteTierStatus(e) ==
    /\ At(e, "write")
    /\ tier' = e.status
    /\ TierDone(e)
    /\ UNCHANGED <<account, mailed, faults>>

WriteTier(e) ==
    /\ At(e, "write")
    /\ tier' = IF Revokes(e) THEN "free" ELSE "pro"
    /\ TierDone(e)
    /\ UNCHANGED <<account, mailed, faults>>

\* Answered 200 all the same.
WriteFailed(e) ==
    /\ At(e, "write")
    /\ TierDone(e) /\ Goes({"supabase"})
    /\ UNCHANGED <<supabase, mailed>>

SendLicence(e) ==
    /\ At(e, "send")
    /\ \/ mailed' = TRUE /\ Acknowledge(e) /\ UNCHANGED faults
       \/ UNCHANGED mailed /\ Throw(e) /\ UNCHANGED faults
       \/ UNCHANGED mailed /\ Acknowledge(e) /\ Goes({"mail"})
    /\ UNCHANGED supabase

HandleWebhook(e) ==
    \/ ResolvePrices(e) \/ FindEmail(e) \/ Lookup(e)
    \/ WriteTier(e) \/ WriteFailed(e) \/ SendLicence(e)

-----------------------------------------------------------------------------
SignUp ==
    /\ ~account
    /\ account' = TRUE
    /\ UNCHANGED <<stripe, events, running, tier, mailed, faults>>

Init ==
    /\ status = [s \in Subs |-> "none"]
    /\ emitted = 0 /\ events = {} /\ running = <<>>
    /\ account \in BOOLEAN /\ tier = "free" /\ mailed = FALSE
    /\ faults = {}

Next ==
    \/ \E s \in Subs : Subscribe(s) \/ PaymentFails(s) \/ Recover(s) \/ Cancel(s)
    \/ \E e \in events : Deliver(e) \/ HandleWebhook(e)
    \/ SignUp

Spec == Init /\ [][Next]_vars

-----------------------------------------------------------------------------
\* Every variable has its type; only events not acknowledged are handled.
TypeOK ==
    /\ status \in [Subs -> Status]
    /\ emitted \in 0..MaxEvents
    /\ events \subseteq Event
    /\ Handling \subseteq events
    /\ \A e \in Handling : running[e] \in Stage
    /\ {account, mailed} \subseteq BOOLEAN
    /\ tier \in {"free", "pro"}
    /\ faults \subseteq Fault

\* The entitlement guard: no step of the handler of another product's event,
\* whatever fails on the way, changes the tier or sends a licence.
Moves(e) == e \in Handling /\ ~(e \in DOMAIN running' /\ running'[e] = running[e])

OthersChangeNothing ==
    [][\A e \in events :
         e.sub \notin Ours /\ Moves(e) => UNCHANGED <<tier, mailed>>]_vars

Quiet == events = {}

\* Delivered in order, with Stripe and the accounts answering, the tier ends
\* up that of the subscription, which a late payment leaves alone.
TierFollowsStripe ==
    Quiet /\ faults \subseteq {"mail"} =>
        \A s \in Ours : tier = IF status[s] \in {"active", "past_due"}
                               THEN "pro" ELSE "free"

\* The two grant paths: with no account to write a tier to, with that service
\* down and in any order of events, whoever subscribed is sent a licence.
SubscriberHasAWayIn ==
    Quiet /\ faults \subseteq {"order", "supabase", "no account"} =>
        \A s \in Ours : status[s] # "none" => mailed

\* index.ts of the deletion event: "without this a cancelled customer keeps
\* Pro forever".  With it, an outage of the accounts' service apart, a
\* cancelled customer's tier has been taken back once every event is
\* acknowledged.
CancelledLosesPro ==
    Quiet /\ faults \subseteq {"supabase"} =>
        \A s \in Ours : status[s] = "canceled" => tier = "free"
=============================================================================
