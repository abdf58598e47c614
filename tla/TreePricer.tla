----------------------------- MODULE TreePricer -----------------------------
(***************************************************************************)
(* The exercise-style pricer (useTreePricerStore) and its panel: while it  *)
(* is open every change of an input it draws from prices the ticket again, *)
(* after a pause, with the calculator's spot, chain and rate.              *)
(***************************************************************************)
EXTENDS Calculator

VARIABLE tree

\* What a price depends on: the quote and the expiry when pricing begins, the
\* rate and the style (any setting of the panel) once the rate is there.  Of
\* the styles, 0 is a Bermudan average without an exercise date.
Price    == [spot: Instruments, exp: Expiries, rate: {"measured", "user"},
             style: 1..2]
TreeCall == [newest: BOOLEAN, spot: Instruments, exp: Expiries]

TreeStore == [open: BOOLEAN, timer: BOOLEAN, style: 0..2,
              loading: BOOLEAN, error: BOOLEAN, notReady: BOOLEAN,
              gateDenied: BOOLEAN, results: Price \union {Nil},
              parked: SUBSET TreeCall, sent: SUBSET [newest: BOOLEAN, price: Price]]

TreeInit == tree = [open |-> FALSE, timer |-> FALSE, style |-> 1,
                    loading |-> FALSE, error |-> FALSE, notReady |-> FALSE,
                    gateDenied |-> FALSE, results |-> Nil,
                    parked |-> {}, sent |-> {}]

-----------------------------------------------------------------------------
(***************************************************************************)
(* executePricing().                                                       *)
(***************************************************************************)
TicketExpiry(c) == IF c.ticket.exp # Unset THEN c.ticket.exp ELSE c.selected

TicketReady(c) ==
    /\ c.spot # Nil /\ c.ticket.contract = "priced"
    /\ ExpiriesShown(c) /\ TicketExpiry(c) \in Listed(c.chain.inst)

\* The part after the await.  The token is looked at by a call that has to
\* refuse, and not by one that goes on.
TreeResume(t, c, calls) ==
    LET newest == \E k \in calls : k.newest IN
    IF RateKnown(c) /\ t.style # 0
    THEN [t EXCEPT !.loading = TRUE, !.error = FALSE, !.notReady = FALSE,
                   !.sent = @ \union {[newest |-> k.newest, price |->
                        [spot |-> k.spot, exp |-> k.exp, rate |-> c.rate,
                         style |-> t.style]] : k \in calls}]
    ELSE [t EXCEPT !.results = IF newest THEN Nil ELSE @,
                   !.error = @ \/ (newest /\ ~RateKnown(c)),
                   !.notReady = @ \/ (newest /\ RateKnown(c))]

\* A refusal leaves `loading' and `error' as they are.
ExecutePricing ==
    LET new  == [tree EXCEPT !.timer = FALSE,
                   !.parked = Superseded(@), !.sent = Superseded(@),
                   !.gateDenied = FALSE, !.notReady = FALSE]
        call == [newest |-> TRUE, spot |-> calc.spot, exp |-> TicketExpiry(calc)]
    IN  /\ tree.timer
        /\ tree' = IF ~TicketReady(calc)
                   THEN [new EXCEPT !.results = Nil, !.notReady = TRUE]
                   ELSE IF calc.rate = "pending"
                   THEN [new EXCEPT !.parked = @ \union {call}]
                   ELSE TreeResume(new, calc, {call})
        /\ UNCHANGED <<calc, ops>>

\* Mutant: the token is not looked at.
TreeReplyAny(call, outcome) ==
    /\ tree' = [tree EXCEPT !.sent = @ \ {call}, !.loading = FALSE,
                            !.results = IF outcome = "ok" THEN call.price ELSE Nil]
    /\ UNCHANGED <<calc, ops>>

\* The trees of one call come back together; only the newest call's are shown.
TreeReply(call, outcome) ==
    LET t == [tree EXCEPT !.sent = @ \ {call}] IN
    /\ tree' = IF ~call.newest THEN t
               ELSE IF outcome = "ok"
               THEN [t EXCEPT !.loading = FALSE, !.error = FALSE,
                              !.notReady = FALSE, !.results = call.price]
               ELSE [t EXCEPT !.loading = FALSE, !.results = Nil,
                              !.error = outcome = "failed",
                              !.gateDenied = outcome = "denied"]
    /\ UNCHANGED <<calc, ops>>

(***************************************************************************)
(* The panel, which a futures header takes off the page and which comes    *)
(* back folded.  Its effect restarts the pause when an input has changed;  *)
(* a rate that lands also resumes the calls parked for it.                 *)
(***************************************************************************)
Watched(c) == <<c.ticket, c.spot, IF RateKnown(c) THEN c.rate ELSE "none",
                c.selected>>

TreeFollows ==
    LET t == IF calc.rateAsked /\ ~calc'.rateAsked /\ tree.parked # {}
             THEN [TreeResume(tree, calc', tree.parked) EXCEPT !.parked = {}]
             ELSE tree
        open == t.open /\ calc'.inst.cls # "FUTURES"
    IN  tree' = [t EXCEPT !.open = open,
                   !.timer = @ \/ (open /\ Watched(calc') # Watched(calc))]

TogglePanel ==
    /\ calc.inst.cls # "FUTURES"
    /\ Spend
    /\ tree' = [tree EXCEPT !.open = ~@, !.timer = @ \/ ~tree.open]
    /\ UNCHANGED calc

\* Any setting: style, Bermudan dates, averaging, steps.
SetStyle(style) ==
    /\ tree.open
    /\ Spend
    /\ tree' = [tree EXCEPT !.style = style, !.timer = TRUE]
    /\ UNCHANGED calc

TreeReplies == \E call \in tree.sent, outcome \in {"ok", "denied", "failed"} :
                   TreeReply(call, outcome)

-----------------------------------------------------------------------------
\* The pricer's state has its type.
TreeTypeOK == tree \in TreeStore

\* Prices that are neither being replaced nor about to be are those of the
\* quote, the expiry, the rate and the style on the screen, however the calls
\* overlap.
TreePricesAreForTheTicket ==
    tree.open /\ ~tree.timer /\ ~tree.loading /\ tree.results # Nil
      => tree.results = [spot |-> calc.spot, exp |-> TicketExpiry(calc),
                         rate |-> calc.rate, style |-> tree.style]
=============================================================================
