----------------------------- MODULE Calculator -----------------------------
(***************************************************************************)
(* The browser's calculator store (useCalculatorStore): the instrument in  *)
(* the header, its quote and option chain, the position, and the pricing   *)
(* calls that overlap.  A store function is an operator from a store to    *)
(* the next one, so that handlers that call each other compose here as     *)
(* they do in the source; what a user or a reply does in one turn of the   *)
(* event loop is one action.                                               *)
(***************************************************************************)
EXTENDS Naturals, Sequences, FiniteSets, Functions

CONSTANTS Nil,          \* null: no quote, no result, no chain
          Instruments,  \* [sym, cls]; one symbol may name two instruments
          Home,         \* the instrument the page opens on
          Listed(_),    \* the expiries listed for an instrument; {}: a curve
          LegKinds,     \* the kinds of leg a position is built from
          MaxLegs,      \* bound on the legs of a position
          MaxOps        \* bound on what the user does

VARIABLES calc,         \* the store and the calls in flight
          ops           \* what the user may still do

Unset    == ""          \* no expiry chosen
Expiries == (UNION {Listed(i) : i \in Instruments}) \union {Unset}

\* A chain names the expiry its rows are of: the one asked for, or another that
\* the server still had the rows of.
Chain == [inst: Instruments, exp: Expiries, rows: {"none", "asked", "other"}]

ASSUME CalculatorAssumption ==
    /\ Home \in Instruments
    /\ Nil \notin Chain
    /\ MaxLegs \in Nat \ {0} /\ MaxOps \in Nat

Legs     == Seq([inst: Instruments, kind: LegKinds, qty: 1..2])
Position == [inst: Instruments, legs: Legs]
Call     == [newest: BOOLEAN, inst: Instruments, legs: Legs]
ChainKey == Instruments \X Expiries
Ticket   == [contract: {"none", "unpriced", "priced"}, exp: Expiries]

Store == [inst: Instruments, legs: Legs, retired: Position \union {Nil},
          spot: Instruments \union {Nil},
          rate: {"pending", "measured", "unavailable", "user"},
          rateAsked: BOOLEAN,
          result: Position \union {Nil},
          isLoading: BOOLEAN, error: BOOLEAN,
          notReady: {"no", "ticket", "position"},
          gateDenied: BOOLEAN, modelLimit: BOOLEAN,
          chainStatus: {"idle", "loading", "ready", "error"},
          chain: Chain \union {Nil},
          selected: Expiries,
          ticket: Ticket,
          parked: SUBSET Call, sent: SUBSET Call,
          quotes: [Instruments -> Nat],
          loads: [ChainKey -> Nat]]

-----------------------------------------------------------------------------
(***************************************************************************)
(* calculateStrategy().  A call is parked while the risk-free rate is      *)
(* fetched, and sent once it is known.  calculationSeq, the token of the   *)
(* newest, is compared only to tell whether a call has been superseded.    *)
(***************************************************************************)
IsOption(l) == l.kind # "future"
HasIv(l)    == l.kind \in {"option", "today"}

\* The refusals before the rate: foreign legs, no spot price, options
\* without any implied volatility, nothing that lasts to tomorrow.
Unpriceable(c) ==
    LET legs == Range(c.legs) IN
    \/ \E l \in legs : l.inst # c.inst
    \/ c.spot = Nil
    \/ (\E l \in legs : IsOption(l)) /\ ~\E l \in legs : HasIv(l)
    \/ \A l \in legs : l.kind = "today"

RateKnown(c) == c.rate \in {"measured", "user"}

Superseded(calls) == {[k EXCEPT !.newest = FALSE] : k \in calls}

\* The part after the await.  A call that goes on does not look at its token.
Resume(c, calls) ==
    IF RateKnown(c)
    THEN [c EXCEPT !.isLoading = TRUE, !.error = FALSE,
                   !.sent = @ \union calls]
    ELSE IF \E k \in calls : k.newest
    THEN [c EXCEPT !.result = Nil, !.error = TRUE, !.notReady = "no",
                   !.isLoading = FALSE]
    ELSE c

Refuse(c, why) == [c EXCEPT !.result = Nil, !.notReady = why,
                            !.error = FALSE, !.isLoading = FALSE]

Calculate(c) ==
    LET call == [newest |-> TRUE, inst |-> c.inst, legs |-> c.legs]
        new  == [c EXCEPT !.parked = Superseded(@), !.sent = Superseded(@),
                          !.gateDenied = FALSE, !.modelLimit = FALSE,
                          !.notReady = "no"]
    IN  IF c.legs = <<>> THEN Refuse(new, "no")
        ELSE IF Unpriceable(c) THEN Refuse(new, "position")
        ELSE IF c.rate = "pending"
        THEN [new EXCEPT !.rateAsked = TRUE, !.parked = @ \union {call}]
        ELSE Resume(new, {call})

\* StrategyWorkspace's effect on [legs].
Effect(c) == IF c.legs = <<>> THEN c ELSE Calculate(c)

(***************************************************************************)
(* The chain, the quote and the position.                                  *)
(***************************************************************************)
LoadChain(c, wanted) ==
    [c EXCEPT !.chainStatus = "loading",
              !.loads[<<c.inst, IF wanted = Unset THEN c.selected
                                                  ELSE wanted>>] = @ + 1]

SetSelectedExpiration(c, e) == LoadChain([c EXCEPT !.selected = e], e)

\* setSymbol() up to its request for a quote; `restore' is Nil, or what an
\* Undo brings back.
Switched(c, i, price, restore) ==
    LET retire == i # c.inst /\ c.legs # <<>> /\ restore = Nil
        set    == [c EXCEPT
            !.inst = i, !.result = Nil, !.spot = price,
            !.legs = IF retire THEN <<>>
                     ELSE IF restore # Nil THEN restore.legs ELSE @,
            !.retired = IF retire THEN [inst |-> c.inst, legs |-> c.legs]
                        ELSE IF restore # Nil THEN Nil ELSE @,
            !.error = FALSE, !.notReady = "no",
            !.gateDenied = @ /\ ~retire, !.modelLimit = @ /\ ~retire,
            !.chain = Nil, !.selected = Unset, !.chainStatus = "idle"]
    IN  IF i.cls = "CRYPTO"
        THEN [set EXCEPT !.spot = Nil, !.chainStatus = "error"]
        ELSE LoadChain(set, Unset)

SetSymbol(c, i, restore) ==
    LET set == Switched(c, i, Nil, restore)
    IN  IF i.cls = "CRYPTO" THEN set ELSE [set EXCEPT !.quotes[i] = @ + 1]

\* A caller that brings a price: no quote is asked for.
SetSymbolAt(c, i, price) == Switched(c, i, price, Nil)

\* Mutants: the leg is not given its instrument; the offer to undo stays.
AddLegUntagged(c, kind) ==
    [c EXCEPT !.legs = Append(@, [inst |-> Nil, kind |-> kind, qty |-> 1]),
              !.retired = Nil]

AddLegKeepsUndo(c, kind) ==
    [c EXCEPT !.legs = Append(@, [inst |-> c.inst, kind |-> kind, qty |-> 1])]

AddLeg(c, kind) ==
    [c EXCEPT !.legs = Append(@, [inst |-> c.inst, kind |-> kind, qty |-> 1]),
              !.retired = Nil]

RemoveLegAt(c, n) ==
    LET left == [k \in 1..(Len(c.legs) - 1) |-> c.legs[IF k < n THEN k ELSE k + 1]]
        none == left = <<>>
    IN  [c EXCEPT !.legs = left,
                  !.result = IF none THEN Nil ELSE @,
                  !.gateDenied = @ /\ ~none, !.modelLimit = @ /\ ~none,
                  !.notReady = IF none THEN "no" ELSE @]

ClearLegs(c) ==
    [c EXCEPT !.legs = <<>>, !.result = Nil, !.gateDenied = FALSE,
              !.modelLimit = FALSE, !.notReady = "no"]

\* The other quantity stands for any change of a leg that can still be priced.
UpdateLeg(c, n) == [c EXCEPT !.legs[n].qty = 3 - @]

-----------------------------------------------------------------------------
(***************************************************************************)
(* What the user does.                                                     *)
(***************************************************************************)
Spend == ops > 0 /\ ops' = ops - 1

SwitchSymbol(i) == Spend /\ calc' = SetSymbol(calc, i, Nil)

Undo ==
    /\ calc.retired # Nil /\ calc.legs = <<>>
    /\ Spend
    /\ calc' = Effect(SetSymbol(calc, calc.retired.inst, calc.retired))

\* What the selects list of the last chain stays while another one loads; a
\* chain may list expiries and hold no contract.
ExpiriesShown(c) == c.chain # Nil /\ Listed(c.chain.inst) # {}
StrikesShown(c)  == ExpiriesShown(c) /\ c.chain.rows # "none"
CurveShown(c)    == /\ c.chain # Nil /\ Listed(c.chain.inst) = {}
                    /\ c.chain.rows # "none"

\* From the chain, whose rows are drawn when it is ready, a strike brings the
\* expiry selected above it; in the ticket it leaves the ticket's own.
PickStrike(px, exp) ==
    /\ StrikesShown(calc) /\ calc.inst.cls # "FUTURES"
    /\ \/ exp = calc.ticket.exp
       \/ exp = calc.selected /\ calc.chainStatus = "ready"
    /\ Spend
    /\ calc' = [calc EXCEPT !.ticket = [contract |-> px, exp |-> exp]]

PickExpiry(e) ==
    /\ ExpiriesShown(calc) /\ e \in Listed(calc.chain.inst)
    /\ Spend
    /\ calc' = SetSelectedExpiration(
                 [calc EXCEPT !.ticket = [contract |-> "none", exp |-> e]], e)

\* commitTicket() behind its button, which wants a strike with a price: a
\* ticket whose expiry the chain does not list is refused.
CommitTicket(kind) ==
    LET exp == IF calc.ticket.exp # Unset THEN calc.ticket.exp
                                          ELSE calc.selected
    IN  /\ calc.inst.cls # "FUTURES" /\ calc.ticket.contract = "priced"
        /\ Len(calc.legs) < MaxLegs /\ kind # "future"
        /\ Spend
        /\ calc' = IF ExpiriesShown(calc) /\ exp \in Listed(calc.chain.inst)
                   THEN Effect([AddLeg(calc, kind) EXCEPT
                                  !.error = FALSE, !.notReady = "no"])
                   ELSE [calc EXCEPT !.error = FALSE, !.notReady = "ticket"]

AddFuture ==
    /\ calc.inst.cls = "FUTURES" /\ CurveShown(calc)
    /\ Len(calc.legs) < MaxLegs /\ "future" \in LegKinds
    /\ Spend
    /\ calc' = Effect(AddLeg(calc, "future"))

\* StrategySelector.apply(): the position is replaced, by nothing when an
\* option strategy is applied to a futures curve.
ApplyStrategy(kind) ==
    /\ \/ kind = "future" /\ calc.inst.cls = "FUTURES" /\ CurveShown(calc)
       \/ kind # "future" /\ calc.spot # Nil /\ calc.chainStatus = "ready"
    /\ Spend
    /\ calc' = IF kind # "future" /\ CurveShown(calc) THEN ClearLegs(calc)
               ELSE Effect(AddLeg(ClearLegs(calc), kind))

RemoveLeg(n) == Spend /\ calc' = Effect(Calculate(RemoveLegAt(calc, n)))

EditLeg(n) == Spend /\ calc' = Effect(Calculate(UpdateLeg(calc, n)))

ClearPosition ==
    calc.legs # <<>> /\ Spend /\ calc' = Effect(ClearLegs(calc))

\* A new window for the matrix, or the Recalculate button.
Recalculate == Spend /\ calc' = Calculate(calc)

SetRiskFreeRate == Spend /\ calc' = [calc EXCEPT !.rate = "user"]

UserStep ==
    \/ \E i \in Instruments : SwitchSymbol(i)
    \/ Undo
    \/ \E px \in {"unpriced", "priced"}, e \in Expiries : PickStrike(px, e)
    \/ \E e \in Expiries : PickExpiry(e)
    \/ \E kind \in LegKinds : CommitTicket(kind) \/ ApplyStrategy(kind)
    \/ AddFuture
    \/ \E n \in DOMAIN calc.legs : RemoveLeg(n) \/ EditLeg(n)
    \/ ClearPosition \/ Recalculate \/ SetRiskFreeRate

-----------------------------------------------------------------------------
(***************************************************************************)
(* What the network answers, in any order.  A quote and a chain are        *)
(* compared with the symbol in the header, a calculation with the newest   *)
(* token.                                                                  *)
(***************************************************************************)
\* Mutant: a quote does not start the calculation that waited for it.
QuoteReplySilent(i, ok) ==
    LET c == [calc EXCEPT !.quotes[i] = @ - 1] IN
    /\ calc.quotes[i] > 0
    /\ calc' = IF c.inst.sym # i.sym THEN c
               ELSE IF ok THEN [c EXCEPT !.spot = i, !.error = FALSE]
               ELSE [c EXCEPT !.spot = Nil, !.error = TRUE, !.notReady = "no"]
    /\ UNCHANGED ops

QuoteReply(i, ok) ==
    LET c == [calc EXCEPT !.quotes[i] = @ - 1] IN
    /\ calc.quotes[i] > 0
    /\ calc' = IF c.inst.sym # i.sym THEN c
               ELSE IF ok THEN Effect([c EXCEPT !.spot = i, !.error = FALSE])
               ELSE [c EXCEPT !.spot = Nil, !.error = TRUE, !.notReady = "no"]
    /\ UNCHANGED ops

\* OptionTicket's effect: an empty ticket opens at the money, if that row is
\* there and has a quote.
Seeded(c) ==
    IF c.ticket.contract = "none" /\ c.inst.cls # "FUTURES" /\ StrikesShown(c)
    THEN {[c EXCEPT !.ticket.contract = px] : px \in {"none", "unpriced", "priced"}}
    ELSE {c}

\* Mutant: the ticket keeps its expiry.
ChainLandedTicketKept(c, chain, label) ==
    [c EXCEPT !.chain = chain, !.selected = label,
              !.chainStatus = IF chain.rows = "none" THEN "error" ELSE "ready"]

\* The expiry above the rows, and the ticket's, is the one asked for.
ChainLanded(c, chain, label) ==
    [c EXCEPT !.chain = chain, !.selected = label, !.ticket.exp = label,
              !.chainStatus = IF chain.rows = "none" THEN "error" ELSE "ready"]

NoChain(c) == [c EXCEPT !.chain = Nil, !.chainStatus = "error"]

\* fetch_chain(): the rows of the expiry wanted, or of one listed when none is;
\* an upstream failure is hidden behind the last good chain of that expiry or,
\* without one, of any other of the symbol.
Answers(i, wanted) ==
    LET asked == IF wanted # Unset THEN {wanted}
                 ELSE IF Listed(i) # {} THEN Listed(i) ELSE {Unset}
    IN  [inst: {i}, exp: asked, rows: {"asked", "none"}]
        \union [inst: {i}, exp: Listed(i) \ asked, rows: {"other"}]

ChainReply(i, wanted) ==
    LET c == [calc EXCEPT !.loads[<<i, wanted>>] = @ - 1]
    IN  /\ calc.loads[<<i, wanted>>] > 0
        /\ IF c.inst.sym # i.sym THEN calc' = c
           ELSE \/ \E chain \in Answers(i, wanted) :
                     LET label == IF wanted # Unset THEN wanted ELSE chain.exp
                     IN  calc' \in Seeded(ChainLanded(c, chain, label))
                \/ calc' = NoChain(c)
        /\ UNCHANGED ops

\* Mutant: the feed's answer is taken whoever set the rate.
RateReplyOverwrites(ok) ==
    LET c == [calc EXCEPT !.rate = IF ok THEN "measured" ELSE "unavailable",
                          !.rateAsked = FALSE, !.parked = {}]
    IN  /\ calc.rateAsked
        /\ calc' = IF calc.parked = {} THEN c ELSE Resume(c, calc.parked)
        /\ UNCHANGED ops

\* The rate lands, and the parked calls go on in the same turn.
RateReply(ok) ==
    LET c == [calc EXCEPT !.rate = IF @ = "user" THEN "user"
                                   ELSE IF ok THEN "measured" ELSE "unavailable",
                          !.rateAsked = FALSE, !.parked = {}]
    IN  /\ calc.rateAsked
        /\ calc' = IF calc.parked = {} THEN c ELSE Resume(c, calc.parked)
        /\ UNCHANGED ops

\* What a reply to the newest call puts on the screen.
Land(c, call, outcome) ==
    [c EXCEPT !.isLoading = FALSE, !.notReady = "no",
              !.result = IF outcome = "ok"
                         THEN [inst |-> call.inst, legs |-> call.legs] ELSE Nil,
              !.error      = outcome = "failed",
              !.gateDenied = outcome = "denied",
              !.modelLimit = outcome = "limit"]

\* Mutant: the token is not looked at.
CalcReplyAny(call, outcome) ==
    /\ calc' = Land([calc EXCEPT !.sent = @ \ {call}], call, outcome)
    /\ UNCHANGED ops

CalcReply(call, outcome) ==
    LET c == [calc EXCEPT !.sent = @ \ {call}] IN
    /\ calc' = IF call.newest THEN Land(c, call, outcome) ELSE c
    /\ UNCHANGED ops

NetworkStep ==
    \/ \E i \in Instruments, ok \in BOOLEAN : QuoteReply(i, ok)
    \/ \E i \in Instruments, e \in Expiries : ChainReply(i, e)
    \/ \E ok \in BOOLEAN : RateReply(ok)
    \/ \E call \in calc.sent, outcome \in {"ok", "denied", "limit", "failed"} :
         CalcReply(call, outcome)

-----------------------------------------------------------------------------
\* The store as it is created, and once the page is mounted: TopBar
\* asks for the rate, StrategyWorkspace for the symbol.
Created(i) ==
    [inst |-> i, legs |-> <<>>, retired |-> Nil, spot |-> Nil,
     rate |-> "pending", rateAsked |-> FALSE, result |-> Nil,
     isLoading |-> FALSE, error |-> FALSE, notReady |-> "no",
     gateDenied |-> FALSE, modelLimit |-> FALSE,
     chainStatus |-> "idle", chain |-> Nil, selected |-> Unset,
     ticket |-> [contract |-> "none", exp |-> Unset],
     parked |-> {}, sent |-> {},
     quotes |-> [j \in Instruments |-> 0],
     loads |-> [l \in ChainKey |-> 0]]

CalcInit ==
    /\ calc = [SetSymbol(Created(Home), Home, Nil) EXCEPT !.rateAsked = TRUE]
    /\ ops = MaxOps

CalcNext == UserStep \/ NetworkStep

CalcSpec == CalcInit /\ [][CalcNext]_<<calc, ops>>

-----------------------------------------------------------------------------
\* The store has its type.
CalcTypeOK == calc \in Store /\ Len(calc.legs) <= MaxLegs /\ ops \in 0..MaxOps

\* "A position belongs to ONE instrument": no leg is ever under the header of
\* another, and the offered Undo never covers a newer position.
PositionIsOfTheHeader ==
    /\ \A l \in Range(calc.legs) : l.inst = calc.inst
    /\ calc.retired # Nil => calc.legs = <<>>

\* However the calls overlap: an answer that is not being replaced is the one
\* for the legs and the instrument on the screen, and no refusal, which would
\* be drawn over it, stands beside it.
ShownAnswerIsForTheLegs ==
    calc.result # Nil /\ calc.legs # <<>> /\ ~calc.isLoading =>
        /\ calc.result = [inst |-> calc.inst, legs |-> calc.legs]
        /\ ~calc.gateDenied /\ ~calc.modelLimit

\* Chain replies land in any order, and still the chain on the screen is of the
\* symbol in the header, the ticket commits the expiry selected above it, and
\* the rows are of that expiry, unless the server had only those of another.
ChainIsTheOneSelected ==
    calc.chainStatus = "ready" =>
        /\ calc.chain # Nil /\ calc.chain.inst.sym = calc.inst.sym
        /\ calc.ticket.exp = calc.selected
        /\ calc.chain.exp = calc.selected \/ calc.chain.rows = "other"

\* The feed's rate, asked for before, does not replace the user's.
TypedRateStays == [][calc.rate = "user" => calc'.rate = "user"]_calc

\* A position that can be priced is not left without an answer or a running
\* calculation: a quote or a rate that comes after the legs starts it, where
\* nothing else would.
Priceable == calc.legs # <<>> /\ ~Unpriceable(calc) /\ RateKnown(calc)
Answered  == \/ calc.result # Nil \/ calc.isLoading \/ calc.error
             \/ calc.gateDenied \/ calc.modelLimit \/ calc.notReady = "ticket"

PricedPositionIsAnswered == Priceable ~> Answered \/ ~Priceable

\* useCalculatorStore.ts: "or an older request lands a result for a position
\* that has since been emptied", and of the denial that it "cannot outlive
\* the position that provoked it".
NothingForAnEmptyPosition ==
    calc.legs = <<>> => /\ calc.result = Nil
                        /\ ~calc.gateDenied /\ ~calc.modelLimit
=============================================================================
