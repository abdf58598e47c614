---------------------------- MODULE MCWorkspace ----------------------------
(* The calculator page on an equity, a futures root and a coin that has no *)
(* feed.                                                                   *)
EXTENDS Workspace

Instrument(sym, cls) == [sym |-> sym, cls |-> cls]
SPY == Instrument("SPY", "EQUITY")
ES  == Instrument("ES", "FUTURES")
BTC == Instrument("BTC", "CRYPTO")

MCInstruments == {SPY, ES, BTC}
MCListed(i)   == IF i.cls = "EQUITY" THEN {"e1", "e2"} ELSE {}

\* classify() gives these symbols the class they have here.
MCClassify(i) == i
=============================================================================
