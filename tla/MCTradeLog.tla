------------------------------ MODULE MCTradeLog ------------------------------
(***************************************************************************)
(* A small instance of TradeLog: a recommendation source whose requests    *)
(* run in several threads, and a momentum source fed by one sweep thread.  *)
(***************************************************************************)
EXTENDS TradeLog

CONSTANTS none, s1, s2, req1, req2, sweep

MCSources  == {"reco", "momentum"}
MCSourceOf == [r \in Recorders |-> IF r = sweep THEN "momentum" ELSE "reco"]

P(s, e, st, t) == [sym |-> s, entry |-> e, stop |-> st, target |-> t, horizon |-> 1]

\* One BUY per request, with stop and target; a sweep publishes several picks,
\* possibly the same name twice or without a usable entry, and never a stop.
MCPublished ==
  [s \in MCSources |->
     IF s = "reco" THEN {<<P(s1, 2, 1, 3)>>}
     ELSE {<<P(s1, 2, none, 3), P(s1, 2, none, none)>>,
           <<P(s2, none, none, 3), P(s1, 2, none, 3)>>}]
===============================================================================
