------------------------------ MODULE MCLedger ------------------------------
(***************************************************************************)
(* Small instances of the parts that keep the track record, one per        *)
(* behaviour: the replay next to one live sweep (one symbol, three bars),  *)
(* the replay's own pool (two workers, a boot thread and the route, a      *)
(* restart), and one investment case (four symbols, two prices a factor    *)
(* two apart).  Two more histories by themselves (AgainSpec, StruckSpec)   *)
(* refute what the code says of a restarted replay and of a strike.        *)
(*                                                                         *)
(* The tables of the parts that rest keep their initial state, so that an  *)
(* invariant of one part is checked in every behaviour.                    *)
(***************************************************************************)
EXTENDS Backfill, Cases

CONSTANTS s1, s2, s3, s4, sweep, w1, w2, boot, route
VARIABLE focus

\* One engine: its live picks have no stop, the first symbol's replayed ones do.
Call(s, st) == [sym |-> s, entry |-> 2, stop |-> st, target |-> 3, horizon |-> 1]
MCSources == {"momentum"}
MCSourceOf == [r \in Recorders |-> "momentum"]
MCPublished == [s \in Sources |-> {<<Call(s1, None)>>}]
MCReplayPicks == [s \in Sources |-> {Call(s1, 1), Call(s2, None)}]

\* The case's screens: a full ranking with cheap legs and a dear reserve, a dear one with
\* the order changed and a leg broken, a group too thin for a case.
Scr(r, dear, w) == [rank |-> r, price |-> [s \in Stocks |-> IF s \in dear THEN 4 ELSE 2], weak |-> w]
MCScreensSeen == {Scr(<<s1, s2, s3, s4>>, {s3}, {}), Scr(<<s3, s2, s4>>, {s3, s4}, {s1}), Scr(<<s2>>, {}, {s1, s3})}

ASSUME LedgerAssumptions == BackfillAssumptions /\ CasesAssumptions

ledgerVars == <<focus, allVars, caseVars>>

\* Beside the sweep: one run of one worker over one symbol, begun by the boot thread.
BesideSweep ==
  /\ wSym'[w2] = None /\ callPc'[route] = "idle" /\ bfTodo' \subseteq {s1}
  /\ runs' <= 1 /\ restarts' = 0
\* The pool by itself: no sweep, one row, opened on the first bar and settled on the next.
PoolAlone ==
  /\ UNCHANGED recVars /\ Len(rows') <= 1
  /\ \A w \in Workers : wBar'[w] = 1 /\ \A s \in Replayed : wBusy'[w][s] \in {0, 2, NBars + 1}
  /\ \A s \in Symbols : prices'[s] \in {2, None}
\* The replay cut short and begun again: one worker over one symbol, no route.
CutShort ==
  /\ wSym'[w2] = None /\ callPc'[route] = "idle" /\ bfTodo' \subseteq {s1}
  /\ UNCHANGED recVars /\ Len(rows') <= 2

LedgerInit == focus \in {"live", "pool", "cases"} /\ BInit /\ CaseInit
LedgerNext ==
  /\ UNCHANGED focus
  /\ \/ focus = "live" /\ BNext /\ BesideSweep /\ UNCHANGED caseVars
     \/ focus = "pool" /\ BNext /\ PoolAlone /\ UNCHANGED caseVars
     \/ focus = "cases" /\ CaseNext /\ UNCHANGED allVars
LedgerSpec ==
  /\ LedgerInit /\ [][LedgerNext]_ledgerVars
  /\ WF_ledgerVars(focus = "pool" /\ RunSteps /\ UNCHANGED <<focus, caseVars>>)
  /\ WF_ledgerVars(focus = "cases" /\ PassStep /\ UNCHANGED <<focus, allVars>>)
AgainSpec ==
  focus = "again" /\ BInit /\ CaseInit /\ [][BNext /\ CutShort /\ UNCHANGED <<focus, caseVars>>]_ledgerVars
\* A case that no pass dies in.
StruckSpec ==
  /\ focus = "cases" /\ BInit /\ CaseInit
  /\ [][CaseNext /\ died' = {} /\ UNCHANGED <<focus, allVars>>]_ledgerVars
-------------------------------------------------------------------------------
\* Every state is well typed, and the legs of a case never weigh more than its basket.
Types == BTypeOK /\ CaseTypeOK /\ WithinWhole
\* A run of the replay ends, and so does a pass over the cases.
RunsEnd ==
  /\ (focus = "pool" /\ bfPhase # "off") ~> (bfPhase = "off")
  /\ (focus = "cases" /\ pc # "idle") ~> (pc = "idle")
===============================================================================
