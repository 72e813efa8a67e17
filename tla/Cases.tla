-------------------------------- MODULE Cases --------------------------------
(***************************************************************************)
(* One investment basket of cases.py: struck once a year from the screen,  *)
(* reviewed every few hours by a single background pass, kept in three     *)
(* tables (the case, its holdings, its action ledger).  Every statement of *)
(* a pass commits on its own, so a pass that dies leaves what it had done. *)
(* A pass takes the cases one after the other and they share no rows: one  *)
(* case is modelled.  Scores decide only ranks, so a vintage's weights are *)
(* equal shares of Whole.                                                  *)
(***************************************************************************)
EXTENDS Filters, FiniteSets, SequencesExt, FiniteSetsExt

CONSTANTS
  Stocks, Null,
  SharePrices,  \* what a share may cost
  Screens,      \* the states of the screen a pass may find: see Screen
  Quotes,       \* what a quote of a symbol may be: prices, Null
  TargetN, MinN, ReserveN,   \* TARGET_N, MIN_N, RESERVE_N
  Whole,        \* the units the basket's weights are counted in
  Step,         \* the minimum investment is a multiple of it
  MaxYear, MaxPasses, MaxFaults   \* bounds of the model

\* The rows of the screen with MIN_SCORE or more and in this case's group, best
\* score first, their prices, and the symbols scored below EXIT_SCORE.
Screen == [rank : Seq(Stocks), price : [Stocks -> SharePrices], weak : SUBSET Stocks]

\* What a run's constants must satisfy.
CasesAssumptions ==
  /\ SharePrices \subseteq Nat \ {0} /\ Quotes \subseteq SharePrices \cup {Null} /\ Null \notin Stocks
  /\ Screens \subseteq Screen
  /\ \A sc \in Screens : IsInjective(sc.rank) /\ Range(sc.rank) \cap sc.weak = {}
  /\ TargetN \in Nat /\ MinN \in 1 .. TargetN /\ ReserveN \in Nat
  /\ \A n \in MinN .. TargetN : Whole % n = 0
  /\ {Whole, Step, MaxYear, MaxPasses} \subseteq Nat \ {0} /\ MaxFaults \in Nat

VARIABLES
  year,      \* the calendar year
  case,      \* the row of table cases: vintage, minimum investment, date; or NoCase
  holdings,  \* table case_holdings, in insertion order
  ledger,    \* table case_actions, in insertion order
  pc,        \* where the pass stands; "idle" when there is no thread
  asOf,      \* the year the pass took its time in
  picked,    \* constituents still to be inserted
  bench,     \* the fresh build's reserve
  weak,      \* symbols the pass saw scored below EXIT_SCORE
  moves,     \* engine actions not yet executed
  held,      \* apply_actions' dict: symbol -> id of its row, 0 when absent
  move,      \* the action under way
  passes, died   \* history: passes started (their timestamps), those that died

passVars == <<pc, asOf, picked, bench, weak, moves, held, move>>
caseVars == <<year, case, holdings, ledger, passVars, passes, died>>

NoCase  == [vintage |-> 0, mi |-> 0, rebalanced |-> 0]
NoMove  == [action |-> "none", sym |-> Null, price |-> Null]
Nothing == [s \in Stocks |-> 0]
HoldingIds == DOMAIN holdings
IsLive(h) == h.status \in {"held", "booked"}
LiveIds == {i \in HoldingIds : IsLive(holdings[i])}

CaseInit ==
  /\ year = 1 /\ case = NoCase /\ holdings = <<>> /\ ledger = <<>>
  /\ pc = "idle" /\ asOf = 1 /\ picked = <<>> /\ bench = <<>> /\ weak = {}
  /\ moves = {} /\ held = Nothing /\ move = NoMove
  /\ passes = 0 /\ died = {}

------------------------------------------------------------------------------
\* min_investment: enough for one share of the dearest leg at its weight,
\* rounded up to the step.  Variant: rounded down.
Needed(ps) == Max({p.price : p \in Range(ps)}) * Len(ps)
RoundDown(ps) == Step * (Needed(ps) \div Step)
MinInvestment(ps) == Step * ((Needed(ps) + Step - 1) \div Step)

\* allocate, _shares_for: whole shares of a leg at the minimum investment.
SharesFor(mi, w, px) == (mi * w) \div (Whole * px)

Leg(s, w, px, mi) ==
  [sym |-> s, weight |-> w, entry |-> px, shares |-> SharesFor(mi, w, px),
   status |-> "held", added |-> passes, out |-> 0]
Log(a, s) == ledger' = Append(ledger, [action |-> a, sym |-> s, at |-> passes])

\* ensure_built, _run: one pass at a time.
StartPass ==
  /\ pc = "idle" /\ passes < MaxPasses
  /\ passes' = passes + 1 /\ pc' = "rows"
  /\ UNCHANGED <<year, case, holdings, ledger, asOf, picked, bench, weak, moves, held, move, died>>

\* A pass is running, or the last one is recent enough: nothing is started.
Refused == (pc # "idle" \/ passes > 0) /\ UNCHANGED caseVars

\* _run: the screen has no rows yet.  Variant: the early return keeps the thread.
WaitingStuck == pc = "rows" /\ pc' = "waiting"
Waiting == pc = "rows" /\ pc' = "idle"
NotReady ==
  /\ Waiting
  /\ UNCHANGED <<year, case, holdings, ledger, asOf, picked, bench, weak, moves, held, move,
                 passes, died>>

\* build_cases, the first half of build_and_review: a group too small for a
\* case builds nothing; a vintage is struck when there is none or it is old.
\* Variant: every pass strikes.
Priced(sc, ss) == [i \in DOMAIN ss |-> [sym |-> ss[i], price |-> sc.price[ss[i]]]]
DueAlways == TRUE
Due == case = NoCase \/ case.vintage < year
Build(sc) ==
  LET built == Len(sc.rank) >= MinN
      strike == built /\ Due
  IN  /\ pc = "rows"
      /\ asOf' = year /\ weak' = sc.weak
      /\ picked' = IF strike THEN Priced(sc, SubSeq(sc.rank, 1, Min({TargetN, Len(sc.rank)})))
                             ELSE <<>>
      /\ bench' = IF built THEN Priced(sc, SubSeq(sc.rank, TargetN + 1,
                                                  Min({TargetN + ReserveN, Len(sc.rank)})))
                           ELSE <<>>
      /\ pc' = IF strike THEN "upsert" ELSE "review"
      /\ UNCHANGED <<year, case, holdings, ledger, moves, held, move, passes, died>>

\* save_case: the case's row, then the old holdings, then the new ones, the log.
Upsert ==
  /\ pc = "upsert" /\ pc' = "close"
  /\ case' = [vintage |-> asOf, mi |-> MinInvestment(picked), rebalanced |-> passes]
  /\ UNCHANGED <<year, holdings, ledger, asOf, picked, bench, weak, moves, held, move, passes, died>>

\* Variants: nothing is closed; whatever its status, a row is.
ClosedNone(h) == h
ClosedAll(h) == [h EXCEPT !.status = "rebalanced", !.out = passes]
Closed(h) == IF h.status = "held" THEN [h EXCEPT !.status = "rebalanced", !.out = passes] ELSE h
CloseOld ==
  /\ pc = "close" /\ pc' = "insert"
  /\ holdings' = [i \in HoldingIds |-> Closed(holdings[i])]
  /\ UNCHANGED <<year, case, ledger, asOf, picked, bench, weak, moves, held, move, passes, died>>

\* Of the picked ones, those inserted have gone from the list; every leg has
\* the weight of an equal share.
StrikeSize == Len(picked) + Cardinality({i \in HoldingIds : holdings[i].added = passes})
InsertLeg ==
  /\ pc = "insert" /\ picked # <<>>
  /\ holdings' = Append(holdings, Leg(Head(picked).sym, Whole \div StrikeSize,
                                      Head(picked).price, case.mi))
  /\ picked' = Tail(picked)
  /\ UNCHANGED <<year, case, ledger, pc, asOf, bench, weak, moves, held, move, passes, died>>
LogStrike ==
  /\ pc = "insert" /\ picked = <<>> /\ pc' = "review"
  /\ Log("rebalance", Null)
  /\ UNCHANGED <<year, case, holdings, asOf, picked, bench, weak, moves, held, move, passes, died>>

------------------------------------------------------------------------------
\* review_actions: exits first, on the score or the loss; else a runner is booked.
Broken(h, q) == h.sym \in weak \/ q * 100 <= h.entry * 65
Runner(h, q) == q * 100 >= h.entry * 160
Decide(h, q) ==
  IF Broken(h, q) THEN "exit" ELSE IF Runner(h, q) THEN "book" ELSE "none"
Reviewed(h) == h.status = "held"
Decisions(q) ==
  {[action |-> Decide(holdings[i], q[holdings[i].sym]), sym |-> holdings[i].sym,
    price |-> q[holdings[i].sym]] :
     i \in {j \in HoldingIds : Reviewed(holdings[j]) /\ q[holdings[j].sym] # Null}}

\* apply_actions' dict: rows come heaviest first, the last one of a symbol stays.
RowOf(s) ==
  LET mine == {i \in LiveIds : holdings[i].sym = s} IN
  IF mine = {} THEN 0
  ELSE CHOOSE i \in mine : \A j \in mine : holdings[i].weight <= holdings[j].weight

\* Live legs are priced and judged; without quotes the case is left alone.
Review ==
  /\ pc = "review"
  /\ \/ \E q \in [{holdings[i].sym : i \in LiveIds} -> Quotes] :
          moves' = {m \in Decisions(q) : m.action # "none"}
     \/ moves' = {}
  /\ held' = [s \in Stocks |-> RowOf(s)]
  /\ pc' = "act"
  /\ UNCHANGED <<year, case, holdings, ledger, asOf, picked, bench, weak, move, passes, died>>

\* apply_actions, one decision: the row is updated.  Decisions come in the order
\* of the weights, which are equal here: the order is left open.
Apply(m) ==
  LET h == held[m.sym] IN
  /\ pc = "act" /\ m \in moves
  /\ \/ /\ m.action = "exit"
        /\ holdings' = [holdings EXCEPT ![h] = [@ EXCEPT !.status = "exited", !.out = passes]]
     \/ /\ m.action = "book"
        /\ holdings' = [holdings EXCEPT ![h] = [@ EXCEPT !.status = "booked",
                                                         !.weight = holdings[h].weight \div 2]]
  /\ moves' = moves \ {m} /\ move' = m /\ pc' = "log"
  /\ UNCHANGED <<year, case, ledger, asOf, picked, bench, weak, held, passes, died>>

\* Variant: a booking is not written down: it closes nothing.
LogMoveUnlessBooked == IF move.action = "book" THEN UNCHANGED ledger ELSE Log(move.action, move.sym)
LogMove == Log(move.action, move.sym)
WriteMove ==
  /\ pc = "log" /\ LogMove
  /\ pc' = IF move.action = "exit" THEN "refill" ELSE "act"
  /\ UNCHANGED <<year, case, holdings, asOf, picked, bench, weak, moves, held, move, passes, died>>

\* _next_from_bench.  Variants: the leg just sold counts as free; only the
\* first on the list is looked at.
FreeNamesSold == {i \in DOMAIN bench : held[bench[i].sym] = 0 \/ bench[i].sym = move.sym}
FreeNamesFirst == {i \in DOMAIN bench : i = 1 /\ held[bench[i].sym] = 0}
FreeNames == {i \in DOMAIN bench : held[bench[i].sym] = 0}
Refill ==
  /\ pc = "refill" /\ FreeNames # {}
  /\ LET b == bench[Min(FreeNames)] IN
       /\ holdings' = Append(holdings, Leg(b.sym, holdings[held[move.sym]].weight, b.price, case.mi))
       /\ held' = [held EXCEPT ![b.sym] = Len(holdings) + 1]
       /\ move' = [action |-> "add", sym |-> b.sym, price |-> b.price]
  /\ pc' = "log"
  /\ UNCHANGED <<year, case, ledger, asOf, picked, bench, weak, moves, passes, died>>
LeaveOpen ==
  /\ pc = "refill" /\ FreeNames = {} /\ pc' = "act"
  /\ UNCHANGED <<year, case, holdings, ledger, asOf, picked, bench, weak, moves, held, move,
                 passes, died>>

EndPass ==
  /\ pc = "act" /\ moves = {} /\ pc' = "idle"
  /\ UNCHANGED <<year, case, holdings, ledger, asOf, picked, bench, weak, moves, held, move,
                 passes, died>>

\* A statement raises and _run swallows it, or the process dies under the pass.
Fault ==
  /\ pc # "idle" /\ Cardinality(died) < MaxFaults
  /\ died' = died \cup {passes} /\ pc' = "idle"
  /\ UNCHANGED <<year, case, holdings, ledger, asOf, picked, bench, weak, moves, held, move, passes>>

NewYear ==
  /\ year < MaxYear /\ year' = year + 1
  /\ UNCHANGED <<case, holdings, ledger, passVars, passes, died>>

PassStep ==
  \/ NotReady \/ \E sc \in Screens : Build(sc)
  \/ Upsert \/ CloseOld \/ InsertLeg \/ LogStrike
  \/ Review \/ (\E m \in moves : Apply(m)) \/ WriteMove \/ Refill \/ LeaveOpen \/ EndPass
CaseNext == StartPass \/ Refused \/ PassStep \/ Fault \/ NewYear
CaseSpec == CaseInit /\ [][CaseNext]_caseVars
\* The pass is one thread: it keeps going until it ends.
CaseFairSpec == CaseSpec /\ WF_caseVars(PassStep)

------------------------------------------------------------------------------
Holding == [sym : Stocks, weight : 0 .. Whole, entry : SharePrices, shares : Nat,
            status : {"held", "booked", "exited", "rebalanced"}, added : Nat, out : Nat]
CaseTypeOK ==
  /\ year \in 1 .. MaxYear /\ case \in [vintage : 0 .. year, mi : Nat, rebalanced : 0 .. passes]
  /\ holdings \in Seq(Holding)
  /\ ledger \in Seq([action : {"rebalance", "exit", "book", "add"}, sym : Stocks \cup {Null}, at : Nat])
  /\ pc \in {"idle", "rows", "upsert", "close", "insert", "review", "act", "log", "refill"}
  /\ moves \subseteq [action : {"exit", "book"}, sym : Stocks, price : SharePrices]
  /\ held \in [Stocks -> 0 .. Len(holdings)]
  /\ passes \in Nat /\ died \subseteq 1 .. passes

\* No symbol is ever held twice, whatever vintages, refills and faults came
\* before: a refill skips what the basket has, a strike closes what it had.
NoSymbolHeldTwice ==
  \A i, j \in HoldingIds :
    holdings[i].status = "held" /\ holdings[j].status = "held" /\ holdings[i].sym = holdings[j].sym
    => i = j

\* A pass never buys back what it has just sold (apply_actions keeps sold names
\* in its dict): the seat goes to another name.
NoRoundTrip ==
  \A k, l \in DOMAIN ledger :
    ledger[k].action = "exit" /\ ledger[l].action = "add" /\ ledger[k].at = ledger[l].at
    => ledger[k].sym # ledger[l].sym

\* "Every one of those moves is written to an action ledger": the ledger and the
\* holdings tell one story, move by move and pass by pass.
Entered(a, s, t) == \E k \in DOMAIN ledger : ledger[k] = [action |-> a, sym |-> s, at |-> t]
Struck(t) == Entered("rebalance", Null, t)
Sold(h, t)   == h.status = "exited" /\ h.out = t
Turned(h, t) == h.status = "rebalanced" /\ h.out = t

\* What is written down has happened: a name entered as sold or added was, in
\* that pass; a booked one is half booked, or has been sold since; and a strike
\* has brought legs in and left none of the older ones held.
EntryTrue(e) ==
  /\ e.action = "exit" => \E i \in HoldingIds : holdings[i].sym = e.sym /\ Sold(holdings[i], e.at)
  /\ e.action = "add"  => \E i \in HoldingIds : holdings[i].sym = e.sym /\ holdings[i].added = e.at
  /\ e.action = "book" => \E i \in HoldingIds :
       /\ holdings[i].sym = e.sym /\ holdings[i].added <= e.at
       /\ holdings[i].status = "booked" \/ (holdings[i].status = "exited" /\ holdings[i].out >= e.at)
  /\ e.action = "rebalance" =>
       /\ \E i \in HoldingIds : holdings[i].added = e.at
       /\ \A i \in HoldingIds : holdings[i].status = "held" => holdings[i].added >= e.at

\* Rows a pass sold, closed or added that the ledger has no word of.
Untold(i, t) ==
  LET h == holdings[i] IN
  \/ Sold(h, t) /\ ~Entered("exit", h.sym, t)
  \/ Turned(h, t) /\ ~Struck(t)
  \/ h.added = t /\ ~Entered("add", h.sym, t) /\ ~Struck(t)

\* A pass that has ended has written all its moves down.  One that died is short
\* of one move, the one it died in, or of the whole of a strike and then it wrote
\* nothing; and what it did write has happened.  A booking carries no date of its
\* own: it is entered in a pass after the leg came in.
Ended(t) == t \notin died /\ (t < passes \/ pc = "idle")
WrittenBy(t) == {k \in DOMAIN ledger : ledger[k].at = t}
BookingTold(i) ==
  holdings[i].status = "booked" =>
    \E t \in holdings[i].added .. passes : Entered("book", holdings[i].sym, t) \/ ~Ended(t)
AuditTrail ==
  /\ \A k \in DOMAIN ledger : EntryTrue(ledger[k])
  /\ \A t \in 1 .. passes :
       /\ Ended(t) => \A i \in HoldingIds : ~Untold(i, t)
       /\ \A i, j \in HoldingIds : Untold(i, t) /\ Untold(j, t) => i = j \/ WrittenBy(t) = {}
  /\ \A i \in HoldingIds : BookingTold(i)

\* A seat stays empty only when no name of the bench was free for it.
SoldBy(t)   == {i \in HoldingIds : holdings[i].status = "exited" /\ holdings[i].out = t}
BoughtBy(t) == {k \in DOMAIN ledger : ledger[k].action = "add" /\ ledger[k].at = t}
EmptySeatOnlyWithoutBench ==
  pc = "act" /\ Cardinality(SoldBy(passes)) > Cardinality(BoughtBy(passes))
  => \A i \in DOMAIN bench : held[bench[i].sym] # 0

\* The minimum investment buys at least one share of every leg it was struck
\* with (min_investment's promise), after any rounding.
StruckLegsOwned ==
  pc = "insert" => \A i \in HoldingIds : holdings[i].added = passes => holdings[i].shares >= 1

\* The legs of the case: each symbol is held once and each leg owned, and a pass neither
\* buys back what it sold nor leaves a seat empty beside a free name.
LegsSound == NoSymbolHeldTwice /\ StruckLegsOwned /\ NoRoundTrip /\ EmptySeatOnlyWithoutBench

\* What is closed stays closed, with its date.
ClosedIsFinal ==
  [][\A i \in HoldingIds : ~IsLive(holdings[i]) => holdings'[i] = holdings[i]]_caseVars
\* In its first year the live legs never weigh more than the basket: a booked leg
\* is halved, a replacement takes its seat's weight and no more.
LiveWeight == Total([i \in LiveIds |-> holdings[i].weight])
WithinWhole == year = 1 => LiveWeight <= Whole

\* A pass ends and the slot is free for the next one.
CasePassEnds == (pc # "idle") ~> (pc = "idle")

\* save_case: "Existing holdings for the case are closed as a rebalance".
OldHoldingsClosed ==
  pc = "review" /\ Struck(passes) => \A i \in LiveIds : holdings[i].added = passes
===============================================================================
