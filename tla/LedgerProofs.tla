----------------------------- MODULE LedgerProofs -----------------------------
(***************************************************************************)
(* What the parts that keep the track record guarantee, for any values of  *)
(* their constants: first the investment cases; then the live ledger, for  *)
(* any number of recorders, symbols, prices and restarts, and what is left *)
(* of it while the historical replay writes into the same table, for any   *)
(* number of workers, starting threads and bars; last the behaviours of    *)
(* MCLedger, which run one part at a time.                                 *)
(***************************************************************************)
EXTENDS MCLedger, SumsProofs

-------------------------------------------------------------------------------
(* The investment cases, for any screens, quotes, sizes and numbers of     *)
(* passes and faults.                                                      *)
(*                                                                         *)
(* NoSymbolHeldTwice and NoRoundTrip are not inductive: a statement of a   *)
(* pass trusts what earlier statements left behind.  CInv says what it is: *)
(*   Carried  what the thread carries is typed, and a refill follows an    *)
(*            exit of a name the dictionary knows,                         *)
(*   Dated    nothing is dated after the pass under way, and before its    *)
(*            review a pass has dated a strike and nothing else,           *)
(*   Chosen   a strike's picks are different names, none of them is held   *)
(*            once the old rows are closed, and the minimum investment     *)
(*            pays for every leg of that many picks,                       *)
(*   Found    the dictionary has every live name, and each decision left   *)
(*            is about the live row it finds there,                        *)
(*   Apart    a name the pass has sold is still in the dictionary, and one *)
(*            it has bought has no decision left.                          *)
(* A pass may die after any statement: it then leaves only what speaks of  *)
(* the tables, and the next pass starts from it.                           *)
(*                                                                         *)
(* What the ledger says of the rows takes a second invariant (Story):      *)
(*   Exits    an exit is dated by the pass that ran it,                    *)
(*   Told     each exit, close, booking and leg is in the ledger, pending  *)
(*            in the pass, or of a pass that died, and each entry of the   *)
(*            ledger has happened,                                         *)
(*   One      at most one row of a pass is untold, unless it wrote nothing,*)
(*   HeldNew  while a strike's legs come in no other leg is held,          *)
(*   Seats    unless the bench is exhausted, a pass has bought for every   *)
(*            seat it has emptied but the one it is at.                    *)

LEMMA Product == ASSUME NEW x \in Nat, NEW y \in Nat PROVE x * y \in Nat
OBVIOUS

LEMMA Quotient == ASSUME NEW x \in Nat, NEW n \in Nat \ {0} PROVE x \div n \in Nat /\ n * (x \div n) <= x /\ x < n * (x \div n) + n
OBVIOUS

LEMMA Monotone == ASSUME NEW x \in Nat, NEW y \in Nat, NEW n \in Nat, x <= y PROVE n * x <= n * y
OBVIOUS

LEMMA QuotientSmall == ASSUME NEW x \in Nat, NEW n \in Nat \ {0} PROVE x \div n \in 0 .. x
<1>1. PICK q \in Nat : q = x \div n /\ n * q <= x
  BY Quotient
<1>2. 1 * q <= n * q
  BY Z3
<1> QED BY <1>1, <1>2

\* A finite set has a member with the least value.
LEMMA Lowest ==
  ASSUME NEW S, IsFiniteSet(S), S # {}, NEW f \in [S -> Int]
  PROVE  \E x \in S : \A y \in S : f[x] <= f[y]
<1> DEFINE Under(x) == {y \in S : f[y] < f[x]}
<1> DEFINE T == {Under(x) : x \in S}
<1>1. T \subseteq SUBSET S /\ T # {}
  <2>1. PICK x \in S : TRUE
    OBVIOUS
  <2>2. Under(x) \in T
    BY <2>1
  <2>3. \A y \in S : Under(y) \in SUBSET S
    OBVIOUS
  <2> QED BY <2>2, <2>3
<1>2. IsWellFoundedOn(StrictSubsetOrdering(S), SUBSET S)
  BY FS_StrictSubsetOrderingWellFounded, FS_FiniteSubsetsOfFinite
<1> HIDE DEF T
<1>3. PICK I \in T : \A J \in T : ~(<<J, I>> \in StrictSubsetOrdering(S))
  BY <1>1, <1>2, WFMin
<1>4. PICK x \in S : I = Under(x)
  BY <1>3 DEF T
<1>5. ASSUME NEW y \in S PROVE f[x] <= f[y]
  <2>1. Under(y) \in T /\ Under(y) \in SUBSET S /\ I \in SUBSET S
    BY <1>1, <1>3 DEF T
  <2>2. ~(Under(y) \subseteq Under(x) /\ Under(y) # Under(x))
    BY <2>1, <1>3, <1>4 DEF StrictSubsetOrdering
  <2>3. f[y] < f[x] => Under(y) \subseteq Under(x) /\ y \in Under(x) /\ y \notin Under(y)
    OBVIOUS
  <2> QED BY <2>2, <2>3
<1> QED BY <1>5

LEMMA LeastOf == ASSUME NEW n \in Nat, NEW S \in SUBSET (1 .. n), S # {} PROVE Min(S) \in S /\ \A y \in S : Min(S) <= y
<1>1. IsFiniteSet(S)
  BY FS_Interval, FS_Subset, 1 \in Int, n \in Int
<1> DEFINE f == [x \in S |-> x]
<1>2. f \in [S -> Int]
  OBVIOUS
<1>3. \E x \in S : \A y \in S : f[x] <= f[y]
  <2> HIDE DEF f
  <2> QED BY <1>1, <1>2, Lowest
<1>4. \E x \in S : \A y \in S : x <= y
  BY <1>3
<1> QED BY <1>4 DEF Min

\* The dearest of the offers.
LEMMA Dearest ==
  ASSUME NEW ps \in Seq([sym : Stocks, price : SharePrices]), SharePrices \subseteq Nat, ps # <<>>
  PROVE  LET S == {p.price : p \in Range(ps)} IN
         Max(S) \in Nat /\ \A i \in DOMAIN ps : ps[i].price <= Max(S)
<1> DEFINE S == {p.price : p \in Range(ps)}  D == DOMAIN ps  f == [i \in D |-> 0 - ps[i].price]
<1>1. D = 1 .. Len(ps) /\ Len(ps) \in Nat /\ D # {} /\ \A i \in D : ps[i].price \in Nat
  <2>1. D = 1 .. Len(ps) /\ Len(ps) \in Nat /\ Len(ps) # 0
    BY EmptySeq, LenProperties
  <2>2. \A i \in D : ps[i] \in [sym : Stocks, price : SharePrices]
    BY <2>1, ElementOfSeq
  <2>3. \A i \in D : ps[i].price \in Nat
    BY <2>2
  <2>4. 1 \in D
    BY <2>1
  <2> QED BY <2>1, <2>3, <2>4
<1>2. IsFiniteSet(D)
  BY <1>1, FS_Interval, 1 \in Int
<1>3. f \in [D -> Int]
  BY <1>1
<1>4. \E i \in D : \A j \in D : f[i] <= f[j]
  <2> HIDE DEF f, D
  <2> QED BY <1>1, <1>2, <1>3, Lowest
<1>5. PICK i \in D : \A j \in D : ps[j].price <= ps[i].price
  <2>1. PICK i \in D : \A j \in D : f[i] <= f[j]
    BY <1>4
  <2>2. ASSUME NEW j \in D PROVE ps[j].price <= ps[i].price
    <3>1. ps[i].price \in Nat /\ ps[j].price \in Nat /\ 0 - ps[i].price <= 0 - ps[j].price
      BY <1>1, <2>1
    <3> QED BY <3>1
  <2> QED BY <2>2
<1>6. S = {ps[j].price : j \in D}
  BY DEF Range
<1>7. ps[i].price \in S /\ \A x \in S : ps[i].price >= x
  BY <1>1, <1>5, <1>6
<1>8. Max(S) \in S /\ \A x \in S : Max(S) >= x
  <2> HIDE DEF S
  <2> QED BY <1>7 DEF Max
<1> QED BY <1>1, <1>6, <1>8

\* min_investment's promise, before the rounding's own excess: the units of an equal share of
\* an amount that is n times a price buy at least one.
LEMMA OneShare ==
  ASSUME NEW mi \in Nat, NEW px \in Nat \ {0}, NEW n \in Nat \ {0}, NEW whole \in Nat \ {0},
         whole % n = 0, px * n <= mi
  PROVE  (mi * (whole \div n)) \div (whole * px) >= 1
<1> DEFINE w == whole \div n
<1>1. w \in Nat /\ n * w = whole
  BY Z3
<1>2. mi * w >= (px * n) * w
  BY <1>1, Monotone, Product, Z3
<1>3. (px * n) * w = whole * px
  BY <1>1, Z3
<1>4. whole * px \in Nat \ {0} /\ mi * w \in Nat
  BY <1>1, Z3
<1> HIDE DEF w
<1>5. \A b \in Nat \ {0}, a \in Nat : a >= b => a \div b >= 1
  BY Z3
<1>6. (mi * w) \div (whole * px) >= 1
  BY <1>2, <1>3, <1>4, <1>5
<1> QED BY <1>6 DEF w

-------------------------------------------------------------------------------
Offer == [sym : Stocks, price : SharePrices]
Move == [action : {"none", "exit", "book", "add"}, sym : Stocks \cup {Null}, price : SharePrices \cup {Null}]
InPass(steps) == pc \in steps

\* What the thread carries is typed, and it refills the seat of a row it has sold.
Carried ==
  /\ asOf \in 1 .. year /\ picked \in Seq(Offer) /\ bench \in Seq(Offer) /\ move \in Move
  /\ pc # "idle" => passes # 0
  /\ InPass({"log"}) => move.action # "none"
  /\ InPass({"refill"}) => move.sym \in Stocks /\ held[move.sym] # 0

\* Nothing is dated after the pass under way, and what it has dated so far is a strike.
Dated ==
  /\ \A i \in HoldingIds : holdings[i].added <= passes
  /\ \A k \in DOMAIN ledger : ledger[k].at <= passes
  /\ InPass({"rows", "upsert", "close"}) => \A i \in HoldingIds : holdings[i].added # passes
  /\ InPass({"rows", "upsert", "close", "insert"}) => \A k \in DOMAIN ledger : ledger[k].at # passes
  /\ InPass({"rows", "upsert", "close", "insert", "review"}) =>
       \A k \in DOMAIN ledger : ledger[k].at = passes => ledger[k].action = "rebalance"

\* The picks of a strike are different names, of which none is held, and the amount asked for is
\* enough for all the strike's legs.
Fits(n) == Whole % n = 0 /\ \A a \in DOMAIN picked : picked[a].price * n <= case.mi
Chosen ==
  /\ InPass({"upsert", "close", "insert"}) =>
       \A a, b \in DOMAIN picked : picked[a].sym = picked[b].sym => a = b
  /\ InPass({"upsert", "close"}) => Len(picked) \in MinN .. TargetN
  /\ InPass({"close"}) => Fits(Len(picked))
  /\ InPass({"insert"}) =>
       /\ \A i \in HoldingIds, a \in DOMAIN picked : holdings[i].status = "held" => holdings[i].sym # picked[a].sym
       /\ StrikeSize \in Nat \ {0} /\ Fits(StrikeSize)

\* The dictionary of a pass has every live name, and each move left finds its own live row there.
Executing == InPass({"act", "log", "refill"})
Found ==
  Executing =>
    /\ \A i \in LiveIds : held[holdings[i].sym] # 0
    /\ \A m \in moves : held[m.sym] \in LiveIds /\ holdings[held[m.sym]].sym = m.sym
    /\ \A m, n \in moves : m.sym = n.sym => m = n

\* A name the pass has sold stays in the dictionary, one it has bought is not to be sold.
By(a, s) == \E k \in DOMAIN ledger : ledger[k].action = a /\ ledger[k].sym = s /\ ledger[k].at = passes
Apart ==
  /\ Executing => \A s \in Stocks : /\ By("exit", s) => held[s] # 0
                                    /\ By("add", s) => \A m \in moves : m.sym # s
  /\ InPass({"log"}) => /\ move.action = "exit" => ~By("add", move.sym) /\ held[move.sym] # 0
                        /\ move.action = "add" => ~By("exit", move.sym) /\ \A m \in moves : m.sym # move.sym
                        /\ move.sym \in Stocks

CInv ==
  /\ CaseTypeOK /\ Carried /\ Dated /\ Chosen /\ Found /\ Apart
  /\ NoSymbolHeldTwice /\ NoRoundTrip /\ StruckLegsOwned

-------------------------------------------------------------------------------
(* What a statement does to the tables.                                    *)

LEMMA RowIn == ASSUME CaseTypeOK, NEW i \in HoldingIds PROVE holdings[i] \in Holding /\ i \in Nat \ {0}
BY DEF CaseTypeOK, HoldingIds

\* An INSERT adds a row and keeps the others.
LEMMA Inserted ==
  ASSUME CaseTypeOK, NEW h \in Holding, holdings' = Append(holdings, h)
  PROVE  /\ holdings' \in Seq(Holding) /\ Len(holdings') = Len(holdings) + 1
         /\ HoldingIds' = HoldingIds \cup {Len(holdings) + 1} /\ Len(holdings) + 1 \notin HoldingIds
         /\ holdings'[Len(holdings) + 1] = h
         /\ \A i \in HoldingIds : holdings'[i] = holdings[i]
<1>1. holdings \in Seq(Holding)
  BY DEF CaseTypeOK
<1> QED BY <1>1, AppendProperties, LenProperties DEF HoldingIds

\* An UPDATE of one row keeps the others.
LEMMA CaseUpdated ==
  ASSUME CaseTypeOK, NEW h \in HoldingIds, NEW r \in Holding, holdings' = [holdings EXCEPT ![h] = r]
  PROVE  /\ holdings' \in Seq(Holding) /\ Len(holdings') = Len(holdings) /\ HoldingIds' = HoldingIds
         /\ holdings'[h] = r /\ \A i \in HoldingIds : i # h => holdings'[i] = holdings[i]
<1>1. holdings \in Seq(Holding)
  BY DEF CaseTypeOK
<1>2. h \in 1 .. Len(holdings)
  BY <1>1, LenProperties DEF HoldingIds
<1> QED BY <1>1, <1>2, ExceptSeq, LenProperties DEF HoldingIds

\* A new leg at a weight within the basket.
LEMMA NewLeg ==
  ASSUME CasesAssumptions, CaseTypeOK, NEW s \in Stocks, NEW w \in 0 .. Whole, NEW px \in SharePrices
  PROVE  /\ Leg(s, w, px, case.mi) \in Holding
         /\ Leg(s, w, px, case.mi).sym = s /\ Leg(s, w, px, case.mi).status = "held"
         /\ Leg(s, w, px, case.mi).added = passes
         /\ Leg(s, w, px, case.mi).shares = (case.mi * w) \div (Whole * px)
<1>1. case.mi \in Nat /\ passes \in Nat /\ px \in Nat \ {0} /\ w \in Nat /\ Whole \in Nat \ {0}
  BY DEF CaseTypeOK, CasesAssumptions
<1>2. case.mi * w \in Nat /\ Whole * px \in Nat /\ Whole * px # 0
  BY <1>1, Product, Z3
<1>3. (case.mi * w) \div (Whole * px) \in Nat
  BY <1>2, Quotient
<1> QED BY <1>1, <1>3 DEF Leg, SharesFor, Holding

\* An entry of the action ledger keeps the others.
Entry == [action : {"rebalance", "exit", "book", "add"}, sym : Stocks \cup {Null}, at : Nat]
LEMMA EntryIn == ASSUME CaseTypeOK, NEW k \in DOMAIN ledger PROVE ledger[k] \in Entry
<1>1. ledger \in Seq(Entry)
  BY DEF CaseTypeOK, Entry
<1> QED BY <1>1
LEMMA Logged ==
  ASSUME CaseTypeOK, NEW a \in {"rebalance", "exit", "book", "add"}, NEW s \in Stocks \cup {Null}, Log(a, s)
  PROVE  /\ ledger' \in Seq(Entry)
         /\ DOMAIN ledger' = DOMAIN ledger \cup {Len(ledger) + 1} /\ Len(ledger) + 1 \notin DOMAIN ledger
         /\ ledger'[Len(ledger) + 1] = [action |-> a, sym |-> s, at |-> passes]
         /\ \A k \in DOMAIN ledger : ledger'[k] = ledger[k]
<1> DEFINE e == [action |-> a, sym |-> s, at |-> passes]
<1>1. ledger \in Seq(Entry) /\ e \in Entry
  BY DEF CaseTypeOK, Entry
<1>2. ledger' = Append(ledger, e)
  BY DEF Log
<1> HIDE DEF e
<1>3. /\ ledger' \in Seq(Entry) /\ DOMAIN ledger' = DOMAIN ledger \cup {Len(ledger) + 1}
      /\ Len(ledger) + 1 \notin DOMAIN ledger /\ ledger'[Len(ledger) + 1] = e
      /\ \A k \in DOMAIN ledger : ledger'[k] = ledger[k]
  BY <1>1, <1>2, AppendProperties, LenProperties
<1> QED BY <1>3 DEF e

-------------------------------------------------------------------------------
(* The pass begins, waits, ends or dies: no row changes.                   *)

LEMMA Begins == ASSUME CasesAssumptions, CInv, StartPass PROVE CInv'
<1> USE DEF CInv, StartPass
<1>1. CaseTypeOK' /\ Carried'
  BY DEF CaseTypeOK, Carried, InPass, Offer
<1>2. Dated'
  <2>1. \A i \in HoldingIds : holdings[i].added \in Nat
    BY RowIn DEF Holding
  <2>2. \A k \in DOMAIN ledger : ledger[k].at \in Nat
    BY EntryIn DEF Entry
  <2>3. passes \in Nat /\ passes' = passes + 1
    BY DEF CaseTypeOK
  <2> QED BY <2>1, <2>2, <2>3 DEF Dated, HoldingIds, InPass
<1>3. Chosen' /\ Found' /\ Apart' /\ StruckLegsOwned'
  BY DEF Chosen, Found, Apart, StruckLegsOwned, InPass, Executing
<1>4. NoSymbolHeldTwice' /\ NoRoundTrip'
  BY DEF NoSymbolHeldTwice, NoRoundTrip, HoldingIds
<1> QED BY <1>1, <1>2, <1>3, <1>4

Stops == pc' = "idle" /\ UNCHANGED <<year, case, holdings, ledger, asOf, picked, bench, weak, moves, held, move, passes>>
LEMMA Rests == ASSUME CasesAssumptions, CInv, Stops, died' \subseteq 1 .. passes PROVE CInv'
<1> USE DEF CInv, Stops
<1>1. CaseTypeOK' /\ Carried'
  BY DEF CaseTypeOK, Carried, InPass, Offer
<1>2. Dated' /\ Chosen' /\ Found' /\ Apart' /\ StruckLegsOwned'
  BY DEF Dated, HoldingIds, Chosen, Found, Apart, StruckLegsOwned, InPass, Executing
<1>4. NoSymbolHeldTwice' /\ NoRoundTrip'
  BY DEF NoSymbolHeldTwice, NoRoundTrip, HoldingIds
<1> QED BY <1>1, <1>2, <1>4

LEMMA Dates == ASSUME CasesAssumptions, CInv, NewYear PROVE CInv'
<1> USE DEF CInv, NewYear, passVars
<1>1. CaseTypeOK' /\ Carried'
  BY DEF CaseTypeOK, Carried, InPass, CasesAssumptions
<1>2. Dated' /\ Found' /\ NoSymbolHeldTwice' /\ NoRoundTrip' /\ StruckLegsOwned'
  BY DEF Dated, HoldingIds, Found, LiveIds, NoSymbolHeldTwice, NoRoundTrip, StruckLegsOwned, InPass, Executing
<1>3. Chosen' /\ Apart'
  BY DEF Chosen, HoldingIds, Fits, StrikeSize, Apart, By, InPass, Executing
<1> QED BY <1>1, <1>2, <1>3

LEMMA SeatStaysEmpty == ASSUME CasesAssumptions, CInv, LeaveOpen PROVE CInv'
<1> USE DEF CInv, LeaveOpen
<1>1. CaseTypeOK' /\ Carried'
  BY DEF CaseTypeOK, Carried, InPass
<1>2. Dated' /\ Found' /\ NoSymbolHeldTwice' /\ NoRoundTrip' /\ StruckLegsOwned'
  BY DEF Dated, HoldingIds, Found, LiveIds, NoSymbolHeldTwice, NoRoundTrip, StruckLegsOwned, InPass, Executing
<1>3. Chosen' /\ Apart'
  BY DEF Chosen, Apart, By, InPass, Executing
<1> QED BY <1>1, <1>2, <1>3

-------------------------------------------------------------------------------
(* A strike.                                                               *)

LEMMA LesserOfTwo == ASSUME NEW a \in Nat, NEW b \in Nat
                     PROVE  Min({a, b}) \in {a, b} /\ Min({a, b}) <= a /\ Min({a, b}) <= b
<1>1. \E x \in {a, b} : \A y \in {a, b} : x <= y
  BY a <= b \/ b <= a
<1> QED BY <1>1 DEF Min

LEMMA OffersOf ==
  ASSUME CasesAssumptions, NEW sc \in Screens, NEW ss \in Seq(Stocks)
  PROVE  /\ Priced(sc, ss) \in Seq(Offer) /\ Len(Priced(sc, ss)) = Len(ss)
         /\ \A i \in 1 .. Len(ss) : Priced(sc, ss)[i].sym = ss[i]
<1>1. sc.price \in [Stocks -> SharePrices]
  BY DEF CasesAssumptions, Screen
<1>2. Len(ss) \in Nat /\ DOMAIN ss = 1 .. Len(ss) /\ \A i \in 1 .. Len(ss) : ss[i] \in Stocks
  BY LenProperties, ElementOfSeq
<1>3. Priced(sc, ss) \in [1 .. Len(ss) -> Offer]
  BY <1>1, <1>2 DEF Priced, Offer
<1>4. Priced(sc, ss) \in Seq(Offer)
  BY <1>2, <1>3, SeqDef
<1>5. DOMAIN Priced(sc, ss) = 1 .. Len(Priced(sc, ss)) /\ Len(Priced(sc, ss)) \in Nat
  BY <1>4, LenProperties
<1>6. Len(Priced(sc, ss)) = Len(ss)
  BY <1>2, <1>3, <1>5
<1> QED BY <1>2, <1>4, <1>6 DEF Priced

\* The best of a ranking, and the reserve behind them.
LEMMA Ranked ==
  ASSUME CasesAssumptions, NEW sc \in Screens, Len(sc.rank) >= MinN
  PROVE  LET best == SubSeq(sc.rank, 1, Min({TargetN, Len(sc.rank)}))
             rest == SubSeq(sc.rank, TargetN + 1, Min({TargetN + ReserveN, Len(sc.rank)}))
         IN  /\ best \in Seq(Stocks) /\ Len(best) \in MinN .. TargetN
             /\ \A a, b \in 1 .. Len(best) : best[a] = best[b] => a = b
             /\ rest \in Seq(Stocks)
<1> DEFINE r == sc.rank
           n == Min({TargetN, Len(r)})  m == Min({TargetN + ReserveN, Len(r)})
           best == SubSeq(r, 1, n)  rest == SubSeq(r, TargetN + 1, m)
<1>1. /\ r \in Seq(Stocks) /\ IsInjective(r) /\ TargetN \in Nat /\ ReserveN \in Nat /\ MinN \in 1 .. TargetN
  BY DEF CasesAssumptions, Screen
<1>2. Len(r) \in Nat /\ DOMAIN r = 1 .. Len(r) /\ \A i \in 1 .. Len(r) : r[i] \in Stocks
  BY <1>1, LenProperties, ElementOfSeq
<1>3. n \in {TargetN, Len(r)} /\ n <= TargetN /\ n <= Len(r)
  BY <1>1, <1>2, LesserOfTwo
<1>4. m \in {TargetN + ReserveN, Len(r)} /\ m <= Len(r)
  <2>1. TargetN + ReserveN \in Nat
    BY <1>1
  <2> QED BY <2>1, <1>2, LesserOfTwo
<1> HIDE DEF r, n, m
<1>5. n \in MinN .. TargetN /\ m \in Int /\ TargetN + 1 \in Int
  BY <1>1, <1>2, <1>3, <1>4 DEF r
<1> HIDE DEF best, rest
<1>f. /\ \A i \in 1 .. n : i \in 1 .. Len(r)
      /\ \A i \in TargetN + 1 .. m : i \in 1 .. Len(r)
  <2>1. MinN \in Int /\ TargetN \in Int /\ n \in Int /\ m \in Int /\ Len(r) \in Int /\ TargetN >= 0
    BY <1>1, <1>2, <1>5
  <2> QED BY <2>1, <1>3, <1>4
<1>6. best \in Seq(Stocks) /\ Len(best) = n /\ \A i \in 1 .. n : best[i] = r[i]
  <2>1. \A i \in 1 .. n : r[i] \in Stocks
    BY <1>2, <1>f
  <2>2. /\ best \in Seq(Stocks) /\ Len(best) = IF 1 <= n THEN n - 1 + 1 ELSE 0
        /\ \A i \in 1 .. n - 1 + 1 : best[i] = r[1 + i - 1]
    BY <2>1, <1>1, <1>5, SubSeqProperties, 1 \in Int, n \in Int DEF best
  <2> QED BY <2>2, <1>1, <1>5
<1>7. \A a, b \in 1 .. Len(best) : best[a] = best[b] => a = b
  <2>1. \A a, b \in 1 .. n : a \in DOMAIN r /\ b \in DOMAIN r
    BY <1>2, <1>f
  <2> QED BY <2>1, <1>1, <1>6 DEF IsInjective
<1>8. rest \in Seq(Stocks)
  <2>1. \A i \in TargetN + 1 .. m : r[i] \in Stocks
    BY <1>2, <1>f
  <2> QED BY <2>1, <1>5, SubSeqProperties DEF rest
<1> QED BY <1>5, <1>6, <1>7, <1>8 DEF r, n, m, best, rest

LEMMA Builds == ASSUME CasesAssumptions, CInv, NEW sc \in Screens, Build(sc) PROVE CInv'
<1> USE DEF CInv, Build
<1> DEFINE built == Len(sc.rank) >= MinN
<1>1. /\ picked' \in Seq(Offer) /\ bench' \in Seq(Offer)
      /\ pc' = "upsert" => /\ Len(picked') \in MinN .. TargetN
                           /\ \A a, b \in DOMAIN picked' : picked'[a].sym = picked'[b].sym => a = b
  <2>1. CASE ~built
    BY <2>1, EmptySeq
  <2>2. CASE built
    <3> DEFINE best == SubSeq(sc.rank, 1, Min({TargetN, Len(sc.rank)}))
               rest == SubSeq(sc.rank, TargetN + 1, Min({TargetN + ReserveN, Len(sc.rank)}))
    <3>1. /\ best \in Seq(Stocks) /\ Len(best) \in MinN .. TargetN
          /\ \A a, b \in 1 .. Len(best) : best[a] = best[b] => a = b
          /\ rest \in Seq(Stocks)
      BY <2>2, Ranked
    <3>2. bench' = Priced(sc, rest) /\ picked' = (IF Due THEN Priced(sc, best) ELSE <<>>) /\ (pc' = "upsert" => Due)
      BY <2>2
    <3> HIDE DEF best, rest
    <3>3. Priced(sc, best) \in Seq(Offer) /\ Priced(sc, rest) \in Seq(Offer)
      BY <3>1, OffersOf
    <3>4. /\ Len(Priced(sc, best)) = Len(best) /\ DOMAIN Priced(sc, best) = 1 .. Len(best)
          /\ \A i \in 1 .. Len(best) : Priced(sc, best)[i].sym = best[i]
      BY <3>1, <3>3, OffersOf, LenProperties
    <3>5. bench' \in Seq(Offer) /\ picked' \in Seq(Offer)
      BY <3>2, <3>3, EmptySeq
    <3>6. ASSUME pc' = "upsert"
          PROVE  /\ Len(picked') \in MinN .. TargetN
                 /\ \A a, b \in DOMAIN picked' : picked'[a].sym = picked'[b].sym => a = b
      <4>1. picked' = Priced(sc, best)
        BY <3>2, <3>6
      <4>2. Len(picked') = Len(best) /\ DOMAIN picked' = 1 .. Len(best) /\ \A i \in 1 .. Len(best) : picked'[i].sym = best[i]
        BY <4>1, <3>4
      <4>3. Len(picked') \in MinN .. TargetN
        BY <4>2, <3>1
      <4>4. ASSUME NEW a \in DOMAIN picked', NEW b \in DOMAIN picked', picked'[a].sym = picked'[b].sym PROVE a = b
        <5>1. a \in 1 .. Len(best) /\ b \in 1 .. Len(best)
          BY <4>2
        <5>2. best[a] = best[b]
          BY <5>1, <4>2, <4>4
        <5> QED BY <5>1, <5>2, <3>1
      <4> QED BY <4>3, <4>4
    <3> QED BY <3>5, <3>6
  <2> QED BY <2>1, <2>2
<1>2. pc = "rows" /\ pc' \in {"upsert", "review"} /\ year \in Nat \ {0}
  BY DEF CaseTypeOK
<1>3. CaseTypeOK' /\ Carried'
  BY <1>1, <1>2 DEF CaseTypeOK, Carried, InPass
<1>4. Chosen'
  BY <1>1, <1>2 DEF Chosen, InPass
<1>5. Dated' /\ Found' /\ Apart' /\ StruckLegsOwned'
  BY <1>2 DEF Dated, HoldingIds, Found, Apart, StruckLegsOwned, InPass, Executing
<1>6. NoSymbolHeldTwice' /\ NoRoundTrip'
  BY DEF NoSymbolHeldTwice, NoRoundTrip, HoldingIds
<1> QED BY <1>3, <1>4, <1>5, <1>6

LEMMA RoundedUp == ASSUME NEW x \in Nat, NEW n \in Nat \ {0}
                   PROVE  n * ((x + n - 1) \div n) \in Nat /\ x <= n * ((x + n - 1) \div n)
<1>1. x + n - 1 \in Nat
  OBVIOUS
<1>2. PICK q \in Nat : q = (x + n - 1) \div n /\ x + n - 1 < n * q + n
  BY <1>1, Quotient
<1>3. n * q \in Nat
  BY Product
<1>4. x <= n * q
  BY <1>2, <1>3
<1> QED BY <1>2, <1>3, <1>4

\* min_investment: what an amount asks for, with the promise it is made for.
LEMMA Asked ==
  ASSUME CasesAssumptions, NEW ps \in Seq(Offer), Len(ps) \in MinN .. TargetN
  PROVE  MinInvestment(ps) \in Nat /\ \A a \in DOMAIN ps : ps[a].price * Len(ps) <= MinInvestment(ps)
<1> DEFINE top == Max({p.price : p \in Range(ps)})  n == Len(ps)
<1>1. n \in Nat \ {0} /\ SharePrices \subseteq Nat /\ Step \in Nat \ {0}
  BY DEF CasesAssumptions
<1>2. ps # <<>>
  BY <1>1, EmptySeq
<1>3. top \in Nat /\ \A a \in DOMAIN ps : ps[a].price <= top
  BY <1>1, <1>2, Dearest DEF Offer
<1>4. \A a \in DOMAIN ps : ps[a].price \in Nat
  <2>1. \A a \in DOMAIN ps : ps[a] \in Offer
    BY LenProperties, ElementOfSeq
  <2> QED BY <2>1, <1>1 DEF Offer
<1> HIDE DEF top
<1>5. Needed(ps) = top * n
  BY DEF Needed, top
<1> HIDE DEF n
<1>6. top * n \in Nat /\ \A a \in DOMAIN ps : ps[a].price * n <= top * n
  <2>1. top * n \in Nat
    BY <1>1, <1>3, Product
  <2>2. ASSUME NEW a \in DOMAIN ps PROVE ps[a].price * n <= top * n
    <3>1. n * ps[a].price <= n * top
      BY <1>1, <1>3, <1>4, Monotone
    <3> QED BY <3>1, <1>1, <1>3, <1>4, Z3
  <2> QED BY <2>1, <2>2
<1>7. MinInvestment(ps) \in Nat /\ top * n <= MinInvestment(ps)
  BY <1>1, <1>5, <1>6, RoundedUp DEF MinInvestment
<1>8. \A a \in DOMAIN ps : ps[a].price * n \in Nat
  BY <1>1, <1>4, Product
<1> QED BY <1>6, <1>7, <1>8 DEF n

LEMMA Upserts == ASSUME CasesAssumptions, CInv, Upsert PROVE CInv'
<1> USE DEF CInv, Upsert
<1>1. pc = "upsert" /\ pc' = "close" /\ picked \in Seq(Offer) /\ Len(picked) \in MinN .. TargetN
  BY DEF Carried, Chosen, InPass
<1>2. MinInvestment(picked) \in Nat /\ \A a \in DOMAIN picked : picked[a].price * Len(picked) <= MinInvestment(picked)
  BY <1>1, Asked
<1>3. case' = [vintage |-> asOf, mi |-> MinInvestment(picked), rebalanced |-> passes]
  OBVIOUS
<1>4. CaseTypeOK' /\ Carried'
  BY <1>1, <1>2, <1>3 DEF CaseTypeOK, Carried, InPass
<1>5. Chosen'
  <2>1. Whole % Len(picked) = 0
    BY <1>1 DEF CasesAssumptions
  <2>2. case'.mi = MinInvestment(picked)
    BY <1>3
  <2> QED BY <1>1, <1>2, <2>1, <2>2 DEF Chosen, Fits, InPass
<1>6. Dated' /\ Found' /\ Apart' /\ StruckLegsOwned'
  BY <1>1 DEF Dated, HoldingIds, Found, Apart, StruckLegsOwned, InPass, Executing
<1>7. NoSymbolHeldTwice' /\ NoRoundTrip'
  BY DEF NoSymbolHeldTwice, NoRoundTrip, HoldingIds
<1> QED BY <1>4, <1>5, <1>6, <1>7

LEMMA FiniteIds == ASSUME CaseTypeOK, NEW S \in SUBSET HoldingIds PROVE IsFiniteSet(S) /\ Cardinality(S) \in Nat
<1>1. IsFiniteSet(HoldingIds)
  BY FS_Interval, LenProperties, 1 \in Int, Len(holdings) \in Int DEF CaseTypeOK, HoldingIds
<1> QED BY <1>1, FS_Subset, FS_CardinalityType

LEMMA Closes == ASSUME CasesAssumptions, CInv, CloseOld PROVE CInv'
<1> USE DEF CInv, CloseOld
<1>1. pc = "close" /\ pc' = "insert" /\ holdings \in Seq(Holding) /\ passes \in Nat /\ picked \in Seq(Offer)
      /\ Len(picked) \in MinN .. TargetN /\ MinN \in Nat \ {0}
  BY DEF CaseTypeOK, Carried, Chosen, InPass, CasesAssumptions
<1>2. ASSUME NEW i \in HoldingIds
      PROVE  /\ Closed(holdings[i]) \in Holding /\ Closed(holdings[i]).status # "held"
             /\ Closed(holdings[i]).added = holdings[i].added /\ holdings[i].added \in Nat
  BY <1>1, RowIn DEF Closed, Holding
<1>3. DOMAIN holdings = 1 .. Len(holdings) /\ Len(holdings) \in Nat
  BY <1>1, LenProperties
<1>4. holdings' \in [1 .. Len(holdings) -> Holding]
  BY <1>2, <1>3 DEF HoldingIds
<1>5. holdings' \in Seq(Holding)
  BY <1>3, <1>4, SeqDef
<1>6. HoldingIds' = HoldingIds /\ Len(holdings') = Len(holdings) /\ \A i \in HoldingIds : holdings'[i] = Closed(holdings[i])
  BY <1>3, <1>4, <1>5, LenProperties DEF HoldingIds
<1>7. \A i \in HoldingIds' : holdings'[i].added # passes /\ holdings'[i].added <= passes /\ holdings'[i].status # "held"
  BY <1>1, <1>2, <1>6 DEF Dated, InPass
<1>8. CaseTypeOK' /\ Carried'
  BY <1>1, <1>5, <1>6 DEF CaseTypeOK, Carried, InPass
<1>9. Dated' /\ StruckLegsOwned' /\ NoSymbolHeldTwice'
  BY <1>1, <1>7 DEF Dated, StruckLegsOwned, NoSymbolHeldTwice, InPass
<1>10. Found' /\ Apart' /\ NoRoundTrip'
  BY <1>1 DEF Found, Apart, NoRoundTrip, InPass, Executing
<1>11. Chosen'
  <2>1. {i \in HoldingIds' : holdings'[i].added = passes'} = {}
    BY <1>7
  <2>2. Cardinality({i \in HoldingIds' : holdings'[i].added = passes'}) = 0
    BY <2>1, FS_EmptySet
  <2>3. StrikeSize' = Len(picked) /\ Len(picked) \in Nat \ {0}
    BY <1>1, <2>2 DEF StrikeSize
  <2>4. Fits(StrikeSize)'
    BY <1>1, <2>3 DEF Chosen, Fits, InPass
  <2> QED BY <1>1, <1>7, <2>3, <2>4 DEF Chosen, InPass
<1> QED BY <1>8, <1>9, <1>10, <1>11

LEMMA Inserts == ASSUME CasesAssumptions, CInv, InsertLeg PROVE CInv'
<1> USE DEF CInv, InsertLeg
<1> DEFINE o == Head(picked)  n == StrikeSize  leg == Leg(o.sym, Whole \div n, o.price, case.mi)
           j == Len(holdings) + 1
<1>1. /\ pc = "insert" /\ pc' = "insert" /\ holdings \in Seq(Holding) /\ passes \in Nat /\ case.mi \in Nat
      /\ picked \in Seq(Offer) /\ picked # <<>> /\ n \in Nat \ {0} /\ Whole \in Nat \ {0}
  BY DEF CaseTypeOK, Carried, Chosen, InPass, CasesAssumptions
<1>2. /\ o \in Offer /\ o = picked[1] /\ 1 \in DOMAIN picked
      /\ Tail(picked) \in Seq(Offer) /\ Len(Tail(picked)) = Len(picked) - 1
      /\ DOMAIN Tail(picked) = 1 .. Len(picked) - 1 /\ DOMAIN picked = 1 .. Len(picked) /\ Len(picked) \in Nat \ {0}
      /\ \A a \in 1 .. Len(picked) - 1 : Tail(picked)[a] = picked[a + 1]
  BY <1>1, HeadTailProperties, LenProperties, EmptySeq
<1>3. o.sym \in Stocks /\ o.price \in SharePrices /\ o.price \in Nat \ {0}
  BY <1>2 DEF Offer, CasesAssumptions
<1>4. Whole \div n \in 0 .. Whole
  BY <1>1, QuotientSmall
<1> HIDE DEF n, leg, o, j
<1>5. /\ leg \in Holding /\ leg.sym = o.sym /\ leg.status = "held" /\ leg.added = passes
      /\ leg.shares = (case.mi * (Whole \div n)) \div (Whole * o.price)
  BY <1>3, <1>4, NewLeg DEF leg
<1>6. leg.shares >= 1
  <2>1. Whole % n = 0 /\ o.price * n <= case.mi
    BY <1>1, <1>2 DEF Chosen, Fits, InPass, n
  <2>2. n \in Nat \ {0} /\ Whole \in Nat \ {0} /\ case.mi \in Nat /\ o.price \in Nat \ {0}
    BY <1>1, <1>3
  <2>3. (case.mi * (Whole \div n)) \div (Whole * o.price) >= 1
    BY <2>1, <2>2, OneShare
  <2> QED BY <1>5, <2>3
<1>7. holdings' = Append(holdings, leg)
  BY DEF leg, o, n
<1>8. /\ holdings' \in Seq(Holding) /\ Len(holdings') = Len(holdings) + 1
      /\ HoldingIds' = HoldingIds \cup {j} /\ j \notin HoldingIds /\ holdings'[j] = leg
      /\ \A i \in HoldingIds : holdings'[i] = holdings[i]
  BY <1>5, <1>7, Inserted DEF j
<1>9. CaseTypeOK' /\ Carried'
  <2>1. held \in [Stocks -> 0 .. Len(holdings')]
    BY <1>1, <1>8, LenProperties DEF CaseTypeOK
  <2> QED BY <1>1, <1>2, <1>8, <2>1 DEF CaseTypeOK, Carried, InPass
<1>10. Dated'
  <2>1. ASSUME NEW i \in HoldingIds' PROVE holdings'[i].added <= passes
    <3>1. CASE i = j
      <4>1. holdings'[i].added = passes
        BY <3>1, <1>5, <1>8
      <4>2. passes <= passes
        BY <1>1
      <4> HIDE DEF InsertLeg, CInv
      <4> QED BY <4>1, <4>2
    <3>2. CASE i \in HoldingIds
      BY <3>2, <1>8 DEF Dated
    <3> QED BY <3>1, <3>2, <1>8
  <2> QED BY <1>1, <2>1 DEF Dated, InPass
<1>11. Found' /\ Apart' /\ NoRoundTrip'
  BY <1>1 DEF Found, Apart, NoRoundTrip, InPass, Executing
<1>12. StruckLegsOwned'
  <2>1. \A i \in HoldingIds' : holdings'[i].added = passes => holdings'[i].shares >= 1
    BY <1>1, <1>5, <1>6, <1>8 DEF StruckLegsOwned
  <2> QED BY <2>1 DEF StruckLegsOwned
<1>12a. /\ \A a, b \in DOMAIN picked : picked[a].sym = picked[b].sym => a = b
        /\ \A i \in HoldingIds, a \in DOMAIN picked : holdings[i].status = "held" => holdings[i].sym # picked[a].sym
  BY <1>1 DEF Chosen, InPass
<1>13. ASSUME NEW i \in HoldingIds, holdings[i].status = "held" PROVE holdings[i].sym # leg.sym
  <2>1. holdings[i].sym # picked[1].sym
    BY <1>2, <1>12a, <1>13
  <2> QED BY <2>1, <1>2, <1>5
<1>14. NoSymbolHeldTwice'
  <2>1. ASSUME NEW a \in HoldingIds', NEW b \in HoldingIds', holdings'[a].status = "held", holdings'[b].status = "held",
               holdings'[a].sym = holdings'[b].sym
        PROVE  a = b
    <3>1. CASE a \in HoldingIds /\ b \in HoldingIds
      BY <2>1, <3>1, <1>8 DEF NoSymbolHeldTwice
    <3>2. CASE a = j /\ b \in HoldingIds
      BY <2>1, <3>2, <1>8, <1>13
    <3>3. CASE b = j /\ a \in HoldingIds
      BY <2>1, <3>3, <1>8, <1>13
    <3> QED BY <3>1, <3>2, <3>3, <1>8
  <2> QED BY <2>1 DEF NoSymbolHeldTwice
<1>15. StrikeSize' = n
  <2> DEFINE S == {i \in HoldingIds : holdings[i].added = passes}
  <2>1. {i \in HoldingIds' : holdings'[i].added = passes'} = S \cup {j} /\ j \notin S
    BY <1>5, <1>8
  <2>2. IsFiniteSet(S) /\ Cardinality(S) \in Nat
    BY FiniteIds
  <2>3. Cardinality(S \cup {j}) = Cardinality(S) + 1
    BY <2>1, <2>2, FS_AddElement
  <2>4. StrikeSize' = Len(Tail(picked)) + Cardinality(S \cup {j}) /\ n = Len(picked) + Cardinality(S)
    BY <2>1 DEF StrikeSize, n
  <2> QED BY <1>2, <2>2, <2>3, <2>4
<1>16. Chosen'
  <2>1. ASSUME NEW a \in DOMAIN picked'
        PROVE  a + 1 \in DOMAIN picked /\ picked'[a] = picked[a + 1] /\ a + 1 # 1
    BY <1>2
  <2>2. ASSUME NEW a \in DOMAIN picked', NEW b \in DOMAIN picked', picked'[a].sym = picked'[b].sym PROVE a = b
    <3>1. a + 1 = b + 1
      BY <2>1, <2>2, <1>12a
    <3> QED BY <3>1, <1>2
  <2>3. ASSUME NEW a \in DOMAIN picked', NEW i \in HoldingIds', holdings'[i].status = "held" PROVE holdings'[i].sym # picked'[a].sym
    <3>1. CASE i = j
      <4>1. holdings'[i].sym = picked[1].sym
        BY <3>1, <1>2, <1>5, <1>8
      <4>2. picked[a + 1].sym # picked[1].sym
        BY <1>2, <2>1, <1>12a
      <4> QED BY <4>1, <4>2, <2>1
    <3>2. CASE i \in HoldingIds
      <4>1. holdings[i].status = "held" /\ a + 1 \in DOMAIN picked
        BY <3>2, <1>8, <2>1, <2>3
      <4>2. holdings[i].sym # picked[a + 1].sym
        BY <4>1, <3>2, <1>12a
      <4> QED BY <4>2, <3>2, <1>8, <2>1
    <3> QED BY <3>1, <3>2, <1>8
  <2>4. Whole % n = 0 /\ \A a \in DOMAIN picked' : picked'[a].price * n <= case.mi
    <3>1. Fits(n)
      BY <1>1 DEF Chosen, InPass, n
    <3> QED BY <3>1, <2>1 DEF Fits
  <2>5. (StrikeSize \in Nat \ {0} /\ Fits(StrikeSize))'
    BY <1>1, <1>15, <2>4 DEF Fits
  <2> QED BY <1>1, <2>2, <2>3, <2>5 DEF Chosen, InPass
<1> QED BY <1>9, <1>10, <1>11, <1>12, <1>14, <1>16

LEMMA LogsStrike == ASSUME CasesAssumptions, CInv, LogStrike PROVE CInv'
<1> USE DEF CInv, LogStrike
<1> DEFINE j == Len(ledger) + 1
<1>1. pc = "insert" /\ pc' = "review" /\ passes \in Nat
  BY DEF CaseTypeOK
<1>2. /\ ledger' \in Seq(Entry) /\ DOMAIN ledger' = DOMAIN ledger \cup {j} /\ j \notin DOMAIN ledger
      /\ ledger'[j] = [action |-> "rebalance", sym |-> Null, at |-> passes]
      /\ \A k \in DOMAIN ledger : ledger'[k] = ledger[k]
  BY Logged
<1> HIDE DEF j
<1>3. CaseTypeOK' /\ Carried'
  BY <1>1, <1>2 DEF CaseTypeOK, Carried, InPass, Entry
<1>4. Dated'
  <2>1. \A k \in DOMAIN ledger' : ledger'[k].at <= passes /\ (ledger'[k].at = passes => ledger'[k].action = "rebalance")
    BY <1>1, <1>2 DEF Dated, InPass
  <2> QED BY <1>1, <2>1 DEF Dated, HoldingIds, InPass
<1>5. Chosen' /\ Found' /\ Apart' /\ StruckLegsOwned'
  BY <1>1 DEF Chosen, Found, Apart, StruckLegsOwned, InPass, Executing
<1>6. NoSymbolHeldTwice' /\ NoRoundTrip'
  BY <1>2 DEF NoSymbolHeldTwice, NoRoundTrip, HoldingIds
<1> QED BY <1>3, <1>4, <1>5, <1>6

-------------------------------------------------------------------------------
(* A review.                                                               *)

\* The dictionary finds a live row of a name that has one, and nothing of another.
LEMMA RowFound ==
  ASSUME CaseTypeOK, NEW s \in Stocks
  PROVE  /\ RowOf(s) \in 0 .. Len(holdings)
         /\ RowOf(s) # 0 => RowOf(s) \in LiveIds /\ holdings[RowOf(s)].sym = s
         /\ (\E i \in LiveIds : holdings[i].sym = s) => RowOf(s) # 0
<1> DEFINE mine == {i \in LiveIds : holdings[i].sym = s}
           f == [i \in mine |-> holdings[i].weight]
<1>1. HoldingIds = 1 .. Len(holdings) /\ Len(holdings) \in Nat
  BY LenProperties DEF CaseTypeOK, HoldingIds
<1>2. CASE mine = {}
  BY <1>1, <1>2 DEF RowOf
<1>3. CASE mine # {}
  <2>1. mine \subseteq LiveIds /\ LiveIds \subseteq HoldingIds
    BY DEF LiveIds
  <2>2. IsFiniteSet(mine)
    BY <2>1, FiniteIds
  <2>3. \A i \in mine : holdings[i].weight \in Nat
    BY <2>1, RowIn DEF Holding
  <2>4. f \in [mine -> Int]
    BY <2>3
  <2>5. \E i \in mine : \A j \in mine : f[i] <= f[j]
    <3> HIDE DEF f, mine
    <3> QED BY <1>3, <2>2, <2>4, Lowest
  <2>6. \E i \in mine : \A j \in mine : holdings[i].weight <= holdings[j].weight
    BY <2>5
  <2>7. RowOf(s) = CHOOSE i \in mine : \A j \in mine : holdings[i].weight <= holdings[j].weight
    BY <1>3 DEF RowOf
  <2>8. RowOf(s) \in mine
    <3> HIDE DEF mine
    <3> QED BY <2>6, <2>7
  <2>9. RowOf(s) \in LiveIds /\ holdings[RowOf(s)].sym = s /\ RowOf(s) \in 1 .. Len(holdings)
    BY <1>1, <2>1, <2>8
  <2> QED BY <2>9, <1>1
<1> QED BY <1>2, <1>3

\* A decision is about one held leg, at a price.
LEMMA Decided ==
  ASSUME CasesAssumptions, CaseTypeOK, NEW q \in [{holdings[i].sym : i \in LiveIds} -> Quotes],
         NEW m \in Decisions(q), m.action # "none"
  PROVE  /\ m \in [action : {"exit", "book"}, sym : Stocks, price : SharePrices]
         /\ \E i \in HoldingIds : /\ holdings[i].status = "held" /\ m.sym = holdings[i].sym
                                  /\ m = [action |-> Decide(holdings[i], q[m.sym]), sym |-> m.sym, price |-> q[m.sym]]
<1>1. PICK i \in HoldingIds : /\ holdings[i].status = "held" /\ q[holdings[i].sym] # Null
                              /\ m = [action |-> Decide(holdings[i], q[holdings[i].sym]), sym |-> holdings[i].sym,
                                      price |-> q[holdings[i].sym]]
  BY DEF Decisions, Reviewed
<1>2. i \in LiveIds /\ holdings[i].sym \in Stocks
  BY <1>1, RowIn DEF LiveIds, IsLive, Holding
<1>3. q[holdings[i].sym] \in SharePrices
  BY <1>1, <1>2 DEF CasesAssumptions
<1>4. Decide(holdings[i], q[holdings[i].sym]) \in {"exit", "book", "none"}
  BY DEF Decide
<1>5. m.sym = holdings[i].sym /\ m.action = Decide(holdings[i], q[holdings[i].sym])
  BY <1>1
<1> QED BY <1>1, <1>2, <1>3, <1>4, <1>5

LEMMA Reviews == ASSUME CasesAssumptions, CInv, Review PROVE CInv'
<1> USE DEF CInv
<1>1. /\ pc = "review" /\ pc' = "act" /\ held' = [s \in Stocks |-> RowOf(s)] /\ passes \in Nat
      /\ UNCHANGED <<year, case, holdings, ledger, asOf, picked, bench, weak, move, passes, died>>
  BY DEF Review, CaseTypeOK
<1>2. /\ moves' \subseteq [action : {"exit", "book"}, sym : Stocks, price : SharePrices]
      /\ \A m \in moves' : \E i \in HoldingIds : holdings[i].status = "held" /\ m.sym = holdings[i].sym
      /\ \A m, n \in moves' : m.sym = n.sym => m = n
  <2>1. CASE moves' = {}
    BY <2>1
  <2>2. ASSUME NEW q \in [{holdings[i].sym : i \in LiveIds} -> Quotes], moves' = {m \in Decisions(q) : m.action # "none"}
        PROVE  /\ moves' \subseteq [action : {"exit", "book"}, sym : Stocks, price : SharePrices]
               /\ \A m \in moves' : \E i \in HoldingIds : holdings[i].status = "held" /\ m.sym = holdings[i].sym
               /\ \A m, n \in moves' : m.sym = n.sym => m = n
    <3>1. \A m \in moves' :
            /\ m \in [action : {"exit", "book"}, sym : Stocks, price : SharePrices]
            /\ \E i \in HoldingIds : /\ holdings[i].status = "held" /\ m.sym = holdings[i].sym
                                     /\ m = [action |-> Decide(holdings[i], q[m.sym]), sym |-> m.sym, price |-> q[m.sym]]
      BY <2>2, Decided
    <3>2. ASSUME NEW m \in moves', NEW n \in moves', m.sym = n.sym PROVE m = n
      <4>1. PICK i \in HoldingIds : /\ holdings[i].status = "held" /\ m.sym = holdings[i].sym
                                    /\ m = [action |-> Decide(holdings[i], q[m.sym]), sym |-> m.sym, price |-> q[m.sym]]
        BY <3>1
      <4>2. PICK j \in HoldingIds : /\ holdings[j].status = "held" /\ n.sym = holdings[j].sym
                                    /\ n = [action |-> Decide(holdings[j], q[n.sym]), sym |-> n.sym, price |-> q[n.sym]]
        BY <3>1
      <4>3. i = j
        BY <3>2, <4>1, <4>2 DEF NoSymbolHeldTwice
      <4> QED BY <3>2, <4>1, <4>2, <4>3
    <3> QED BY <3>1, <3>2
  <2> QED BY <2>1, <2>2 DEF Review
<1>3. \A s \in Stocks : /\ held'[s] \in 0 .. Len(holdings)
                        /\ held'[s] # 0 => held'[s] \in LiveIds /\ holdings[held'[s]].sym = s
                        /\ (\E i \in LiveIds : holdings[i].sym = s) => held'[s] # 0
  BY <1>1, RowFound
<1>4. held' \in [Stocks -> 0 .. Len(holdings)]
  BY <1>1, <1>3
<1>5. CaseTypeOK' /\ Carried'
  BY <1>1, <1>2, <1>4 DEF CaseTypeOK, Carried, InPass
<1>6. LiveIds' = LiveIds /\ HoldingIds' = HoldingIds /\ \A i \in LiveIds : holdings[i].sym \in Stocks
  BY <1>1, RowIn DEF LiveIds, HoldingIds, Holding
<1>7. Found'
  <2>1. \A i \in LiveIds' : held'[holdings'[i].sym] # 0
    BY <1>1, <1>3, <1>6
  <2>2. ASSUME NEW m \in moves' PROVE held'[m.sym] \in LiveIds' /\ holdings'[held'[m.sym]].sym = m.sym
    <3>1. PICK i \in HoldingIds : holdings[i].status = "held" /\ m.sym = holdings[i].sym
      BY <1>2
    <3>2. i \in LiveIds /\ m.sym \in Stocks
      BY <3>1, <1>2 DEF LiveIds, IsLive
    <3> QED BY <3>1, <3>2, <1>1, <1>3, <1>6
  <2> QED BY <1>2, <2>1, <2>2 DEF Found
<1>8. Apart'
  <2>1. \A s \in Stocks : ~By("exit", s)' /\ ~By("add", s)'
    BY <1>1 DEF Dated, InPass, By
  <2> QED BY <1>1, <2>1 DEF Apart, InPass
<1>9. Dated' /\ Chosen' /\ StruckLegsOwned'
  BY <1>1 DEF Dated, HoldingIds, Chosen, StruckLegsOwned, InPass
<1>10. NoSymbolHeldTwice' /\ NoRoundTrip'
  BY <1>1 DEF NoSymbolHeldTwice, NoRoundTrip, HoldingIds
<1> QED BY <1>5, <1>7, <1>8, <1>9, <1>10

-------------------------------------------------------------------------------
(* The moves of a review, one after the other.                             *)

\* A move's row is live, and the UPDATE keeps its name and its date.
LEMMA Moved ==
  ASSUME CasesAssumptions, CInv, NEW m \in moves, Apply(m)
  PROVE  LET h == held[m.sym] IN
         /\ h \in LiveIds /\ h \in HoldingIds /\ holdings[h].sym = m.sym
         /\ holdings' \in Seq(Holding) /\ Len(holdings') = Len(holdings) /\ HoldingIds' = HoldingIds
         /\ \A i \in HoldingIds : i # h => holdings'[i] = holdings[i]
         /\ \A i \in HoldingIds : holdings'[i].sym = holdings[i].sym /\ holdings'[i].added = holdings[i].added
         /\ holdings'[h].status # "held"
<1> DEFINE h == held[m.sym]
<1>1. h \in LiveIds /\ h \in HoldingIds /\ holdings[h].sym = m.sym
  BY DEF CInv, Found, Apply, Executing, InPass, LiveIds
<1>2. CaseTypeOK /\ holdings[h] \in Holding /\ passes \in Nat /\ holdings[h].weight \in Nat
  <2>1. CaseTypeOK /\ passes \in Nat
    BY DEF CInv, CaseTypeOK
  <2>2. holdings[h] \in Holding
    BY <2>1, <1>1, RowIn
  <2> QED BY <2>1, <2>2 DEF Holding
<1>3. PICK r \in Holding : /\ holdings' = [holdings EXCEPT ![h] = r] /\ r.sym = holdings[h].sym
                           /\ r.added = holdings[h].added /\ r.status # "held"
  <2>1. CASE m.action = "exit" /\ holdings' = [holdings EXCEPT ![h] = [@ EXCEPT !.status = "exited", !.out = passes]]
    <3> DEFINE r == [holdings[h] EXCEPT !.status = "exited", !.out = passes]
    <3>1. r \in Holding /\ r.sym = holdings[h].sym /\ r.added = holdings[h].added /\ r.status = "exited"
      BY <1>2 DEF Holding
    <3>2. holdings' = [holdings EXCEPT ![h] = r]
      BY <2>1
    <3> HIDE DEF r
    <3> QED BY <3>1, <3>2
  <2>2. CASE m.action = "book" /\ holdings' = [holdings EXCEPT ![h] = [@ EXCEPT !.status = "booked", !.weight = holdings[h].weight \div 2]]
    <3> DEFINE r == [holdings[h] EXCEPT !.status = "booked", !.weight = holdings[h].weight \div 2]
    <3>1. holdings[h].weight \div 2 \in 0 .. Whole
      <4>1. holdings[h].weight \div 2 \in 0 .. holdings[h].weight
        BY <1>2, QuotientSmall, 2 \in Nat \ {0}
      <4>2. holdings[h].weight <= Whole /\ Whole \in Nat
        BY <1>2 DEF Holding, CasesAssumptions
      <4> QED BY <1>2, <4>1, <4>2
    <3>2. r \in Holding /\ r.sym = holdings[h].sym /\ r.added = holdings[h].added /\ r.status = "booked"
      BY <1>2, <3>1 DEF Holding
    <3>3. holdings' = [holdings EXCEPT ![h] = r]
      BY <2>2
    <3> HIDE DEF r
    <3> QED BY <3>2, <3>3
  <2> QED BY <2>1, <2>2 DEF Apply
<1> HIDE DEF h
<1>4. /\ holdings' \in Seq(Holding) /\ Len(holdings') = Len(holdings) /\ HoldingIds' = HoldingIds
      /\ holdings'[h] = r /\ \A i \in HoldingIds : i # h => holdings'[i] = holdings[i]
  BY <1>1, <1>2, <1>3, CaseUpdated
<1>5. \A i \in HoldingIds : holdings'[i].sym = holdings[i].sym /\ holdings'[i].added = holdings[i].added
  BY <1>3, <1>4
<1> QED BY <1>1, <1>3, <1>4, <1>5 DEF h

LEMMA Applies == ASSUME CasesAssumptions, CInv, NEW m \in moves, Apply(m) PROVE CInv'
<1> DEFINE h == held[m.sym]
<1>1. /\ pc = "act" /\ pc' = "log" /\ moves' = moves \ {m} /\ move' = m /\ passes \in Nat
      /\ UNCHANGED <<year, case, ledger, asOf, picked, bench, weak, held, passes, died>>
  BY DEF CInv, Apply, CaseTypeOK
<1>2. /\ h \in LiveIds /\ h \in HoldingIds /\ holdings[h].sym = m.sym
      /\ holdings' \in Seq(Holding) /\ Len(holdings') = Len(holdings) /\ HoldingIds' = HoldingIds
      /\ \A i \in HoldingIds : i # h => holdings'[i] = holdings[i]
      /\ \A i \in HoldingIds : holdings'[i].sym = holdings[i].sym /\ holdings'[i].added = holdings[i].added
      /\ holdings'[h].status # "held"
  BY Moved
<1>3. /\ \A i \in LiveIds : held[holdings[i].sym] # 0
      /\ \A n \in moves : held[n.sym] \in LiveIds /\ holdings[held[n.sym]].sym = n.sym
      /\ \A n, l \in moves : n.sym = l.sym => n = l
  BY <1>1 DEF CInv, Found, Executing, InPass
<1>4. m \in [action : {"exit", "book"}, sym : Stocks, price : SharePrices]
  BY DEF CInv, CaseTypeOK
<1>5. CaseTypeOK /\ Carried /\ Dated /\ Apart /\ NoSymbolHeldTwice /\ NoRoundTrip
  BY DEF CInv
<1> HIDE DEF h
<1>6. h # 0
  BY <1>2, <1>5, RowIn
<1>7. CaseTypeOK'
  BY <1>1, <1>2, <1>5 DEF CaseTypeOK
<1>8. Carried'
  BY <1>1, <1>4, <1>5 DEF Carried, InPass, Move
<1>9. Dated'
  BY <1>1, <1>2, <1>5 DEF Dated, InPass
<1>10. Chosen' /\ StruckLegsOwned'
  BY <1>1 DEF Chosen, StruckLegsOwned, InPass
<1>11. NoSymbolHeldTwice'
  <2>1. \A i \in HoldingIds : holdings'[i].status = "held" => i # h /\ holdings[i].status = "held"
    BY <1>2
  <2> QED BY <2>1, <1>2, <1>5 DEF NoSymbolHeldTwice
<1>12. NoRoundTrip'
  BY <1>1, <1>5 DEF NoRoundTrip
<1>13. Found'
  <2>1. ASSUME NEW i \in LiveIds' PROVE held'[holdings'[i].sym] # 0
    <3>1. i \in HoldingIds
      BY <2>1, <1>2 DEF LiveIds
    <3>2. CASE i = h
      BY <3>2, <1>1, <1>2, <1>3
    <3>3. CASE i # h
      BY <2>1, <3>1, <3>3, <1>1, <1>2, <1>3 DEF LiveIds
    <3> QED BY <3>2, <3>3
  <2>2. ASSUME NEW n \in moves' PROVE held'[n.sym] \in LiveIds' /\ holdings'[held'[n.sym]].sym = n.sym
    <3>1. n \in moves /\ n # m
      BY <1>1
    <3>2. held[n.sym] \in LiveIds /\ holdings[held[n.sym]].sym = n.sym /\ n.sym # m.sym
      BY <3>1, <1>3
    <3>3. held[n.sym] # h /\ held[n.sym] \in HoldingIds
      BY <3>2, <1>2 DEF LiveIds
    <3>4. holdings'[held[n.sym]] = holdings[held[n.sym]]
      BY <3>3, <1>2
    <3> QED BY <3>2, <3>3, <3>4, <1>1, <1>2 DEF LiveIds
  <2> QED BY <1>1, <1>3, <2>1, <2>2 DEF Found
<1>14. Apart'
  <2>1. \A a, s : By(a, s)' <=> By(a, s)
    BY <1>1 DEF By
  <2>2. \A s \in Stocks : /\ By("exit", s) => held[s] # 0
                          /\ By("add", s) => \A n \in moves : n.sym # s
    BY <1>1, <1>5 DEF Apart, Executing, InPass
  <2>3. m.sym \in Stocks /\ m.action # "add" /\ ~By("add", m.sym) /\ held[m.sym] # 0
    BY <1>4, <1>6, <2>2 DEF h
  <2> QED BY <1>1, <2>1, <2>2, <2>3 DEF Apart, Executing, InPass
<1> QED BY <1>7, <1>8, <1>9, <1>10, <1>11, <1>12, <1>13, <1>14 DEF CInv

LEMMA Writes == ASSUME CasesAssumptions, CInv, WriteMove PROVE CInv'
<1> DEFINE j == Len(ledger) + 1
<1>1. /\ pc = "log" /\ pc' = (IF move.action = "exit" THEN "refill" ELSE "act") /\ passes \in Nat /\ Log(move.action, move.sym)
      /\ UNCHANGED <<year, case, holdings, asOf, picked, bench, weak, moves, held, move, passes, died>>
  BY DEF CInv, WriteMove, LogMove, CaseTypeOK
<1>2. CaseTypeOK /\ Carried /\ Dated /\ Found /\ Apart /\ NoSymbolHeldTwice /\ NoRoundTrip
  BY DEF CInv
<1>3. /\ move.action \in {"exit", "book", "add"} /\ move.sym \in Stocks /\ move \in Move
      /\ move.action = "exit" => ~By("add", move.sym) /\ held[move.sym] # 0
      /\ move.action = "add" => ~By("exit", move.sym) /\ \A m \in moves : m.sym # move.sym
  BY <1>1, <1>2 DEF Carried, Apart, InPass, Move
<1>4. /\ ledger' \in Seq(Entry) /\ DOMAIN ledger' = DOMAIN ledger \cup {j} /\ j \notin DOMAIN ledger
      /\ ledger'[j] = [action |-> move.action, sym |-> move.sym, at |-> passes]
      /\ \A k \in DOMAIN ledger : ledger'[k] = ledger[k]
  BY <1>1, <1>2, <1>3, Logged
<1> HIDE DEF j
<1>5. CaseTypeOK'
  BY <1>1, <1>2, <1>4 DEF CaseTypeOK, Entry
<1>6. Carried'
  BY <1>1, <1>2, <1>3 DEF Carried, InPass
<1>7. Dated'
  <2>1. \A k \in DOMAIN ledger' : ledger'[k].at <= passes
    <3>1. passes <= passes
      BY <1>1
    <3> QED BY <3>1, <1>2, <1>4 DEF Dated
  <2> QED BY <1>1, <1>2, <2>1 DEF Dated, HoldingIds, InPass
<1>8. Chosen' /\ StruckLegsOwned'
  BY <1>1 DEF Chosen, StruckLegsOwned, InPass
<1>9. Found' /\ NoSymbolHeldTwice'
  BY <1>1, <1>2 DEF Found, LiveIds, HoldingIds, NoSymbolHeldTwice, InPass, Executing
<1>10. \A a, s : By(a, s)' => By(a, s) \/ (a = move.action /\ s = move.sym)
  BY <1>1, <1>4 DEF By
<1>11. Apart'
  <2>1. \A s \in Stocks : /\ By("exit", s) => held[s] # 0
                          /\ By("add", s) => \A m \in moves : m.sym # s
    BY <1>1, <1>2 DEF Apart, Executing, InPass
  <2>2. \A s \in Stocks : /\ By("exit", s)' => held[s] # 0
                          /\ By("add", s)' => \A m \in moves : m.sym # s
    BY <1>3, <1>10, <2>1
  <2> QED BY <1>1, <2>2 DEF Apart, InPass
<1>12. NoRoundTrip'
  <2>1. ASSUME NEW k \in DOMAIN ledger', NEW l \in DOMAIN ledger', ledger'[k].action = "exit", ledger'[l].action = "add",
               ledger'[k].at = ledger'[l].at
        PROVE  ledger'[k].sym # ledger'[l].sym
    <3>1. CASE k \in DOMAIN ledger /\ l \in DOMAIN ledger
      BY <2>1, <3>1, <1>2, <1>4 DEF NoRoundTrip
    <3>2. CASE k = j /\ l \in DOMAIN ledger
      <4>1. move.action = "exit" /\ ledger[l].at = passes /\ ledger[l].action = "add" /\ ledger'[k].sym = move.sym
        BY <2>1, <3>2, <1>4
      <4>2. ~By("add", move.sym)
        BY <4>1, <1>3
      <4> QED BY <3>2, <4>1, <4>2, <1>4 DEF By
    <3>3. CASE l = j /\ k \in DOMAIN ledger
      <4>1. move.action = "add" /\ ledger[k].at = passes /\ ledger[k].action = "exit" /\ ledger'[l].sym = move.sym
        BY <2>1, <3>3, <1>4
      <4>2. ~By("exit", move.sym)
        BY <4>1, <1>3
      <4> QED BY <3>3, <4>1, <4>2, <1>4 DEF By
    <3>4. k = j => l # j
      BY <2>1
    <3> QED BY <3>1, <3>2, <3>3, <3>4, <1>4
  <2> QED BY <2>1 DEF NoRoundTrip
<1> QED BY <1>5, <1>6, <1>7, <1>8, <1>9, <1>11, <1>12 DEF CInv

LEMMA Refills == ASSUME CasesAssumptions, CInv, Refill PROVE CInv'
<1> DEFINE b == bench[Min(FreeNames)]  w == holdings[held[move.sym]].weight
           leg == Leg(b.sym, w, b.price, case.mi)  j == Len(holdings) + 1
<1>1. /\ pc = "refill" /\ pc' = "log" /\ FreeNames # {} /\ passes \in Nat /\ bench \in Seq(Offer)
      /\ holdings' = Append(holdings, leg) /\ held' = [held EXCEPT ![b.sym] = j]
      /\ move' = [action |-> "add", sym |-> b.sym, price |-> b.price]
      /\ UNCHANGED <<year, case, ledger, asOf, picked, bench, weak, moves, passes, died>>
  BY DEF CInv, Refill, CaseTypeOK, Carried
<1>2. CaseTypeOK /\ Carried /\ Dated /\ Found /\ Apart /\ NoSymbolHeldTwice /\ NoRoundTrip
  BY DEF CInv
<1>3. b \in Offer /\ held[b.sym] = 0
  <2>1. DOMAIN bench = 1 .. Len(bench) /\ Len(bench) \in Nat
    BY <1>1, LenProperties
  <2>2. FreeNames \subseteq 1 .. Len(bench)
    BY <2>1 DEF FreeNames
  <2>3. Min(FreeNames) \in FreeNames
    BY <1>1, <2>1, <2>2, LeastOf
  <2>4. Min(FreeNames) \in 1 .. Len(bench)
    BY <2>2, <2>3
  <2>5. b \in Offer
    BY <1>1, <2>4, ElementOfSeq
  <2>6. \A i \in FreeNames : held[bench[i].sym] = 0
    BY DEF FreeNames
  <2> QED BY <2>3, <2>5, <2>6
<1>4. w \in 0 .. Whole
  <2>1. held[move.sym] \in 0 .. Len(holdings) /\ held[move.sym] # 0
    BY <1>1, <1>2 DEF CaseTypeOK, Carried, InPass
  <2>2. held[move.sym] \in HoldingIds
    BY <2>1, <1>2, LenProperties DEF CaseTypeOK, HoldingIds
  <2> QED BY <2>2, <1>2, RowIn DEF Holding
<1> HIDE DEF b, w, leg, j
<1>5. b.sym \in Stocks /\ b.price \in SharePrices
  BY <1>3 DEF Offer
<1>6. leg \in Holding /\ leg.sym = b.sym /\ leg.status = "held" /\ leg.added = passes
  BY <1>2, <1>4, <1>5, NewLeg DEF leg
<1>7. /\ holdings' \in Seq(Holding) /\ Len(holdings') = Len(holdings) + 1
      /\ HoldingIds' = HoldingIds \cup {j} /\ j \notin HoldingIds /\ holdings'[j] = leg
      /\ \A i \in HoldingIds : holdings'[i] = holdings[i]
  BY <1>1, <1>2, <1>6, Inserted DEF j
<1>8. /\ held \in [Stocks -> 0 .. Len(holdings)] /\ Len(holdings) \in Nat /\ j \in 1 .. Len(holdings')
      /\ held'[b.sym] = j /\ \A s \in Stocks : s # b.sym => held'[s] = held[s]
      /\ held' \in [Stocks -> 0 .. Len(holdings')]
  <2>1. held \in [Stocks -> 0 .. Len(holdings)] /\ Len(holdings) \in Nat
    BY <1>2, LenProperties DEF CaseTypeOK
  <2>2. j \in 1 .. Len(holdings') /\ \A x \in 0 .. Len(holdings) : x \in 0 .. Len(holdings')
    BY <2>1, <1>7 DEF j
  <2> QED BY <1>1, <1>5, <2>1, <2>2
<1>9. /\ \A i \in LiveIds : held[holdings[i].sym] # 0
      /\ \A m \in moves : held[m.sym] \in LiveIds /\ holdings[held[m.sym]].sym = m.sym
      /\ \A m, n \in moves : m.sym = n.sym => m = n
  BY <1>1, <1>2 DEF Found, Executing, InPass
<1>10. \A m \in moves : m.sym \in Stocks /\ held[m.sym] # 0 /\ m.sym # b.sym
  <2>1. \A m \in moves : m.sym \in Stocks /\ held[m.sym] \in LiveIds
    BY <1>2, <1>9 DEF CaseTypeOK
  <2>2. \A i \in LiveIds : i # 0
    BY <1>2, RowIn DEF LiveIds
  <2> QED BY <2>1, <2>2, <1>3
<1>11. \A i \in LiveIds : i \in HoldingIds /\ holdings[i].sym # b.sym /\ holdings[i].sym \in Stocks
  BY <1>2, <1>3, <1>9, RowIn DEF LiveIds, Holding
<1>12. CaseTypeOK'
  BY <1>1, <1>2, <1>7, <1>8 DEF CaseTypeOK
<1>13. Carried'
  BY <1>1, <1>2, <1>5 DEF Carried, InPass, Move
<1>14. Dated'
  <2>1. passes <= passes
    BY <1>1
  <2>2. \A i \in HoldingIds' : holdings'[i].added <= passes
    BY <2>1, <1>2, <1>6, <1>7 DEF Dated
  <2> QED BY <1>1, <1>2, <2>2 DEF Dated, InPass
<1>15. Chosen' /\ StruckLegsOwned'
  BY <1>1 DEF Chosen, StruckLegsOwned, InPass
<1>16. NoRoundTrip'
  BY <1>1, <1>2 DEF NoRoundTrip
<1>17. NoSymbolHeldTwice'
  <2>1. ASSUME NEW i \in HoldingIds, holdings[i].status = "held" PROVE holdings[i].sym # leg.sym
    BY <2>1, <1>6, <1>11 DEF LiveIds, IsLive
  <2>2. ASSUME NEW i \in HoldingIds', NEW k \in HoldingIds', holdings'[i].status = "held", holdings'[k].status = "held",
               holdings'[i].sym = holdings'[k].sym
        PROVE  i = k
    <3>1. CASE i \in HoldingIds /\ k \in HoldingIds
      BY <2>2, <3>1, <1>2, <1>7 DEF NoSymbolHeldTwice
    <3>2. CASE i = j /\ k \in HoldingIds
      BY <2>1, <2>2, <3>2, <1>7
    <3>3. CASE k = j /\ i \in HoldingIds
      BY <2>1, <2>2, <3>3, <1>7
    <3> QED BY <3>1, <3>2, <3>3, <1>7
  <2> QED BY <2>2 DEF NoSymbolHeldTwice
<1>18. Found'
  <2>1. ASSUME NEW i \in LiveIds' PROVE held'[holdings'[i].sym] # 0
    <3>1. CASE i = j
      BY <3>1, <1>6, <1>7, <1>8
    <3>2. CASE i \in HoldingIds
      <4>1. i \in LiveIds /\ holdings'[i] = holdings[i]
        BY <2>1, <3>2, <1>7 DEF LiveIds
      <4> QED BY <4>1, <1>8, <1>9, <1>11
    <3> QED BY <2>1, <3>1, <3>2, <1>7 DEF LiveIds
  <2>2. ASSUME NEW m \in moves' PROVE held'[m.sym] \in LiveIds' /\ holdings'[held'[m.sym]].sym = m.sym
    <3>1. m \in moves /\ held'[m.sym] = held[m.sym] /\ held[m.sym] \in LiveIds
      BY <1>1, <1>8, <1>9, <1>10
    <3>2. held[m.sym] \in HoldingIds /\ holdings'[held[m.sym]] = holdings[held[m.sym]]
      BY <3>1, <1>7, <1>11
    <3> QED BY <3>1, <3>2, <1>7, <1>9 DEF LiveIds
  <2> QED BY <1>1, <1>9, <2>1, <2>2 DEF Found
<1>19. Apart'
  <2>1. \A a, s : By(a, s)' <=> By(a, s)
    BY <1>1 DEF By
  <2>2. \A s \in Stocks : /\ By("exit", s) => held[s] # 0
                          /\ By("add", s) => \A m \in moves : m.sym # s
    BY <1>1, <1>2 DEF Apart, Executing, InPass
  <2>3. \A s \in Stocks : By("exit", s) => held'[s] # 0
    BY <2>2, <1>8
  <2>4. ~By("exit", b.sym) /\ \A m \in moves : m.sym # b.sym
    BY <2>2, <1>3, <1>5, <1>10
  <2>5. move'.action = "add" /\ move'.sym = b.sym
    BY <1>1
  <2> QED BY <1>1, <1>5, <2>1, <2>2, <2>3, <2>4, <2>5 DEF Apart, Executing, InPass
<1> QED BY <1>12, <1>13, <1>14, <1>15, <1>16, <1>17, <1>18, <1>19 DEF CInv

-------------------------------------------------------------------------------
(* The theorems.                                                           *)

LEMMA Starts == ASSUME CasesAssumptions, CaseInit PROVE CInv
<1> USE DEF CaseInit
<1>1. holdings = <<>> /\ ledger = <<>> /\ HoldingIds = {} /\ DOMAIN ledger = {} /\ Len(holdings) = 0
  BY EmptySeq DEF HoldingIds
<1>2. <<>> \in Seq(Holding) /\ <<>> \in Seq(Offer) /\ <<>> \in Seq([action : {"rebalance", "exit", "book", "add"}, sym : Stocks \cup {Null}, at : Nat])
  BY EmptySeq
<1>3. CaseTypeOK
  BY <1>1, <1>2 DEF CaseTypeOK, NoCase, Nothing, CasesAssumptions
<1>4. Carried
  BY <1>2 DEF Carried, InPass, NoMove, Move
<1>5. Dated /\ Chosen /\ Found /\ Apart /\ NoSymbolHeldTwice /\ NoRoundTrip /\ StruckLegsOwned
  BY <1>1 DEF Dated, Chosen, Found, Apart, NoSymbolHeldTwice, NoRoundTrip, StruckLegsOwned, InPass, Executing
<1> QED BY <1>3, <1>4, <1>5 DEF CInv

LEMMA Stutters == ASSUME CInv, UNCHANGED caseVars PROVE CInv'
<1> USE DEF CInv, caseVars, passVars
<1>1. CaseTypeOK' /\ Carried' /\ Dated' /\ Chosen'
  BY DEF CaseTypeOK, Carried, Dated, Chosen, Fits, StrikeSize, HoldingIds, InPass
<1>2. Found' /\ Apart' /\ NoSymbolHeldTwice' /\ NoRoundTrip' /\ StruckLegsOwned'
  BY DEF Found, Apart, By, LiveIds, HoldingIds, NoSymbolHeldTwice, NoRoundTrip, StruckLegsOwned, InPass, Executing
<1> QED BY <1>1, <1>2

LEMMA Steps == ASSUME CasesAssumptions, CInv, [CaseNext]_caseVars PROVE CInv'
<1>1. CASE StartPass BY <1>1, Begins
<1>2. CASE Refused BY <1>2, Stutters DEF Refused
<1>3. CASE NotReady BY <1>3, Rests DEF NotReady, Waiting, Stops, CInv, CaseTypeOK
<1>4. CASE \E sc \in Screens : Build(sc) BY <1>4, Builds
<1>5. CASE Upsert BY <1>5, Upserts
<1>6. CASE CloseOld BY <1>6, Closes
<1>7. CASE InsertLeg BY <1>7, Inserts
<1>8. CASE LogStrike BY <1>8, LogsStrike
<1>9. CASE Review BY <1>9, Reviews
<1>10. CASE \E m \in moves : Apply(m) BY <1>10, Applies
<1>11. CASE WriteMove BY <1>11, Writes
<1>12. CASE Refill BY <1>12, Refills
<1>13. CASE LeaveOpen BY <1>13, SeatStaysEmpty
<1>14. CASE EndPass BY <1>14, Rests DEF EndPass, Stops, CInv, CaseTypeOK
<1>15. CASE Fault
  <2>1. passes \in 1 .. passes /\ died \subseteq 1 .. passes
    BY <1>15 DEF Fault, CInv, Carried, CaseTypeOK
  <2> QED BY <1>15, <2>1, Rests DEF Fault, Stops
<1>16. CASE NewYear BY <1>16, Dates
<1>17. CASE UNCHANGED caseVars BY <1>17, Stutters
<1> QED BY <1>1, <1>2, <1>3, <1>4, <1>5, <1>6, <1>7, <1>8, <1>9, <1>10, <1>11, <1>12, <1>13, <1>14, <1>15, <1>16, <1>17
        DEF CaseNext, PassStep

LEMMA CaseInvariance == ASSUME CasesAssumptions PROVE CaseSpec => []CInv
<1>1. CaseInit => CInv
  BY Starts
<1>2. CInv /\ [CaseNext]_caseVars => CInv'
  BY Steps
<1> QED BY <1>1, <1>2, PTL DEF CaseSpec

\* The three tables and the pass are well typed, for any screens, quotes, sizes and faults (cases.py).
THEOREM CasesTyped == ASSUME CasesAssumptions PROVE CaseSpec => []CaseTypeOK
<1>1. CInv => CaseTypeOK
  BY DEF CInv
<1> QED BY <1>1, CaseInvariance, PTL

\* No symbol is ever held twice, whatever strikes, refills and faults came before (save_case,
\* apply_actions).
THEOREM NeverHeldTwice == ASSUME CasesAssumptions PROVE CaseSpec => []NoSymbolHeldTwice
<1>1. CInv => NoSymbolHeldTwice
  BY DEF CInv
<1> QED BY <1>1, CaseInvariance, PTL

\* A pass never buys back what it has just sold (apply_actions keeps sold names in its dictionary).
THEOREM NeverBoughtBack == ASSUME CasesAssumptions PROVE CaseSpec => []NoRoundTrip
<1>1. CInv => NoRoundTrip
  BY DEF CInv
<1> QED BY <1>1, CaseInvariance, PTL

\* Each leg of a strike has at least one share, after any rounding (min_investment's promise).
THEOREM LegsOwned == ASSUME CasesAssumptions PROVE CaseSpec => []StruckLegsOwned
<1>1. CInv => StruckLegsOwned
  BY DEF CInv
<1> QED BY <1>1, CaseInvariance, PTL

\* A row that is closed stays as it is: an UPDATE of a review finds the live row of its name, a
\* strike closes what is held.
LEMMA ClosedRowsStay == ASSUME CasesAssumptions, CInv, [CaseNext]_caseVars
                        PROVE  \A i \in HoldingIds : ~IsLive(holdings[i]) => holdings'[i] = holdings[i]
<1> SUFFICES ASSUME NEW i \in HoldingIds, ~IsLive(holdings[i]) PROVE holdings'[i] = holdings[i]
  OBVIOUS
<1>1. CASE CloseOld
  BY <1>1 DEF CloseOld, Closed, IsLive
<1>2. CASE InsertLeg
  <2>1. PICK x \in Seq(Holding) : x = holdings
    BY DEF CInv, CaseTypeOK
  <2>2. \E leg : holdings' = Append(holdings, leg)
    BY <1>2 DEF InsertLeg
  <2> QED BY <2>1, <2>2, LenProperties DEF HoldingIds
<1>3. CASE Refill
  <2>1. PICK x \in Seq(Holding) : x = holdings
    BY DEF CInv, CaseTypeOK
  <2>2. \E leg : holdings' = Append(holdings, leg)
    BY <1>3 DEF Refill
  <2> QED BY <2>1, <2>2, LenProperties DEF HoldingIds
<1>4. ASSUME NEW m \in moves, Apply(m) PROVE holdings'[i] = holdings[i]
  <2>1. held[m.sym] \in LiveIds /\ \A k \in HoldingIds : k # held[m.sym] => holdings'[k] = holdings[k]
    BY <1>4, Moved
  <2> QED BY <2>1 DEF LiveIds
<1>5. CASE UNCHANGED holdings
  BY <1>5
<1> QED BY <1>1, <1>2, <1>3, <1>4, <1>5
        DEF CaseNext, PassStep, StartPass, Refused, NotReady, Build, Upsert, LogStrike, Review, WriteMove, LeaveOpen, EndPass,
            Fault, NewYear, caseVars

\* What is closed stays closed, with its date.
THEOREM ClosedStays == ASSUME CasesAssumptions PROVE CaseSpec => ClosedIsFinal
<1>1. CInv /\ [CaseNext]_caseVars => [\A i \in HoldingIds : ~IsLive(holdings[i]) => holdings'[i] = holdings[i]]_caseVars
  BY ClosedRowsStay
<1> QED BY <1>1, CaseInvariance, PTL DEF CaseSpec, ClosedIsFinal

-------------------------------------------------------------------------------
(* The ledger and the holdings.                                            *)

\* An exit is dated no later than the pass that runs, and before its review by an earlier one.
Early == {"rows", "upsert", "close", "insert", "review"}
Exits ==
  \A i \in HoldingIds : holdings[i].status = "exited" =>
    holdings[i].out <= passes /\ (pc \in Early => holdings[i].out # passes)

\* A move or a strike is told of when it is in the ledger, or still to be written by the statement
\* under way, or was left untold by a pass that died.
Pending(a, s, t)  == pc = "log" /\ move.action = a /\ move.sym = s /\ t = passes
Striking(t)       == pc = "insert" /\ t = passes
MoveTold(a, s, t) == Entered(a, s, t) \/ Pending(a, s, t) \/ t \in died
StrikeTold(t)     == Struck(t) \/ Striking(t) \/ t \in died
ExitTold(i)   == holdings[i].status = "exited" => MoveTold("exit", holdings[i].sym, holdings[i].out)
ClosedTold(i) == holdings[i].status = "rebalanced" => StrikeTold(holdings[i].out)
BookTold(i)   == holdings[i].status = "booked" =>
                   \E t \in holdings[i].added .. passes : MoveTold("book", holdings[i].sym, t)
LegTold(i)    == MoveTold("add", holdings[i].sym, holdings[i].added) \/ StrikeTold(holdings[i].added)
RowTold(i)    == ExitTold(i) /\ ClosedTold(i) /\ BookTold(i)
MoveTrue == pc = "log" => EntryTrue([action |-> move.action, sym |-> move.sym, at |-> passes])
Told == /\ \A i \in HoldingIds : RowTold(i) /\ LegTold(i)
        /\ \A k \in DOMAIN ledger : EntryTrue(ledger[k])
        /\ MoveTrue

\* Of what a pass has done at most one row is untold, but for a strike, which writes last.
One == \A t : \A i, j \in HoldingIds : Untold(i, t) /\ Untold(j, t) => i = j \/ WrittenBy(t) = {}

\* The pass under way has not died, and a strike's legs are the only ones held while they come in.
Alive   == pc # "idle" => passes \notin died
HeldNew == pc = "insert" => \A i \in HoldingIds : holdings[i].status = "held" => holdings[i].added = passes

\* The seats a pass has emptied are those it has filled and the one it is at, unless the bench
\* has no name left.
Exhausted == \A a \in DOMAIN bench : held[bench[a].sym] # 0
Vacant == IF pc = "act" \/ (pc = "log" /\ move.action = "book") THEN 0 ELSE 1
Seats == Executing => Exhausted \/ Cardinality(SoldBy(passes)) = Cardinality(BoughtBy(passes)) + Vacant

Story == Exits /\ Told /\ One /\ Alive /\ HeldNew /\ Seats
JInv == CInv /\ Story

\* What is in the tables stays there: a row that is closed as it is, a booked one until it is sold.
Kept == /\ \A i \in HoldingIds : /\ i \in HoldingIds' /\ holdings'[i].sym = holdings[i].sym
                                 /\ holdings'[i].added = holdings[i].added
                                 /\ ~IsLive(holdings[i]) => holdings'[i] = holdings[i]
                                 /\ holdings'[i].status = "held" => holdings[i].status = "held"
                                 /\ holdings[i].status = "booked" =>
                                      \/ holdings'[i].status = "booked"
                                      \/ holdings'[i].status = "exited" /\ holdings'[i].out = passes'
        /\ \A i \in HoldingIds' \ HoldingIds : holdings'[i].added = passes'
        /\ \A k \in DOMAIN ledger : k \in DOMAIN ledger' /\ ledger'[k] = ledger[k]
GoesOn == Kept /\ passes' \in {passes, passes + 1} /\ died \subseteq died'

\* What was true when it was written stays true.
LEMMA TrueStill ==
  ASSUME CInv, GoesOn, NEW e, e.at \in Nat, e.at <= passes, EntryTrue(e) PROVE EntryTrue(e)'
<1>1. passes \in Nat /\ passes' \in Nat /\ passes <= passes' /\ e.at <= passes' /\ Kept
  BY DEF CInv, CaseTypeOK, GoesOn
<1>2. e.action = "exit" => (\E i \in HoldingIds : holdings[i].sym = e.sym /\ Sold(holdings[i], e.at))'
  BY <1>1 DEF EntryTrue, Kept, Sold, IsLive
<1>3. e.action = "add" => (\E i \in HoldingIds : holdings[i].sym = e.sym /\ holdings[i].added = e.at)'
  BY <1>1 DEF EntryTrue, Kept
<1>4. ASSUME e.action = "book"
      PROVE  \E i \in HoldingIds' :
               /\ holdings'[i].sym = e.sym /\ holdings'[i].added <= e.at
               /\ holdings'[i].status = "booked" \/ (holdings'[i].status = "exited" /\ holdings'[i].out >= e.at)
  <2>1. PICK i \in HoldingIds :
          /\ holdings[i].sym = e.sym /\ holdings[i].added <= e.at
          /\ holdings[i].status = "booked" \/ (holdings[i].status = "exited" /\ holdings[i].out >= e.at)
    BY <1>4 DEF EntryTrue
  <2>2. i \in HoldingIds' /\ holdings'[i].sym = e.sym /\ holdings'[i].added <= e.at
    BY <1>1, <2>1 DEF Kept
  <2>3. CASE holdings[i].status = "exited" /\ holdings[i].out >= e.at
    <3>1. holdings'[i] = holdings[i]
      BY <1>1, <2>3 DEF Kept, IsLive
    <3> QED BY <2>2, <2>3, <3>1
  <2>4. CASE holdings[i].status = "booked"
    <3>1. \/ holdings'[i].status = "booked"
          \/ holdings'[i].status = "exited" /\ holdings'[i].out = passes'
      BY <1>1, <2>4 DEF Kept
    <3>2. passes' >= e.at
      BY <1>1
    <3> QED BY <2>2, <3>1, <3>2
  <2> QED BY <2>1, <2>3, <2>4
<1>5. ASSUME e.action = "rebalance"
      PROVE  /\ \E i \in HoldingIds' : holdings'[i].added = e.at
             /\ \A i \in HoldingIds' : holdings'[i].status = "held" => holdings'[i].added >= e.at
  <2>1. /\ \E i \in HoldingIds : holdings[i].added = e.at
        /\ \A i \in HoldingIds : holdings[i].status = "held" => holdings[i].added >= e.at
    BY <1>5 DEF EntryTrue
  <2>2. \E i \in HoldingIds' : holdings'[i].added = e.at
    BY <1>1, <2>1 DEF Kept
  <2>3. ASSUME NEW i \in HoldingIds', holdings'[i].status = "held" PROVE holdings'[i].added >= e.at
    <3>1. CASE i \in HoldingIds
      BY <1>1, <2>1, <2>3, <3>1 DEF Kept
    <3>2. CASE i \notin HoldingIds
      <4>1. holdings'[i].added = passes'
        BY <1>1, <2>3, <3>2 DEF Kept
      <4> QED BY <1>1, <4>1
    <3> QED BY <3>1, <3>2
  <2> QED BY <2>2, <2>3
<1> QED BY <1>2, <1>3, <1>4, <1>5 DEF EntryTrue

\* A step goes on with the story when it tells of what is new in the tables and of what was pending.
Resolved    == \A a, s, t : Pending(a, s, t) => MoveTold(a, s, t)'
StrikeKnown == \A t : Striking(t) => StrikeTold(t)'
NewTold  == /\ \A i \in HoldingIds : holdings'[i].status = holdings[i].status \/ RowTold(i)'
            /\ \A i \in HoldingIds' \ HoldingIds : RowTold(i)' /\ LegTold(i)'
            /\ \A k \in DOMAIN ledger' \ DOMAIN ledger : EntryTrue(ledger[k])'
            /\ MoveTrue'

LEMMA Remembered ==
  ASSUME GoesOn, Resolved, StrikeKnown
  PROVE  /\ \A a, s, t : MoveTold(a, s, t) => MoveTold(a, s, t)'
         /\ \A t : StrikeTold(t) => StrikeTold(t)'
<1>1. \A a, s, t : Entered(a, s, t) => Entered(a, s, t)'
  BY DEF GoesOn, Kept, Entered
<1>2. \A t : Struck(t) => Struck(t)'
  BY <1>1 DEF Struck
<1>3. ASSUME NEW a, NEW s, NEW t, MoveTold(a, s, t) PROVE MoveTold(a, s, t)'
  BY <1>1, <1>3 DEF GoesOn, Resolved, MoveTold
<1>4. ASSUME NEW t, StrikeTold(t) PROVE StrikeTold(t)'
  BY <1>2, <1>4 DEF GoesOn, StrikeKnown, StrikeTold
<1> QED BY <1>3, <1>4

LEMMA TellsOn == ASSUME CInv, Told, GoesOn, Resolved, StrikeKnown, NewTold PROVE Told'
<1>1. /\ \A a, s, t : MoveTold(a, s, t) => MoveTold(a, s, t)'
      /\ \A t : StrikeTold(t) => StrikeTold(t)'
  BY Remembered
<1>2. Kept /\ passes \in Nat /\ passes' \in {passes, passes + 1} /\ CaseTypeOK
  BY DEF CInv, CaseTypeOK, GoesOn
<1>3. ASSUME NEW i \in HoldingIds PROVE LegTold(i)'
  <2>1. PICK s, t : s = holdings[i].sym /\ t = holdings[i].added
    OBVIOUS
  <2>2. holdings'[i].sym = s /\ holdings'[i].added = t
    BY <1>2, <2>1 DEF Kept
  <2>3. MoveTold("add", s, t) \/ StrikeTold(t)
    BY <2>1 DEF Told, LegTold
  <2>4. MoveTold("add", s, t)' \/ StrikeTold(t)'
    BY <1>1, <2>3
  <2> QED BY <2>2, <2>4 DEF LegTold, MoveTold, Entered, Pending, StrikeTold, Struck, Striking
<1>4. ASSUME NEW i \in HoldingIds, holdings'[i].status = holdings[i].status PROVE RowTold(i)'
  <2>1. PICK s, t : s = holdings[i].sym /\ t = holdings[i].out
    OBVIOUS
  <2>2. holdings'[i].sym = s /\ (~IsLive(holdings[i]) => holdings'[i].out = t)
    BY <1>2, <2>1 DEF Kept
  <2>3. RowTold(i)
    BY DEF Told
  <2>4. ExitTold(i)'
    <3>1. CASE holdings[i].status = "exited"
      <4>1. MoveTold("exit", s, t)'
        BY <1>1, <2>1, <2>3, <3>1 DEF RowTold, ExitTold
      <4> QED BY <2>2, <3>1, <4>1 DEF ExitTold, IsLive, MoveTold, Entered, Pending
    <3>2. CASE holdings[i].status # "exited"
      BY <1>4, <3>2 DEF ExitTold
    <3> QED BY <3>1, <3>2
  <2>5. ClosedTold(i)'
    <3>1. CASE holdings[i].status = "rebalanced"
      <4>1. StrikeTold(t)'
        BY <1>1, <2>1, <2>3, <3>1 DEF RowTold, ClosedTold
      <4> QED BY <2>2, <3>1, <4>1 DEF ClosedTold, IsLive, StrikeTold, Struck, Entered, Striking
    <3>2. CASE holdings[i].status # "rebalanced"
      BY <1>4, <3>2 DEF ClosedTold
    <3> QED BY <3>1, <3>2
  <2>6. BookTold(i)'
    <3>1. CASE holdings[i].status = "booked"
      <4>1. PICK u \in holdings[i].added .. passes : MoveTold("book", holdings[i].sym, u)
        BY <2>3, <3>1 DEF RowTold, BookTold
      <4>2. MoveTold("book", s, u)'
        BY <1>1, <2>1, <4>1
      <4>3. holdings[i].added \in Nat /\ holdings'[i].added = holdings[i].added
        BY <1>2, RowIn DEF Kept, Holding
      <4>4. u \in holdings'[i].added .. passes'
        BY <1>2, <4>1, <4>3
      <4> QED BY <2>2, <4>2, <4>4 DEF BookTold, MoveTold, Entered, Pending
    <3>2. CASE holdings[i].status # "booked"
      BY <1>4, <3>2 DEF BookTold
    <3> QED BY <3>1, <3>2
  <2> QED BY <2>4, <2>5, <2>6 DEF RowTold
<1>5. \A i \in HoldingIds' : RowTold(i)' /\ LegTold(i)'
  BY <1>3, <1>4 DEF NewTold
<1>6. ASSUME NEW k \in DOMAIN ledger' PROVE EntryTrue(ledger[k])'
  <2>1. CASE k \in DOMAIN ledger
    <3>1. ledger[k].at \in Nat /\ ledger[k].at <= passes /\ ledger'[k] = ledger[k]
      BY <1>2, <2>1, EntryIn DEF CInv, Dated, Entry, Kept
    <3>2. PICK e : e = ledger[k]
      OBVIOUS
    <3>3. EntryTrue(e)
      BY <2>1, <3>2 DEF Told
    <3>4. EntryTrue(e)'
      BY <3>1, <3>2, <3>3, TrueStill
    <3> QED BY <3>1, <3>2, <3>4
  <2>2. CASE k \notin DOMAIN ledger
    BY <1>6, <2>2 DEF NewTold
  <2> QED BY <2>1, <2>2
<1> QED BY <1>5, <1>6 DEF Told, NewTold

\* A pass that has no statement under way and has not died has told everything.
LEMMA NothingUntold ==
  ASSUME Told, NEW t, t \notin died, t = passes => pc \notin {"log", "insert"}, NEW i \in HoldingIds
  PROVE  ~Untold(i, t)
<1>1. RowTold(i) /\ LegTold(i)
  BY DEF Told
<1>2. \A a, s : MoveTold(a, s, t) => Entered(a, s, t)
  BY DEF MoveTold, Pending
<1>3. StrikeTold(t) => Struck(t)
  BY DEF StrikeTold, Striking
<1>4. Sold(holdings[i], t) => Entered("exit", holdings[i].sym, t)
  BY <1>1, <1>2 DEF RowTold, ExitTold, Sold
<1>5. Turned(holdings[i], t) => Struck(t)
  BY <1>1, <1>3 DEF RowTold, ClosedTold, Turned
<1>6. holdings[i].added = t => Entered("add", holdings[i].sym, t) \/ Struck(t)
  BY <1>1, <1>2, <1>3 DEF LegTold
<1> QED BY <1>4, <1>5, <1>6 DEF Untold

\* How a step leaves at most one row of a pass untold: nothing new is, or the pass has written
\* nothing, or only one row can be.
LEMMA OneStill ==
  ASSUME One,
         \A t : \/ /\ \A i \in HoldingIds' : Untold(i, t)' => i \in HoldingIds /\ Untold(i, t)
                   /\ WrittenBy(t)' = WrittenBy(t)
                \/ WrittenBy(t)' = {}
                \/ \A i, j \in HoldingIds' : Untold(i, t)' /\ Untold(j, t)' => i = j
  PROVE  One'
<1> SUFFICES ASSUME NEW t, NEW i \in HoldingIds', NEW j \in HoldingIds', Untold(i, t)', Untold(j, t)'
             PROVE  i = j \/ WrittenBy(t)' = {}
  BY DEF One
<1>1. CASE /\ \A k \in HoldingIds' : Untold(k, t)' => k \in HoldingIds /\ Untold(k, t)
           /\ WrittenBy(t)' = WrittenBy(t)
  BY <1>1 DEF One
<1> QED BY <1>1

\* A step that leaves the tables alone leaves them as well told as they were.
LEMMA SameTables == ASSUME CInv, UNCHANGED <<holdings, ledger>> PROVE Kept /\ HoldingIds' = HoldingIds /\ (One => One')
<1>1. HoldingIds' = HoldingIds
  BY DEF HoldingIds
<1>2. Kept
  BY <1>1 DEF Kept
<1>3. \A t : WrittenBy(t)' = WrittenBy(t)
  BY DEF WrittenBy
<1>4. \A t, i : Untold(i, t)' <=> Untold(i, t)
  BY DEF Untold, Entered, Struck
<1>5. One => One'
  BY <1>1, <1>3, <1>4 DEF One
<1> QED BY <1>1, <1>2, <1>5

-------------------------------------------------------------------------------
(* The story after each statement.                                         *)

\* Statements that neither touch the tables nor have one pending, within the time before the review.
LEMMA StoryStays ==
  ASSUME CInv, Story, UNCHANGED <<holdings, ledger, died>>, passes' \in {passes, passes + 1},
         pc \notin {"log", "insert"}, pc' \in (Early \ {"insert"}) \cup {"idle"},
         pc \in Early \/ pc' = "idle" \/ passes' = passes + 1,
         pc = "idle" => passes' = passes + 1
  PROVE  Story'
<1>1. passes \in Nat /\ died \subseteq 1 .. passes /\ \A i \in HoldingIds : holdings[i].out \in Nat
  BY RowIn DEF CInv, CaseTypeOK, Holding
<1>2. Kept /\ HoldingIds' = HoldingIds /\ One'
  BY SameTables DEF Story
<1>3. ASSUME NEW i \in HoldingIds', holdings'[i].status = "exited"
      PROVE  holdings'[i].out <= passes' /\ (pc' \in Early => holdings'[i].out # passes')
  <2>1. /\ holdings[i].out <= passes /\ holdings[i].out \in Nat
        /\ pc \in Early => holdings[i].out # passes
    BY <1>1, <1>2, <1>3 DEF Story, Exits
  <2> QED BY <1>1, <2>1 DEF Early
<1>4. Told'
  <2>1. Resolved /\ StrikeKnown
    BY DEF Resolved, Pending, StrikeKnown, Striking
  <2>2. NewTold
    BY <1>2 DEF NewTold, MoveTrue, Early
  <2>3. GoesOn
    BY <1>2 DEF GoesOn
  <2> QED BY <2>1, <2>2, <2>3, TellsOn DEF Story
<1>5. Seats'
  BY DEF Seats, Executing, InPass, Early
<1>6. Alive'
  BY <1>1 DEF Story, Alive
<1>7. HeldNew'
  BY DEF HeldNew, Early
<1> QED BY <1>2, <1>3, <1>4, <1>5, <1>6, <1>7 DEF Story, Exits

LEMMA StoryFault == ASSUME CInv, Story, Fault PROVE Story'
<1>1. UNCHANGED <<holdings, ledger, passes, move>> /\ pc # "idle" /\ pc' = "idle" /\ died' = died \cup {passes}
  BY DEF Fault
<1>2. Kept /\ HoldingIds' = HoldingIds /\ One'
  BY <1>1, SameTables DEF Story
<1>3. Exits'
  BY <1>1, <1>2 DEF Story, Exits, Early
<1>4. Told'
  <2>1. Resolved /\ StrikeKnown
    BY <1>1 DEF Resolved, Pending, MoveTold, StrikeKnown, Striking, StrikeTold
  <2>2. NewTold
    BY <1>1, <1>2 DEF NewTold, MoveTrue
  <2>3. GoesOn
    BY <1>1, <1>2 DEF GoesOn
  <2> QED BY <2>1, <2>2, <2>3, TellsOn DEF Story
<1>5. Seats' /\ Alive' /\ HeldNew'
  BY <1>1 DEF Seats, Executing, InPass, Alive, HeldNew
<1> QED BY <1>2, <1>3, <1>4, <1>5 DEF Story

LEMMA StoryEnds == ASSUME CInv, Story, EndPass PROVE Story'
<1>1. UNCHANGED <<holdings, ledger, passes, died>> /\ pc = "act" /\ pc' = "idle"
  BY DEF EndPass
<1> QED BY <1>1, StoryStays

LEMMA StoryCloses == ASSUME CasesAssumptions, CInv, Story, CloseOld PROVE Story'
<1>1. /\ pc = "close" /\ pc' = "insert" /\ holdings' = [i \in HoldingIds |-> Closed(holdings[i])]
      /\ UNCHANGED <<ledger, move, passes, died>>
  BY DEF CloseOld
<1>2. CaseTypeOK /\ Dated
  BY DEF CInv
<1>3. HoldingIds' = HoldingIds
  BY <1>1, <1>2 DEF HoldingIds
<1>4. ASSUME NEW i \in HoldingIds
      PROVE  /\ holdings'[i].sym = holdings[i].sym /\ holdings'[i].added = holdings[i].added
             /\ holdings[i].status # "held" => holdings'[i] = holdings[i]
             /\ holdings[i].status = "held" => holdings'[i].status = "rebalanced" /\ holdings'[i].out = passes
  <2>1. holdings[i] \in Holding /\ holdings'[i] = Closed(holdings[i])
    BY <1>1, <1>2, RowIn
  <2> QED BY <2>1 DEF Closed, Holding
<1>5. Exits'
  <2>1. \A i \in HoldingIds : holdings'[i].status = "exited" => holdings'[i] = holdings[i]
    BY <1>4
  <2> QED BY <1>1, <1>3, <2>1 DEF Story, Exits, Early
<1>6. Told'
  <2>1. GoesOn
    BY <1>1, <1>3, <1>4 DEF GoesOn, Kept, IsLive
  <2>2. Resolved /\ StrikeKnown
    BY <1>1 DEF Resolved, Pending, StrikeKnown, Striking
  <2>3. ASSUME NEW i \in HoldingIds, holdings[i].status = "held" PROVE RowTold(i)'
    BY <1>1, <1>4, <2>3 DEF RowTold, ExitTold, ClosedTold, BookTold, StrikeTold, Striking
  <2>4. NewTold
    BY <1>1, <1>3, <1>4, <2>3 DEF NewTold, MoveTrue
  <2> QED BY <2>1, <2>2, <2>4, TellsOn DEF Story
<1>7. One'
  <2>0. PICK p : p = passes
    OBVIOUS
  <2>1. WrittenBy(p)' = {}
    BY <1>1, <1>2, <2>0 DEF WrittenBy, Dated, InPass
  <2>2. ASSUME NEW t, t # p
        PROVE  /\ WrittenBy(t)' = WrittenBy(t)
               /\ \A i \in HoldingIds' : Untold(i, t)' => i \in HoldingIds /\ Untold(i, t)
    <3>1. WrittenBy(t)' = WrittenBy(t)
      BY <1>1 DEF WrittenBy
    <3>2. ASSUME NEW i \in HoldingIds, Untold(i, t)' PROVE Untold(i, t)
      <4>1. \A a, s : Entered(a, s, t)' <=> Entered(a, s, t)
        BY <1>1 DEF Entered
      <4>2. Struck(t)' <=> Struck(t)
        BY <1>1 DEF Struck, Entered
      <4>3. CASE holdings[i].status # "held"
        <5>1. holdings'[i] = holdings[i]
          BY <1>4, <4>3
        <5> QED BY <3>2, <4>1, <4>2, <5>1 DEF Untold
      <4>4. CASE holdings[i].status = "held"
        BY <1>4, <2>0, <2>2, <3>2, <4>1, <4>2, <4>4 DEF Untold, Sold, Turned
      <4> QED BY <4>3, <4>4
    <3> QED BY <1>3, <3>1, <3>2
  <2>3. \A t : \/ /\ \A i \in HoldingIds' : Untold(i, t)' => i \in HoldingIds /\ Untold(i, t)
                   /\ WrittenBy(t)' = WrittenBy(t)
                \/ WrittenBy(t)' = {}
    BY <2>1, <2>2
  <2> QED BY <2>3, OneStill DEF Story
<1>8. Alive' /\ HeldNew' /\ Seats'
  BY <1>1, <1>3, <1>4 DEF Story, Alive, HeldNew, Seats, Executing, InPass
<1> QED BY <1>5, <1>6, <1>7, <1>8 DEF Story

\* A leg that comes in, by a strike or from the bench.
LEMMA StoryInserts ==
  ASSUME CInv, Story, NEW h \in Holding, holdings' = Append(holdings, h), h.status = "held", h.added = passes,
         pc \in {"insert", "refill"}, UNCHANGED <<ledger, passes, died>>,
         pc = "insert" => pc' = "insert",
         pc = "refill" => pc' = "log" /\ move'.action = "add" /\ move'.sym = h.sym
  PROVE  Exits' /\ Told' /\ One' /\ Alive' /\ HeldNew' /\ SoldBy(passes)' = SoldBy(passes)
<1>0. PICK j : j = Len(holdings) + 1
  OBVIOUS
<1>1. CaseTypeOK /\ Dated
  BY DEF CInv
<1>2. /\ HoldingIds' = HoldingIds \cup {j} /\ j \notin HoldingIds /\ holdings'[j] = h /\ \A i \in HoldingIds : holdings'[i] = holdings[i]
  BY <1>0, <1>1, Inserted
<1>3. Exits'
  BY <1>2 DEF Story, Exits, Early
<1>4. SoldBy(passes)' = SoldBy(passes)
  BY <1>2 DEF SoldBy
<1>5. Told'
  <2>1. GoesOn
    BY <1>2 DEF GoesOn, Kept
  <2>2. Resolved
    BY DEF Resolved, Pending
  <2>3. StrikeKnown
    BY DEF StrikeKnown, Striking, StrikeTold
  <2>4. LegTold(j)' /\ RowTold(j)'
    BY <1>2 DEF LegTold, MoveTold, Pending, StrikeTold, Striking, RowTold, ExitTold, ClosedTold, BookTold
  <2>5. MoveTrue'
    BY <1>2 DEF MoveTrue, EntryTrue
  <2>6. NewTold
    BY <1>2, <2>4, <2>5 DEF NewTold
  <2> QED BY <2>1, <2>2, <2>3, <2>6, TellsOn DEF Story
<1>6. One'
  <2>1. \A a, s, t : Entered(a, s, t)' <=> Entered(a, s, t)
    BY DEF Entered
  <2>2. \A t : Struck(t)' <=> Struck(t)
    BY DEF Struck, Entered
  <2>3. \A t : \A i \in HoldingIds : Untold(i, t)' <=> Untold(i, t)
    BY <1>2, <2>1, <2>2 DEF Untold
  <2>4. \A t : Untold(j, t)' => t = passes
    BY <1>2 DEF Untold, Sold, Turned
  <2>5. \A t : WrittenBy(t)' = WrittenBy(t)
    BY DEF WrittenBy
  <2>6. CASE pc = "insert"
    <3>1. WrittenBy(passes)' = {}
      BY <1>1, <2>5, <2>6 DEF WrittenBy, Dated, InPass
    <3> QED BY <1>2, <2>3, <2>4, <2>5, <3>1, OneStill DEF Story
  <2>7. CASE pc = "refill"
    <3>1. \A i \in HoldingIds : ~Untold(i, passes)
      BY <2>7, NothingUntold DEF Story, Alive
    <3>2. \A i, k \in HoldingIds' : Untold(i, passes)' /\ Untold(k, passes)' => i = k
      BY <1>2, <2>3, <3>1
    <3>3. ASSUME NEW t, t # passes
          PROVE  \A i \in HoldingIds' : Untold(i, t)' => i \in HoldingIds /\ Untold(i, t)
      BY <1>2, <2>3, <2>4, <3>3
    <3> QED BY <2>5, <3>2, <3>3, OneStill DEF Story
  <2> QED BY <2>6, <2>7
<1>7. Alive' /\ HeldNew'
  BY <1>2 DEF Story, Alive, HeldNew
<1> QED BY <1>3, <1>4, <1>5, <1>6, <1>7

LEMMA StoryStruck == ASSUME CasesAssumptions, CInv, Story, InsertLeg PROVE Story'
<1> DEFINE o == Head(picked)  leg == Leg(o.sym, Whole \div StrikeSize, o.price, case.mi)
<1>1. /\ pc = "insert" /\ pc' = "insert" /\ picked \in Seq(Offer) /\ picked # <<>> /\ StrikeSize \in Nat \ {0}
      /\ UNCHANGED <<ledger, passes, died>> /\ holdings' = Append(holdings, leg) /\ CaseTypeOK /\ Whole \in Nat
  BY DEF CInv, InsertLeg, Carried, Chosen, InPass, CasesAssumptions
<1>2. o.sym \in Stocks /\ o.price \in SharePrices
  <2>1. o \in Offer
    BY <1>1, HeadTailProperties
  <2> QED BY <2>1 DEF Offer
<1>3. Whole \div StrikeSize \in 0 .. Whole
  BY <1>1, QuotientSmall
<1> HIDE DEF o
<1>4. leg \in Holding /\ leg.status = "held" /\ leg.added = passes
  BY <1>1, <1>2, <1>3, NewLeg
<1> HIDE DEF leg
<1>5. Exits' /\ Told' /\ One' /\ Alive' /\ HeldNew'
  BY <1>1, <1>4, StoryInserts
<1>6. Seats'
  BY <1>1 DEF Seats, Executing, InPass
<1> QED BY <1>5, <1>6 DEF Story

LEMMA StoryRefilled == ASSUME CasesAssumptions, CInv, Story, Refill PROVE Story'
<1> DEFINE b == bench[Min(FreeNames)]  w == holdings[held[move.sym]].weight
           leg == Leg(b.sym, w, b.price, case.mi)
<1>1. /\ pc = "refill" /\ pc' = "log" /\ FreeNames # {} /\ bench \in Seq(Offer) /\ CaseTypeOK
      /\ holdings' = Append(holdings, leg) /\ move' = [action |-> "add", sym |-> b.sym, price |-> b.price]
      /\ UNCHANGED <<ledger, passes, died>>
  BY DEF CInv, Refill, Carried
<1>2. DOMAIN bench = 1 .. Len(bench) /\ Len(bench) \in Nat
  BY <1>1, LenProperties
<1>3. FreeNames \subseteq 1 .. Len(bench)
  BY <1>2 DEF FreeNames
<1>4. b \in Offer
  <2>1. Min(FreeNames) \in 1 .. Len(bench)
    BY <1>1, <1>2, <1>3, LeastOf
  <2> QED BY <1>1, <2>1, ElementOfSeq
<1>5. w \in 0 .. Whole
  <2>1. held[move.sym] \in 0 .. Len(holdings) /\ held[move.sym] # 0
    BY <1>1 DEF CInv, CaseTypeOK, Carried, InPass
  <2>2. held[move.sym] \in HoldingIds
    BY <1>1, <2>1, LenProperties DEF CaseTypeOK, HoldingIds
  <2> QED BY <1>1, <2>2, RowIn DEF Holding
<1> HIDE DEF b, w
<1>6. leg \in Holding /\ leg.status = "held" /\ leg.added = passes /\ leg.sym = b.sym
  BY <1>1, <1>4, <1>5, NewLeg DEF Offer
<1> HIDE DEF leg
<1>7. Exits' /\ Told' /\ One' /\ Alive' /\ HeldNew' /\ SoldBy(passes)' = SoldBy(passes)
  BY <1>1, <1>6, StoryInserts
<1>8. Seats'
  <2>1. ~Exhausted
    BY <1>1 DEF Exhausted, FreeNames
  <2>2. Cardinality(SoldBy(passes)) = Cardinality(BoughtBy(passes)) + 1
    BY <1>1, <2>1 DEF Story, Seats, Executing, InPass, Vacant
  <2>3. BoughtBy(passes)' = BoughtBy(passes) /\ Vacant' = 1
    BY <1>1 DEF BoughtBy, Vacant
  <2> QED BY <1>7, <2>2, <2>3 DEF Seats
<1> QED BY <1>7, <1>8 DEF Story

LEMMA StoryLogs == ASSUME CasesAssumptions, CInv, Story, LogStrike PROVE Story'
<1>0. PICK j, t : j = Len(ledger) + 1 /\ t = passes
  OBVIOUS
<1>1. /\ pc = "insert" /\ pc' = "review" /\ Log("rebalance", Null) /\ CaseTypeOK /\ picked = <<>>
      /\ UNCHANGED <<holdings, move, passes, died>>
  BY DEF CInv, LogStrike
<1>2. /\ DOMAIN ledger' = DOMAIN ledger \cup {j} /\ j \notin DOMAIN ledger
      /\ ledger'[j] = [action |-> "rebalance", sym |-> Null, at |-> t]
      /\ \A k \in DOMAIN ledger : ledger'[k] = ledger[k]
  BY <1>0, <1>1, Logged
<1>3. HoldingIds' = HoldingIds
  BY <1>1 DEF HoldingIds
<1>4. Exits'
  BY <1>1, <1>3 DEF Story, Exits, Early
<1>5. Struck(t)'
  BY <1>2 DEF Struck, Entered
<1>6. Told'
  <2>1. GoesOn
    BY <1>1, <1>2, <1>3 DEF GoesOn, Kept, IsLive
  <2>2. Resolved /\ StrikeKnown
    BY <1>0, <1>1, <1>5 DEF Resolved, Pending, StrikeKnown, Striking, StrikeTold
  <2>3. \E i \in HoldingIds : holdings[i].added = passes
    <3>1. StrikeSize # 0 /\ Len(picked) = 0
      BY <1>1, EmptySeq DEF CInv, Chosen, InPass
    <3>2. ASSUME {i \in HoldingIds : holdings[i].added = passes} = {} PROVE FALSE
      <4>1. Cardinality({i \in HoldingIds : holdings[i].added = passes}) = 0
        BY <3>2, FS_EmptySet
      <4> QED BY <3>1, <4>1 DEF StrikeSize
    <3> QED BY <3>2
  <2>4. \A i \in HoldingIds : holdings[i].status = "held" => holdings[i].added = passes
    BY <1>1 DEF Story, HeldNew
  <2>5. EntryTrue(ledger[j])'
    <3>1. passes \in Nat /\ passes >= passes
      BY <1>1 DEF CaseTypeOK
    <3> QED BY <1>0, <1>1, <1>2, <1>3, <2>3, <2>4, <3>1 DEF EntryTrue
  <2>6. NewTold
    BY <1>1, <1>2, <1>3, <2>5 DEF NewTold, MoveTrue
  <2> QED BY <2>1, <2>2, <2>6, TellsOn DEF Story
<1>7. One'
  <2>1. \A i \in HoldingIds' : ~Untold(i, t)'
    <3>1. \A i \in HoldingIds : ~Sold(holdings[i], passes)
      BY <1>1 DEF Story, Exits, Early, Sold
    <3> QED BY <1>0, <1>1, <1>3, <1>5, <3>1 DEF Untold
  <2>2. ASSUME NEW u, u # t
        PROVE  /\ WrittenBy(u)' = WrittenBy(u)
               /\ \A i \in HoldingIds' : Untold(i, u)' => i \in HoldingIds /\ Untold(i, u)
    <3>1. WrittenBy(u)' = WrittenBy(u)
      BY <1>2, <2>2 DEF WrittenBy
    <3>2. \A a, s : Entered(a, s, u) => Entered(a, s, u)'
      BY <1>2 DEF Entered
    <3>3. Struck(u) => Struck(u)'
      BY <3>2 DEF Struck
    <3> QED BY <1>1, <1>3, <3>1, <3>2, <3>3 DEF Untold
  <2> QED BY <2>1, <2>2, OneStill DEF Story
<1>8. Seats' /\ Alive' /\ HeldNew'
  BY <1>1 DEF Story, Seats, Executing, InPass, Alive, HeldNew
<1> QED BY <1>4, <1>6, <1>7, <1>8 DEF Story

LEMMA FiniteEntries == ASSUME CaseTypeOK, NEW S \in SUBSET DOMAIN ledger PROVE IsFiniteSet(S) /\ Cardinality(S) \in Nat
<1>1. DOMAIN ledger = 1 .. Len(ledger) /\ Len(ledger) \in Nat
  BY LenProperties DEF CaseTypeOK
<1>2. IsFiniteSet(DOMAIN ledger)
  BY <1>1, FS_Interval
<1> QED BY <1>2, FS_Subset, FS_CardinalityType

\* The review finds a pass that has sold and bought nothing.
LEMMA StoryReview == ASSUME CInv, Story, Review PROVE Story'
<1>1. /\ pc = "review" /\ pc' = "act" /\ CaseTypeOK /\ Dated
      /\ UNCHANGED <<holdings, ledger, passes, died>>
  BY DEF Review, CInv
<1>2. Kept /\ HoldingIds' = HoldingIds /\ One'
  BY <1>1, SameTables DEF Story
<1>3. Exits' /\ Alive' /\ HeldNew'
  BY <1>1, <1>2 DEF Story, Exits, Early, Alive, HeldNew
<1>4. Told'
  <2>1. Resolved /\ StrikeKnown
    BY <1>1 DEF Resolved, Pending, StrikeKnown, Striking
  <2>2. NewTold
    BY <1>1, <1>2 DEF NewTold, MoveTrue
  <2>3. GoesOn
    BY <1>1, <1>2 DEF GoesOn
  <2> QED BY <2>1, <2>2, <2>3, TellsOn DEF Story
<1>5. Seats'
  <2>1. SoldBy(passes)' = {}
    BY <1>1, <1>2 DEF SoldBy, Story, Exits, Early
  <2>2. BoughtBy(passes)' = {}
    BY <1>1 DEF BoughtBy, Dated, InPass
  <2>3. Vacant' = 0
    BY <1>1 DEF Vacant
  <2> QED BY <2>1, <2>2, <2>3, FS_EmptySet DEF Seats
<1> QED BY <1>2, <1>3, <1>4, <1>5 DEF Story

LEMMA StoryApplies == ASSUME CasesAssumptions, CInv, Story, NEW m \in moves, Apply(m) PROVE Story'
<1>0. PICK h, p : h = held[m.sym] /\ p = passes
  OBVIOUS
<1>1. /\ pc = "act" /\ pc' = "log" /\ move' = m /\ passes \in Nat /\ m.action \in {"exit", "book"} /\ CaseTypeOK
      /\ UNCHANGED <<bench, held, ledger, passes, died>>
  BY DEF CInv, CaseTypeOK, Apply
<1>2. /\ h \in LiveIds /\ h \in HoldingIds /\ holdings[h].sym = m.sym /\ HoldingIds' = HoldingIds
      /\ \A i \in HoldingIds : i # h => holdings'[i] = holdings[i]
      /\ \A i \in HoldingIds : holdings'[i].sym = holdings[i].sym /\ holdings'[i].added = holdings[i].added
  BY <1>0, Moved
<1>3. IsLive(holdings[h]) /\ holdings[h].status # "exited" /\ holdings[h].added \in Nat /\ holdings[h].added <= passes
  BY <1>1, <1>2, RowIn DEF LiveIds, IsLive, Holding, CInv, Dated
<1>4. IF m.action = "exit" THEN holdings'[h].status = "exited" /\ holdings'[h].out = passes
                           ELSE holdings'[h].status = "booked"
  <2>1. holdings[h] \in Holding
    BY <1>1, <1>2, RowIn
  <2>2. CASE m.action = "exit" /\ holdings' = [holdings EXCEPT ![h] = [@ EXCEPT !.status = "exited", !.out = passes]]
    BY <1>2, <2>1, <2>2 DEF Holding, HoldingIds
  <2>3. CASE m.action = "book" /\ holdings' = [holdings EXCEPT ![h] = [@ EXCEPT !.status = "booked", !.weight = holdings[h].weight \div 2]]
    BY <1>2, <2>1, <2>3 DEF Holding, HoldingIds
  <2> QED BY <1>0, <2>2, <2>3 DEF Apply
<1>5. Exits'
  BY <1>1, <1>2, <1>4 DEF Story, Exits, Early
<1>6. Told'
  <2>1. GoesOn
    <3>1. \A i \in HoldingIds : ~IsLive(holdings[i]) => i # h
      BY <1>3
    <3> QED BY <1>1, <1>2, <1>4, <3>1 DEF GoesOn, Kept, IsLive
  <2>2. Resolved /\ StrikeKnown
    BY <1>1 DEF Resolved, Pending, StrikeKnown, Striking
  <2>3. RowTold(h)'
    <3>1. ExitTold(h)'
      BY <1>1, <1>2, <1>4 DEF ExitTold, MoveTold, Pending
    <3>2. ClosedTold(h)'
      BY <1>1, <1>4 DEF ClosedTold
    <3>3. BookTold(h)'
      <4>1. CASE m.action = "exit"
        BY <1>4, <4>1 DEF BookTold
      <4>2. CASE m.action = "book"
        <5>1. MoveTold("book", m.sym, p)'
          BY <1>0, <1>1, <4>2 DEF MoveTold, Pending
        <5>2. p \in holdings'[h].added .. passes' /\ holdings'[h].sym = m.sym
          BY <1>0, <1>1, <1>2, <1>3
        <5> QED BY <5>1, <5>2 DEF BookTold, MoveTold, Entered, Pending
      <4> QED BY <1>1, <4>1, <4>2
    <3> QED BY <3>1, <3>2, <3>3 DEF RowTold
  <2>4. MoveTrue'
    <3>1. CASE m.action = "exit"
      BY <1>1, <1>2, <1>4, <3>1 DEF MoveTrue, EntryTrue, Sold
    <3>2. CASE m.action = "book"
      BY <1>1, <1>2, <1>3, <1>4, <3>2 DEF MoveTrue, EntryTrue
    <3> QED BY <1>1, <3>1, <3>2
  <2>5. NewTold
    BY <1>1, <1>2, <2>3, <2>4 DEF NewTold
  <2> QED BY <2>1, <2>2, <2>5, TellsOn DEF Story
<1>7. One'
  <2>1. \A a, s, t : Entered(a, s, t)' <=> Entered(a, s, t)
    BY <1>1 DEF Entered
  <2>2. \A t : Struck(t)' <=> Struck(t)
    BY <1>1 DEF Struck, Entered
  <2>3. \A t : WrittenBy(t)' = WrittenBy(t)
    BY <1>1 DEF WrittenBy
  <2>4. \A t : \A i \in HoldingIds : i # h => (Untold(i, t)' <=> Untold(i, t))
    BY <1>2, <2>1, <2>2 DEF Untold
  <2>5. ASSUME NEW t, t # p, Untold(h, t)' PROVE Untold(h, t)
    <3>1. ~Sold(holdings[h], t)' /\ ~Turned(holdings[h], t)'
      BY <1>0, <1>1, <1>4, <2>5 DEF Sold, Turned
    <3> QED BY <1>2, <2>1, <2>2, <2>5, <3>1 DEF Untold
  <2>6. \A i \in HoldingIds : ~Untold(i, p)
    BY <1>0, <1>1, NothingUntold DEF Story, Alive
  <2>7. \A i, k \in HoldingIds' : Untold(i, p)' /\ Untold(k, p)' => i = k
    BY <1>2, <2>4, <2>6
  <2>8. ASSUME NEW t, t # p
        PROVE  \A i \in HoldingIds' : Untold(i, t)' => i \in HoldingIds /\ Untold(i, t)
    BY <1>2, <2>4, <2>5, <2>8
  <2>9. \A t : \/ /\ \A i \in HoldingIds' : Untold(i, t)' => i \in HoldingIds /\ Untold(i, t)
                   /\ WrittenBy(t)' = WrittenBy(t)
                \/ \A i, k \in HoldingIds' : Untold(i, t)' /\ Untold(k, t)' => i = k
    BY <2>3, <2>7, <2>8
  <2> QED BY <2>9, OneStill DEF Story
<1>8. Alive' /\ HeldNew'
  BY <1>1 DEF Story, Alive, HeldNew
<1>9. Seats'
  <2>1. CASE Exhausted
    BY <1>1, <2>1 DEF Seats, Exhausted
  <2>2. CASE ~Exhausted
    <3>1. Cardinality(SoldBy(passes)) = Cardinality(BoughtBy(passes)) /\ Cardinality(BoughtBy(passes)) \in Nat
      <4>1. BoughtBy(passes) \in SUBSET DOMAIN ledger
        BY DEF BoughtBy
      <4>2. Cardinality(BoughtBy(passes)) \in Nat
        BY <1>1, <4>1, FiniteEntries
      <4> QED BY <1>1, <2>2, <4>2 DEF Story, Seats, Executing, InPass, Vacant
    <3>2. BoughtBy(passes)' = BoughtBy(passes)
      BY <1>1 DEF BoughtBy
    <3>3. CASE m.action = "exit"
      <4>1. SoldBy(passes)' = SoldBy(passes) \cup {h} /\ h \notin SoldBy(passes)
        BY <1>1, <1>2, <1>3, <1>4, <3>3 DEF SoldBy
      <4>2. IsFiniteSet(SoldBy(passes))
        <5>1. SoldBy(passes) \in SUBSET HoldingIds
          BY DEF SoldBy
        <5> QED BY <1>1, <5>1, FiniteIds
      <4>3. Cardinality(SoldBy(passes))' = Cardinality(SoldBy(passes)) + 1
        BY <4>1, <4>2, FS_AddElement
      <4>4. Vacant' = 1
        BY <1>1, <3>3 DEF Vacant
      <4> QED BY <3>1, <3>2, <4>3, <4>4 DEF Seats
    <3>4. CASE m.action = "book"
      <4>1. SoldBy(passes)' = SoldBy(passes)
        BY <1>1, <1>2, <1>3, <1>4, <3>4 DEF SoldBy
      <4>2. Vacant' = 0
        BY <1>1, <3>4 DEF Vacant
      <4> QED BY <3>1, <3>2, <4>1, <4>2 DEF Seats
    <3> QED BY <1>1, <3>3, <3>4
  <2> QED BY <2>1, <2>2
<1> QED BY <1>5, <1>6, <1>7, <1>8, <1>9 DEF Story

LEMMA StoryWrites == ASSUME CasesAssumptions, CInv, Story, WriteMove PROVE Story'
<1>0. PICK j : j = Len(ledger) + 1
  OBVIOUS
<1>1. PICK a, s, t : a = move.action /\ s = move.sym /\ t = passes
  OBVIOUS
<1>2. /\ pc = "log" /\ Log(a, s) /\ CaseTypeOK /\ a \in {"exit", "book", "add"} /\ s \in Stocks
      /\ pc' = IF a = "exit" THEN "refill" ELSE "act"
      /\ UNCHANGED <<holdings, bench, held, move, passes, died>>
  BY <1>1 DEF CInv, WriteMove, LogMove, Carried, Apart, InPass, Move
<1>3. /\ DOMAIN ledger' = DOMAIN ledger \cup {j} /\ j \notin DOMAIN ledger
      /\ ledger'[j] = [action |-> a, sym |-> s, at |-> t]
      /\ \A k \in DOMAIN ledger : ledger'[k] = ledger[k]
  BY <1>0, <1>1, <1>2, Logged
<1>4. HoldingIds' = HoldingIds
  BY <1>2 DEF HoldingIds
<1>5. Exits'
  BY <1>2, <1>4 DEF Story, Exits, Early
<1>6. Told'
  <2>1. GoesOn
    BY <1>2, <1>3, <1>4 DEF GoesOn, Kept, IsLive
  <2>2. Entered(a, s, t)'
    BY <1>3 DEF Entered
  <2>3. Resolved
    BY <1>1, <2>2 DEF Resolved, Pending, MoveTold
  <2>4. StrikeKnown
    BY <1>2 DEF StrikeKnown, Striking
  <2>5. EntryTrue(ledger[j])'
    <3>1. PICK e : e = [action |-> a, sym |-> s, at |-> t]
      OBVIOUS
    <3>2. EntryTrue(e)
      BY <1>1, <1>2, <3>1 DEF Story, Told, MoveTrue
    <3>3. EntryTrue(e)'
      BY <1>2, <1>4, <3>2 DEF EntryTrue
    <3> QED BY <1>3, <3>1, <3>3
  <2>6. NewTold
    BY <1>2, <1>3, <1>4, <2>5 DEF NewTold, MoveTrue
  <2> QED BY <2>1, <2>3, <2>4, <2>6, TellsOn DEF Story
<1>7. Alive' /\ HeldNew'
  BY <1>2 DEF Story, Alive, HeldNew
<1>8. One'
  <2>1. \A i \in HoldingIds' : ~Untold(i, t)'
    <3>1. t \notin died' /\ pc' \notin {"log", "insert"}
      BY <1>1, <1>2 DEF Story, Alive
    <3>2. \A i \in HoldingIds : ~(Sold(holdings[i], t) /\ ~Entered("exit", holdings[i].sym, t)')
      <4> SUFFICES ASSUME NEW i \in HoldingIds, Sold(holdings[i], t) PROVE Entered("exit", holdings[i].sym, t)'
        OBVIOUS
      <4>1. ExitTold(i)'
        BY <1>4, <1>6 DEF Told, RowTold
      <4> QED BY <1>2, <3>1, <4>1 DEF ExitTold, MoveTold, Pending, Sold, Entered
    <3>3. \A i \in HoldingIds : Turned(holdings[i], t) => Struck(t)'
      <4> SUFFICES ASSUME NEW i \in HoldingIds, Turned(holdings[i], t) PROVE Struck(t)'
        OBVIOUS
      <4>1. ClosedTold(i)'
        BY <1>4, <1>6 DEF Told, RowTold
      <4> QED BY <1>2, <3>1, <4>1 DEF ClosedTold, StrikeTold, Striking, Turned, Struck, Entered
    <3>4. \A i \in HoldingIds : holdings[i].added = t => Entered("add", holdings[i].sym, t)' \/ Struck(t)'
      <4> SUFFICES ASSUME NEW i \in HoldingIds, holdings[i].added = t
                   PROVE  Entered("add", holdings[i].sym, t)' \/ Struck(t)'
        OBVIOUS
      <4>1. LegTold(i)'
        BY <1>4, <1>6 DEF Told
      <4> QED BY <1>2, <3>1, <4>1 DEF LegTold, MoveTold, Pending, StrikeTold, Striking, Struck, Entered
    <3> QED BY <1>2, <1>4, <3>2, <3>3, <3>4 DEF Untold
  <2>2. ASSUME NEW u, u # t
        PROVE  /\ WrittenBy(u)' = WrittenBy(u)
               /\ \A i \in HoldingIds' : Untold(i, u)' => i \in HoldingIds /\ Untold(i, u)
    <3>1. WrittenBy(u)' = WrittenBy(u)
      BY <1>3, <2>2 DEF WrittenBy
    <3>2. \A b, r : Entered(b, r, u) => Entered(b, r, u)'
      BY <1>3 DEF Entered
    <3>3. Struck(u) => Struck(u)'
      BY <3>2 DEF Struck
    <3> QED BY <1>2, <1>4, <3>1, <3>2, <3>3 DEF Untold
  <2> QED BY <2>1, <2>2, OneStill DEF Story
<1>9. Seats'
  <2>1. CASE Exhausted
    BY <1>2, <2>1 DEF Seats, Exhausted
  <2>2. CASE ~Exhausted
    <3>1. SoldBy(passes)' = SoldBy(passes)
      BY <1>2, <1>4 DEF SoldBy
    <3>2. BoughtBy(passes) \in SUBSET DOMAIN ledger
      BY DEF BoughtBy
    <3>3. IsFiniteSet(BoughtBy(passes)) /\ Cardinality(BoughtBy(passes)) \in Nat
      BY <1>2, <3>2, FiniteEntries
    <3>4. Cardinality(SoldBy(passes)) = Cardinality(BoughtBy(passes)) + (IF a = "book" THEN 0 ELSE 1)
      BY <1>1, <1>2, <2>2 DEF Story, Seats, Executing, InPass, Vacant
    <3>5. CASE a = "add"
      <4>1. BoughtBy(passes)' = BoughtBy(passes) \cup {j} /\ j \notin BoughtBy(passes)
        BY <1>1, <1>2, <1>3, <3>5 DEF BoughtBy
      <4>2. Cardinality(BoughtBy(passes))' = Cardinality(BoughtBy(passes)) + 1
        BY <3>3, <4>1, FS_AddElement
      <4>3. Vacant' = 0
        BY <1>2, <3>5 DEF Vacant
      <4> QED BY <3>1, <3>3, <3>4, <3>5, <4>2, <4>3 DEF Seats
    <3>6. CASE a # "add"
      <4>1. BoughtBy(passes)' = BoughtBy(passes)
        BY <1>1, <1>2, <1>3, <3>6 DEF BoughtBy
      <4>2. Vacant' = IF a = "book" THEN 0 ELSE 1
        BY <1>2, <3>6 DEF Vacant
      <4> QED BY <3>1, <3>4, <4>1, <4>2 DEF Seats
    <3> QED BY <3>5, <3>6
  <2> QED BY <2>1, <2>2
<1> QED BY <1>5, <1>6, <1>7, <1>8, <1>9 DEF Story

LEMMA StoryLeaves == ASSUME CInv, Story, LeaveOpen PROVE Story'
<1>1. /\ pc = "refill" /\ pc' = "act" /\ FreeNames = {} /\ UNCHANGED <<holdings, bench, held, ledger, passes, died>>
  BY DEF LeaveOpen
<1>2. Kept /\ HoldingIds' = HoldingIds /\ One'
  BY <1>1, SameTables DEF Story
<1>3. Exits' /\ Alive' /\ HeldNew'
  BY <1>1, <1>2 DEF Story, Exits, Early, Alive, HeldNew
<1>4. Told'
  <2>1. Resolved /\ StrikeKnown
    BY <1>1 DEF Resolved, Pending, StrikeKnown, Striking
  <2>2. NewTold
    BY <1>1, <1>2 DEF NewTold, MoveTrue
  <2>3. GoesOn
    BY <1>1, <1>2 DEF GoesOn
  <2> QED BY <2>1, <2>2, <2>3, TellsOn DEF Story
<1>5. Seats'
  BY <1>1 DEF Seats, Exhausted, FreeNames
<1> QED BY <1>2, <1>3, <1>4, <1>5 DEF Story

LEMMA StoryStutters ==
  ASSUME CInv, Story, UNCHANGED <<case, holdings, ledger, passVars, passes, died>>
  PROVE  Story'
<1>1. Kept /\ HoldingIds' = HoldingIds /\ One'
  BY SameTables DEF Story
<1>2. Exits' /\ Alive' /\ HeldNew'
  BY <1>1 DEF Story, Exits, Early, Alive, HeldNew, passVars
<1>3. Told'
  <2>1. Resolved /\ StrikeKnown
    BY DEF Resolved, Pending, MoveTold, StrikeKnown, Striking, StrikeTold, passVars
  <2>2. MoveTrue'
    BY <1>1 DEF Story, Told, MoveTrue, EntryTrue, passVars
  <2>3. NewTold
    BY <1>1, <2>2 DEF NewTold
  <2>4. GoesOn
    BY <1>1 DEF GoesOn
  <2> QED BY <2>1, <2>3, <2>4, TellsOn DEF Story
<1>4. Seats'
  BY <1>1 DEF Story, Seats, Exhausted, Vacant, SoldBy, BoughtBy, Executing, InPass, passVars
<1> QED BY <1>1, <1>2, <1>3, <1>4 DEF Story

LEMMA StorySteps == ASSUME CasesAssumptions, JInv, [CaseNext]_caseVars PROVE JInv'
<1> USE DEF JInv
<1>1. CInv'
  BY Steps
<1>3. Story'
  <2>1. CASE StartPass BY <2>1, StoryStays DEF StartPass, Early
  <2>2. CASE Refused BY <2>2, StoryStutters DEF Refused, caseVars
  <2>3. CASE NotReady BY <2>3, StoryStays DEF NotReady, Waiting, Early
  <2>4. CASE \E sc \in Screens : Build(sc) BY <2>4, StoryStays DEF Build, Early
  <2>5. CASE Upsert BY <2>5, StoryStays DEF Upsert, Early
  <2>6. CASE CloseOld BY <2>6, StoryCloses
  <2>7. CASE InsertLeg BY <2>7, StoryStruck
  <2>8. CASE LogStrike BY <2>8, StoryLogs
  <2>9. CASE Review BY <2>9, StoryReview
  <2>10. CASE \E m \in moves : Apply(m) BY <2>10, StoryApplies
  <2>11. CASE WriteMove BY <2>11, StoryWrites
  <2>12. CASE Refill BY <2>12, StoryRefilled
  <2>13. CASE LeaveOpen BY <2>13, StoryLeaves
  <2>14. CASE EndPass BY <2>14, StoryEnds
  <2>15. CASE Fault BY <2>15, StoryFault
  <2>16. CASE NewYear BY <2>16, StoryStutters DEF NewYear
  <2>17. CASE UNCHANGED caseVars BY <2>17, StoryStutters DEF caseVars
  <2> QED BY <2>1, <2>2, <2>3, <2>4, <2>5, <2>6, <2>7, <2>8, <2>9, <2>10, <2>11, <2>12, <2>13, <2>14, <2>15, <2>16, <2>17
          DEF CaseNext, PassStep
<1> QED BY <1>1, <1>3

LEMMA StoryInvariance == ASSUME CasesAssumptions PROVE CaseSpec => []JInv
<1>1. CaseInit => JInv
  <2>1. ASSUME CaseInit PROVE Story
    <3>1. HoldingIds = {} /\ DOMAIN ledger = {} /\ pc = "idle"
      BY <2>1, EmptySeq DEF CaseInit, HoldingIds
    <3> QED BY <3>1 DEF Story, Exits, Told, MoveTrue, One, Alive, HeldNew, Seats, Executing, InPass
  <2> QED BY <2>1, Starts DEF JInv
<1>2. JInv /\ [CaseNext]_caseVars => JInv'
  BY StorySteps
<1> QED BY <1>1, <1>2, PTL DEF CaseSpec

\* The action ledger and the holdings tell one story, move by move and pass by pass, whatever passes
\* have died: what is written has happened, a pass that has ended has written all it did, one that
\* died is short of the move it died in, or of its strike whole, and every booking is entered
\* (cases.py: every move is written to an action ledger).
THEOREM StoryTold == ASSUME CasesAssumptions PROVE CaseSpec => []AuditTrail
<1>1. ASSUME JInv PROVE AuditTrail
  <2>1. Told /\ One /\ passes \in Nat
    BY <1>1 DEF JInv, Story, CInv, CaseTypeOK
  <2>2. \A k \in DOMAIN ledger : EntryTrue(ledger[k])
    BY <2>1 DEF Told
  <2>3. ASSUME NEW t \in 1 .. passes, Ended(t), NEW i \in HoldingIds PROVE ~Untold(i, t)
    <3>1. t \notin died /\ (t = passes => pc = "idle")
      BY <2>1, <2>3 DEF Ended
    <3> QED BY <2>1, <3>1, NothingUntold
  <2>4. \A t \in 1 .. passes : \A i, j \in HoldingIds :
          Untold(i, t) /\ Untold(j, t) => i = j \/ WrittenBy(t) = {}
    BY <2>1 DEF One
  <2>5. ASSUME NEW i \in HoldingIds PROVE BookingTold(i)
    <3> SUFFICES ASSUME holdings[i].status = "booked"
                 PROVE  \E t \in holdings[i].added .. passes : Entered("book", holdings[i].sym, t) \/ ~Ended(t)
      BY DEF BookingTold
    <3>1. PICK t \in holdings[i].added .. passes : MoveTold("book", holdings[i].sym, t)
      BY <2>1 DEF Told, RowTold, BookTold
    <3>2. Pending("book", holdings[i].sym, t) \/ t \in died => ~Ended(t)
      BY <2>1 DEF Pending, Ended
    <3> QED BY <3>1, <3>2 DEF MoveTold
  <2> QED BY <2>2, <2>3, <2>4, <2>5 DEF AuditTrail
<1> QED BY <1>1, StoryInvariance, PTL

\* A pass leaves a seat empty only when the bench has no free name left (_next_from_bench).
THEOREM SeatsFilled == ASSUME CasesAssumptions PROVE CaseSpec => []EmptySeatOnlyWithoutBench
<1>1. ASSUME JInv PROVE EmptySeatOnlyWithoutBench
  <2> SUFFICES ASSUME pc = "act", Cardinality(SoldBy(passes)) > Cardinality(BoughtBy(passes)) PROVE Exhausted
    BY DEF EmptySeatOnlyWithoutBench, Exhausted
  <2>1. BoughtBy(passes) \in SUBSET DOMAIN ledger /\ CaseTypeOK
    BY <1>1 DEF BoughtBy, JInv, CInv
  <2>2. Cardinality(BoughtBy(passes)) \in Nat
    BY <2>1, FiniteEntries
  <2>3. Exhausted \/ Cardinality(SoldBy(passes)) = Cardinality(BoughtBy(passes)) + 0
    BY <1>1 DEF JInv, Story, Seats, Vacant, Executing, InPass
  <2> QED BY <2>2, <2>3
<1> QED BY <1>1, StoryInvariance, PTL

\* What the run checks of the legs, in one: held once, owned, never bought back in the pass that sold
\* them, and no seat left empty while the bench has a free name (cases.py).
THEOREM LegsStaySound == ASSUME CasesAssumptions PROVE CaseSpec => []LegsSound
BY NeverHeldTwice, LegsOwned, NeverBoughtBack, SeatsFilled, PTL DEF LegsSound

-------------------------------------------------------------------------------
(* What the legs weigh.                                                    *)

\* What the first year's weights rest on.  There is one strike, into an empty basket, and its
\* legs have equal weights (FirstStrike); after it, the weight of a row that has been sold is
\* kept for its replacement until there is one or the seat stays empty (SeatKept).
SeatKept == IF InPass({"log", "refill"}) /\ move.action = "exit" THEN holdings[held[move.sym]].weight ELSE 0
FirstStrike ==
  /\ case = NoCase \/ case.vintage = 1
  /\ case = NoCase \/ InPass({"upsert", "close"}) => HoldingIds = {}
  /\ InPass({"upsert"}) => case = NoCase
  /\ InPass({"close", "insert"}) => case # NoCase
  /\ InPass({"insert"}) => /\ \A i \in HoldingIds : holdings[i].added = passes
                           /\ LiveWeight = Len(holdings) * (Whole \div (Len(picked) + Len(holdings)))
SellsFirst == InPass({"refill"}) => move.action = "exit"
WInv == year = 1 => FirstStrike /\ SellsFirst /\ LiveWeight + SeatKept <= Whole

\* The live rows of a table of holdings, and their weights.
LiveOf(hs) == {i \in DOMAIN hs : IsLive(hs[i])}
WeightsOf(hs) == [i \in LiveOf(hs) |-> hs[i].weight]

LEMMA WeightOfAll == LiveWeight = Total(WeightsOf(holdings)) /\ LiveIds = LiveOf(holdings)
<1>1. LiveIds = LiveOf(holdings)
  BY DEF LiveIds, LiveOf, HoldingIds
<1>2. WeightsOf(holdings) = [i \in LiveIds |-> holdings[i].weight]
  BY <1>1 DEF WeightsOf
<1>3. QED
  BY <1>1, <1>2 DEF LiveWeight

LEMMA Weights ==
  ASSUME NEW hs \in Seq(Holding)
  PROVE  /\ DOMAIN WeightsOf(hs) = LiveOf(hs) /\ IsFiniteSet(LiveOf(hs))
         /\ \A i \in LiveOf(hs) : WeightsOf(hs)[i] = hs[i].weight /\ hs[i].weight \in Nat
         /\ Total(WeightsOf(hs)) \in Int
<1>1. DOMAIN hs = 1..Len(hs) /\ Len(hs) \in Nat /\ \A i \in 1..Len(hs) : hs[i] \in Holding
  BY LenProperties, ElementOfSeq
<1>2. LiveOf(hs) \in SUBSET (1..Len(hs))
  BY <1>1 DEF LiveOf
<1>3. IsFiniteSet(LiveOf(hs))
  BY <1>1, <1>2, FS_Interval, FS_Subset, 1 \in Int, Len(hs) \in Int
<1>4. \A i \in LiveOf(hs) : hs[i].weight \in Nat
  <2>1. ASSUME NEW i \in LiveOf(hs) PROVE hs[i].weight \in Nat
    <3>1. hs[i] \in Holding
      BY <1>1, <1>2
    <3>2. QED
      BY <3>1 DEF Holding
  <2>2. QED
    BY <2>1
<1> DEFINE f == WeightsOf(hs)
<1>5. DOMAIN f = LiveOf(hs) /\ \A i \in LiveOf(hs) : f[i] = hs[i].weight
  BY DEF WeightsOf
<1> HIDE DEF f
<1>6. \A i \in DOMAIN f : f[i] \in Int
  BY <1>4, <1>5
<1>7. IsFiniteSet(DOMAIN f)
  BY <1>3, <1>5
<1>8. Total(f) \in Int
  BY <1>6, <1>7, TotalInt
<1>9. QED
  BY <1>3, <1>4, <1>5, <1>8 DEF f

\* A leg adds its weight; a sold row takes its own away, a booked one what it loses.
LEMMA WeightAdded ==
  ASSUME NEW hs \in Seq(Holding), NEW h \in Holding, h.status = "held", NEW ks \in Seq(Holding), NEW j \in DOMAIN ks,
         DOMAIN hs = DOMAIN ks \ {j}, ks[j] = h, \A i \in DOMAIN hs : ks[i] = hs[i]
  PROVE  Total(WeightsOf(ks)) = Total(WeightsOf(hs)) + h.weight
<1> DEFINE f == WeightsOf(hs)
           g == WeightsOf(ks)
<1>1. LiveOf(ks) = LiveOf(hs) \cup {j} /\ j \in LiveOf(ks) /\ LiveOf(hs) = LiveOf(ks) \ {j}
  BY DEF LiveOf, IsLive
<1>2. /\ DOMAIN g = LiveOf(ks) /\ IsFiniteSet(DOMAIN g)
      /\ \A i \in DOMAIN g : g[i] = ks[i].weight /\ g[i] \in Int
  BY Weights
<1>3. DOMAIN f = LiveOf(hs) /\ Total(f) \in Int /\ \A i \in DOMAIN f : f[i] = hs[i].weight
  BY Weights
<1> HIDE DEF f, g
<1>4. DOMAIN f = DOMAIN g \ {j} /\ j \in DOMAIN g /\ \A i \in DOMAIN f : f[i] = g[i]
  BY <1>1, <1>2, <1>3 DEF LiveOf
<1>5. Total(g) = g[j] + Total(f)
  <2>1. IsFiniteSet(DOMAIN g) /\ (\A y \in DOMAIN g : g[y] \in Int) /\ j \in DOMAIN g
        /\ DOMAIN f = DOMAIN g \ {j} /\ (\A y \in DOMAIN f : f[y] = g[y])
    BY <1>2, <1>4
  <2>2. QED
    BY <2>1, TotalWithout
<1>6. g[j] = h.weight /\ g[j] \in Int
  BY <1>2, <1>4
<1>7. Total(g) = Total(f) + h.weight
  BY <1>3, <1>5, <1>6
<1>8. QED
  BY <1>7 DEF f, g

LEMMA WeightSold ==
  ASSUME NEW hs \in Seq(Holding), NEW ks \in Seq(Holding), NEW j \in LiveOf(hs), DOMAIN ks = DOMAIN hs,
         ~IsLive(ks[j]), \A i \in DOMAIN hs : i # j => ks[i] = hs[i]
  PROVE  Total(WeightsOf(ks)) = Total(WeightsOf(hs)) - hs[j].weight
<1> DEFINE f == WeightsOf(hs)
           g == WeightsOf(ks)
<1>1. LiveOf(ks) = LiveOf(hs) \ {j}
  BY DEF LiveOf
<1>2. /\ DOMAIN f = LiveOf(hs) /\ IsFiniteSet(DOMAIN f)
      /\ \A i \in DOMAIN f : f[i] = hs[i].weight /\ f[i] \in Int
  BY Weights
<1>3. DOMAIN g = LiveOf(ks) /\ Total(g) \in Int /\ \A i \in DOMAIN g : g[i] = ks[i].weight
  BY Weights
<1> HIDE DEF f, g
<1>4. DOMAIN g = DOMAIN f \ {j} /\ j \in DOMAIN f /\ \A i \in DOMAIN g : g[i] = f[i]
  BY <1>1, <1>2, <1>3 DEF LiveOf
<1>5. Total(f) = f[j] + Total(g)
  BY <1>2, <1>4, TotalWithout
<1>6. f[j] = hs[j].weight /\ f[j] \in Int
  BY <1>2, <1>4
<1>7. QED
  BY <1>3, <1>5, <1>6 DEF f, g

LEMMA WeightBooked ==
  ASSUME NEW hs \in Seq(Holding), NEW ks \in Seq(Holding), NEW j \in LiveOf(hs), DOMAIN ks = DOMAIN hs,
         IsLive(ks[j]), \A i \in DOMAIN hs : i # j => ks[i] = hs[i]
  PROVE  Total(WeightsOf(ks)) = Total(WeightsOf(hs)) - hs[j].weight + ks[j].weight
<1> DEFINE f == WeightsOf(hs)
           g == WeightsOf(ks)
<1>1. LiveOf(ks) = LiveOf(hs)
  BY DEF LiveOf
<1>2. /\ DOMAIN f = LiveOf(hs) /\ IsFiniteSet(DOMAIN f)
      /\ \A i \in DOMAIN f : f[i] = hs[i].weight /\ f[i] \in Int
  BY Weights
<1>3. DOMAIN g = LiveOf(ks) /\ \A i \in DOMAIN g : g[i] = ks[i].weight /\ g[i] \in Int
  BY Weights
<1> HIDE DEF f, g
<1>4. DOMAIN g = DOMAIN f /\ j \in DOMAIN f /\ g[j] \in Int /\ \A i \in DOMAIN f : i # j => g[i] = f[i]
  BY <1>1, <1>2, <1>3 DEF LiveOf
<1>5. Total(g) = Total(f) - f[j] + g[j]
  BY <1>2, <1>4, TotalChanged
<1>6. f[j] = hs[j].weight /\ g[j] = ks[j].weight
  BY <1>1, <1>2, <1>3
<1>7. QED
  BY <1>5, <1>6 DEF f, g

LEMMA WeightNone == Total(WeightsOf(<<>>)) = 0
<1>1. DOMAIN WeightsOf(<<>>) = {}
  BY EmptySeq DEF WeightsOf, LiveOf
<1>2. QED
  BY <1>1, TotalNone
\* A step that leaves the holdings alone can only give a seat up.
LEMMA WeightsStay == ASSUME holdings' = holdings PROVE LiveWeight' = LiveWeight /\ LiveIds' = LiveIds /\ HoldingIds' = HoldingIds
<1>1. HoldingIds' = HoldingIds
  BY DEF HoldingIds
<1>2. LiveIds' = LiveIds
  BY <1>1 DEF LiveIds
<1> DEFINE f == [i \in LiveIds |-> holdings[i].weight]
           g == [i \in LiveIds' |-> holdings'[i].weight]
<1>3. f = g
  BY <1>2
<1>4. LiveWeight = Total(f) /\ LiveWeight' = Total(g)
  BY DEF LiveWeight
<1> HIDE DEF f, g
<1>5. QED
  BY <1>1, <1>2, <1>3, <1>4

LEMMA WeightKept ==
  ASSUME holdings' = holdings, LiveWeight + SeatKept <= Whole, Whole \in Nat, LiveWeight \in Int, SeatKept \in Nat,
         SeatKept' = SeatKept \/ SeatKept' = 0
  PROVE  LiveWeight' + SeatKept' <= Whole
BY WeightsStay

\* The seat kept is a row's weight.
LEMMA SeatIs ==
  ASSUME CasesAssumptions, CInv
  PROVE  /\ Whole \in Nat /\ SeatKept \in Nat /\ holdings \in Seq(Holding) /\ LiveWeight \in Int
         /\ DOMAIN holdings = 1..Len(holdings) /\ Len(holdings) \in Nat
         /\ InPass({"log", "refill"}) /\ move.action = "exit" => held[move.sym] \in HoldingIds
<1>1. CaseTypeOK /\ Carried /\ Apart /\ holdings \in Seq(Holding)
  BY DEF CInv, CaseTypeOK
<1>2. DOMAIN holdings = 1..Len(holdings) /\ Len(holdings) \in Nat
  BY <1>1, LenProperties
<1>3. ASSUME InPass({"log", "refill"}) /\ move.action = "exit" PROVE held[move.sym] \in HoldingIds
  <2>1. move.sym \in Stocks /\ held[move.sym] # 0
    BY <1>1, <1>3 DEF Carried, Apart, InPass
  <2>2. held[move.sym] \in 0..Len(holdings)
    BY <1>1, <2>1 DEF CaseTypeOK
  <2>3. QED
    BY <1>2, <2>1, <2>2 DEF HoldingIds
<1>4. SeatKept \in Nat
  BY <1>1, <1>3, RowIn DEF SeatKept, Holding
<1>5. LiveWeight \in Int
  BY <1>1, Weights, WeightOfAll
<1>6. QED
  BY <1>1, <1>2, <1>3, <1>4, <1>5 DEF CasesAssumptions
\* What is known in the first year.
LEMMA FirstYear ==
  ASSUME CasesAssumptions, CInv, WInv, year = 1
  PROVE  FirstStrike /\ SellsFirst /\ LiveWeight + SeatKept <= Whole /\ asOf = 1
BY DEF CInv, WInv, Carried

\* A step after which the pass is between its strike and its moves, or over.
LEMMA WeighPlain ==
  ASSUME CasesAssumptions, CInv, WInv, year = 1, UNCHANGED <<holdings, case>>, pc' \in {"rows", "idle", "review", "act"}
  PROVE  WInv'
<1>1. FirstStrike /\ LiveWeight + SeatKept <= Whole /\ Whole \in Nat /\ SeatKept \in Nat /\ LiveWeight \in Int
  BY FirstYear, SeatIs
<1>2. SeatKept' = 0 /\ SellsFirst'
  BY DEF SeatKept, SellsFirst, InPass
<1>3. LiveWeight' + SeatKept' <= Whole
  BY <1>1, <1>2, WeightKept
<1>4. FirstStrike'
  BY <1>1 DEF FirstStrike, InPass, HoldingIds
<1>5. QED
  BY <1>2, <1>3, <1>4 DEF WInv

LEMMA WeighBuild ==
  ASSUME CasesAssumptions, CInv, WInv, year = 1, NEW sc \in Screens, Build(sc)
  PROVE  WInv'
<1>1. UNCHANGED <<holdings, case, move, held>> /\ pc' \in {"upsert", "review"} /\ (pc' = "upsert" => Due)
  BY DEF Build
<1>2. CASE pc' = "review"
  BY <1>1, <1>2, WeighPlain
<1>3. CASE pc' = "upsert"
  <2>1. FirstStrike /\ LiveWeight + SeatKept <= Whole /\ Whole \in Nat /\ SeatKept \in Nat /\ LiveWeight \in Int
    BY FirstYear, SeatIs
  <2>2. case = NoCase
    <3>1. case = NoCase \/ case.vintage < 1
      BY <1>1, <1>3 DEF Due
    <3>2. case = NoCase \/ case.vintage = 1
      BY <2>1 DEF FirstStrike
    <3>3. QED
      BY <3>1, <3>2
  <2>3. SeatKept' = 0 /\ SellsFirst'
    BY <1>3 DEF SeatKept, SellsFirst, InPass
  <2>4. LiveWeight' + SeatKept' <= Whole
    BY <1>1, <2>1, <2>3, WeightKept
  <2>5. FirstStrike'
    BY <1>1, <1>3, <2>1, <2>2 DEF FirstStrike, InPass, HoldingIds
  <2>6. QED
    BY <2>3, <2>4, <2>5 DEF WInv
<1>4. QED
  BY <1>1, <1>2, <1>3

LEMMA WeighUpsert == ASSUME CasesAssumptions, CInv, WInv, year = 1, Upsert PROVE WInv'
<1>1. FirstStrike /\ LiveWeight + SeatKept <= Whole /\ Whole \in Nat /\ SeatKept \in Nat /\ LiveWeight \in Int /\ asOf = 1
  BY FirstYear, SeatIs
<1>2. pc = "upsert" /\ pc' = "close" /\ holdings' = holdings /\ case' = [vintage |-> asOf, mi |-> MinInvestment(picked), rebalanced |-> passes]
  BY DEF Upsert
<1>3. SeatKept' = 0 /\ SellsFirst'
  BY <1>2 DEF SeatKept, SellsFirst, InPass
<1>4. LiveWeight' + SeatKept' <= Whole
  BY <1>1, <1>2, <1>3, WeightKept
<1>5. case'.vintage = 1 /\ case' # NoCase
  BY <1>1, <1>2 DEF NoCase
<1>6. HoldingIds' = {}
  BY <1>1, <1>2 DEF FirstStrike, InPass, HoldingIds
<1>7. FirstStrike'
  BY <1>2, <1>5, <1>6 DEF FirstStrike, InPass
<1>8. QED
  BY <1>3, <1>4, <1>7 DEF WInv

LEMMA WeighClose == ASSUME CasesAssumptions, CInv, CInv', WInv, year = 1, CloseOld PROVE WInv'
<1>1. FirstStrike /\ Whole \in Nat
  BY FirstYear, SeatIs
<1>2. pc = "close" /\ pc' = "insert" /\ holdings' = [k \in HoldingIds |-> Closed(holdings[k])] /\ UNCHANGED <<case, picked, passes>>
  BY DEF CloseOld
<1>3. HoldingIds = {}
  BY <1>1, <1>2 DEF FirstStrike, InPass
<1>4. DOMAIN holdings' = {} /\ holdings' \in Seq(Holding)
  BY <1>2, <1>3 DEF CInv, CaseTypeOK
<1>5. holdings' = <<>> /\ Len(holdings') = 0
  BY <1>4, EmptySeq
<1>6. HoldingIds' = {} /\ LiveIds' = {}
  BY <1>4 DEF HoldingIds, LiveIds
<1>7. LiveWeight' = 0
  <2> DEFINE f == [k \in LiveIds' |-> holdings'[k].weight]
  <2>1. DOMAIN f = {} /\ LiveWeight' = Total(f)
    BY <1>6 DEF LiveWeight
  <2> HIDE DEF f
  <2>2. QED
    BY <2>1, TotalNone
<1>8. SeatKept' = 0 /\ SellsFirst'
  BY <1>2 DEF SeatKept, SellsFirst, InPass
<1>9. LiveWeight' = Len(holdings') * (Whole \div (Len(picked') + Len(holdings')))
  <2>1. Len(picked) \in Nat \ {0}
    <3>1. Len(picked) \in MinN..TargetN
      BY <1>2 DEF CInv, Chosen, InPass
    <3>2. MinN \in Nat \ {0} /\ TargetN \in Nat
      BY DEF CasesAssumptions
    <3>3. QED
      BY <3>1, <3>2
  <2> DEFINE x == Whole \div (Len(picked) + 0)
  <2>2. x \in Nat
    BY <1>1, <2>1, Quotient
  <2>3. Len(holdings') * (Whole \div (Len(picked') + Len(holdings'))) = 0 * x
    BY <1>2, <1>5
  <2> HIDE DEF x
  <2>4. QED
    BY <1>7, <2>2, <2>3
<1>10. FirstStrike'
  BY <1>1, <1>2, <1>6, <1>9 DEF FirstStrike, InPass
<1>11. QED
  BY <1>1, <1>7, <1>8, <1>10 DEF WInv

\* Equal shares of the whole never make more than the whole.
LEMMA SharesFit ==
  ASSUME NEW k \in Nat, NEW n \in Nat \ {0}, k <= n, NEW whole \in Nat
  PROVE  k * (whole \div n) <= whole /\ (whole \div n) \in Nat
<1> DEFINE w == whole \div n
<1>1. w \in Nat /\ n * w <= whole
  BY Quotient
<1> HIDE DEF w
<1>2. w * k <= w * n /\ w * k = k * w /\ w * n = n * w
  BY <1>1, Monotone
<1>3. k * w <= whole
  BY <1>1, <1>2
<1>4. QED
  BY <1>1, <1>3 DEF w

LEMMA WeighInsert == ASSUME CasesAssumptions, CInv, CInv', WInv, year = 1, InsertLeg PROVE WInv'
<1> DEFINE o == Head(picked)  n == StrikeSize  leg == Leg(o.sym, Whole \div n, o.price, case.mi)
           k == Len(holdings)
<1>1. /\ FirstStrike /\ LiveWeight + SeatKept <= Whole /\ Whole \in Nat /\ SeatKept \in Nat /\ LiveWeight \in Int
      /\ holdings \in Seq(Holding) /\ DOMAIN holdings = 1..k /\ k \in Nat
  BY FirstYear, SeatIs
<1>2. /\ pc = "insert" /\ pc' = "insert" /\ picked # <<>> /\ holdings' = Append(holdings, leg) /\ picked' = Tail(picked)
      /\ UNCHANGED <<year, case, passes, move, held>>
  BY DEF InsertLeg
<1>3. /\ CaseTypeOK /\ picked \in Seq(Offer) /\ CaseTypeOK' /\ holdings' \in Seq(Holding)
  BY DEF CInv, Carried, CaseTypeOK
<1>4. /\ o \in Offer /\ Len(Tail(picked)) = Len(picked) - 1 /\ Len(picked) \in Nat \ {0}
  BY <1>2, <1>3, HeadTailProperties, LenProperties, EmptySeq
<1>5. /\ \A i \in HoldingIds : holdings[i].added = passes
      /\ LiveWeight = k * (Whole \div (Len(picked) + k))
  BY <1>1, <1>2 DEF FirstStrike, InPass
<1>6. n = Len(picked) + k
  <2>1. {i \in HoldingIds : holdings[i].added = passes} = 1..k
    BY <1>1, <1>5 DEF HoldingIds
  <2>2. Cardinality(1..k) = k
    BY <1>1, FS_Interval, 1 \in Int, k \in Int
  <2>3. QED
    BY <2>1, <2>2 DEF StrikeSize
<1> DEFINE w == Whole \div n
<1>7. n \in Nat \ {0} /\ k + 1 <= n /\ k + 1 \in Nat
  BY <1>1, <1>4, <1>6
<1>8. w \in Nat /\ (k + 1) * w <= Whole /\ w \in 0..Whole
  <2>1. w \in Nat /\ (k + 1) * w <= Whole
    <3> HIDE DEF n, k
    <3>1. QED
      BY <1>1, <1>7, SharesFit
  <2>2. w \in 0..Whole
    <3> HIDE DEF n, k
    <3>1. QED
      BY <1>1, <1>7, QuotientSmall
  <2>3. QED
    BY <2>1, <2>2
<1>9. leg \in Holding /\ leg.status = "held" /\ leg.added = passes /\ leg.weight = w
  <2>1. o.sym \in Stocks /\ o.price \in SharePrices
    BY <1>4 DEF Offer
  <2> HIDE DEF o
  <2>2. leg \in Holding /\ leg.status = "held" /\ leg.added = passes
    BY <1>3, <1>8, <2>1, NewLeg
  <2>3. leg.weight = w
    BY DEF Leg
  <2>4. QED
    BY <2>2, <2>3
<1> HIDE DEF leg, n, o
<1>10. /\ Len(holdings') = k + 1 /\ DOMAIN holdings' = 1..(k + 1) /\ holdings'[k + 1] = leg
       /\ \A i \in 1..k : holdings'[i] = holdings[i]
  <2>1. /\ Len(holdings') = k + 1 /\ HoldingIds' = HoldingIds \cup {k + 1} /\ holdings'[k + 1] = leg
        /\ \A i \in HoldingIds : holdings'[i] = holdings[i]
    BY <1>2, <1>3, <1>9, Inserted
  <2>2. DOMAIN holdings' = 1..Len(holdings')
    BY <1>3, LenProperties
  <2>3. QED
    BY <1>1, <2>1, <2>2 DEF HoldingIds
<1>11. LiveWeight' = LiveWeight + w
  <2> DEFINE hs == holdings
             ks == holdings'
  <2>1. /\ hs \in Seq(Holding) /\ ks \in Seq(Holding) /\ k + 1 \in DOMAIN ks /\ DOMAIN hs = DOMAIN ks \ {k + 1} /\ ks[k + 1] = leg
        /\ (\A i \in DOMAIN hs : ks[i] = hs[i]) /\ leg \in Holding /\ leg.status = "held"
    BY <1>1, <1>3, <1>9, <1>10
  <2>2. LiveWeight = Total(WeightsOf(hs)) /\ LiveWeight' = Total(WeightsOf(ks))
    BY WeightOfAll DEF LiveWeight, LiveIds, HoldingIds, WeightsOf, LiveOf
  <2> HIDE DEF hs, ks
  <2>3. Total(WeightsOf(ks)) = Total(WeightsOf(hs)) + leg.weight
    BY <2>1, WeightAdded
  <2>4. QED
    BY <1>9, <2>2, <2>3
<1>12. LiveWeight' = (k + 1) * w /\ (k + 1) * w \in Int
  <2>1. LiveWeight = k * w
    BY <1>5, <1>6
  <2> HIDE DEF w, k
  <2>2. (k + 1) * w = k * w + w
    BY <1>1, <1>8
  <2>3. QED
    BY <1>1, <1>8, <1>11, <2>1, <2>2
<1>13. Len(picked') + Len(holdings') = n
  BY <1>1, <1>2, <1>4, <1>6, <1>10
<1>14. SeatKept' = 0 /\ SellsFirst'
  BY <1>2 DEF SeatKept, SellsFirst, InPass
<1>15. \A i \in HoldingIds' : holdings'[i].added = passes'
  BY <1>1, <1>2, <1>5, <1>9, <1>10 DEF HoldingIds
<1>16. case # NoCase /\ case.vintage = 1
  BY <1>1, <1>2 DEF FirstStrike, InPass
<1>17. FirstStrike'
  BY <1>2, <1>10, <1>12, <1>13, <1>15, <1>16 DEF FirstStrike, InPass
<1>18. QED
  BY <1>8, <1>12, <1>14, <1>17 DEF WInv
LEMMA WeighApply == ASSUME CasesAssumptions, CInv, CInv', WInv, year = 1, NEW m \in moves, Apply(m) PROVE WInv'
<1> DEFINE h == held[m.sym]  w == holdings[h].weight
<1>1. /\ FirstStrike /\ LiveWeight + SeatKept <= Whole /\ Whole \in Nat /\ SeatKept \in Nat /\ LiveWeight \in Int
      /\ holdings \in Seq(Holding)
  BY FirstYear, SeatIs
<1>2. pc = "act" /\ pc' = "log" /\ move' = m /\ UNCHANGED <<year, case, held>>
  BY DEF Apply
<1>3. /\ CaseTypeOK /\ CaseTypeOK' /\ holdings' \in Seq(Holding)
  BY DEF CInv, CaseTypeOK
<1>4. /\ h \in LiveIds /\ h \in HoldingIds /\ HoldingIds' = HoldingIds
      /\ \A i \in HoldingIds : i # h => holdings'[i] = holdings[i]
  BY Moved
<1>5. LiveWeight = Total(WeightsOf(holdings)) /\ LiveWeight' = Total(WeightsOf(holdings')) /\ LiveIds = LiveOf(holdings)
  BY WeightOfAll DEF LiveWeight, LiveIds, HoldingIds, WeightsOf, LiveOf
<1>6. holdings[h] \in Holding /\ w \in Nat
  BY <1>3, <1>4, RowIn DEF Holding
<1>7. FirstStrike' /\ SellsFirst'
  <2>1. case # NoCase
    BY <1>1, <1>4 DEF FirstStrike
  <2>2. QED
    BY <1>1, <1>2, <2>1 DEF FirstStrike, SellsFirst, InPass
<1>8. SeatKept = 0
  BY <1>2 DEF SeatKept, InPass
<1>9. LiveWeight' + SeatKept' <= Whole
  <2>1. CASE m.action = "exit" /\ holdings' = [holdings EXCEPT ![h] = [@ EXCEPT !.status = "exited", !.out = passes]]
    <3> DEFINE r == [holdings[h] EXCEPT !.status = "exited", !.out = passes]
    <3>1. r.status = "exited" /\ r.weight = w
      BY <1>6 DEF Holding
    <3>2. holdings'[h] = r
      BY <1>4, <2>1 DEF HoldingIds
    <3> HIDE DEF r
    <3>3. ~IsLive(holdings'[h])
      BY <3>1, <3>2 DEF IsLive
    <3>4. SeatKept' = w
      BY <1>2, <2>1, <3>1, <3>2 DEF SeatKept, InPass
    <3> HIDE DEF h
    <3>5. Total(WeightsOf(holdings')) = Total(WeightsOf(holdings)) - holdings[h].weight
      <4>1. h \in LiveOf(holdings) /\ DOMAIN holdings' = DOMAIN holdings /\ \A i \in DOMAIN holdings : i # h => holdings'[i] = holdings[i]
        BY <1>4, <1>5 DEF HoldingIds
      <4>2. QED
        BY <1>1, <1>3, <3>3, <4>1, WeightSold
    <3>6. QED
      BY <1>1, <1>5, <1>6, <1>8, <3>4, <3>5
  <2>2. CASE m.action = "book" /\ holdings' = [holdings EXCEPT ![h] = [@ EXCEPT !.status = "booked", !.weight = holdings[h].weight \div 2]]
    <3> DEFINE r == [holdings[h] EXCEPT !.status = "booked", !.weight = holdings[h].weight \div 2]
    <3>1. r.status = "booked" /\ r.weight = w \div 2
      BY <1>6 DEF Holding
    <3>2. holdings'[h] = r
      BY <1>4, <2>2 DEF HoldingIds
    <3> HIDE DEF r
    <3>3. IsLive(holdings'[h]) /\ holdings'[h].weight = w \div 2
      BY <3>1, <3>2 DEF IsLive
    <3>4. SeatKept' = 0
      BY <1>2, <2>2 DEF SeatKept, InPass
    <3>5. w \div 2 \in 0..w
      <4> HIDE DEF w
      <4>1. QED
        BY <1>6, QuotientSmall, 2 \in Nat \ {0}
    <3> HIDE DEF h
    <3>6. Total(WeightsOf(holdings')) = Total(WeightsOf(holdings)) - holdings[h].weight + holdings'[h].weight
      <4>1. h \in LiveOf(holdings) /\ DOMAIN holdings' = DOMAIN holdings /\ \A i \in DOMAIN holdings : i # h => holdings'[i] = holdings[i]
        BY <1>4, <1>5 DEF HoldingIds
      <4>2. QED
        BY <1>1, <1>3, <3>3, <4>1, WeightBooked
    <3>7. holdings'[h].weight <= w /\ holdings'[h].weight \in Int
      BY <1>6, <3>3, <3>5
    <3>8. QED
      BY <1>1, <1>5, <1>6, <1>8, <3>4, <3>6, <3>7
  <2>3. QED
    BY <2>1, <2>2 DEF Apply
<1>10. QED
  BY <1>7, <1>9 DEF WInv

LEMMA WeighWrite == ASSUME CasesAssumptions, CInv, WInv, year = 1, WriteMove PROVE WInv'
<1>1. FirstStrike /\ LiveWeight + SeatKept <= Whole /\ Whole \in Nat /\ SeatKept \in Nat /\ LiveWeight \in Int
  BY FirstYear, SeatIs
<1>2. pc = "log" /\ pc' = (IF move.action = "exit" THEN "refill" ELSE "act") /\ UNCHANGED <<year, case, holdings, held, move>>
  BY DEF WriteMove
<1>3. CASE move.action # "exit"
  <2>1. pc' = "act"
    BY <1>2, <1>3
  <2>2. QED
    BY <1>2, <2>1, WeighPlain
<1>4. CASE move.action = "exit"
  <2>1. SeatKept' = SeatKept /\ SellsFirst'
    BY <1>2, <1>4 DEF SeatKept, SellsFirst, InPass
  <2>2. LiveWeight' + SeatKept' <= Whole
    BY <1>1, <1>2, <2>1, WeightKept
  <2>3. FirstStrike'
    BY <1>1, <1>2, <1>4 DEF FirstStrike, InPass, HoldingIds
  <2>4. QED
    BY <2>1, <2>2, <2>3 DEF WInv
<1>5. QED
  BY <1>3, <1>4

LEMMA WeighRefill == ASSUME CasesAssumptions, CInv, CInv', WInv, year = 1, Refill PROVE WInv'
<1> DEFINE b == bench[Min(FreeNames)]  w == holdings[held[move.sym]].weight
           leg == Leg(b.sym, w, b.price, case.mi)
           k == Len(holdings)
<1>1. /\ FirstStrike /\ SellsFirst /\ LiveWeight + SeatKept <= Whole /\ Whole \in Nat /\ SeatKept \in Nat /\ LiveWeight \in Int
      /\ holdings \in Seq(Holding) /\ DOMAIN holdings = 1..k /\ k \in Nat
  BY FirstYear, SeatIs
<1>2. /\ pc = "refill" /\ pc' = "log" /\ holdings' = Append(holdings, leg) /\ UNCHANGED <<year, case>>
      /\ move'.action = "add"
  BY DEF Refill
<1>3. move.action = "exit" /\ held[move.sym] \in HoldingIds /\ SeatKept = w
  BY <1>1, <1>2, SeatIs DEF SellsFirst, SeatKept, InPass
<1>4. /\ CaseTypeOK /\ CaseTypeOK' /\ holdings' \in Seq(Holding)
  BY DEF CInv, CaseTypeOK
<1>5. leg.status = "held" /\ leg.weight = w
  BY DEF Leg
<1> HIDE DEF leg
<1>6. DOMAIN holdings' = 1..(k + 1) /\ holdings'[k + 1] = leg /\ \A i \in 1..k : holdings'[i] = holdings[i]
  <2>1. Len(holdings') = k + 1 /\ holdings'[k + 1] = leg /\ \A i \in 1..k : holdings'[i] = holdings[i]
    BY <1>1, <1>2
  <2>2. DOMAIN holdings' = 1..Len(holdings')
    BY <1>4, LenProperties
  <2>3. QED
    BY <2>1, <2>2
<1>7. leg \in Holding
  <2>1. k + 1 \in DOMAIN holdings' /\ holdings'[k + 1] \in Holding
    BY <1>1, <1>4, <1>6
  <2>2. QED
    BY <1>6, <2>1
<1>8. LiveWeight' = LiveWeight + w
  <2> DEFINE hs == holdings
             ks == holdings'
  <2>1. /\ hs \in Seq(Holding) /\ ks \in Seq(Holding) /\ k + 1 \in DOMAIN ks /\ DOMAIN hs = DOMAIN ks \ {k + 1} /\ ks[k + 1] = leg
        /\ (\A i \in DOMAIN hs : ks[i] = hs[i]) /\ leg \in Holding /\ leg.status = "held"
    BY <1>1, <1>4, <1>5, <1>6, <1>7
  <2>2. LiveWeight = Total(WeightsOf(hs)) /\ LiveWeight' = Total(WeightsOf(ks))
    BY WeightOfAll DEF LiveWeight, LiveIds, HoldingIds, WeightsOf, LiveOf
  <2> HIDE DEF hs, ks
  <2>3. Total(WeightsOf(ks)) = Total(WeightsOf(hs)) + leg.weight
    BY <2>1, WeightAdded
  <2>4. QED
    BY <1>5, <2>2, <2>3
<1>9. SeatKept' = 0 /\ SellsFirst'
  BY <1>2 DEF SeatKept, SellsFirst, InPass
<1>10. FirstStrike'
  <2>1. case # NoCase
    BY <1>1, <1>3 DEF FirstStrike
  <2>2. QED
    BY <1>1, <1>2, <2>1 DEF FirstStrike, InPass
<1>11. LiveWeight' + SeatKept' <= Whole
  BY <1>1, <1>3, <1>8, <1>9
<1>12. QED
  BY <1>9, <1>10, <1>11 DEF WInv

LEMMA WeighStart == ASSUME CasesAssumptions, CaseInit PROVE WInv
<1>1. holdings = <<>> /\ pc = "idle" /\ case = NoCase
  BY DEF CaseInit
<1>2. HoldingIds = {} /\ LiveIds = {}
  BY <1>1, EmptySeq DEF HoldingIds, LiveIds
<1>3. LiveWeight = 0
  BY <1>1, WeightOfAll, WeightNone
<1>4. SeatKept = 0 /\ SellsFirst /\ FirstStrike
  BY <1>1, <1>2 DEF SeatKept, SellsFirst, FirstStrike, InPass
<1>5. Whole \in Nat
  BY DEF CasesAssumptions
<1>6. QED
  BY <1>3, <1>4, <1>5 DEF WInv

LEMMA WeighStays == ASSUME CasesAssumptions, CInv, WInv, UNCHANGED caseVars PROVE WInv'
<1>1. LiveWeight' = LiveWeight /\ HoldingIds' = HoldingIds
  BY WeightsStay DEF caseVars
<1>2. SeatKept' = SeatKept /\ (SellsFirst' <=> SellsFirst)
  BY DEF caseVars, passVars, SeatKept, SellsFirst, InPass
<1>3. FirstStrike' <=> FirstStrike
  BY <1>1 DEF caseVars, passVars, FirstStrike, InPass
<1>4. QED
  BY <1>1, <1>2, <1>3 DEF WInv, caseVars

LEMMA WeighSteps == ASSUME CasesAssumptions, CInv, WInv, [CaseNext]_caseVars PROVE WInv'
<1>0. CInv' /\ year \in Nat /\ year >= 1
  <2>1. CInv'
    BY Steps
  <2>2. QED
    BY <2>1 DEF CInv, CaseTypeOK
<1> SUFFICES ASSUME year' = 1 PROVE WInv'
  BY DEF WInv
<1>1. CASE UNCHANGED caseVars \/ Refused
  BY <1>1, WeighStays DEF Refused
<1>2. CASE NewYear
  BY <1>0, <1>2 DEF NewYear
<1>3. CASE StartPass \/ NotReady \/ LogStrike \/ Review \/ LeaveOpen \/ EndPass \/ Fault
  <2>1. UNCHANGED <<holdings, case>> /\ year = 1 /\ pc' \in {"rows", "idle", "review", "act"}
    BY <1>3 DEF StartPass, NotReady, Waiting, LogStrike, Review, LeaveOpen, EndPass, Fault
  <2>2. QED
    BY <2>1, WeighPlain
<1>4. CASE \E sc \in Screens : Build(sc)
  BY <1>4, WeighBuild DEF Build
<1>5. CASE Upsert
  BY <1>5, WeighUpsert DEF Upsert
<1>6. CASE CloseOld
  BY <1>0, <1>6, WeighClose DEF CloseOld
<1>7. CASE InsertLeg
  BY <1>0, <1>7, WeighInsert DEF InsertLeg
<1>8. CASE \E m \in moves : Apply(m)
  BY <1>0, <1>8, WeighApply DEF Apply
<1>9. CASE WriteMove
  BY <1>9, WeighWrite DEF WriteMove
<1>10. CASE Refill
  BY <1>0, <1>10, WeighRefill DEF Refill
<1>11. QED
  BY <1>1, <1>2, <1>3, <1>4, <1>5, <1>6, <1>7, <1>8, <1>9, <1>10 DEF CaseNext, PassStep

\* In the first year the live legs weigh no more than the basket, whatever is booked, sold
\* and replaced: a booked leg is halved, a replacement takes its seat's weight (cases.py:455).
THEOREM WeighsNoMore == ASSUME CasesAssumptions PROVE CaseSpec => []WithinWhole
<1>1. CaseInit => CInv /\ WInv
  BY Starts, WeighStart
<1>2. CInv /\ WInv /\ [CaseNext]_caseVars => CInv' /\ WInv'
  BY Steps, WeighSteps
<1>3. CInv /\ WInv => WithinWhole
  <2> SUFFICES ASSUME CInv, WInv, year = 1 PROVE LiveWeight <= Whole
    BY DEF WithinWhole
  <2>1. LiveWeight + SeatKept <= Whole /\ Whole \in Nat /\ SeatKept \in Nat /\ LiveWeight \in Int
    BY FirstYear, SeatIs
  <2>2. QED
    BY <2>1
<1>4. QED
  BY <1>1, <1>2, <1>3, PTL DEF CaseSpec

-------------------------------------------------------------------------------
(* The live ledger and the replay.  The argument rests on two facts no     *)
(* step of the code states.  A recorder of a serial source carries,        *)
(* between its read and its inserts, a set that still covers every open    *)
(* symbol of its source (HaveCovers): rows of the source are only opened   *)
(* by itself, and closing one only shrinks the right-hand side.  And the   *)
(* ids a mark pass has yet to visit are all still open (PendingOpen):      *)
(* nobody but the pass settles a row.                                      *)

USE TradeLogAssumptions

(* Between the read and the inserts of a serial source's recorder, the     *)
(* symbols it believes open include all that are (tradelog.record).        *)
HaveCovers ==
  \A r \in Recorders :
    recPc[r] = "insert" /\ Serial(SourceOf[r]) => OpenSymbols(SourceOf[r]) \subseteq have[r]

(* The rows a pass read as open and has not visited are open and quoted    *)
(* (tradelog.reconcile).                                                   *)
PendingOpen ==
  /\ markPc # "settle" => markRows = {}
  /\ \A i \in markRows : i \in Ids /\ IsOpen(i) /\ prices[rows[i].sym] # None

IInv == TypeOK /\ HaveCovers /\ PendingOpen /\ OneOpenPerSymbol /\ OutcomeSound

-------------------------------------------------------------------------------
(* How the two kinds of table statements change the table.                 *)

(* Appending a row keeps the others and adds an open one (open_trade).     *)
LEMMA AppendRow ==
  ASSUME TypeOK, NEW s \in Sources, NEW p \in Pick, NEW t \in Int, NEW b \in BOOLEAN,
         OpenTrade(s, p, t, b)
  PROVE  /\ rows' \in Seq(Row)
         /\ Len(rows') = Len(rows) + 1
         /\ DOMAIN rows' = Ids \cup {Len(rows) + 1}
         /\ \A i \in Ids : rows'[i] = rows[i]
         /\ rows'[Len(rows) + 1] = NewRow(s, p, t, b)
         /\ NewRow(s, p, t, b) \in Row
<1>1. NewRow(s, p, t, b) \in Row
  BY DEF NewRow, Row, Pick
<1>2. rows \in Seq(Row) /\ rows' = Append(rows, NewRow(s, p, t, b))
  BY DEF OpenTrade, TypeOK
<1>3. QED
  BY <1>1, <1>2 DEF Ids

(* What an UPDATE of row i leaves as it is: the length of the table, the   *)
(* other rows, and what was published of the call.                         *)
OnlyRow(i) ==
  /\ rows' \in Seq(Row)
  /\ Len(rows') = Len(rows)
  /\ DOMAIN rows' = Ids
  /\ \A j \in Ids : j # i => rows'[j] = rows[j]
  /\ Terms(rows'[i]) = Terms(rows[i])
  /\ rows'[i].backfilled = rows[i].backfilled

(* Settling a row gives it that outcome, exit and date (settle_trade).     *)
LEMMA SettledRow ==
  ASSUME TypeOK, NEW i \in Ids, NEW st \in {"won", "lost", "closed"}, NEW e \in Prices,
         NEW t \in Int, Settle(i, st, e, t)
  PROVE  OnlyRow(i) /\ rows'[i].status = st /\ rows'[i].exit = e /\ rows'[i].closed = t
<1> DEFINE new == [rows[i] EXCEPT !.status = st, !.exit = e, !.closed = t, !.last = e]
<1>0. rows \in Seq(Row) /\ rows[i] \in Row
  BY DEF TypeOK, Ids
<1>1. /\ new \in Row /\ new.status = st /\ new.exit = e /\ new.closed = t
      /\ Terms(new) = Terms(rows[i]) /\ new.backfilled = rows[i].backfilled
  BY <1>0 DEF Row, Terms
<1>2. rows' = [rows EXCEPT ![i] = new]
  BY DEF Settle
<1> HIDE DEF new
<1>3. QED
  BY <1>0, <1>1, <1>2 DEF OnlyRow, Ids

(* Marking a row leaves its outcome as it is (mark_trade).                 *)
LEMMA MarkedRow ==
  ASSUME TypeOK, NEW i \in Ids, NEW px \in Prices, Mark(i, px)
  PROVE  /\ OnlyRow(i)
         /\ rows'[i].status = rows[i].status /\ rows'[i].exit = rows[i].exit
         /\ rows'[i].closed = rows[i].closed
<1> DEFINE new == [rows[i] EXCEPT !.last = px]
<1>0. rows \in Seq(Row) /\ rows[i] \in Row
  BY DEF TypeOK, Ids
<1>1. /\ new \in Row /\ new.status = rows[i].status /\ new.exit = rows[i].exit
      /\ new.closed = rows[i].closed
      /\ Terms(new) = Terms(rows[i]) /\ new.backfilled = rows[i].backfilled
  BY <1>0 DEF Row, Terms
<1>2. rows' = [rows EXCEPT ![i] = new]
  BY DEF Mark
<1> HIDE DEF new
<1>3. QED
  BY <1>0, <1>1, <1>2 DEF OnlyRow, Ids

(* Visiting a quoted row of the pass touches that row only, and keeps its  *)
(* terms; its outcome stays or is one the rule of reconcile allows.        *)
LEMMA VisitRow ==
  ASSUME TypeOK, NEW i \in Ids, prices[rows[i].sym] # None, MarkRow(i)
  PROVE  /\ OnlyRow(i)
         /\ \/ /\ rows'[i].status = rows[i].status
               /\ rows'[i].exit = rows[i].exit
               /\ rows'[i].closed = rows[i].closed
            \/ /\ rows'[i].status = "won"
               /\ rows'[i].exit = rows[i].target
               /\ rows[i].target # None
               /\ rows'[i].closed = markNow
            \/ /\ rows'[i].status = "lost"
               /\ rows'[i].exit = rows[i].stop
               /\ rows[i].stop # None
               /\ rows'[i].closed = markNow
            \/ /\ rows'[i].status = "closed"
               /\ rows'[i].exit = prices[rows[i].sym]
               /\ prices[rows[i].sym] # None
               /\ rows'[i].closed = markNow
               /\ Expired(i, markNow)
<1> DEFINE px == prices[rows[i].sym]
<1>0. rows[i] \in Row /\ markNow \in Int
  BY DEF TypeOK, Ids
<1>1. rows[i] \in Row /\ px \in Prices /\ markNow \in Int
  BY <1>0 DEF TypeOK, Row
<1>2. SettleOrMark(i, px, markNow)
  BY DEF MarkRow
<1>3. CASE HitTarget(i, px) /\ Settle(i, "won", rows[i].target, markNow)
  <2>1. rows[i].target \in Prices /\ rows[i].target # None
    BY <1>1, <1>3 DEF HitTarget, Row
  <2>2. QED
    BY <1>1, <1>3, <2>1, SettledRow
<1>4. CASE HitStop(i, px) /\ Settle(i, "lost", rows[i].stop, markNow)
  <2>1. rows[i].stop \in Prices /\ rows[i].stop # None
    BY <1>1, <1>4 DEF HitStop, Row
  <2>2. QED
    BY <1>1, <1>4, <2>1, SettledRow
<1>5. CASE Expired(i, markNow) /\ Settle(i, "closed", px, markNow)
  BY <1>1, <1>5, SettledRow
<1>6. CASE Mark(i, px)
  BY <1>1, <1>6, MarkedRow
<1>7. QED
  BY <1>2, <1>3, <1>4, <1>5, <1>6 DEF SettleOrMark

-------------------------------------------------------------------------------
(* Types, action by action.                                                *)

(* A recorder's step keeps the types (tradelog.record).                    *)
LEMMA RecordTypes ==
  ASSUME TypeOK, NEW r \in Recorders,
         RecordRead(r) \/ RecordInsert(r) \/ RecordSkip(r) \/ RecordDone(r)
  PROVE  TypeOK'
<1> DEFINE s == SourceOf[r]
<1>0. s \in Sources /\ \A i \in Ids : rows[i] \in Row
  BY DEF TypeOK, Ids
<1>1. CASE RecordRead(r)
  <2>1. \A i \in Ids : rows[i].sym \in Symbols
    BY <1>0 DEF Row
  <2>2. OpenSymbols(s) \subseteq Symbols
    BY <2>1 DEF OpenSymbols
  <2>3. QED
    BY <1>0, <1>1, <2>2 DEF TypeOK, RecordRead, markVars
<1>2. CASE RecordInsert(r)
  <2> DEFINE p == Head(todo[r])
  <2>1. todo[r] \in Seq(Pick) /\ todo[r] # <<>>
    BY <1>2 DEF RecordInsert, TypeOK
  <2>2. p \in Pick /\ p.sym \in Symbols /\ Tail(todo[r]) \in Seq(Pick)
    <3>1. p \in Pick /\ Tail(todo[r]) \in Seq(Pick)
      BY <2>1
    <3>2. QED
      BY <3>1 DEF Pick
  <2>3. OpenTrade(s, p, now, FALSE)
    BY <1>2 DEF RecordInsert
  <2>4. /\ have' = [have EXCEPT ![r] = @ \cup {p.sym}]
        /\ todo' = [todo EXCEPT ![r] = Tail(@)]
        /\ UNCHANGED <<now, recPc, markVars, restarts>>
    BY <1>2 DEF RecordInsert
  <2> HIDE DEF p
  <2>5. rows' \in Seq(Row)
    <3>1. now \in Int
      BY DEF TypeOK
    <3>2. QED
      BY <1>0, <2>2, <2>3, <3>1, AppendRow
  <2>6. QED
    BY <2>2, <2>4, <2>5 DEF TypeOK, markVars
<1>3. CASE RecordSkip(r)
  <2>1. Tail(todo[r]) \in Seq(Pick)
    BY <1>3 DEF TypeOK, RecordSkip
  <2>2. QED
    BY <1>3, <2>1 DEF TypeOK, RecordSkip, markVars
<1>4. CASE RecordDone(r)
  BY <1>4 DEF TypeOK, RecordDone, markVars
<1>5. QED
  BY <1>1, <1>2, <1>3, <1>4

(* So does a visit of a quoted row.                                        *)
LEMMA MarkRowTypes ==
  ASSUME TypeOK, NEW i \in Ids, prices[rows[i].sym] # None, MarkRow(i)
  PROVE  TypeOK'
<1>1. rows' \in Seq(Row)
  BY VisitRow DEF OnlyRow
<1>2. /\ markRows' = markRows \ {i}
      /\ UNCHANGED <<now, recVars, markPc, lastMark, markSyms, prices, markNow, restarts>>
  BY DEF MarkRow
<1>3. QED
  BY <1>1, <1>2 DEF TypeOK, recVars

(* The steps of the live half that write no row of the table.              *)
QuietStep ==
  \/ Tick \/ (\E force \in BOOLEAN : EnsureMarked(force))
  \/ MarkSymbols \/ MarkPrices \/ MarkRead \/ MarkDone \/ MarkFail \/ Restart
  \/ UNCHANGED vars

(* They keep the types too.                                                *)
LEMMA QuietTypes == ASSUME TypeOK, QuietStep PROVE TypeOK' /\ rows' = rows
<1>0. Ids = 1 .. Len(rows) /\ \A i \in Ids : rows[i] \in Row
  BY DEF TypeOK, Ids
<1>1. CASE Tick
  BY <1>1 DEF Tick, TypeOK, recVars, markVars
<1>2. CASE \E force \in BOOLEAN : EnsureMarked(force)
  BY <1>2 DEF EnsureMarked, TypeOK, recVars
<1>3. CASE MarkSymbols
  BY <1>0, <1>3 DEF MarkSymbols, TypeOK, recVars, Row
<1>4. CASE MarkPrices
  BY <1>4 DEF MarkPrices, TypeOK, recVars
<1>5. CASE MarkRead
  BY <1>0, <1>5 DEF MarkRead, TypeOK, recVars
<1>6. CASE MarkDone \/ MarkFail
  BY <1>6 DEF MarkDone, MarkFail, EndMark, TypeOK, recVars
<1>7. CASE Restart
  BY <1>7 DEF Restart, ResetThreads, TypeOK
<1>8. CASE UNCHANGED vars
  BY <1>8 DEF TypeOK, vars, recVars, markVars
<1>9. QED
  BY <1>1, <1>2, <1>3, <1>4, <1>5, <1>6, <1>7, <1>8 DEF QuietStep

-------------------------------------------------------------------------------
(* Invariance, action by action.                                           *)

LEMMA InitIInv == Init => IInv
<1> SUFFICES ASSUME Init PROVE IInv
  OBVIOUS
<1>1. TypeOK
  BY DEF Init, TypeOK
<1>2. HaveCovers /\ PendingOpen
  BY DEF Init, HaveCovers, PendingOpen
<1>3. OneOpenPerSymbol /\ OutcomeSound
  BY DEF Init, OneOpenPerSymbol, OutcomeSound, Ids
<1>4. QED
  BY <1>1, <1>2, <1>3 DEF IInv

(* A step that leaves the table alone keeps what is said of the table alone *)
(* (OneOpenPerSymbol, OutcomeSound).                                        *)
LEMMA TableKept ==
  ASSUME IInv, rows' = rows
  PROVE  OneOpenPerSymbol' /\ OutcomeSound'
BY DEF IInv, OneOpenPerSymbol, OutcomeSound, TwiceOpen, IsOpen, Ids

(* A recorder's step keeps the invariant (tradelog.record).                *)
LEMMA RecordingIInv ==
  ASSUME IInv, NEW r \in Recorders,
         RecordRead(r) \/ RecordInsert(r) \/ RecordSkip(r) \/ RecordDone(r)
  PROVE  IInv'
<1> DEFINE s == SourceOf[r]
<1>0. /\ s \in Sources /\ TypeOK /\ Ids = 1 .. Len(rows)
      /\ \A i \in Ids : rows[i] \in Row
  BY DEF IInv, TypeOK, Ids
<1>00. TypeOK'
  BY RecordTypes DEF IInv
<1>1. CASE RecordRead(r)
  <2> USE <1>1 DEF RecordRead, recVars, markVars
  <2>1. HaveCovers'
    BY <1>0 DEF IInv, TypeOK, HaveCovers, OpenSymbols, IsOpen, Ids
  <2>2. PendingOpen'
    BY DEF IInv, PendingOpen, IsOpen, Ids
  <2>3. QED
    BY <1>00, <2>1, <2>2, TableKept DEF IInv
<1>2. CASE RecordInsert(r)
  <2> DEFINE p == Head(todo[r])
             n == Len(rows) + 1
  <2>1. /\ todo[r] \in Seq(Pick) /\ todo[r] # <<>>
        /\ p \in Pick /\ p.sym \in Symbols /\ Tail(todo[r]) \in Seq(Pick)
    <3>1. todo[r] \in Seq(Pick) /\ todo[r] # <<>>
      BY <1>0, <1>2 DEF RecordInsert, TypeOK
    <3>2. p \in Pick /\ Tail(todo[r]) \in Seq(Pick)
      BY <3>1
    <3>3. QED
      BY <3>1, <3>2 DEF Pick
  <2>2. OpenTrade(s, p, now, FALSE) /\ p.sym \notin have[r] /\ recPc[r] = "insert"
    BY <1>2 DEF RecordInsert, Wanted
  <2> HIDE DEF p
  <2>3. /\ rows' \in Seq(Row) /\ Len(rows') = n
        /\ Ids' = Ids \cup {n} /\ n \notin Ids
        /\ \A i \in Ids : rows'[i] = rows[i]
        /\ rows'[n] = NewRow(s, p, now, FALSE)
    <3>1. Len(rows) \in Nat /\ now \in Int
      BY <1>0 DEF TypeOK
    <3>2. n \notin Ids
      BY <1>0, <3>1
    <3>3. QED
      BY <1>0, <2>1, <2>2, <3>1, <3>2, AppendRow DEF Ids
  <2> HIDE DEF n
  <2>4. /\ rows'[n].source = s /\ rows'[n].sym = p.sym /\ rows'[n].status = "open"
        /\ rows'[n].exit = None /\ rows'[n].closed = None
    BY <2>3 DEF NewRow
  <2>5. /\ have' = [have EXCEPT ![r] = @ \cup {p.sym}] 
        /\ todo' = [todo EXCEPT ![r] = Tail(@)]
        /\ UNCHANGED <<now, recPc, markVars, restarts>>
    BY <1>2 DEF RecordInsert, p
  <2>7. HaveCovers'
    <3> SUFFICES ASSUME NEW q \in Recorders, recPc[q] = "insert", Serial(SourceOf[q]),
                        NEW i \in Ids', rows'[i].source = SourceOf[q], rows'[i].status = "open"
                 PROVE  rows'[i].sym \in have'[q]
      BY <2>5 DEF HaveCovers, OpenSymbols, IsOpen
    <3>1. CASE i \in Ids
      <4>1. rows[i].sym \in have[q]
        BY <2>3, <3>1 DEF IInv, HaveCovers, OpenSymbols, IsOpen
      <4>2. QED
        BY <1>0, <2>3, <2>5, <3>1, <4>1 DEF TypeOK
    <3>2. CASE i = n
      <4>1. q = r
        BY <2>4, <3>2 DEF Serial
      <4>2. QED
        BY <1>0, <2>4, <2>5, <3>2, <4>1 DEF TypeOK
    <3>3. QED
      BY <2>3, <3>1, <3>2
  <2>8. PendingOpen'
    BY <2>3, <2>5 DEF IInv, PendingOpen, IsOpen, markVars
  <2>9. OneOpenPerSymbol'
    <3>1. Serial(s) => \A i \in Ids : ~(IsOpen(i) /\ rows[i].source = s /\ rows[i].sym = p.sym)
      BY <2>2 DEF IInv, HaveCovers, OpenSymbols
    <3> SUFFICES ASSUME NEW i \in Ids', NEW j \in Ids', i # j, Serial(rows'[i].source),
                        rows'[i].status = "open", rows'[j].status = "open",
                        rows'[i].source = rows'[j].source, rows'[i].sym = rows'[j].sym
                 PROVE  FALSE
      BY DEF OneOpenPerSymbol, TwiceOpen, IsOpen
    <3>2. CASE i = n
      BY <2>3, <2>4, <3>1, <3>2 DEF IsOpen
    <3>3. CASE j = n
      BY <2>3, <2>4, <3>1, <3>3 DEF IsOpen
    <3>4. CASE i \in Ids /\ j \in Ids
      BY <2>3, <3>4 DEF IInv, OneOpenPerSymbol, TwiceOpen, IsOpen
    <3>5. QED
      BY <2>3, <3>2, <3>3, <3>4
  <2>10. OutcomeSound'
    <3>1. ASSUME NEW i \in Ids'
          PROVE  \/ i \in Ids /\ rows'[i] = rows[i]
                 \/ rows'[i].status = "open" /\ rows'[i].exit = None /\ rows'[i].closed = None
      BY <2>3, <2>4
    <3>2. QED
      BY <3>1 DEF IInv, OutcomeSound
  <2>11. QED
    BY <1>00, <2>7, <2>8, <2>9, <2>10 DEF IInv
<1>3. CASE RecordSkip(r)
  <2>1. HaveCovers' /\ PendingOpen' /\ rows' = rows
    BY <1>3 DEF IInv, RecordSkip, HaveCovers, PendingOpen, OpenSymbols, IsOpen, Ids, markVars
  <2>2. QED
    BY <1>00, <2>1, TableKept DEF IInv
<1>4. CASE RecordDone(r)
  <2>1. HaveCovers' /\ PendingOpen' /\ rows' = rows
    BY <1>0, <1>4 DEF IInv, RecordDone, TypeOK, HaveCovers, PendingOpen, OpenSymbols, IsOpen, Ids, markVars
  <2>2. QED
    BY <1>00, <2>1, TableKept DEF IInv
<1>5. QED
  BY <1>1, <1>2, <1>3, <1>4

(* A step of the mark pass keeps the invariant (tradelog.reconcile).       *)
LEMMA MarkRowIInv ==
  ASSUME IInv, NEW i \in markRows, MarkRow(i)
  PROVE  IInv'
<1>0. i \in Ids /\ IsOpen(i) /\ TypeOK /\ prices[rows[i].sym] # None
  BY DEF IInv, PendingOpen
<1>1. /\ rows' \in Seq(Row) /\ Ids' = Ids
      /\ \A j \in Ids : j # i => rows'[j] = rows[j]
      /\ Terms(rows'[i]) = Terms(rows[i])
  BY <1>0, VisitRow DEF OnlyRow, Ids
<1>2. /\ markPc = "settle" /\ markRows' = markRows \ {i}
      /\ UNCHANGED <<now, recVars, markPc, lastMark, markSyms, prices, markNow, restarts>>
  BY DEF MarkRow
<1>4. /\ rows'[i].source = rows[i].source /\ rows'[i].sym = rows[i].sym
      /\ rows'[i].stop = rows[i].stop /\ rows'[i].target = rows[i].target
      /\ rows'[i].horizon = rows[i].horizon /\ rows'[i].opened = rows[i].opened
  BY <1>1 DEF Terms
<1>5. TypeOK'
  BY <1>0, MarkRowTypes
<1>6. \A j \in Ids : /\ rows'[j].source = rows[j].source /\ rows'[j].sym = rows[j].sym
                     /\ rows'[j].status = "open" => rows[j].status = "open"
  BY <1>0, <1>1, <1>4 DEF IsOpen
<1>7. HaveCovers'
  BY <1>1, <1>2, <1>6 DEF IInv, HaveCovers, OpenSymbols, IsOpen, recVars
<1>8. PendingOpen'
  BY <1>1, <1>2 DEF IInv, PendingOpen, IsOpen
<1>9. OneOpenPerSymbol'
  BY <1>1, <1>6 DEF IInv, OneOpenPerSymbol, TwiceOpen, IsOpen
<1>10. OutcomeSound'
  <2> SUFFICES ASSUME NEW j \in Ids 
               PROVE  /\ rows'[j].status = "open"   => rows'[j].exit = None /\ rows'[j].closed = None
                      /\ rows'[j].status = "won"    => rows'[j].exit = rows'[j].target /\ rows'[j].exit # None
                      /\ rows'[j].status = "lost"   => rows'[j].exit = rows'[j].stop /\ rows'[j].exit # None
                      /\ rows'[j].status = "closed" => 
                           /\ rows'[j].exit # None
                           /\ rows'[j].closed - rows'[j].opened >= rows'[j].horizon
    BY <1>1 DEF OutcomeSound
  <2>1. CASE j # i
    BY <1>1, <2>1 DEF IInv, OutcomeSound
  <2>2. CASE j = i
    <3>1. rows[i].exit = None /\ rows[i].closed = None
      BY <1>0 DEF IInv, OutcomeSound, IsOpen
    <3>2. QED
      BY <1>0, <1>4, <2>2, <3>1, VisitRow DEF Expired, IsOpen
  <2>3. QED
    BY <2>1, <2>2
<1>11. QED
  BY <1>5, <1>7, <1>8, <1>9, <1>10 DEF IInv

(* The steps that write no row keep the invariant.                         *)
LEMMA QuietIInv == ASSUME IInv, QuietStep PROVE IInv'
<1>1. TypeOK' /\ rows' = rows
  BY QuietTypes DEF IInv
<1>2. HaveCovers'
  BY <1>1 DEF QuietStep, IInv, TypeOK, HaveCovers, OpenSymbols, IsOpen, Ids, Tick, EnsureMarked,
              MarkSymbols, MarkPrices, MarkRead, MarkDone, MarkFail, EndMark, Restart, ResetThreads,
              vars, recVars, markVars
<1>3. PendingOpen'
  <2>1. CASE MarkRead
    BY <2>1 DEF IInv, MarkRead, ToVisit, PendingOpen, IsOpen, Ids
  <2>2. CASE MarkDone \/ MarkFail
    BY <2>2 DEF MarkDone, MarkFail, EndMark, PendingOpen
  <2>3. CASE Restart
    BY <2>3 DEF Restart, ResetThreads, PendingOpen
  <2>4. CASE \/ Tick \/ (\E force \in BOOLEAN : EnsureMarked(force)) \/ MarkSymbols \/ MarkPrices
             \/ UNCHANGED vars
    BY <1>1, <2>4 DEF IInv, Tick, EnsureMarked, MarkIdle, MarkSymbols, MarkPrices, PendingOpen,
                      IsOpen, Ids, vars, markVars
  <2>5. QED
    BY <2>1, <2>2, <2>3, <2>4 DEF QuietStep
<1>4. QED
  BY <1>1, <1>2, <1>3, TableKept DEF IInv

LEMMA StepIInv == IInv /\ [Next]_vars => IInv'
BY RecordingIInv, MarkRowIInv, QuietIInv DEF QuietStep, Next, Recording, Marking

LEMMA Invariance == Spec => []IInv
BY InitIInv, StepIInv, PTL DEF Spec

-------------------------------------------------------------------------------
(* Every reachable table and thread state is well typed.                   *)
THEOREM TypeCorrect == Spec => []TypeOK
<1>1. IInv => TypeOK
  BY DEF IInv
<1>2. QED
  BY <1>1, Invariance, PTL

(* A source that publishes from one thread never has two open trades in    *)
(* one symbol (record's docstring, for the sweeps).                        *)
THEOREM SerialSourceOneOpen == Spec => []OneOpenPerSymbol
<1>1. IInv => OneOpenPerSymbol
  BY DEF IInv
<1>2. QED
  BY <1>1, Invariance, PTL

(* The exit of every settled trade is the one its outcome stands for.      *)
THEOREM OutcomesSound == Spec => []OutcomeSound
<1>1. IInv => OutcomeSound
  BY DEF IInv
<1>2. QED
  BY <1>1, Invariance, PTL

(* How any step of the live track record changes the table: not at all, by *)
(* one open row at the end, or by the mark pass visiting one open row.     *)
LEMMA TableSteps ==
  ASSUME IInv, [Next]_vars
  PROVE  \/ rows' = rows
         \/ \E r \in Recorders : RecordInsert(r)
         \/ \E i \in markRows : MarkRow(i)
BY DEF Next, Recording, Marking, vars, Tick, RecordRead, RecordSkip, RecordDone,
       EnsureMarked, MarkSymbols, MarkPrices, MarkRead, MarkDone, MarkFail, EndMark, Restart

(* What an insert by a recorder does to the table.                         *)
LEMMA InsertedRow ==
  ASSUME IInv, NEW r \in Recorders, RecordInsert(r)
  PROVE  /\ SourceOf[r] \in Sources /\ Head(todo[r]) \in Pick
         /\ DOMAIN rows' = Ids \cup {Len(rows) + 1}
         /\ Len(rows') = Len(rows) + 1
         /\ \A i \in Ids : rows'[i] = rows[i]
         /\ rows'[Len(rows) + 1] = NewRow(SourceOf[r], Head(todo[r]), now, FALSE)
<1>1. TypeOK /\ SourceOf[r] \in Sources /\ now \in Int
  BY DEF IInv, TypeOK
<1>2. todo[r] \in Seq(Pick) /\ todo[r] # <<>>
  BY <1>1 DEF RecordInsert, TypeOK
<1>3. Head(todo[r]) \in Pick
  BY <1>2
<1>4. OpenTrade(SourceOf[r], Head(todo[r]), now, FALSE)
  BY DEF RecordInsert
<1>5. QED
  BY <1>1, <1>3, <1>4, AppendRow

(* Nothing of the ledger is changed after the fact: rows are only          *)
(* appended, a settled row stays as it is, the terms of a call are fixed   *)
(* (tradelog.py's header).                                                 *)
THEOREM LedgerNeverCurated == Spec => NeverCurated
<1> DEFINE Grows == /\ Len(rows') >= Len(rows)
                   /\ \A i \in Ids : /\ Terms(rows'[i]) = Terms(rows[i])
                                     /\ ~IsOpen(i) => rows'[i] = rows[i]
<1>1. ASSUME IInv, [Next]_vars PROVE [Grows]_vars
  <2>1. Len(rows) \in Nat
    BY <1>1 DEF IInv, TypeOK
  <2>2. CASE rows' = rows
    BY <2>1, <2>2
  <2>3. CASE \E r \in Recorders : RecordInsert(r)
    <3>1. PICK r \in Recorders : RecordInsert(r)
      BY <2>3
    <3>2. Len(rows') = Len(rows) + 1 /\ \A i \in Ids : rows'[i] = rows[i]
      BY <1>1, <3>1, InsertedRow
    <3>3. QED
      BY <2>1, <3>2
  <2>4. CASE \E i \in markRows : MarkRow(i)
    <3>1. PICK i \in markRows : MarkRow(i)
      BY <2>4
    <3>2. IsOpen(i) /\ i \in Ids /\ prices[rows[i].sym] # None /\ TypeOK
      BY <1>1 DEF IInv, PendingOpen
    <3>3. QED
      BY <1>1, <2>1, <3>1, <3>2, VisitRow DEF OnlyRow
  <2>5. QED
    BY <1>1, <2>2, <2>3, <2>4, TableSteps
<1>2. QED
  BY <1>1, Invariance, PTL DEF Spec, NeverCurated

-------------------------------------------------------------------------------
(* A sequence that continues s by one element is Append of it to s.        *)
LEMMA AppendAsFunction ==
  ASSUME NEW T, NEW s \in Seq(T), NEW e \in T, NEW u,
         u = [i \in 1 .. Len(s) + 1 |-> IF i = Len(s) + 1 THEN e ELSE s[i]]
  PROVE  u = Append(s, e)
<1>1. u \in Seq(T) /\ Len(u) = Len(s) + 1
  OBVIOUS
<1>2. Append(s, e) \in Seq(T) /\ Len(Append(s, e)) = Len(s) + 1
  OBVIOUS
<1>3. \A i \in 1 .. Len(s) + 1 : u[i] = Append(s, e)[i]
  OBVIOUS
<1>4. QED
  BY <1>1, <1>2, <1>3, SeqEqual

(* When every source publishes from one thread, the table, its threads and *)
(* its restarts implement the promise of TrackRecord: a call is published  *)
(* only while no open call of its engine and symbol is in the book, and is *)
(* resolved at most once.                                                  *)
THEOREM SerialRecordImplementsTrackRecord ==
  ASSUME \A s \in Sources : Serial(s)
  PROVE  Spec => ImplementsTrackRecord
<1> DEFINE Pair(row) == [key |-> <<row.source, row.sym>>, outcome |-> Outcome(row)]
           book == [i \in Ids |-> Pair(rows[i])]
           None2 == <<"open", None>>
<1>1. Init => Book!Init
  <2> SUFFICES ASSUME Init PROVE Book!Init
    OBVIOUS
  <2>1. Ids = {}
    BY DEF Init, Ids
  <2>2. QED
    BY <2>1 DEF Book!Init
<1>2. ASSUME IInv, [Next]_vars PROVE [Book!Next]_book
  <2>1. TypeOK /\ Len(rows) \in Nat /\ Ids = 1 .. Len(rows)
    BY <1>2 DEF IInv, TypeOK, Ids
  <2>2. CASE rows' = rows
    BY <2>2 DEF Ids, Outcome
  <2>3. CASE \E r \in Recorders : RecordInsert(r)
    <3>1. PICK r \in Recorders : RecordInsert(r)
      BY <2>3
    <3> DEFINE p == Head(todo[r])
               k == <<SourceOf[r], p.sym>>
               new == [key |-> k, outcome |-> None2]
               n == Len(rows) + 1
    <3>2. /\ SourceOf[r] \in Sources /\ p \in Pick
          /\ DOMAIN rows' = 1 .. n
          /\ \A i \in Ids : rows'[i] = rows[i]
          /\ rows'[n] = NewRow(SourceOf[r], p, now, FALSE)
      <4>1. DOMAIN rows' = Ids \cup {n}
        BY <1>2, <3>1, InsertedRow
      <4>2. Ids \cup {n} = 1 .. n
        BY <2>1
      <4>3. QED
        BY <1>2, <3>1, <4>1, <4>2, InsertedRow
    <3>3. k \in Sources \X Symbols
      BY <3>2 DEF Pick
    <3>4. \A i \in Ids : book[i].key = k => book[i].outcome # None2
      <4> SUFFICES ASSUME NEW i \in Ids, rows[i].source = SourceOf[r], rows[i].sym = p.sym
                   PROVE  rows[i].status # "open"
        BY DEF Outcome
      <4>1. recPc[r] = "insert" /\ p.sym \notin have[r]
        BY <3>1 DEF RecordInsert, Wanted
      <4>2. OpenSymbols(SourceOf[r]) \subseteq have[r]
        BY <1>2, <3>2, <4>1 DEF IInv, HaveCovers
      <4>3. QED
        BY <4>1, <4>2 DEF OpenSymbols, IsOpen
    <3>5. book' = Append(book, new)
      <4>1. Pair(rows'[n]) = new
        BY <3>2 DEF NewRow, Outcome
      <4>2. book' = [i \in 1 .. n |-> Pair(rows'[i])]
        BY <3>2 DEF Ids
      <4>3. \A i \in Ids : rows'[i] = rows[i] /\ book[i] = Pair(rows[i])
        BY <3>2
      <4> DEFINE T == {Pair(row) : row \in Row} \cup {new}
      <4>4. book \in Seq(T) /\ Len(book) = Len(rows)
        <5>0. \A i \in Ids : rows[i] \in Row
          BY <2>1 DEF TypeOK
        <5> HIDE DEF Pair, new
        <5>1. \A i \in Ids : Pair(rows[i]) \in T
          BY <5>0
        <5> HIDE DEF T
        <5>2. QED
          BY <2>1, <5>1
      <4> HIDE DEF new, Pair, book, T
      <4>5. \A i \in 1 .. n : Pair(rows'[i]) = IF i = n THEN new ELSE book[i]
        BY <2>1, <4>1, <4>3
      <4>6. book' = [i \in 1 .. n |-> IF i = n THEN new ELSE book[i]]
        BY <4>2, <4>5
      <4>7. new \in T
        BY DEF T
      <4>8. n = Len(book) + 1
        BY <4>4
      <4>9. book' = [i \in 1 .. Len(book) + 1 |-> IF i = Len(book) + 1 THEN new ELSE book[i]]
        BY <4>6, <4>8
      <4>10. QED
        BY <4>4, <4>7, <4>9, AppendAsFunction
    <3>6. PICK key \in Sources \X Symbols : key = k
      BY <3>3
    <3>7. Book!Publish(key)
      BY <3>4, <3>5, <3>6 DEF Book!Publish
    <3>8. Book!Next
      BY <3>7 DEF Book!Next
    <3>9. QED
      BY <3>8
  <2>4. CASE \E i \in markRows : MarkRow(i)
    <3>1. PICK i \in markRows : MarkRow(i)
      BY <2>4
    <3> DEFINE o == Outcome(rows'[i])
    <3>2. i \in Ids /\ rows[i].status = "open" /\ rows[i].exit = None /\ prices[rows[i].sym] # None
      BY <1>2 DEF IInv, PendingOpen, IsOpen, OutcomeSound
    <3>3. /\ DOMAIN rows' = Ids /\ rows'[i] \in Row
          /\ \A j \in Ids : j # i => rows'[j] = rows[j]
          /\ rows'[i].source = rows[i].source /\ rows'[i].sym = rows[i].sym
      <4>1. /\ DOMAIN rows' = Ids /\ rows' \in Seq(Row)
            /\ \A j \in Ids : j # i => rows'[j] = rows[j]
            /\ Terms(rows'[i]) = Terms(rows[i])
        BY <2>1, <3>1, <3>2, VisitRow DEF OnlyRow
      <4>2. QED
        BY <3>2, <4>1 DEF Terms
    <3>4. book' = [book EXCEPT ![i].outcome = o]
      <4>1. \A j \in Ids : Pair(rows'[j]) = IF j = i THEN [book[j] EXCEPT !.outcome = o]
                                                      ELSE book[j]
        BY <3>3
      <4>2. book' = [j \in Ids |-> Pair(rows'[j])]
        BY <3>3 DEF Ids
      <4>3. i \in Ids /\ DOMAIN book = Ids
        BY <3>2
      <4> HIDE DEF Pair, book, o
      <4>4. QED
        BY <4>1, <4>2, <4>3
    <3>5. o = None2 \/ o \in {"won", "lost", "closed"} \X Prices
      <4>1. rows'[i].exit \in Prices \cup {None}
        BY <3>3 DEF Row
      <4>2. \/ rows'[i].status = "open" /\ rows'[i].exit = rows[i].exit
            \/ rows'[i].status \in {"won", "lost", "closed"} /\ rows'[i].exit # None
        BY <2>1, <3>1, <3>2, VisitRow
      <4>3. QED
        BY <3>2, <4>1, <4>2 DEF Outcome
    <3>6. book[i].outcome = None2
      BY <3>2 DEF Outcome
    <3>7. CASE o = None2
      <4>1. \A j \in Ids : Pair(rows'[j]) = Pair(rows[j])
        BY <3>2, <3>3, <3>7 DEF Outcome
      <4>2. book' = book
        BY <3>3, <4>1 DEF Ids
      <4>3. QED
        BY <4>2
    <3>8. CASE o \in {"won", "lost", "closed"} \X Prices
      <4>1. PICK end \in {"won", "lost", "closed"} \X Prices : end = o
        BY <3>8
      <4>2. Book!Resolve(i, end)
        BY <3>4, <3>6, <4>1 DEF Book!Resolve
      <4>3. i \in DOMAIN book
        BY <3>2
      <4>4. Book!Next
        BY <4>2, <4>3 DEF Book!Next
      <4>5. QED
        BY <4>4
    <3>9. QED
      BY <3>5, <3>7, <3>8
  <2>5. QED
    BY <1>2, <2>2, <2>3, <2>4, TableSteps
<1>3. QED
  BY <1>1, <1>2, Invariance, PTL DEF Spec, ImplementsTrackRecord, Book!Spec

-------------------------------------------------------------------------------
(***************************************************************************)
(* With the replay beside it.                                              *)
(*                                                                         *)
(* The live half rests on what the ledger alone uses, weakened to what a   *)
(* shared table allows: a recorder covers the open LIVE calls of its       *)
(* source (LiveCovers), and a row the mark pass has yet to visit may have  *)
(* been settled by a worker, but never a live one (VisitQuoted).  The      *)
(* replay's half rests on where a worker stands in its symbol: every row   *)
(* written for it before lies behind busy_until, and is settled or marked  *)
(* at the end of its history (InOrder); no other worker, and no later one, *)
(* has the symbol (TakenOnce).  All this is claimed of the first run only: *)
(* a second one, forced or after a restart, replays what is there.         *)
(***************************************************************************)
(* Between the read and the inserts of a serial source's recorder, the     *)
(* symbols it believes open include those of all its open live calls.      *)
LiveCovers ==
  \A r \in Recorders : recPc[r] = "insert" /\ Serial(SourceOf[r]) =>
    \A i \in Ids : rows[i].source = SourceOf[r] /\ IsOpen(i) /\ ~rows[i].backfilled
                   => rows[i].sym \in have[r]

(* The rows a pass has still to visit are quoted; the live ones are open.  *)
VisitQuoted ==
  /\ markPc # "settle" => markRows = {}
  /\ \A i \in markRows : /\ i \in Ids /\ prices[rows[i].sym] # None
                         /\ ~rows[i].backfilled => IsOpen(i)

(* The trade a worker has open is a replayed row of its symbol.            *)
HoldsOwn(w) ==
  /\ wSym[w] # None /\ wTrade[w].id \in Ids /\ wTrade[w].source \in Replayed
  /\ LET row == rows[wTrade[w].id] IN
       row.backfilled /\ row.source = wTrade[w].source /\ row.sym = wSym[w]

(* Nobody works outside a run.                                             *)
WorkersOnRun ==
  /\ bfPhase # "run" => bfTodo = {} /\ \A w \in Workers : wSym[w] = None
  /\ \A w \in Workers : wTrade[w] # NoTrade => HoldsOwn(w)

(* Replayed rows are of replayable engines, of the past, and dated when    *)
(* they are settled.                                                       *)
ReplayedRows ==
  \A i \in Ids : rows[i].backfilled =>
    /\ rows[i].source \in Replayed /\ rows[i].opened <= 0
    /\ ~IsOpen(i) => rows[i].closed \in Int

(* Before the first run there is no marker and no replayed row.            *)
OnceOnly ==
  /\ runs = 0 => bfPhase = "off"
  /\ (runs = 0 \/ bfPhase # "off") => ~marker
  /\ (runs = 0 \/ bfPhase = "begin") => \A i \in Ids : ~rows[i].backfilled

(* A symbol is either waiting, untouched, or one worker's, or done.        *)
TakenOnce ==
  /\ \A i \in Ids : rows[i].backfilled => rows[i].sym \notin bfTodo
  /\ \A w \in Workers : wSym[w] # None =>
       wSym[w] \notin bfTodo /\ \A v \in Workers : wSym[v] = wSym[w] => v = w

(* Where a row of worker w's symbol lies: the open trade beyond busy_until *)
(* of its source, any other one not, and not open unless it ran to the end *)
(* of the history; a settled one has ended no later than busy_until, unless*)
(* the mark pass dated it.                                                 *)
Behind(w, i) ==
  LET busy == wBusy[w][rows[i].source] IN
  IF wTrade[w].id = i
  THEN rows[i].opened > BarTime(busy)
  ELSE /\ rows[i].opened <= BarTime(busy)
       /\ ~IsOpen(i) \/ busy = NBars + 1
       /\ ~IsOpen(i) => rows[i].closed >= 0 \/ rows[i].closed <= BarTime(busy)
InOrder ==
  \A w \in Workers, i \in Ids :
    wSym[w] # None /\ rows[i].backfilled /\ rows[i].sym = wSym[w] => Behind(w, i)

FirstRun == runs <= 1 => OnceOnly /\ TakenOnce /\ InOrder

LiveInv   == LiveCovers /\ VisitQuoted /\ LiveOneOpen /\ OutcomeSound
ReplayInv == WorkersOnRun /\ ReplayedRows /\ FirstRun /\ ReplayDisjoint
BIInv     == BTypeOK /\ LiveInv /\ ReplayInv

-------------------------------------------------------------------------------
(* How a statement changes the table.                                      *)

(* The rule of OutcomeSound for one row.                                   *)
Sound(row) ==
  /\ row.status = "open"   => row.exit = None /\ row.closed = None
  /\ row.status = "won"    => row.exit = row.target /\ row.exit # None
  /\ row.status = "lost"   => row.exit = row.stop /\ row.exit # None
  /\ row.status = "closed" => row.exit # None /\ row.closed - row.opened >= row.horizon

(* An UPDATE of row i that the rules of the two halves allow.              *)
Settled(i, dates) ==
  rows'[i].status # "open" => rows'[i].closed \in dates \/ (~IsOpen(i) /\ rows'[i].closed = rows[i].closed)
Updated(i) ==
  /\ i \in Ids /\ OnlyRow(i)
  /\ rows'[i].status = "open" => IsOpen(i)
  /\ Sound(rows[i]) => Sound(rows'[i])
  /\ Settled(i, Int)

(* An INSERT of row new.                                                   *)
Added(new) ==
  /\ rows' \in Seq(Row) /\ new \in Row
  /\ Len(rows') = Len(rows) + 1
  /\ Ids' = Ids \cup {Len(rows) + 1} /\ Len(rows) + 1 \notin Ids
  /\ \A i \in Ids : i < Len(rows) + 1 /\ rows'[i] = rows[i]
  /\ rows'[Len(rows) + 1] = new

LEMMA SoundRows == OutcomeSound <=> \A i \in Ids : Sound(rows[i])
BY DEF OutcomeSound, Sound

(* open_trade adds its row.                                                *)
LEMMA OpenAdds ==
  ASSUME TypeOK, NEW s \in Sources, NEW p \in Pick, NEW t \in Int, NEW b \in BOOLEAN,
         OpenTrade(s, p, t, b)
  PROVE  Added(NewRow(s, p, t, b)) /\ Sound(NewRow(s, p, t, b))
<1>1. Ids = 1 .. Len(rows) /\ Len(rows) \in Nat
  BY DEF TypeOK, Ids
<1>2. Len(rows) + 1 \notin Ids /\ \A i \in Ids : i < Len(rows) + 1
  BY <1>1
<1>3. Sound(NewRow(s, p, t, b))
  BY DEF NewRow, Sound
<1> DEFINE new == NewRow(s, p, t, b)
<1>4. /\ rows' \in Seq(Row) /\ new \in Row /\ Len(rows') = Len(rows) + 1
      /\ DOMAIN rows' = Ids \cup {Len(rows) + 1}
      /\ \A i \in Ids : rows'[i] = rows[i]
      /\ rows'[Len(rows) + 1] = new
  <2>1. TypeOK /\ OpenTrade(s, p, t, b)
    OBVIOUS
  <2>2. /\ rows' \in Seq(Row)
        /\ Len(rows') = Len(rows) + 1
        /\ DOMAIN rows' = Ids \cup {Len(rows) + 1}
        /\ \A i \in Ids : rows'[i] = rows[i]
        /\ rows'[Len(rows) + 1] = NewRow(s, p, t, b)
        /\ NewRow(s, p, t, b) \in Row
    BY <2>1, AppendRow, Zenon
  <2>3. QED
    BY <2>2
<1> HIDE DEF new
<1>5. Added(new)
  BY <1>2, <1>4 DEF Added, Ids
<1>6. QED
  BY <1>3, <1>5 DEF new

(* The mark pass updates a row it may visit, and dates it with the present.*)
LEMMA VisitUpdates ==
  ASSUME TypeOK, VisitQuoted, NEW i \in markRows, MarkRow(i)
  PROVE  Updated(i) /\ Settled(i, Nat)
<1>1. i \in Ids /\ prices[rows[i].sym] # None
  BY DEF VisitQuoted
<1>2. OnlyRow(i) /\ Terms(rows'[i]) = Terms(rows[i])
  BY <1>1, VisitRow DEF OnlyRow
<1>3. /\ rows'[i].stop = rows[i].stop /\ rows'[i].target = rows[i].target
      /\ rows'[i].horizon = rows[i].horizon /\ rows'[i].opened = rows[i].opened
  BY <1>2 DEF Terms
<1>4. rows'[i].status = "open" => IsOpen(i)
  BY <1>1, VisitRow DEF IsOpen
<1>5. Sound(rows[i]) => Sound(rows'[i])
  BY <1>1, <1>3, VisitRow DEF Sound, Expired
<1>6. markNow \in Nat
  BY DEF TypeOK
<1>7. Settled(i, Nat)
  <2>1. rows'[i].closed = markNow \/ (rows'[i].status = rows[i].status /\ rows'[i].closed = rows[i].closed)
    BY <1>1, VisitRow
  <2>2. QED
    BY <1>6, <2>1 DEF Settled, IsOpen
<1>8. Settled(i, Int)
  BY <1>7 DEF Settled
<1>9. QED
  BY <1>1, <1>2, <1>4, <1>5, <1>7, <1>8 DEF Updated

(* A worker updates the row of its open trade.                             *)
LEMMA ResolveUpdates ==
  ASSUME BackfillAssumptions, BTypeOK, WorkersOnRun, NEW w \in Workers, Resolving(w)
  PROVE  LET i == wTrade[w].id IN
         /\ wTrade[w] # NoTrade /\ HoldsOwn(w) /\ Updated(i)
         /\ UNCHANGED <<now, recVars, markVars, restarts, bfPhase, bfTodo, marker, callPc,
                        wSym, wBar, runs>>
         /\ wTrade' = [wTrade EXCEPT ![w] = NoTrade]
         /\ \E b \in 1 .. NBars + 1 :
              /\ wBusy' = [wBusy EXCEPT ![w][wTrade[w].source] = b]
              /\ rows[i].opened <= BarTime(b) \/ b = NBars + 1
              /\ rows'[i].status # "open" \/ b = NBars + 1
              /\ \/ rows'[i].closed = BarTime(b)
                 \/ b = NBars + 1 /\ rows'[i].status = rows[i].status /\ rows'[i].closed = rows[i].closed
<1> DEFINE i == wTrade[w].id
<1>0. /\ TypeOK /\ NBars \in Nat \ {0} /\ NBars + 1 \in 1 .. NBars + 1
      /\ Bars \subseteq 1 .. NBars + 1
  BY DEF BTypeOK, BackfillAssumptions, Bars
<1>1. CASE \E b \in Bars, st \in {"won", "lost", "closed"}, px \in Prices : ReplaySettle(w, b, st, px)
  <2>1. PICK b \in Bars, st \in {"won", "lost", "closed"}, px \in Prices : ReplaySettle(w, b, st, px)
    BY <1>1
  <2>2. /\ wTrade[w] # NoTrade /\ BarTime(b) >= rows[i].opened
        /\ WalkEnd(rows[i], b, st, px) /\ Settle(i, st, px, BarTime(b))
        /\ wBusy' = [wBusy EXCEPT ![w][wTrade[w].source] = b]
        /\ wTrade' = [wTrade EXCEPT ![w] = NoTrade]
        /\ UNCHANGED <<now, recVars, markVars, restarts, bfPhase, bfTodo, marker, callPc,
                       wSym, wBar, runs>>
    BY <2>1 DEF ReplaySettle, EndedOn
  <2>3. HoldsOwn(w) /\ i \in Ids
    BY <2>2 DEF WorkersOnRun, HoldsOwn
  <2>4. BarTime(b) \in Int /\ rows[i] \in Row
    BY <1>0, <2>3 DEF BarTime, BackfillAssumptions, Bars, TypeOK, Ids
  <2>5. OnlyRow(i) /\ rows'[i].status = st /\ rows'[i].exit = px /\ rows'[i].closed = BarTime(b)
    BY <1>0, <2>2, <2>3, <2>4, SettledRow
  <2>6. /\ rows'[i].stop = rows[i].stop /\ rows'[i].target = rows[i].target
        /\ rows'[i].horizon = rows[i].horizon /\ rows'[i].opened = rows[i].opened
    BY <2>5 DEF OnlyRow, Terms
  <2>7. Sound(rows'[i])
    <3>0. px # None
      BY <2>1
    <3>1. rows[i].opened \in Int /\ rows[i].horizon \in Nat
      BY <2>4 DEF Row
    <3>2. st = "closed" => rows'[i].closed - rows'[i].opened >= rows'[i].horizon
      <4>1. rows'[i].closed = BarTime(b) /\ rows'[i].opened = rows[i].opened /\ rows'[i].horizon = rows[i].horizon
        BY <2>5, <2>6
      <4>2. st = "closed" => BarTime(b) - rows[i].opened >= rows[i].horizon
        <5>1. st = "closed" => BarTime(b) >= rows[i].opened + rows[i].horizon
          BY <2>2 DEF WalkEnd
        <5>2. BarTime(b) \in Int
          BY <2>4
        <5>3. QED
          BY <3>1, <5>1, <5>2
      <4>3. QED
        BY <4>1, <4>2
    <3>3. /\ st = "won" => px = rows'[i].target
          /\ st = "lost" => px = rows'[i].stop
      BY <2>2, <2>6 DEF WalkEnd
    <3>4. QED
      BY <2>1, <2>5, <3>0, <3>2, <3>3 DEF Sound
  <2>8. rows'[i].status # "open" /\ rows[i].opened <= BarTime(b)
    BY <2>2, <2>4, <2>5 DEF Row
  <2>9. b \in 1 .. NBars + 1
    BY <1>0
  <2>10. Updated(i)
    BY <2>3, <2>4, <2>5, <2>7, <2>8 DEF Updated, Settled, IsOpen
  <2>11. QED
    BY <2>2, <2>3, <2>5, <2>8, <2>9, <2>10
<1>2. CASE \E px \in Prices : ReplayMark(w, px)
  <2>1. PICK px \in Prices : ReplayMark(w, px)
    BY <1>2
  <2>2. /\ wTrade[w] # NoTrade /\ Mark(i, px)
        /\ wBusy' = [wBusy EXCEPT ![w][wTrade[w].source] = NBars + 1]
        /\ wTrade' = [wTrade EXCEPT ![w] = NoTrade]
        /\ UNCHANGED <<now, recVars, markVars, restarts, bfPhase, bfTodo, marker, callPc,
                       wSym, wBar, runs>>
    BY <2>1 DEF ReplayMark, StillRunning
  <2>3. HoldsOwn(w) /\ i \in Ids
    BY <2>2 DEF WorkersOnRun, HoldsOwn
  <2>4. /\ OnlyRow(i) /\ rows'[i].status = rows[i].status
        /\ rows'[i].exit = rows[i].exit /\ rows'[i].closed = rows[i].closed
    BY <1>0, <2>2, <2>3, MarkedRow
  <2>5. Sound(rows[i]) => Sound(rows'[i])
    BY <2>4 DEF OnlyRow, Terms, Sound
  <2>6. QED
    BY <1>0, <2>2, <2>3, <2>4, <2>5 DEF Updated, Settled, IsOpen
<1>3. QED
  BY <1>1, <1>2 DEF Resolving

-------------------------------------------------------------------------------
(* What is said of the table, under each kind of statement.                *)

(* No row of a table that an UPDATE changed is another call, or open again. *)
LEMMA UpdatedRows ==
  ASSUME NEW i, Updated(i)
  PROVE  /\ Ids' = Ids
         /\ \A j \in Ids : /\ rows'[j].source = rows[j].source /\ rows'[j].sym = rows[j].sym
                           /\ rows'[j].opened = rows[j].opened
                           /\ rows'[j].backfilled = rows[j].backfilled
                           /\ rows'[j].status = "open" => IsOpen(j)
                           /\ Settled(j, Int)
<1>1. /\ rows'[i].source = rows[i].source /\ rows'[i].sym = rows[i].sym
      /\ rows'[i].opened = rows[i].opened /\ rows'[i].backfilled = rows[i].backfilled
  BY DEF Updated, OnlyRow, Terms
<1>2. \A j \in Ids : j # i => rows'[j] = rows[j]
  BY DEF Updated, OnlyRow
<1>3. \A j \in Ids : j # i => Settled(j, Int)
  BY <1>2 DEF Settled, IsOpen
<1>4. QED
  BY <1>1, <1>2, <1>3 DEF Updated, OnlyRow, Ids, IsOpen

LEMMA UpdateKeeps ==
  ASSUME NEW i, Updated(i), LiveOneOpen, OutcomeSound, ReplayedRows
  PROVE  LiveOneOpen' /\ OutcomeSound' /\ ReplayedRows'
<1>1. LiveOneOpen'
  BY UpdatedRows DEF LiveOneOpen, TwiceOpen, IsOpen
<1>2. \A j \in Ids : Sound(rows'[j])
  <2> SUFFICES ASSUME NEW j \in Ids PROVE Sound(rows'[j])
    OBVIOUS
  <2>1. Sound(rows[j])
    BY SoundRows
  <2>2. QED
    BY <2>1 DEF Updated, OnlyRow
<1>3. OutcomeSound'
  BY <1>2, UpdatedRows DEF OutcomeSound, Sound
<1>4. ReplayedRows'
  BY UpdatedRows DEF ReplayedRows, Settled, IsOpen
<1>5. QED
  BY <1>1, <1>3, <1>4

LEMMA SameTableKeeps ==
  ASSUME rows' = rows, LiveOneOpen, OutcomeSound, ReplayedRows
  PROVE  LiveOneOpen' /\ OutcomeSound' /\ ReplayedRows'
BY DEF LiveOneOpen, OutcomeSound, ReplayedRows, TwiceOpen, IsOpen, Ids

LEMMA AddKeeps ==
  ASSUME NEW new, Added(new), Sound(new), OutcomeSound, ReplayedRows, LiveOneOpen,
         new.backfilled => new.source \in Replayed /\ new.opened <= 0 /\ new.status = "open",
         ~new.backfilled /\ Serial(new.source) =>
           \A i \in Ids : ~rows[i].backfilled /\ IsOpen(i) /\ rows[i].source = new.source
                          => rows[i].sym # new.sym
  PROVE  LiveOneOpen' /\ OutcomeSound' /\ ReplayedRows'
<1> DEFINE n == Len(rows) + 1
<1>1. /\ Ids' = Ids \cup {n} /\ n \notin Ids
      /\ \A i \in Ids : rows'[i] = rows[i]
      /\ rows'[n] = new
  BY DEF Added
<1> HIDE DEF n
<1>2. OutcomeSound'
  <2>1. \A i \in Ids : Sound(rows[i])
    BY SoundRows
  <2>2. \A i \in Ids' : Sound(rows'[i])
    BY <1>1, <2>1
  <2>3. QED
    BY <2>2 DEF OutcomeSound, Sound
<1>3. ReplayedRows'
  BY <1>1 DEF ReplayedRows, IsOpen
<1>4. LiveOneOpen'
  <2> SUFFICES ASSUME NEW i \in Ids', NEW j \in Ids', i # j, Serial(rows'[i].source),
                      ~rows'[i].backfilled, ~rows'[j].backfilled,
                      rows'[i].status = "open", rows'[j].status = "open",
                      rows'[i].source = rows'[j].source, rows'[i].sym = rows'[j].sym
               PROVE  FALSE
    BY DEF LiveOneOpen, TwiceOpen, IsOpen
  <2>1. CASE i = n
    BY <1>1, <2>1 DEF IsOpen
  <2>2. CASE j = n
    BY <1>1, <2>2 DEF IsOpen
  <2>3. CASE i \in Ids /\ j \in Ids
    BY <1>1, <2>3 DEF LiveOneOpen, TwiceOpen, IsOpen
  <2>4. QED
    BY <1>1, <2>1, <2>2, <2>3
<1>5. QED
  BY <1>2, <1>3, <1>4

(* What is said of the replay does not notice a step that leaves it alone  *)
(* and writes no replayed row, or updates one.                             *)
LEMMA ReplayUndisturbed ==
  ASSUME UNCHANGED bfVars, FirstRun, ReplayDisjoint, WorkersOnRun,
         \/ rows' = rows
         \/ \E i \in Ids : Updated(i) /\ Settled(i, Nat)
         \/ \E new : Added(new) /\ ~new.backfilled
  PROVE  FirstRun' /\ ReplayDisjoint' /\ WorkersOnRun'
<1>1. /\ Ids \subseteq Ids'
      /\ \A j \in Ids' : rows'[j].backfilled =>
           /\ j \in Ids /\ rows[j].backfilled
           /\ rows'[j].source = rows[j].source /\ rows'[j].sym = rows[j].sym
           /\ rows'[j].opened = rows[j].opened
           /\ rows'[j].status = "open" => IsOpen(j)
           /\ Settled(j, Nat)
      /\ \A j \in Ids : /\ rows'[j].backfilled = rows[j].backfilled
                        /\ rows'[j].source = rows[j].source /\ rows'[j].sym = rows[j].sym
  <2>1. CASE rows' = rows
    BY <2>1 DEF Ids, IsOpen, Settled
  <2>2. CASE \E i \in Ids : Updated(i) /\ Settled(i, Nat)
    <3>1. PICK i \in Ids : Updated(i) /\ Settled(i, Nat)
      BY <2>2
    <3>2. \A j \in Ids : j # i => Settled(j, Nat)
      BY <3>1 DEF Updated, OnlyRow, Settled, IsOpen
    <3>3. QED
      BY <3>1, <3>2, UpdatedRows
  <2>3. CASE \E new : Added(new) /\ ~new.backfilled
    BY <2>3 DEF Added, IsOpen, Settled
  <2>4. QED
    BY <2>1, <2>2, <2>3
<1>2. WorkersOnRun'
  BY <1>1 DEF bfVars, WorkersOnRun, HoldsOwn
<1>3. OnceOnly => OnceOnly'
  BY <1>1 DEF bfVars, OnceOnly
<1>4. TakenOnce => TakenOnce'
  BY <1>1 DEF bfVars, TakenOnce
<1>5. InOrder => InOrder'
  <2> SUFFICES ASSUME InOrder, NEW w \in Workers, NEW j \in Ids', wSym'[w] # None,
                      rows'[j].backfilled, rows'[j].sym = wSym'[w]
               PROVE  Behind(w, j)'
    BY DEF InOrder
  <2>1. Behind(w, j)
    BY <1>1 DEF bfVars, InOrder
  <2>2. /\ rows'[j].source = rows[j].source /\ rows'[j].opened = rows[j].opened
        /\ rows'[j].status = "open" => rows[j].status = "open"
        /\ rows'[j].status # "open" => rows'[j].closed \in Nat \/ (~IsOpen(j) /\ rows'[j].closed = rows[j].closed)
        /\ wBusy' = wBusy /\ wTrade' = wTrade
    BY <1>1 DEF bfVars, IsOpen, Settled
  <2>3. QED
    BY <2>1, <2>2 DEF Behind, IsOpen, BarTime
<1>6. ReplayDisjoint'
  BY <1>1 DEF bfVars, ReplayDisjoint, SamePair, IsOpen, Settled
<1>7. QED
  BY <1>2, <1>3, <1>4, <1>5, <1>6 DEF FirstRun, bfVars

-------------------------------------------------------------------------------
(* Invariance: the live half.                                              *)

(* A recorder's step keeps its cover and the pass's rows (tradelog.record). *)
LEMMA RecordingBIInv ==
  ASSUME BIInv, NEW r \in Recorders, UNCHANGED bfVars,
         RecordRead(r) \/ RecordInsert(r) \/ RecordSkip(r) \/ RecordDone(r)
  PROVE  BIInv'
<1>1. TypeOK /\ TypeOK' /\ BTypeOK'
  BY RecordTypes DEF BIInv, BTypeOK, bfVars
<1>2. CASE RecordRead(r) \/ RecordSkip(r) \/ RecordDone(r)
  <2>1. rows' = rows
    BY <1>2 DEF RecordRead, RecordSkip, RecordDone
  <2>2. LiveCovers'
    BY <1>1, <1>2 DEF BIInv, LiveInv, LiveCovers, TypeOK, RecordRead, RecordSkip, RecordDone,
                      OpenSymbols, IsOpen, Ids
  <2>3. VisitQuoted'
    BY <1>2 DEF BIInv, LiveInv, VisitQuoted, RecordRead, RecordSkip, RecordDone, IsOpen, Ids, markVars
  <2>4. QED
    BY <1>1, <2>1, <2>2, <2>3, SameTableKeeps, ReplayUndisturbed DEF BIInv, LiveInv, ReplayInv
<1>3. CASE RecordInsert(r)
  <2> DEFINE p == Head(todo[r])
             s == SourceOf[r]
             new == NewRow(s, p, now, FALSE)
             n == Len(rows) + 1
  <2>1. /\ OpenTrade(s, p, now, FALSE) /\ p.sym \notin have[r] /\ recPc[r] = "insert"
        /\ have' = [have EXCEPT ![r] = @ \cup {p.sym}]
        /\ UNCHANGED <<recPc, markVars>>
    BY <1>3 DEF RecordInsert, Wanted
  <2>2. p \in Pick /\ s \in Sources /\ now \in Int
    <3>1. todo[r] \in Seq(Pick) /\ todo[r] # <<>> /\ now \in Int
      BY <1>1, <1>3 DEF TypeOK, RecordInsert
    <3>2. QED
      BY <3>1
  <2> HIDE DEF p
  <2>3. Added(new) /\ Sound(new)
    BY <1>1, <2>1, <2>2, OpenAdds
  <2>4. /\ new.source = s /\ new.sym = p.sym /\ ~new.backfilled /\ new.status = "open"
    BY DEF NewRow
  <2> HIDE DEF new, s
  <2>5. Serial(s) => \A i \in Ids : ~rows[i].backfilled /\ IsOpen(i) /\ rows[i].source = s
                                    => rows[i].sym # p.sym
    BY <2>1 DEF BIInv, LiveInv, LiveCovers, s
  <2>6. LiveOneOpen' /\ OutcomeSound' /\ ReplayedRows'
    BY <2>3, <2>4, <2>5, AddKeeps DEF BIInv, LiveInv, ReplayInv
  <2>7. /\ Ids' = Ids \cup {n} /\ n \notin Ids
        /\ \A i \in Ids : rows'[i] = rows[i]
        /\ rows'[n] = new
    BY <2>3 DEF Added
  <2> HIDE DEF n
  <2>8. VisitQuoted'
    BY <2>1, <2>7 DEF BIInv, LiveInv, VisitQuoted, IsOpen, markVars
  <2>9. LiveCovers'
    <3> SUFFICES ASSUME NEW q \in Recorders, recPc[q] = "insert", Serial(SourceOf[q]),
                        NEW i \in Ids', rows'[i].source = SourceOf[q], rows'[i].status = "open",
                        ~rows'[i].backfilled
                 PROVE  rows'[i].sym \in have'[q]
      BY <2>1 DEF LiveCovers, IsOpen
    <3>1. CASE i \in Ids
      <4>1. rows[i].sym \in have[q]
        BY <2>7, <3>1 DEF BIInv, LiveInv, LiveCovers, IsOpen
      <4>2. QED
        BY <1>1, <2>1, <2>7, <3>1, <4>1 DEF TypeOK
    <3>2. CASE i = n
      <4>1. q = r
        BY <2>4, <2>7, <3>2 DEF Serial, s
      <4>2. QED
        BY <1>1, <2>1, <2>4, <2>7, <3>2, <4>1 DEF TypeOK
    <3>3. QED
      BY <2>7, <3>1, <3>2
  <2>10. QED
    BY <1>1, <2>3, <2>4, <2>6, <2>8, <2>9, ReplayUndisturbed DEF BIInv, LiveInv, ReplayInv
<1>4. QED
  BY <1>2, <1>3

(* So does a visit of the mark pass (tradelog.reconcile).                  *)
LEMMA MarkRowBIInv ==
  ASSUME BIInv, NEW i \in markRows, UNCHANGED bfVars, MarkRow(i)
  PROVE  BIInv'
<1>1. Updated(i) /\ Settled(i, Nat) /\ i \in Ids /\ BTypeOK'
  BY VisitUpdates, MarkRowTypes DEF BIInv, LiveInv, BTypeOK, VisitQuoted, bfVars
<1>2. LiveOneOpen' /\ OutcomeSound' /\ ReplayedRows'
  BY <1>1, UpdateKeeps DEF BIInv, LiveInv, ReplayInv
<1>3. /\ markPc = "settle" /\ markRows' = markRows \ {i}
      /\ UNCHANGED <<recVars, markPc, prices>>
  BY DEF MarkRow
<1>4. LiveCovers'
  BY <1>1, <1>3, UpdatedRows DEF BIInv, LiveInv, LiveCovers, IsOpen, recVars
<1>5. VisitQuoted'
  BY <1>1, <1>3, UpdatedRows DEF BIInv, LiveInv, VisitQuoted, Updated, OnlyRow, IsOpen
<1>6. QED
  BY <1>1, <1>2, <1>4, <1>5, ReplayUndisturbed DEF BIInv, LiveInv, ReplayInv

(* A step that writes no row keeps what is said of the live half.          *)
LEMMA QuietLive == ASSUME TypeOK, LiveInv, ReplayedRows, QuietStep PROVE LiveInv' /\ ReplayedRows'
<1>1. rows' = rows
  BY QuietTypes
<1>2. LiveCovers'
  BY <1>1 DEF QuietStep, LiveInv, TypeOK, LiveCovers, IsOpen, Ids, Tick, EnsureMarked,
              MarkSymbols, MarkPrices, MarkRead, MarkDone, MarkFail, EndMark, Restart, ResetThreads,
              vars, recVars, markVars
<1>3. VisitQuoted'
  <2>1. CASE MarkRead
    BY <2>1 DEF MarkRead, ToVisit, VisitQuoted, IsOpen, Ids
  <2>2. CASE MarkDone \/ MarkFail
    BY <2>2 DEF MarkDone, MarkFail, EndMark, VisitQuoted
  <2>3. CASE Restart
    BY <2>3 DEF Restart, ResetThreads, VisitQuoted
  <2>4. CASE \/ Tick \/ (\E force \in BOOLEAN : EnsureMarked(force)) \/ MarkSymbols \/ MarkPrices
             \/ UNCHANGED vars
    BY <1>1, <2>4 DEF LiveInv, Tick, EnsureMarked, MarkIdle, MarkSymbols, MarkPrices, VisitQuoted,
                      IsOpen, Ids, vars, markVars
  <2>5. QED
    BY <2>1, <2>2, <2>3, <2>4 DEF QuietStep
<1>4. QED
  BY <1>1, <1>2, <1>3, SameTableKeeps DEF LiveInv

LEMMA LiveBIInv == ASSUME BIInv, Live \/ UNCHANGED allVars PROVE BIInv'
<1>1. CASE UNCHANGED bfVars /\ QuietStep
  <2>1. TypeOK' /\ rows' = rows
    BY <1>1, QuietTypes DEF BIInv, BTypeOK
  <2>2. BTypeOK'
    BY <1>1, <2>1 DEF BIInv, BTypeOK, bfVars
  <2>3. QED
    BY <1>1, <2>1, <2>2, QuietLive, ReplayUndisturbed DEF BIInv, BTypeOK, ReplayInv
<1>2. CASE Live
  BY <1>1, <1>2, RecordingBIInv, MarkRowBIInv DEF Live, Recording, Marking, QuietStep
<1>3. CASE UNCHANGED allVars
  BY <1>1, <1>3 DEF allVars, QuietStep
<1>4. QED
  BY <1>2, <1>3

-------------------------------------------------------------------------------
(* Invariance: the replay.                                                 *)

(* A step of the replay that writes no row.                                *)
LEMMA NoRowWritten ==
  ASSUME BIInv, UNCHANGED vars, runs' \in Nat, runs <= runs'
  PROVE  TypeOK' /\ LiveInv' /\ ReplayedRows' /\ ReplayDisjoint'
<1>1. QuietStep
  BY DEF QuietStep
<1>2. TypeOK' /\ rows' = rows /\ LiveInv' /\ ReplayedRows'
  BY <1>1, QuietTypes, QuietLive DEF BIInv, BTypeOK, ReplayInv
<1>3. runs' <= 1 => runs <= 1
  BY DEF BIInv, BTypeOK
<1>4. ReplayDisjoint'
  BY <1>2, <1>3 DEF BIInv, ReplayInv, ReplayDisjoint, SamePair, IsOpen, Ids
<1>5. QED
  BY <1>2, <1>4

(* ensure_started: the first run begins on a record without replayed rows. *)
LEMMA StartBIInv == ASSUME BIInv, Starting PROVE BIInv'
<1>0. runs \in Nat /\ runs + 1 \in Nat /\ (runs + 1 <= 1 => runs = 0) /\ runs <= runs + 1
  BY DEF BIInv, BTypeOK
<1>1. PICK c \in Callers : StartCheck(c) \/ StartThread(c)
  BY DEF Starting
<1>2. /\ UNCHANGED <<vars, bfTodo, marker, wSym, wBar, wBusy, wTrade>>
      /\ \/ UNCHANGED <<bfPhase, runs>>
         \/ bfPhase = "off" /\ bfPhase' = "begin" /\ runs' = runs + 1
      /\ callPc' \in [Callers -> {"idle", "checked"}]
  BY <1>1 DEF BIInv, BTypeOK, StartCheck, StartThread
<1>3. runs' \in Nat /\ runs <= runs'
  BY <1>0, <1>2
<1>4. TypeOK' /\ LiveInv' /\ ReplayedRows' /\ ReplayDisjoint' /\ rows' = rows
  BY <1>2, <1>3, NoRowWritten DEF vars
<1>5. BTypeOK'
  BY <1>2, <1>3, <1>4 DEF BIInv, BTypeOK
<1>6. WorkersOnRun'
  BY <1>2, <1>4 DEF BIInv, ReplayInv, WorkersOnRun, HoldsOwn, Ids
<1>7. FirstRun'
  <2>1. CASE UNCHANGED <<bfPhase, runs>>
    BY <1>2, <1>4, <2>1 DEF BIInv, ReplayInv, FirstRun, OnceOnly, TakenOnce, InOrder, Behind, IsOpen, Ids
  <2>2. CASE bfPhase = "off" /\ bfPhase' = "begin" /\ runs' = runs + 1
    <3> SUFFICES ASSUME runs = 0 PROVE OnceOnly' /\ TakenOnce' /\ InOrder'
      BY <1>0, <2>2 DEF FirstRun
    <3>1. ~marker /\ \A i \in Ids : ~rows[i].backfilled
      BY DEF BIInv, ReplayInv, FirstRun, OnceOnly
    <3>2. bfTodo = {} /\ \A w \in Workers : wSym[w] = None
      BY <2>2 DEF BIInv, ReplayInv, WorkersOnRun
    <3>3. QED
      BY <1>0, <1>2, <1>4, <2>2, <3>1, <3>2 DEF OnceOnly, TakenOnce, InOrder, Ids
  <2>3. QED
    BY <1>2, <2>1, <2>2
<1>8. QED
  BY <1>4, <1>5, <1>6, <1>7 DEF BIInv, ReplayInv

(* _run reads the universe: the symbols it hands out are untouched.        *)
LEMMA UniverseBIInv == ASSUME BIInv, Universe PROVE BIInv'
<1>1. PICK u \in SUBSET Symbols : \/ u = {} /\ EmptyUniverse
                                  \/ u # {} /\ bfPhase' = "run" /\ bfTodo' = u
  BY DEF Universe
<1>2. /\ bfPhase = "begin" /\ UNCHANGED <<vars, marker, callPc, wSym, wBar, wBusy, wTrade, runs>>
      /\ \/ bfPhase' = "off" /\ UNCHANGED bfTodo
         \/ bfPhase' = "run" /\ bfTodo' \subseteq Symbols
  BY <1>1 DEF Universe, EmptyUniverse
<1>3. runs' \in Nat /\ runs <= runs'
  BY <1>2 DEF BIInv, BTypeOK
<1>4. TypeOK' /\ LiveInv' /\ ReplayedRows' /\ ReplayDisjoint' /\ rows' = rows
  BY <1>2, <1>3, NoRowWritten DEF vars
<1>5. BTypeOK'
  BY <1>2, <1>4 DEF BIInv, BTypeOK
<1>6. bfTodo = {} /\ \A w \in Workers : wSym[w] = None
  BY <1>2 DEF BIInv, ReplayInv, WorkersOnRun
<1>7. WorkersOnRun'
  BY <1>2, <1>4, <1>6 DEF BIInv, ReplayInv, WorkersOnRun, HoldsOwn, Ids
<1>8. FirstRun'
  <2> SUFFICES ASSUME runs <= 1 PROVE OnceOnly' /\ TakenOnce' /\ InOrder'
    BY <1>2 DEF FirstRun
  <2>1. runs # 0 /\ ~marker /\ \A i \in Ids : ~rows[i].backfilled
    BY <1>2 DEF BIInv, ReplayInv, FirstRun, OnceOnly
  <2>2. QED
    BY <1>2, <1>4, <1>6, <2>1 DEF OnceOnly, TakenOnce, InOrder, Ids
<1>9. QED
  BY <1>4, <1>5, <1>7, <1>8 DEF BIInv, ReplayInv

(* A worker takes a symbol: it is no longer to be had.                     *)
LEMMA TakeBIInv ==
  ASSUME BackfillAssumptions, BIInv, NEW w \in Workers, NEW s \in Symbols, Take(w, s)
  PROVE  BIInv'
<1>1. /\ bfPhase = "run" /\ wSym[w] = None /\ s \in bfTodo /\ bfTodo' = bfTodo \ {s}
      /\ wSym' = [wSym EXCEPT ![w] = s] \/ UNCHANGED wSym
      /\ wBar' = [wBar EXCEPT ![w] = 1] /\ wBusy' = [wBusy EXCEPT ![w] = Fresh]
      /\ UNCHANGED <<vars, bfPhase, marker, callPc, wTrade, runs>>
  BY DEF Take
<1>2. runs' \in Nat /\ runs <= runs'
  BY <1>1 DEF BIInv, BTypeOK
<1>3. TypeOK' /\ LiveInv' /\ ReplayedRows' /\ ReplayDisjoint' /\ rows' = rows
  BY <1>1, <1>2, NoRowWritten DEF vars
<1>4. BTypeOK'
  <2>1. 1 \in Bars /\ Fresh \in [Replayed -> 0 .. NBars + 1]
    BY DEF BackfillAssumptions, Bars, Fresh
  <2>2. QED
    BY <1>1, <1>3, <2>1 DEF BIInv, BTypeOK
<1>5. wTrade[w] = NoTrade
  BY <1>1 DEF BIInv, ReplayInv, WorkersOnRun, HoldsOwn
<1>6. \A v \in Workers : v # w => wSym'[v] = wSym[v] /\ wBusy'[v] = wBusy[v]
  BY <1>1 DEF BIInv, BTypeOK
<1>7. wSym'[w] = s \/ wSym'[w] = None
  BY <1>1 DEF BIInv, BTypeOK
<1>8. WorkersOnRun'
  BY <1>1, <1>3, <1>5, <1>6 DEF BIInv, ReplayInv, WorkersOnRun, HoldsOwn, Ids
<1>9. FirstRun'
  <2> SUFFICES ASSUME runs <= 1 PROVE OnceOnly' /\ TakenOnce' /\ InOrder'
    BY <1>1 DEF FirstRun
  <2>1. OnceOnly /\ TakenOnce /\ InOrder
    BY DEF BIInv, ReplayInv, FirstRun
  <2>2. OnceOnly'
    BY <1>1, <1>3, <2>1 DEF OnceOnly, Ids
  <2>3. TakenOnce'
    BY <1>1, <1>3, <1>6, <1>7, <2>1 DEF TakenOnce, Ids
  <2>4. InOrder'
    <3> SUFFICES ASSUME NEW v \in Workers, NEW j \in Ids, wSym'[v] # None, rows[j].backfilled,
                        rows[j].sym = wSym'[v]
                 PROVE  Behind(v, j)'
      BY <1>3 DEF InOrder, Ids
    <3>1. v # w
      BY <1>1, <1>7, <2>1 DEF TakenOnce
    <3>2. Behind(v, j)
      BY <1>6, <2>1, <3>1 DEF InOrder
    <3>3. QED
      BY <1>1, <1>3, <1>6, <3>1, <3>2 DEF Behind, IsOpen, BarTime
  <2>5. QED
    BY <2>2, <2>3, <2>4
<1>10. QED
  BY <1>3, <1>4, <1>8, <1>9 DEF BIInv, ReplayInv

(* The worker is done with its symbol, or gives up.                        *)
LEMMA OverBIInv == ASSUME BIInv, NEW w \in Workers, SymbolOver(w) PROVE BIInv'
<1>1. /\ wSym' = [wSym EXCEPT ![w] = None] /\ wTrade' = [wTrade EXCEPT ![w] = NoTrade]
      /\ UNCHANGED <<vars, bfPhase, bfTodo, marker, callPc, wBar, wBusy, runs>>
  BY DEF SymbolOver
<1>2. runs' \in Nat /\ runs <= runs'
  BY <1>1 DEF BIInv, BTypeOK
<1>3. TypeOK' /\ LiveInv' /\ ReplayedRows' /\ ReplayDisjoint' /\ rows' = rows
  BY <1>1, <1>2, NoRowWritten DEF vars
<1>4. BTypeOK'
  BY <1>1, <1>3 DEF BIInv, BTypeOK, NoTrade
<1>5. /\ wSym'[w] = None /\ wTrade'[w] = NoTrade
      /\ \A v \in Workers : v # w => wSym'[v] = wSym[v] /\ wTrade'[v] = wTrade[v]
  BY <1>1 DEF BIInv, BTypeOK
<1>6. WorkersOnRun'
  BY <1>1, <1>3, <1>5 DEF BIInv, ReplayInv, WorkersOnRun, HoldsOwn, Ids
<1>7. OnceOnly => OnceOnly'
  BY <1>1, <1>3 DEF OnceOnly, Ids
<1>8. TakenOnce => TakenOnce'
  BY <1>1, <1>3, <1>5 DEF TakenOnce, Ids
<1>9. InOrder => InOrder'
  BY <1>1, <1>3, <1>5 DEF InOrder, Behind, IsOpen, BarTime, Ids
<1>10. FirstRun'
  BY <1>1, <1>7, <1>8, <1>9 DEF BIInv, ReplayInv, FirstRun
<1>11. QED
  BY <1>3, <1>4, <1>6, <1>10 DEF BIInv, ReplayInv

(* The pool is drained: the marker is written by a run without workers.    *)
LEMMA RunDoneBIInv == ASSUME BIInv, RunDone PROVE BIInv'
<1>1. /\ bfPhase = "run" /\ bfTodo = {} /\ \A w \in Workers : wSym[w] = None
      /\ marker' = TRUE /\ bfPhase' = "off"
      /\ UNCHANGED <<vars, bfTodo, callPc, wSym, wBar, wBusy, wTrade, runs>>
  BY DEF RunDone, PoolDrained
<1>2. runs' \in Nat /\ runs <= runs'
  BY <1>1 DEF BIInv, BTypeOK
<1>3. TypeOK' /\ LiveInv' /\ ReplayedRows' /\ ReplayDisjoint' /\ rows' = rows
  BY <1>1, <1>2, NoRowWritten DEF vars
<1>4. BTypeOK'
  BY <1>1, <1>3 DEF BIInv, BTypeOK
<1>5. WorkersOnRun'
  BY <1>1, <1>3 DEF BIInv, ReplayInv, WorkersOnRun, HoldsOwn, Ids
<1>6. FirstRun'
  BY <1>1, <1>3 DEF BIInv, ReplayInv, FirstRun, OnceOnly, TakenOnce, InOrder, Ids
<1>7. QED
  BY <1>3, <1>4, <1>5, <1>6 DEF BIInv, ReplayInv

(* A restart leaves the table, the marker and no worker.                   *)
LEMMA RestartBIInv == ASSUME BackfillAssumptions, BIInv, BRestart PROVE BIInv'
<1>1. /\ Restart /\ bfPhase' = "off" /\ bfTodo' = {} /\ callPc' = [c \in Callers |-> "idle"]
      /\ IdleWorkers /\ UNCHANGED <<marker, runs>>
  BY DEF BRestart
<1>2. TypeOK' /\ rows' = rows /\ LiveInv' /\ ReplayedRows'
  BY <1>1, QuietTypes, QuietLive DEF QuietStep, BIInv, BTypeOK, ReplayInv
<1>3. /\ \A w \in Workers : wSym'[w] = None /\ wTrade'[w] = NoTrade
  BY <1>1 DEF IdleWorkers
<1>4. BTypeOK'
  <2>1. 1 \in Bars /\ Fresh \in [Replayed -> 0 .. NBars + 1]
    BY DEF BackfillAssumptions, Bars, Fresh
  <2>2. QED
    BY <1>1, <1>2, <2>1 DEF BIInv, BTypeOK, IdleWorkers, NoTrade
<1>5. WorkersOnRun'
  BY <1>1, <1>3 DEF WorkersOnRun
<1>6. FirstRun'
  BY <1>1, <1>2, <1>3 DEF BIInv, ReplayInv, FirstRun, OnceOnly, TakenOnce, InOrder, Ids
<1>7. ReplayDisjoint'
  BY <1>1, <1>2 DEF BIInv, ReplayInv, ReplayDisjoint, SamePair, IsOpen, Ids
<1>8. QED
  BY <1>2, <1>4, <1>5, <1>6, <1>7 DEF BIInv, ReplayInv

(* A signal fills beyond busy_until: the new row is the last of its pair.  *)
LEMMA OpenBIInv ==
  ASSUME BackfillAssumptions, BIInv, NEW w \in Workers, NEW src \in Replayed, NEW b \in Bars,
         ReplayOpen(w, src, b)
  PROVE  BIInv'
<1> DEFINE n == Len(rows) + 1
           t == BarTime(b + 1)
<1>1. /\ wSym[w] # None /\ wTrade[w] = NoTrade /\ b < NBars /\ b > wBusy[w][src]
      /\ wBar' = [wBar EXCEPT ![w] = b]
      /\ wTrade' = [wTrade EXCEPT ![w] = [id |-> n, source |-> src]]
      /\ UNCHANGED <<now, recVars, markVars, restarts, bfPhase, bfTodo, marker, callPc,
                     wSym, wBusy, runs>>
  BY DEF ReplayOpen
<1>2. PICK p \in ReplayPicks[src] : p.sym = wSym[w] /\ OpenTrade(src, p, t, TRUE)
  BY DEF ReplayOpen
<1>3. /\ p \in Pick /\ src \in Sources /\ b \in Nat /\ NBars \in Nat /\ t \in Int /\ t <= 0
      /\ wBusy[w][src] \in Nat /\ t > BarTime(wBusy[w][src]) /\ TypeOK /\ Len(rows) \in Nat
  <2>1. p \in Pick /\ src \in Sources /\ b \in Nat /\ NBars \in Nat
    BY <1>2 DEF BackfillAssumptions, Bars
  <2>2. wBusy[w] \in [Replayed -> 0 .. NBars + 1] /\ TypeOK /\ Len(rows) \in Nat
    BY DEF BIInv, BTypeOK, TypeOK
  <2>3. QED
    BY <1>1, <2>1, <2>2 DEF BarTime
<1> DEFINE new == NewRow(src, p, t, TRUE)
<1>4. Added(new) /\ Sound(new)
  BY <1>2, <1>3, OpenAdds
<1>5. /\ new.source = src /\ new.sym = wSym[w] /\ new.backfilled /\ new.opened = t /\ new.status = "open"
  BY <1>2 DEF NewRow
<1> HIDE DEF new, t
<1>6. LiveOneOpen' /\ OutcomeSound' /\ ReplayedRows'
  BY <1>3, <1>4, <1>5, AddKeeps DEF BIInv, LiveInv, ReplayInv
<1>7. /\ Ids' = Ids \cup {n} /\ n \notin Ids
      /\ \A i \in Ids : i < n /\ rows'[i] = rows[i]
      /\ rows'[n] = new /\ rows' \in Seq(Row)
  BY <1>4 DEF Added
<1>8. n # 0 /\ n \in Nat /\ NoTrade.id = 0 /\ 0 \notin Ids
  BY <1>3 DEF NoTrade, TypeOK, Ids
<1> HIDE DEF n
<1>9. /\ wTrade'[w] = [id |-> n, source |-> src]
      /\ \A v \in Workers : v # w => wTrade'[v] = wTrade[v]
  BY <1>1 DEF BIInv, BTypeOK
<1>10. BTypeOK'
  BY <1>1, <1>7, <1>8 DEF BIInv, BTypeOK, TypeOK, recVars, markVars
<1>11. LiveCovers' /\ VisitQuoted'
  BY <1>1, <1>5, <1>7 DEF BIInv, LiveInv, LiveCovers, VisitQuoted, IsOpen, recVars, markVars
<1>12. WorkersOnRun'
  BY <1>1, <1>5, <1>7, <1>9 DEF BIInv, ReplayInv, WorkersOnRun, HoldsOwn
<1>13. FirstRun' /\ ReplayDisjoint'
  <2> SUFFICES ASSUME runs <= 1
               PROVE  OnceOnly' /\ TakenOnce' /\ InOrder' /\ ReplayDisjoint'
    BY <1>1 DEF FirstRun, ReplayDisjoint
  <2>1. OnceOnly /\ TakenOnce /\ InOrder /\ bfPhase = "run"
    BY <1>1 DEF BIInv, ReplayInv, FirstRun, WorkersOnRun
  <2>2. OnceOnly'
    BY <1>1, <2>1 DEF OnceOnly
  <2>3. TakenOnce'
    BY <1>1, <1>5, <1>7, <2>1 DEF TakenOnce
  <2>4. \A k \in Ids : rows[k].backfilled /\ rows[k].sym = wSym[w] =>
          /\ rows[k].opened <= BarTime(wBusy[w][rows[k].source])
          /\ ~IsOpen(k) \/ wBusy[w][rows[k].source] = NBars + 1
          /\ ~IsOpen(k) => rows[k].closed >= 0 \/ rows[k].closed <= BarTime(wBusy[w][rows[k].source])
    BY <1>1, <1>8, <2>1 DEF InOrder, Behind
  <2>5. InOrder'
    <3> SUFFICES ASSUME NEW v \in Workers, NEW j \in Ids', wSym[v] # None, rows'[j].backfilled,
                        rows'[j].sym = wSym[v]
                 PROVE  Behind(v, j)'
      BY <1>1 DEF InOrder
    <3>1. CASE j = n
      <4>1. v = w
        BY <1>1, <1>5, <1>7, <2>1, <3>1 DEF TakenOnce
      <4>2. QED
        BY <1>1, <1>3, <1>5, <1>7, <1>9, <3>1, <4>1 DEF Behind, BarTime
    <3>2. CASE j \in Ids /\ v = w
      BY <1>1, <1>7, <1>9, <2>4, <3>2 DEF Behind, IsOpen, BarTime
    <3>3. CASE j \in Ids /\ v # w
      <4>1. Behind(v, j)
        BY <1>7, <2>1, <3>3 DEF InOrder
      <4>2. QED
        BY <1>1, <1>7, <1>9, <3>3, <4>1 DEF Behind, IsOpen, BarTime
    <3>4. QED
      BY <1>7, <3>1, <3>2, <3>3
  <2>6. ReplayDisjoint'
    <3> SUFFICES ASSUME NEW k \in Ids', NEW j \in Ids', k < j, rows'[k].backfilled, rows'[j].backfilled,
                        rows'[k].source = rows'[j].source, rows'[k].sym = rows'[j].sym
                 PROVE  /\ rows'[k].status # "open" /\ rows'[k].opened < rows'[j].opened
                        /\ rows'[k].closed + 1 < rows'[j].opened \/ rows'[k].closed >= 0
      BY DEF ReplayDisjoint, SamePair, IsOpen
    <3>0. k # n
      <4>1. Ids \subseteq Nat
        BY <1>3 DEF TypeOK, Ids
      <4>2. QED
        BY <1>7, <1>8, <4>1
    <3>1. CASE j \in Ids
      BY <1>7, <3>0, <3>1 DEF BIInv, ReplayInv, ReplayDisjoint, SamePair, IsOpen
    <3>2. CASE j = n
      <4>1. /\ k \in Ids /\ rows[k].backfilled /\ rows[k].sym = wSym[w] /\ rows[k].source = src
            /\ rows'[k] = rows[k]
        BY <1>5, <1>7, <3>0, <3>2
      <4>2. rows[k].opened <= BarTime(wBusy[w][src]) /\ (~IsOpen(k) \/ wBusy[w][src] = NBars + 1)
        BY <2>4, <4>1
      <4>3. ~IsOpen(k)
        BY <1>1, <1>3, <4>2
      <4>4. rows[k].opened \in Int
        <5>1. rows[k] \in Row
          BY <1>3, <4>1 DEF TypeOK, Ids
        <5>2. QED
          BY <5>1 DEF Row
      <4>5. rows[k].opened < t
        BY <1>3, <4>2, <4>4 DEF BarTime
      <4>6. rows[k].closed + 1 < t \/ rows[k].closed >= 0
        <5>1. rows[k].closed \in Int
          BY <4>1, <4>3 DEF BIInv, ReplayInv, ReplayedRows
        <5>2. rows[k].closed >= 0 \/ rows[k].closed <= BarTime(wBusy[w][src])
          BY <2>4, <4>1, <4>3
        <5>3. BarTime(wBusy[w][src]) + 1 < t
          BY <1>1, <1>3 DEF BarTime, t
        <5>4. BarTime(wBusy[w][src]) \in Int
          BY <1>3 DEF BarTime
        <5>5. QED
          BY <1>3, <5>1, <5>2, <5>3, <5>4
      <4>7. QED
        BY <1>5, <1>7, <3>2, <4>1, <4>3, <4>5, <4>6 DEF IsOpen
    <3>3. QED
      BY <1>7, <3>1, <3>2
  <2>7. QED
    BY <2>2, <2>3, <2>5, <2>6
<1>14. QED
  BY <1>6, <1>10, <1>11, <1>12, <1>13 DEF BIInv, LiveInv, ReplayInv

(* A worker resolves its trade: busy_until moves past it.                  *)
LEMMA ResolveBIInv ==
  ASSUME BackfillAssumptions, BIInv, NEW w \in Workers, Resolving(w)
  PROVE  BIInv'
<1> DEFINE i == wTrade[w].id
           src == wTrade[w].source
<1>1. /\ wTrade[w] # NoTrade /\ HoldsOwn(w) /\ Updated(i)
      /\ UNCHANGED <<now, recVars, markVars, restarts, bfPhase, bfTodo, marker, callPc,
                     wSym, wBar, runs>>
      /\ wTrade' = [wTrade EXCEPT ![w] = NoTrade]
  BY ResolveUpdates DEF BIInv, ReplayInv
<1>2. PICK b \in 1 .. NBars + 1 :
        /\ wBusy' = [wBusy EXCEPT ![w][src] = b]
        /\ rows[i].opened <= BarTime(b) \/ b = NBars + 1
        /\ rows'[i].status # "open" \/ b = NBars + 1
        /\ \/ rows'[i].closed = BarTime(b)
           \/ b = NBars + 1 /\ rows'[i].status = rows[i].status /\ rows'[i].closed = rows[i].closed
  BY ResolveUpdates DEF BIInv, ReplayInv
<1>3. /\ wSym[w] # None /\ i \in Ids /\ src \in Replayed /\ rows[i].backfilled
      /\ rows[i].source = src /\ rows[i].sym = wSym[w]
  BY <1>1 DEF HoldsOwn
<1>4. /\ Ids' = Ids /\ rows' \in Seq(Row)
      /\ \A j \in Ids : /\ rows'[j].source = rows[j].source /\ rows'[j].sym = rows[j].sym
                        /\ rows'[j].opened = rows[j].opened
                        /\ rows'[j].backfilled = rows[j].backfilled
                        /\ rows'[j].status = "open" => IsOpen(j)
                        /\ Settled(j, Int)
      /\ \A j \in Ids : j # i => rows'[j] = rows[j]
  BY <1>1, UpdatedRows DEF Updated, OnlyRow
<1>5. LiveOneOpen' /\ OutcomeSound' /\ ReplayedRows'
  BY <1>1, UpdateKeeps DEF BIInv, LiveInv, ReplayInv
<1>6. /\ b \in Nat /\ NBars \in Nat /\ b \in 0 .. NBars + 1
  BY DEF BackfillAssumptions, Bars
<1>7. BTypeOK'
  BY <1>1, <1>2, <1>3, <1>4, <1>6 DEF BIInv, BTypeOK, TypeOK, NoTrade, recVars, markVars
<1>8. LiveCovers'
  BY <1>1, <1>4 DEF BIInv, LiveInv, LiveCovers, IsOpen, recVars
<1>9. VisitQuoted'
  BY <1>1, <1>3, <1>4 DEF BIInv, LiveInv, VisitQuoted, IsOpen, markVars
<1>10. /\ wTrade'[w] = NoTrade
       /\ \A v \in Workers : v # w => wTrade'[v] = wTrade[v] /\ wBusy'[v] = wBusy[v]
       /\ wBusy'[w][src] = b
       /\ \A x \in Replayed : x # src => wBusy'[w][x] = wBusy[w][x]
  BY <1>1, <1>2, <1>3 DEF BIInv, BTypeOK
<1>11. WorkersOnRun'
  BY <1>1, <1>4, <1>10 DEF BIInv, ReplayInv, WorkersOnRun, HoldsOwn
<1>12. ReplayDisjoint'
  <2> SUFFICES ASSUME runs <= 1, NEW k \in Ids, NEW j \in Ids, k < j, rows[k].backfilled, rows[j].backfilled,
                      SamePair(k, j)
               PROVE  /\ rows'[k].status # "open" /\ rows'[k].opened < rows'[j].opened
                      /\ rows'[k].closed + 1 < rows'[j].opened \/ rows'[k].closed >= 0
    BY <1>1, <1>4 DEF ReplayDisjoint, SamePair, IsOpen
  <2>1. /\ ~IsOpen(k) /\ rows[k].opened < rows[j].opened
        /\ rows[k].closed + 1 < rows[j].opened \/ rows[k].closed >= 0
    BY DEF BIInv, ReplayInv, ReplayDisjoint
  <2>2. CASE k # i
    BY <1>4, <2>1, <2>2 DEF IsOpen
  <2>3. CASE k = i
    <3>1. rows[j].sym = wSym[w] /\ rows[j].source = src /\ j # i
      <4>1. k \in Nat /\ j \in Nat
        BY DEF BIInv, BTypeOK, TypeOK, Ids
      <4>2. QED
        BY <1>3, <2>3, <4>1 DEF SamePair
    <3>2. InOrder
      BY DEF BIInv, ReplayInv, FirstRun
    <3>3. rows[i].opened > BarTime(wBusy[w][src])
      BY <1>3, <3>2 DEF InOrder, Behind
    <3>4. rows[j].opened <= BarTime(wBusy[w][src])
      BY <1>3, <3>1, <3>2 DEF InOrder, Behind
    <3>5. /\ wBusy[w][src] \in Nat /\ rows[i].opened \in Int /\ rows[j].opened \in Int
      <4>1. wBusy[w] \in [Replayed -> 0 .. NBars + 1]
        BY DEF BIInv, BTypeOK
      <4>2. rows[i] \in Row /\ rows[j] \in Row
        BY <1>3 DEF BIInv, BTypeOK, TypeOK, Ids
      <4>3. QED
        BY <1>3, <1>6, <4>1, <4>2 DEF Row
    <3>6. FALSE
      BY <1>6, <2>1, <2>3, <3>3, <3>4, <3>5 DEF BarTime
    <3>7. QED
      BY <3>6
  <2>4. QED
    BY <2>2, <2>3
<1>13. FirstRun'
  <2> SUFFICES ASSUME runs <= 1 PROVE OnceOnly' /\ TakenOnce' /\ InOrder'
    BY <1>1 DEF FirstRun
  <2>1. OnceOnly /\ TakenOnce /\ InOrder
    BY DEF BIInv, ReplayInv, FirstRun
  <2>2. OnceOnly' /\ TakenOnce'
    BY <1>1, <1>4, <2>1 DEF OnceOnly, TakenOnce
  <2>3. InOrder'
    <3> SUFFICES ASSUME NEW v \in Workers, NEW j \in Ids, wSym[v] # None, rows[j].backfilled,
                        rows[j].sym = wSym[v]
                 PROVE  Behind(v, j)'
      BY <1>1, <1>4 DEF InOrder
    <3>1. Behind(v, j)
      BY <2>1 DEF InOrder
    <3>2. CASE v # w
      <4>1. j # i
        BY <1>3, <2>1, <3>2 DEF TakenOnce
      <4>2. rows'[j] = rows[j] /\ wTrade'[v] = wTrade[v] /\ wBusy'[v] = wBusy[v]
        BY <1>4, <1>10, <3>2, <4>1
      <4>3. QED
        BY <3>1, <4>2 DEF Behind, IsOpen, BarTime
    <3>3. CASE v = w
      <4>1. /\ rows[j].source \in Replayed /\ rows[j].opened <= 0 /\ rows[i].opened <= 0
            /\ rows[i].opened \in Int /\ rows[j].opened \in Int
        <5>1. rows[i] \in Row /\ rows[j] \in Row
          BY <1>3 DEF BIInv, BTypeOK, TypeOK, Ids
        <5>2. QED
          BY <1>3, <5>1 DEF BIInv, ReplayInv, ReplayedRows, Row
      <4>2. wTrade'[w].id # j
        <5>1. 0 \notin Ids
          BY DEF BIInv, BTypeOK, TypeOK, Ids
        <5>2. QED
          BY <1>10, <5>1 DEF NoTrade
      <4>3. rows[i].opened <= BarTime(b)
        BY <1>2, <1>6, <4>1 DEF BarTime
      <4>4. CASE j = i
        <5>1. rows'[i].status # "open" => rows'[i].closed >= 0 \/ rows'[i].closed <= BarTime(b)
          <6>1. rows'[i].status # "open" => rows'[i].closed \in Int
            BY <1>3, <1>4, <1>5 DEF ReplayedRows, IsOpen
          <6>2. BarTime(b) \in Int /\ (b = NBars + 1 => BarTime(b) = 1)
            BY <1>6 DEF BarTime
          <6>3. QED
            BY <1>2, <6>1, <6>2
        <5>2. QED
          BY <1>2, <1>3, <1>4, <1>10, <3>3, <4>2, <4>3, <4>4, <5>1 DEF Behind, IsOpen, BarTime
      <4>5. CASE j # i /\ rows[j].source # src
        BY <1>4, <1>10, <3>1, <3>3, <4>1, <4>2, <4>5 DEF Behind, IsOpen, BarTime
      <4>6. CASE j # i /\ rows[j].source = src
        <5> DEFINE busy == wBusy[w][src]
        <5>1. busy \in Nat
          <6>1. wBusy[w] \in [Replayed -> 0 .. NBars + 1]
            BY DEF BIInv, BTypeOK
          <6>2. QED
            BY <1>3, <1>6, <6>1
        <5>2. /\ rows[j].opened <= BarTime(busy) /\ (~IsOpen(j) \/ busy = NBars + 1)
              /\ ~IsOpen(j) => rows[j].closed >= 0 \/ rows[j].closed <= BarTime(busy)
          BY <3>1, <3>3, <4>6 DEF Behind
        <5>3. rows[i].opened > BarTime(busy)
          BY <1>3, <2>1 DEF InOrder, Behind
        <5> HIDE DEF busy
        <5>4. ~IsOpen(j)
          BY <1>6, <4>1, <5>1, <5>2, <5>3 DEF BarTime
        <5>5. rows[j].opened <= BarTime(b)
          BY <1>6, <4>1, <4>3, <5>1, <5>2, <5>3 DEF BarTime
        <5>6. rows[j].closed >= 0 \/ rows[j].closed <= BarTime(b)
          <6>1. rows[j].closed \in Int
            BY <1>3, <4>6, <5>4 DEF BIInv, ReplayInv, ReplayedRows
          <6>2. BarTime(busy) <= BarTime(b) /\ BarTime(busy) \in Int /\ BarTime(b) \in Int
            BY <1>6, <4>1, <4>3, <5>1, <5>3 DEF BarTime
          <6>3. QED
            BY <5>2, <5>4, <6>1, <6>2
        <5>7. QED
          BY <1>4, <1>10, <3>3, <4>2, <4>6, <5>4, <5>5, <5>6 DEF Behind, IsOpen, BarTime
      <4>7. QED
        BY <4>4, <4>5, <4>6
    <3>4. QED
      BY <3>2, <3>3
  <2>4. QED
    BY <2>2, <2>3
<1>14. QED
  BY <1>5, <1>7, <1>8, <1>9, <1>11, <1>12, <1>13 DEF BIInv, LiveInv, ReplayInv

-------------------------------------------------------------------------------
(* Together.                                                               *)

LEMMA InitBIInv == ASSUME BackfillAssumptions, BInit PROVE BIInv
<1>1. TypeOK /\ rows = <<>>
  BY InitIInv DEF BInit, IInv, Init
<1>2. BTypeOK
  <2>1. 1 \in Bars /\ Fresh \in [Replayed -> 0 .. NBars + 1]
    BY DEF BackfillAssumptions, Bars, Fresh
  <2>2. QED
    BY <1>1, <2>1 DEF BInit, BTypeOK, NoTrade
<1>3. LiveInv
  BY <1>1 DEF BInit, Init, LiveInv, LiveCovers, VisitQuoted, LiveOneOpen, OutcomeSound, Ids
<1>4. ReplayInv
  BY <1>1 DEF BInit, ReplayInv, WorkersOnRun, ReplayedRows, FirstRun, OnceOnly, TakenOnce, InOrder,
              ReplayDisjoint, Ids
<1>5. QED
  BY <1>2, <1>3, <1>4 DEF BIInv

LEMMA StepBIInv == ASSUME BackfillAssumptions, BIInv, [BNext]_allVars PROVE BIInv'
BY LiveBIInv, StartBIInv, UniverseBIInv, TakeBIInv, OpenBIInv, ResolveBIInv, OverBIInv,
   RunDoneBIInv, RestartBIInv DEF BNext, Working, SymbolDone, SymbolFail

LEMMA BInvariance == ASSUME BackfillAssumptions PROVE BSpec => []BIInv
BY InitBIInv, StepBIInv, PTL DEF BSpec

(* The table, the threads of both halves and the marker are well typed.    *)
THEOREM BackfillTypes == ASSUME BackfillAssumptions PROVE BSpec => []BTypeOK
<1>1. BIInv => BTypeOK
  BY DEF BIInv
<1>2. QED
  BY <1>1, BInvariance, PTL

(* With the replay writing into the table record() reads, a source that    *)
(* publishes from one thread still has at most one open live call per      *)
(* symbol, and the calls of a first replay never overlap: the signal of a  *)
(* later one falls on a bar after the one its predecessor ended on, unless *)
(* the mark pass has dated that end (tradelog.record, backfill.replay_     *)
(* symbol).                                                                *)
THEOREM NothingHeldTwice == ASSUME BackfillAssumptions PROVE BSpec => []HeldOnce
<1>1. BIInv => HeldOnce
  BY DEF BIInv, LiveInv, ReplayInv, HeldOnce
<1>2. QED
  BY <1>1, BInvariance, PTL

(* The exit of every settled call is the one its outcome stands for,       *)
(* whichever half settled it, and a marker found after one start stands    *)
(* for a complete record (reconcile, walk_forward, backfill._run).         *)
THEOREM TheRecordIsHonest == ASSUME BackfillAssumptions PROVE BSpec => []RecordIsHonest
<1>1. BIInv => RecordIsHonest
  <2> SUFFICES ASSUME BIInv PROVE OutcomeSound /\ MarkerMeansComplete
    BY DEF RecordIsHonest
  <2>1. OutcomeSound
    BY DEF BIInv, LiveInv
  <2>2. ASSUME runs <= 1, marker PROVE bfPhase = "off" /\ \A w \in Workers : wTrade[w] = NoTrade
    <3>1. bfPhase = "off"
      BY <2>2 DEF BIInv, ReplayInv, FirstRun, OnceOnly
    <3>2. QED
      BY <3>1 DEF BIInv, ReplayInv, WorkersOnRun, HoldsOwn
  <2>3. QED
    BY <2>1, <2>2 DEF MarkerMeansComplete
<1>2. QED
  BY <1>1, BInvariance, PTL

(* How any step of the two halves changes the table.                       *)
LEMMA BTableSteps ==
  ASSUME [BNext]_allVars
  PROVE  \/ rows' = rows
         \/ \E r \in Recorders : RecordInsert(r)
         \/ \E i \in markRows : MarkRow(i)
         \/ \E w \in Workers, src \in Replayed, b \in Bars : ReplayOpen(w, src, b)
         \/ \E w \in Workers : Resolving(w)
BY DEF BNext, Live, Recording, Marking, Starting, Working, Tick, RecordRead, RecordSkip, RecordDone,
       EnsureMarked, MarkSymbols, MarkPrices, MarkRead, MarkDone, MarkFail, EndMark,
       StartCheck, StartThread, Universe, Take, SymbolDone, SymbolFail, SymbolOver, RunDone,
       BRestart, Restart, allVars, vars

(* Nothing of a live call is changed after the fact, with the replay       *)
(* writing into the same table and its workers failing half way: rows are  *)
(* only appended, terms are fixed, none is opened again, and a settled     *)
(* live call is never touched (tradelog.py's header).                      *)
THEOREM LiveCallsNeverCurated == ASSUME BackfillAssumptions PROVE BSpec => LiveNeverCurated
<1> DEFINE Fixed == /\ Len(rows') >= Len(rows)
                    /\ \A i \in Ids : /\ Terms(rows'[i]) = Terms(rows[i])
                                      /\ rows'[i].backfilled = rows[i].backfilled
                                      /\ ~IsOpen(i) => rows'[i].status # "open"
                                      /\ ~IsOpen(i) /\ ~rows[i].backfilled => rows'[i] = rows[i]
<1>1. ASSUME BIInv, [BNext]_allVars PROVE [Fixed]_allVars
  <2>1. TypeOK /\ Len(rows) \in Nat
    BY <1>1 DEF BIInv, BTypeOK, TypeOK
  <2>2. CASE rows' = rows
    BY <2>1, <2>2 DEF IsOpen
  <2>3. ASSUME NEW new, Added(new) PROVE Fixed
    BY <2>1, <2>3 DEF Added, IsOpen
  <2>4. ASSUME NEW i, Updated(i), ~rows[i].backfilled => IsOpen(i) PROVE Fixed
    <3>1. \A j \in Ids : rows'[j].status = "open" => IsOpen(j)
      BY <2>4, UpdatedRows
    <3>2. QED
      BY <2>1, <2>4, <3>1 DEF Updated, OnlyRow
  <2>5. CASE \E r \in Recorders : RecordInsert(r)
    <3>1. PICK r \in Recorders : RecordInsert(r)
      BY <2>5
    <3>2. todo[r] \in Seq(Pick) /\ todo[r] # <<>> /\ now \in Int /\ SourceOf[r] \in Sources
      BY <2>1, <3>1 DEF TypeOK, RecordInsert
    <3>3. Head(todo[r]) \in Pick
      BY <3>2
    <3>4. OpenTrade(SourceOf[r], Head(todo[r]), now, FALSE)
      BY <3>1 DEF RecordInsert
    <3>5. Added(NewRow(SourceOf[r], Head(todo[r]), now, FALSE))
      BY <2>1, <3>2, <3>3, <3>4, OpenAdds
    <3>6. QED
      BY <2>3, <3>5
  <2>6. CASE \E i \in markRows : MarkRow(i)
    BY <1>1, <2>1, <2>4, <2>6, VisitUpdates DEF BIInv, LiveInv, VisitQuoted
  <2>7. CASE \E w \in Workers, src \in Replayed, b \in Bars : ReplayOpen(w, src, b)
    <3>1. PICK w \in Workers, src \in Replayed, b \in Bars : ReplayOpen(w, src, b)
      BY <2>7
    <3>2. PICK p \in ReplayPicks[src] : OpenTrade(src, p, BarTime(b + 1), TRUE)
      BY <3>1 DEF ReplayOpen
    <3>3. p \in Pick /\ src \in Sources /\ BarTime(b + 1) \in Int
      BY <3>1, <3>2 DEF BackfillAssumptions, Bars, BarTime
    <3>4. Added(NewRow(src, p, BarTime(b + 1), TRUE))
      BY <2>1, <3>2, <3>3, OpenAdds
    <3>5. QED
      BY <2>3, <3>4
  <2>8. CASE \E w \in Workers : Resolving(w)
    <3>1. PICK w \in Workers : Resolving(w)
      BY <2>8
    <3>2. Updated(wTrade[w].id) /\ rows[wTrade[w].id].backfilled
      BY <1>1, <3>1, ResolveUpdates DEF BIInv, ReplayInv, HoldsOwn
    <3>3. QED
      BY <2>4, <3>2
  <2> HIDE DEF Fixed
  <2>9. \/ rows' = rows
        \/ \E r \in Recorders : RecordInsert(r)
        \/ \E i \in markRows : MarkRow(i)
        \/ \E w \in Workers, src \in Replayed, b \in Bars : ReplayOpen(w, src, b)
        \/ \E w \in Workers : Resolving(w)
    BY <1>1, BTableSteps
  <2>10. QED
    BY <2>2, <2>5, <2>6, <2>7, <2>8, <2>9
<1>2. QED
  BY <1>1, BInvariance, PTL DEF BSpec, LiveNeverCurated

-------------------------------------------------------------------------------
(* The behaviours of MCLedger.                                             *)

\* One part runs at a time, so a behaviour is one of each part: what is proved of the parts
\* holds next to each other (tradelog.py, cases.py).
LEMMA LedgerParts == LedgerSpec => BSpec /\ CaseSpec
<1>1. LedgerInit => BInit /\ CaseInit
  BY DEF LedgerInit
<1>2. [LedgerNext]_ledgerVars => [BNext]_allVars /\ [CaseNext]_caseVars
  <2>1. CASE UNCHANGED ledgerVars
    BY <2>1 DEF ledgerVars
  <2>2. CASE LedgerNext
    BY <2>2 DEF LedgerNext
  <2>3. QED
    BY <2>1, <2>2
<1>3. QED
  BY <1>1, <1>2, PTL DEF LedgerSpec, BSpec, CaseSpec

\* Every state of the table, the threads, the baskets and the pass is well typed, and in its
\* first year a basket's legs never weigh more than the whole.
THEOREM LedgerTypes == LedgerSpec => []Types
<1>1. BSpec => []BTypeOK
  BY LedgerAssumptions, BackfillTypes
<1>2. CaseSpec => []CaseTypeOK /\ []WithinWhole
  BY LedgerAssumptions, CasesTyped, WeighsNoMore
<1>3. QED
  BY <1>1, <1>2, LedgerParts, PTL DEF Types

\* Whatever sweeps, replays, restarts, reviews and faults come: no call is open twice, the
\* record is honest, the legs are sound and the audit trail tells their story (tradelog.py:96,
\* cases.py:423); a live call is never made a replayed one and a closed leg stays as it is.
THEOREM LedgerIsSound ==
  LedgerSpec => [](HeldOnce /\ RecordIsHonest /\ LegsSound /\ AuditTrail) /\ LiveNeverCurated /\ ClosedIsFinal
<1>1. BSpec => []HeldOnce /\ []RecordIsHonest /\ LiveNeverCurated
  BY LedgerAssumptions, NothingHeldTwice, TheRecordIsHonest, LiveCallsNeverCurated
<1>2. CaseSpec => []LegsSound /\ []AuditTrail /\ ClosedIsFinal
  BY LedgerAssumptions, LegsStaySound, StoryTold, ClosedStays
<1>3. QED
  BY <1>1, <1>2, LedgerParts, PTL
===============================================================================
