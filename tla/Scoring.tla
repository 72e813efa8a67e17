-------------------------------- MODULE Scoring --------------------------------
(***************************************************************************)
(* The screener's pure part: the signal of a row, filters and expressions  *)
(* over rows, sorting, valuation filters, the translation of a sentence    *)
(* into filters; and the upside assessment of a price history with the     *)
(* dossier's verdict.  Numbers are whole; a quotient is compared           *)
(* multiplied out.                                                         *)
(***************************************************************************)
EXTENDS Integers, FiniteSets, SequencesExt

Blank == -1000       \* a value that is missing
Clamp(n) == IF n < 0 THEN 0 ELSE IF n > 100 THEN 100 ELSE n
Count(ps) == Cardinality({k \in DOMAIN ps : ps[k]})

-------------------------------------------------------------------------------
\* The signal: points for and against.  m is the squeeze's momentum.
Bull(s) ==
  2 * Count(<<s.rsi # Blank /\ s.rsi < 40, s.willr # Blank /\ s.willr < -80, s.bollb # Blank /\ s.bollb < 20, s.fire /\ s.m > 0>>)
  + Count(<<s.rsi > 65, s.d9 > 0, s.d20 > 0, s.d50 > 0, s.d200 > 0, s.on /\ s.m > 1>>)
Bear(s) ==
  2 * Count(<<s.rsi > 70, s.d200 # Blank /\ s.d200 < 0, s.willr > -20, s.fire /\ s.m # Blank /\ s.m < 0>>)
  + Count(<<s.d9 # Blank /\ s.d9 < 0, s.d20 # Blank /\ s.d20 < 0, s.bollb > 80, s.on /\ s.m # Blank /\ s.m < -1>>)
  - Count(<<s.rsi # Blank /\ s.rsi < 30>>)
Score(s) ==
  LET score == Bull(s) - Bear(s) IN
  IF ~s.surge THEN score ELSE IF score > 0 THEN score + 1 ELSE IF score < 0 THEN score - 1 ELSE score
SignalOrder == [buy |-> 3, neutral |-> 2, sell |-> 1]
CalcSignal(s) == IF Score(s) >= 3 THEN "buy" ELSE IF Score(s) <= -2 THEN "sell" ELSE "neutral"

-------------------------------------------------------------------------------
\* The registry of metrics, one of each kind; a row is a value for each.  A sector is
\* a number here, 0 when it is not known.
Defs == [rsi |-> [type |-> "range", fund |-> FALSE], pe |-> [type |-> "range", fund |-> TRUE],
         cross |-> [type |-> "toggle", fund |-> FALSE], sector |-> [type |-> "select", fund |-> TRUE]]
Keys == DOMAIN Defs
\* Filters: for some metrics, bounds; a toggle is on with min 1, a select has its choice there.
PassRange(v, b) == v = Blank \/ ((b.min # Blank => v >= b.min) /\ (b.max # Blank => v <= b.max))
Passes(row, k, b) ==
  CASE Defs[k].type = "toggle" -> b.min = 1 => row[k] = 1
    [] Defs[k].type = "select" -> b.min = 0 \/ (row[k] # 0 /\ row[k] = b.min)
    [] OTHER -> (Defs[k].fund => row[k] # Blank) /\ PassRange(row[k], b)
ApplyFilters(rows, f) == {row \in rows : \A k \in DOMAIN f : Passes(row, k, f[k])}
\* Expressions: rows joined from left to right; a row that is not complete is passed over.
Expr(k, op, a, b) == [key |-> k, op |-> op, v1 |-> a, v2 |-> b, join |-> "and"]
FilterToExpr(k, b) ==
  CASE Defs[k].type = "toggle" -> IF b.min = 1 THEN {Expr(k, "is", Blank, Blank)} ELSE {}
    [] Defs[k].type = "select" -> IF b.min # 0 THEN {Expr(k, "has", b.min, Blank)} ELSE {}
    [] OTHER ->
         IF b.min = Blank THEN IF b.max = Blank THEN {} ELSE {Expr(k, "lt", b.max, Blank)}
         ELSE IF b.max = Blank THEN {Expr(k, "gt", b.min, Blank)} ELSE {Expr(k, "between", b.min, b.max)}
FiltersToExpr(f) == SetToSeq(UNION {FilterToExpr(k, f[k]) : k \in DOMAIN f})
Incomplete(e) ==
  /\ Defs[e.key].type # "toggle"
  /\ IF e.op = "between" THEN e.v1 = Blank /\ e.v2 = Blank ELSE e.v1 = (IF Defs[e.key].type = "select" THEN 0 ELSE Blank)
Holds(row, e) ==
  LET v == row[e.key] IN
  CASE Defs[e.key].type = "toggle" -> v = 1
    [] Defs[e.key].type = "select" -> v # 0 /\ v = e.v1
    [] OTHER ->
         /\ v # Blank
         /\ CASE e.op = "between" -> (e.v1 # Blank => v >= e.v1) /\ (e.v2 # Blank => v <= e.v2)
              [] e.op = "gt" -> v > e.v1
              [] e.op = "lt" -> v < e.v1
              [] OTHER -> v = e.v1
Joined(row, expr) ==
  FoldLeft(LAMBDA acc, e :
             IF Incomplete(e) THEN acc
             ELSE [is |-> IF ~acc.any THEN Holds(row, e) ELSE IF e.join = "or" THEN acc.is \/ Holds(row, e) ELSE acc.is /\ Holds(row, e),
                   any |-> TRUE],
           [is |-> TRUE, any |-> FALSE], expr).is
ApplyExpr(rows, expr) == {row \in rows : Joined(row, expr)}

\* The engines' strategies as toggles, each with the values it asks for; what is missing counts
\* against the row.  Ratios in tenths.
Or(v, n) == IF v = Blank THEN n ELSE v
Strategies(s) ==
  [quality |-> Or(s.roe, -1) >= 15 /\ Or(s.roce, -1) >= 15 /\ Or(s.de, 990) <= 10 /\ Or(s.eg, -99) > 8,
   value |-> Or(s.pe, 999) > 0 /\ Or(s.pe, 999) < 15 /\ Or(s.pb, 9990) < 30 /\ Or(s.roe, -1) > 10 /\ Or(s.de, 990) < 15,
   garp |-> Or(s.peg, 9990) > 0 /\ Or(s.peg, 9990) <= 15 /\ Or(s.eg, -99) >= 12,
   cash |-> Or(s.fcf, -1) > 0 /\ Or(s.roce, -1) >= 15,
   momo |-> s.rsi \in 55..78 /\ Or(s.d50, -1) > 0 /\ Or(s.d200, -1) > 0 /\ Or(s.relvol, 0) >= 12,
   watch |-> s.on /\ Or(s.high, -99) >= -7,
   pullback |-> Or(s.d200, -1) > 0 /\ Or(s.rsi, 99) <= 42 /\ Or(s.d20, 1) < 0]
AsksOf ==
  [quality |-> {"roe", "roce", "de", "eg"}, value |-> {"pe", "pb", "roe", "de"}, garp |-> {"peg", "eg"}, cash |-> {"fcf", "roce"},
   momo |-> {"rsi", "d50", "d200", "relvol"}, watch |-> {"high"}, pullback |-> {"d200", "rsi", "d20"}]

\* Sorting, blanks last in both directions.
Before(a, b, k, dir) ==
  a[k] # Blank /\ (b[k] = Blank \/ (IF dir = 1 THEN a[k] < b[k] ELSE a[k] > b[k]))
SortRows(s, k, dir) == SortSeq(s, LAMBDA a, b : Before(a, b, k, dir))

-------------------------------------------------------------------------------
\* Valuation, of a row with a price px, earnings and book multiples, growth and dividend
\* in hundredths, free cash flow and market value.  Values are fractions [is, over].
Value(n, d) == [is |-> n, over |-> d]
NoValue == Value(0, 0)
Has(v) == v.over > 0
MaxGrowth == 25
Discount == 13
GrowthFrac(g) == IF g < 0 THEN 0 ELSE IF g > MaxGrowth THEN MaxGrowth ELSE g
GrahamSquare(s) == IF s.eps > 0 /\ s.pb > 0 /\ s.px > 0 THEN Value(225 * s.eps * s.px, 10 * s.pb) ELSE NoValue
EpvValue(s) == IF s.eps > 0 THEN Value(100 * s.eps, Discount) ELSE NoValue
DdmValue(s) ==      \* token payers are skipped
  LET g == GrowthFrac(s.g) IN
  IF s.px > 0 /\ 2 * s.dy >= 1 /\ s.g # Blank /\ g < Discount
  THEN Value(s.px * s.dy * (100 + g), 100 * (Discount - g)) ELSE NoValue
\* Two stages; D and T are the discount and terminal rates, Y the years, rates in tenths here.
DcfValue(s, D, T, Y) ==
  LET g == GrowthFrac(s.g * 10) \div 10
      pv[y \in 0..Y] ==      \* times (10 + D)^y
        IF y = 0 THEN 0 ELSE pv[y - 1] * (10 + D) + s.fcf * (10 + g) ^ y
  IN IF s.fcf > 0 /\ s.mcap > 0 /\ s.px > 0 /\ s.g # Blank
     THEN Value((pv[Y] * (D - T) + s.fcf * (10 + g) ^ Y * (10 + T)) * s.px, (D - T) * (10 + D) ^ Y * s.mcap) ELSE NoValue
\* How far above the price, as a comparison; the toggles ask the same of the value itself.
UpsideAbove(v, px, least) == Has(v) /\ px > 0 /\ 100 * (v.is - px * v.over) > least * px * v.over
Below(v, px) == Has(v) /\ v.is # 0 /\ px # 0 /\ px * v.over < v.is
VsSector(mine, med) == IF mine = Blank \/ med \in {Blank, 0} THEN NoValue ELSE Value(100 * (mine - med), IF med < 0 THEN -med ELSE med)

-------------------------------------------------------------------------------
\* A sentence, split into clauses; a clause is the words that matter in it and the bounds
\* of its comparison, if any.
NoBounds == [min |-> Blank, max |-> Blank]
Least(n) == [NoBounds EXCEPT !.min = n]
AtMost(n) == [NoBounds EXCEPT !.max = n]
\* Idioms, in groups of which the first that fits counts.
Idiom(words, unless, key, b) == [words |-> words, unless |-> unless, key |-> key, bounds |-> b]
Idioms ==
  << <<Idiom({"squeeze", "fired"}, {}, "sqzFire", Least(1)), Idiom({"squeeze"}, {}, "sqzOn", Least(1))>>,
     <<Idiom({"new", "high"}, {"volume"}, "new_high_52w", Least(1)), Idiom({"breakout"}, {}, "new_high_52w", Least(1))>>,
     <<Idiom({"oversold"}, {}, "rsi", AtMost(30)), Idiom({"overbought"}, {}, "rsi", Least(70))>>,
     <<Idiom({"large cap"}, {}, "market_cap_cr", Least(20000)), Idiom({"mid cap"}, {}, "market_cap_cr", [min |-> 5000, max |-> 20000])>>,
     <<Idiom({"sector", "pharma"}, {}, "sector", Least(1))>>,
     <<Idiom({"52", "high", "near"}, {"volume"}, "pct_from_high", Least(-5))>>,
     <<Idiom({"200 dma", "below"}, {"cross"}, "d200", AtMost(0)), Idiom({"200 dma"}, {"cross"}, "d200", Least(0))>> >>
\* Fields in their order: the first named that has no filter yet takes the comparison.
Fields == <<"rsi", "market_cap_cr", "pe", "forward_pe", "roe">>
NamedBy(key) == CASE key = "forward_pe" -> {"forward", "pe"} [] OTHER -> {key}
MergeRange(f, key, c) ==
  LET cur == IF key \in DOMAIN f THEN f[key] ELSE NoBounds
      b == [min |-> IF c.min # Blank THEN c.min ELSE cur.min, max |-> IF c.max # Blank THEN c.max ELSE cur.max]
  IN [k \in DOMAIN f \cup {key} |-> IF k = key THEN b ELSE f[k]]
Fits(i, c) == i.words \subseteq c.words /\ i.unless \cap c.words = {}
Said(c) ==      \* the idioms of a clause
  SelectSeq([k \in DOMAIN Idioms |-> SelectSeq(Idioms[k], LAMBDA i : Fits(i, c))], LAMBDA g : g # <<>>)
MatchClause(f, c) ==
  LET idioms == FoldLeft(LAMBDA acc, g : MergeRange(acc, g[1].key, g[1].bounds), f, Said(c))
      free == SelectSeq(Fields, LAMBDA k : NamedBy(k) \subseteq c.words /\ k \notin DOMAIN idioms)
  IN [filters |-> IF free # <<>> /\ c.bounds # NoBounds THEN MergeRange(idioms, free[1], c.bounds) ELSE idioms,
      hit |-> Said(c) # <<>> \/ (free # <<>> /\ c.bounds # NoBounds)]
ParseNL(clauses) ==
  FoldLeft(LAMBDA acc, c :
             LET m == MatchClause(acc.filters, c) IN
             [filters |-> m.filters, unrecognized |-> IF m.hit THEN acc.unrecognized ELSE Append(acc.unrecognized, c)],
           [filters |-> <<>>, unrecognized |-> <<>>], clauses)

-------------------------------------------------------------------------------
\* The assessment of a history C of closes: how often a window of H bars reached T
\* hundredths above its start, and how often it ended above it; the same of simulated paths, which
\* start at their first element and count it among what was reached.
Top(S) == CHOOSE x \in S : \A y \in S : y <= x
Reaches(top, start, T) == 100 * top >= start * (100 + T)
Windows(C, H) == {k \in 1..Len(C) - H : C[k] > 0}
HistFreq(C, T, H) ==
  LET W == Windows(C, H) IN
  [n |-> Cardinality(W), reach |-> Cardinality({k \in W : Reaches(Top({C[j] : j \in k + 1..k + H}), C[k], T)}),
   up |-> Cardinality({k \in W : C[k + H] > C[k]})]
MonteCarlo(paths, T) ==
  [n |-> Len(paths), reach |-> Count([k \in DOMAIN paths |-> Reaches(Top(ToSet(paths[k])), paths[k][1], T)]),
   up |-> Count([k \in DOMAIN paths |-> paths[k][Len(paths[k])] > paths[k][1]])]
\* A percentile, of sorted values, at p twentieths; times 20.
Pctile(sorted, p) ==
  IF sorted = <<>> THEN 0
  ELSE LET idx == (Len(sorted) - 1) * p
           lo == 1 + idx \div 20
           hi == IF idx % 20 = 0 THEN lo ELSE lo + 1
       IN 20 * sorted[lo] + (sorted[hi] - sorted[lo]) * (idx % 20)
\* The quality of fundamentals: a ratio of at most one counts as a fraction.
Norm(v) == IF v \in -1..1 THEN 100 * v ELSE v
Quality(f) ==
  LET parts == (IF f.roe = Blank THEN <<>> ELSE <<Clamp(4 * Norm(f.roe))>>) \o (IF f.roce = Blank THEN <<>> ELSE <<Clamp(4 * Norm(f.roce))>>)
               \o (IF f.de = Blank THEN <<>> ELSE <<Clamp(50 * (2 - f.de))>>)
               \o (IF f.pe = Blank THEN <<>> ELSE <<IF f.pe <= 0 THEN 10 ELSE Clamp(100 - 3 * (IF f.pe > 20 THEN f.pe - 20 ELSE 20 - f.pe))>>)
  IN IF parts = <<>> THEN Value(50, 1) ELSE Value(FoldLeft(LAMBDA a, x : a + x, 0, parts), Len(parts))
Blend(trend, mom, vol, qual, prob) == Value((25 * trend + 15 * mom + 15 * vol + 20 * prob) * qual.over + 25 * qual.is, 100 * qual.over)
Assess(score) == IF score >= 70 THEN "Strong Accumulate" ELSE IF score >= 55 THEN "Accumulate" ELSE IF score >= 40 THEN "Hold" ELSE "Avoid"
\* The dossier's verdict, of the engine's score and the recommendation's action, each if there is one.
Verdict(score, act) ==
  LET sc == IF score = Blank THEN 50 ELSE score IN
  CASE score = Blank /\ act = "none" -> "Insufficient data"
    [] sc >= 72 /\ act \in {"BUY", "WATCH"} -> "High conviction"
    [] sc >= 60 /\ ~(sc >= 72 /\ act \in {"BUY", "WATCH"}) -> "Accumulate"
    [] sc < 60 /\ (sc >= 45 \/ act = "WATCH") /\ ~(score = Blank /\ act = "none") -> "Watch"
    [] OTHER -> "Avoid"

-------------------------------------------------------------------------------
\* A surge in volume confirms a signal and never turns it (screener.ts:62-70).
SurgeConfirms(s) ==
  LET before == SignalOrder[CalcSignal([s EXCEPT !.surge = FALSE])]
      after == SignalOrder[CalcSignal([s EXCEPT !.surge = TRUE])]
  IN after = before \/ (before = 2 /\ ((after > 2) <=> Score(s) > 0))
\* Filters turned into an expression keep exactly the rows the filters kept, but for those
\* on a single bound, those without the technical asked of, and a bound that is none
\* (screener.ts:414-452 and 504-577).
Translates(rows, f) ==
  \A row \in rows :
    row \in ApplyExpr(rows, FiltersToExpr(f)) <=>
      \A k \in DOMAIN f :
        IF Defs[k].type = "range"
        THEN f[k] # NoBounds => Passes(row, k, f[k]) /\ row[k] # Blank /\ (f[k].max = Blank => row[k] # f[k].min) /\ (f[k].min = Blank => row[k] # f[k].max)
        ELSE Passes(row, k, f[k])
\* No strategy takes a row that lacks a value it asks for (screener.ts:230-231, 322-341).
StrategiesNeedTheirData(s) ==
  \A k \in DOMAIN AsksOf, v \in {"roe", "roce", "de", "eg", "pe", "pb", "peg", "fcf", "rsi", "d50", "d200", "relvol", "high", "d20"} :
    v \in AsksOf[k] => ~Strategies([s EXCEPT ![v] = Blank])[k]
\* A row of an expression that is not complete changes nothing, wherever it is, and rows
\* all joined by "and" may stand in any order (screener.ts:541-577).
IncompleteIsNeutral(rows, e1, e2) ==
  /\ Incomplete(e1) => ApplyExpr(rows, <<e1, e2>>) = ApplyExpr(rows, <<e2>>) /\ ApplyExpr(rows, <<e2, e1>>) = ApplyExpr(rows, <<e2>>)
  /\ e1.join = "and" /\ e2.join = "and" => ApplyExpr(rows, <<e1, e2>>) = ApplyExpr(rows, <<e2, e1>>)
  /\ ApplyExpr(rows, <<e1, e2>>) = IF e2.join = "or" /\ ~Incomplete(e1) /\ ~Incomplete(e2) THEN ApplyExpr(rows, <<e1>>) \cup ApplyExpr(rows, <<e2>>)
                                   ELSE ApplyExpr(rows, <<e1>>) \cap ApplyExpr(rows, <<e2>>)
\* Sorting keeps the rows, puts blanks last both ways, and one way is the other turned round.
SortsBothWays(s, k) ==
  LET up == SortRows(s, k, 1)
      down == SortRows(s, k, -1)
      known(q) == SelectSeq([j \in DOMAIN q |-> q[j][k]], LAMBDA v : v # Blank)
  IN /\ known(up) = Reverse(known(down))
     /\ \A q \in {up, down} : ToSet(q) = ToSet(s) /\ SubSeq([j \in DOMAIN q |-> q[j][k]], 1, Len(known(q))) = known(q)
\* A toggle and its range ask the same; more growth is never worth less, and none beyond the cap;
\* above its sector's median is above it, also where the median is a loss
\* (screener.ts:122-196, 283-299).
ValuesAgree(s, more) ==
  /\ Below(EpvValue(s), s.px) <=> UpsideAbove(EpvValue(s), s.px, 0)
  /\ s.px > 0 => (Below(GrahamSquare(s), s.px * s.px) <=> 10 * s.px * s.pb < 225 * s.eps /\ s.pb > 0 /\ s.eps > 0)
  /\ LET a == DcfValue(s, 3, 1, 2)
         b == DcfValue([s EXCEPT !.g = more], 3, 1, 2)
         c == DdmValue(s)
         d == DdmValue([s EXCEPT !.g = more])
     IN /\ Has(c) /\ Has(d) /\ s.g <= more => c.is * d.over <= d.is * c.over
        /\ Has(a) /\ s.g <= more => a.is <= b.is /\ (GrowthFrac(10 * s.g) = GrowthFrac(10 * more) => a = b)
  /\ LET v == VsSector(s.px, s.eps) IN Has(v) => (v.is > 0 <=> s.px > s.eps)
\* A clause that is not reported is in the filters, no filter is there that no clause asks for,
\* and clauses of different metrics may come in any order (nlScreen.ts:141-264).
SentenceIsKept(c, d) ==
  LET both == ParseNL(<<c, d>>)
      asks(x) == {Said(x)[k][1].key : k \in DOMAIN Said(x)} \cup {Fields[k] : k \in {j \in DOMAIN Fields : NamedBy(Fields[j]) \subseteq x.words}}
  IN /\ DOMAIN both.filters \subseteq asks(c) \cup asks(d)
     /\ \A x \in {c, d} : (\A k \in DOMAIN both.unrecognized : both.unrecognized[k] # x) => asks(x) \cap DOMAIN both.filters # {}
     /\ asks(c) \cap asks(d) = {} => both.filters = ParseNL(<<d, c>>).filters
\* The windows of a history and the same windows as simulated paths are counted alike for a target
\* above nothing, a higher target is reached no more often, percentiles are in order
\* (analysis.ts:44-131).
FrequenciesAgree(C, T, H) ==
  LET W == SelectSeq([k \in 1..Len(C) - H |-> SubSeq(C, k, k + H)], LAMBDA w : w[1] > 0)
      sorted == SortSeq(C, <)
  IN Len(C) > H =>
       /\ T > 0 => MonteCarlo(W, T) = HistFreq(C, T, H)
       /\ HistFreq(C, T + 50, H).reach <= HistFreq(C, T, H).reach
       /\ T <= 0 => HistFreq(C, T, H).up <= HistFreq(C, T, H).reach
       /\ \A p \in 0..19 : Pctile(sorted, p) <= Pctile(sorted, p + 1)
       /\ Pctile(sorted, 0) = 20 * sorted[1] /\ Pctile(sorted, 20) = 20 * sorted[Len(sorted)]
\* A better score never earns a worse verdict from the same action, nor the blend's from better
\* parts (analysis.ts:285-297, AnalysisScreen.tsx:91-103).
VerdictsRise(a, b, act, x) ==
  LET order == <<"Avoid", "Watch", "Accumulate", "High conviction">>
      grades == <<"Avoid", "Hold", "Accumulate", "Strong Accumulate">>
      rank(o, v) == CHOOSE k \in DOMAIN o : o[k] = v
      blend(n) == Blend(n, x, 100 - x, Value(n, 1), x)
  IN a <= b => /\ rank(order, Verdict(a, act)) <= rank(order, Verdict(b, act))
               /\ blend(a).is <= blend(b).is
               /\ rank(grades, Assess(blend(a).is \div blend(a).over)) <= rank(grades, Assess(blend(b).is \div blend(b).over))
================================================================================
