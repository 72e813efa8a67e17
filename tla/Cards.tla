--------------------------------- MODULE Cards ---------------------------------
(***************************************************************************)
(* The page of recommendations: four lists of cards behind a switch that   *)
(* is remembered, each with its strategies, its order, its messages and a  *)
(* sheet for the card that is open.  The long-term list may be reached     *)
(* with a sector from the map; it asks for the sectors of what it lists,   *)
(* every list asks for market caps.  How the lists are filled is ScanList. *)
(***************************************************************************)
EXTENDS Client, SequencesExt

CONSTANTS
  Symbols, Recs,      \* what an analysis may say: [sym, score, mom, fund, pat, rr, rsi, upside, eta, action, models]
  Stores,             \* what the stores may hold, sets of Recs
  Slow,               \* symbols the server does not know at first
  SectorOf,           \* the sector of a symbol, a positive number
  Modes,              \* the lists: "long", "short", "inst", "smc"
  MaxRounds, MaxErrs  \* bounds: the rounds of a poll for caps, and the failures it bears
CardsAssumptions == (\A r \in Recs : r.sym \in Symbols) /\ Stores \subseteq SUBSET Recs

Blank == -1           \* a figure that is missing
Unasked == -1         \* a sector that was not asked for, or not answered
Null == 0             \* a sector the server did not have
None == [sym |-> 0]
Sectors == {SectorOf[s] : s \in Symbols}

\* A strategy keeps rows by one figure, at least or (ascending) at most so much, and ranks by it.
Strategy(by, from) == [by |-> by, from |-> from, up |-> FALSE]
LONG_STRATEGIES ==
  [balanced |-> Strategy("score", 0), minervini |-> Strategy("mom", 55), growth |-> Strategy("fund", 55),
   breakout |-> Strategy("pat", 55), momentum |-> Strategy("mom", 60), highrr |-> Strategy("rr", 25)]
SHORT_STRATEGIES ==
  [balanced |-> Strategy("score", 0), momentum |-> Strategy("mom", 55), upside |-> Strategy("upside", 0),
   oversold |-> [by |-> "rsi", from |-> 45, up |-> TRUE], highrr |-> Strategy("rr", 20)]
OrElse(r, key) == IF r[key] # Blank THEN r[key] ELSE IF key = "rsi" THEN 50 ELSE 0
Keeps(st, r) == IF st.up THEN OrElse(r, st.by) <= st.from ELSE OrElse(r, st.by) >= st.from
Merit(st, r) == IF st.up THEN OrElse(r, st.by) ELSE 0 - OrElse(r, st.by)

\* The orders of each list.
REC_SORTS == {"score", "upside", "rr", "mom", "fund", "eta"}
SwingSorts == {"score", "upside", "rsi", "rr", "eta"}
InstSorts == {"score", "upside", "rr", "eta"}
SmcSorts == InstSorts
First(mode) == IF mode \in {"inst", "smc"} THEN "all" ELSE "balanced"
\* By time and by RSI the lowest first, by all else the highest; a figure that is missing last.
Place(key, r) == IF r[key] = Blank THEN 1000 ELSE IF key \in {"eta", "rsi"} THEN r[key] ELSE 0 - r[key]

\* What is left of the list (the last two filter by the models that matched), and what orders a
\* row: the strategy of the swing list displaces the order chosen.
LongShown(u) ==
  LET st == LONG_STRATEGIES[u.strat] IN
  [r \in {x \in u.recs : Keeps(st, x) /\ (u.sector = 0 \/ u.sec[x.sym] = u.sector)} |-> <<Place(u.sort, r), Merit(st, r), r.sym>>]
SwingShown(u) ==
  LET st == SHORT_STRATEGIES[u.strat] IN
  IF u.strat = "balanced" THEN [r \in u.recs |-> <<Place(u.sort, r), 0 - r.score, r.sym>>]
  ELSE [r \in {x \in u.recs : Keeps(st, x)} |-> <<Merit(st, r), 0 - r.score, r.sym>>]
InstShown(u) ==
  [r \in {x \in u.recs : u.strat = "all" \/ u.strat \in x.models} |-> <<Place(u.sort, r), 0 - r.score, r.sym>>]
SmcShown(u) == InstShown(u)
ListOf(u) == CASE u.mode = "long" -> LongShown(u) [] u.mode = "short" -> SwingShown(u) [] u.mode = "inst" -> InstShown(u) [] OTHER -> SmcShown(u)
OnShow(u) == DOMAIN ListOf(u)
Ahead(a, b) == \E k \in DOMAIN a : a[k] < b[k] /\ \A j \in 1..(k - 1) : a[j] = b[j]
Shown(u) == LET key == ListOf(u) IN SetToSortSeq(DOMAIN key, LAMBDA a, b : Ahead(key[a], key[b]))
ShownSyms(u) == {r.sym : r \in OnShow(u)}

\* What is around the list: the orders and the strategies or models one may choose, the messages.
Troubles(u) == If(~u.scanning /\ u.error, {"failed"}) \cup If(~u.scanning /\ ~u.error /\ u.recs = {}, {"none yet"})
NoMatch(u) == If(u.recs # {} /\ OnShow(u) = {}, {"no match"})
Several(u) == ~u.scanning /\ Cardinality(u.recs) > 1
LongPage(u) == [orders |-> REC_SORTS, strategies |-> DOMAIN LONG_STRATEGIES, messages |-> Troubles(u) \cup NoMatch(u)]
SwingPage(u) ==
  [orders |-> If(Several(u) /\ u.strat = "balanced", SwingSorts), strategies |-> DOMAIN SHORT_STRATEGIES, messages |-> Troubles(u) \cup NoMatch(u)]
AvailStrategies(u) == If(~u.scanning /\ u.recs # {}, {"all"} \cup UNION {r.models : r \in u.recs})
InstPage(u) == [orders |-> If(Several(u), InstSorts), strategies |-> AvailStrategies(u), messages |-> Troubles(u)]
SmcPage(u) == [orders |-> If(Several(u), SmcSorts), strategies |-> AvailStrategies(u), messages |-> Troubles(u)]
Page(u) == CASE u.mode = "long" -> LongPage(u) [] u.mode = "short" -> SwingPage(u) [] u.mode = "inst" -> InstPage(u) [] OTHER -> SmcPage(u)
SectorChips(u) == u.mode = "long" /\ u.recs # {}

\* A card and its sheet: the figures they show, the advice in their words, which the flag gives
\* or withholds, and what the sheet offers.  Only the long-term sheet has a head of its own.
Says(figures, advice, offers) == [figures |-> figures, advice |-> advice, offers |-> offers]
Setup == {"price", "mcap", "entry", "stop", "target", "upside", "score"}
Levels(adv) == If(adv, {"stop and target"})
Offers == {"chart", "analyse", "pattern", "dossier", "paper", "watch", "alert"}
LongRow(adv) == Says(Setup \cup {"rr"}, {"action", "stop and target"} \cup If(adv, {"confidence"}), {})
LongHead == Says({"mcap", "score"}, {"action", "confidence"}, {})
RecCard(adv) ==        \* its reward to risk is net of costs
  Says((Setup \ {"score"}) \cup {"stop_pct", "net rr", "fund", "mom", "pat", "support", "resistance", "target2", "rsi", "risk"} \cup If(adv, {"eta"}),
       Levels(adv), Offers \cup {"backtest"} \cup If(adv, {"report"}))
SwingRow == Says(Setup \cup {"trend", "setup", "rsi"}, {"confidence"}, {})
SwingDetail(adv) ==
  Says(Setup \cup {"stop_pct", "rr", "trend", "setup", "mom", "rsi", "max_dd", "support", "resistance", "risk"} \cup If(adv, {"eta"}),
       Levels(adv) \cup If(adv, {"action", "confidence"}), Offers)
InstRow == Says(Setup \cup {"trend", "models", "rr"}, {}, {})
InstDetail(adv) ==
  Says(Setup \cup {"stop_pct", "rr", "trend", "models", "mom", "rsi", "ret_6m", "max_dd", "support", "resistance", "risk"} \cup If(adv, {"eta"}),
       Levels(adv) \cup If(adv, {"action"}), Offers)
SmcRow == Says((Setup \ {"price", "mcap"}) \cup {"zone", "models", "confluences", "rr"}, {}, {})
SmcDetail(adv) ==
  Says((Setup \ {"price", "mcap"}) \cup {"stop_pct", "rr", "zone", "models", "confluences", "trend", "rsi", "target2", "max_dd", "support", "resistance", "risk"}
         \cup If(adv, {"eta"}),
       {"stop and target"} \cup If(adv, {"action"}), Offers)
Row(mode, adv) == CASE mode = "long" -> LongRow(adv) [] mode = "short" -> SwingRow [] mode = "inst" -> InstRow [] OTHER -> SmcRow
Details(mode, adv) ==
  CASE mode = "long" -> {LongHead, RecCard(adv)} [] mode = "short" -> {SwingDetail(adv)} [] mode = "inst" -> {InstDetail(adv)} [] OTHER -> {SmcDetail(adv)}
\* The report holds the whole list, not what is left of it.
Report(u, adv) == IF adv /\ u.mode = "long" /\ ~u.scanning THEN {r.sym : r \in u.recs} ELSE {}

-------------------------------------------------------------------------------
\* A list mounts with what its store holds; the long-term one takes the sector that is pending.
Mounts(u, mode, recs) ==
  LET taken == IF mode = "long" THEN u.pending ELSE 0 IN
  [u EXCEPT !.mode = mode, !.recs = recs, !.scanning = FALSE, !.error = FALSE, !.sort = "score", !.strat = First(mode), !.sector = taken,
            !.pending = IF mode = "long" THEN 0 ELSE @, !.sec = [s \in Symbols |-> Unasked], !.lost = FALSE, !.gave = FALSE,
            !.open = None, !.detail = 0]

\* After a change: the sectors not known are asked for anew when the list or the answers changed
\* (ran), the caps when the symbols on show did; what was asked before is dropped.
Missing(u) == IF u.mode = "long" THEN {s \in {r.sym : r \in u.recs} : u.sec[s] = Unasked} ELSE {}
SectorCalls(u) == If(Missing(u) # {}, {[kind |-> "sectors", of |-> Missing(u)]})
CapCalls(u) == If(~(ShownSyms(u) \subseteq u.enr), {[kind |-> "caps", of |-> ShownSyms(u), round |-> 1, errs |-> 0]})
After(u, ran, anew) ==
  LET moved == anew \/ ShownSyms(u) # ShownSyms(ui)
      rest == If(~ran, Of({"sectors"})) \cup If(~moved, Of({"caps"})) \cup Of({"mode"})
  IN /\ ui' = [u EXCEPT !.lost = @ /\ ~ran, !.gave = @ /\ ~moved]
     /\ calls' = rest \cup If(ran, SectorCalls(u)) \cup If(moved, CapCalls(u))
\* The mode is written once it was read.
Kept(u) == IF u.hydrated THEN [u EXCEPT !.kept = u.mode] ELSE u

\* The host opens on the long-term list; the effects of the list run before its own, which
\* looks for a sector still pending, and otherwise reads which list was open last.
Opened(u, s, recs) ==
  LET v == Mounts([u EXCEPT !.pending = s], "long", recs) IN [v EXCEPT !.hydrated = v.pending # 0, !.asked = s]
Blankscreen ==
  [mode |-> "long", kept |-> "none", hydrated |-> FALSE, pending |-> 0, recs |-> {}, scanning |-> FALSE, error |-> FALSE,
   sort |-> "score", strat |-> "balanced", sector |-> 0, sec |-> [s \in Symbols |-> Unasked], lost |-> FALSE,
   enr |-> {}, gave |-> FALSE, warm |-> Symbols \ Slow, open |-> None, detail |-> 0,
   asked |-> 0]     \* history: the sector one came with, until another list or sector was picked
Init ==
  /\ \E s \in Sectors \cup {0}, kept \in Modes \cup {"none"}, recs \in Stores :
       ui = Opened([Blankscreen EXCEPT !.kept = kept], s, recs)
  /\ calls = {[kind |-> "mode"]} \cup SectorCalls(ui) \cup CapCalls(ui) /\ steps = 0
Reopen(s, recs) ==             \* away by a button of the sheet or the menu, and back
  /\ Act /\ ui' = Opened(ui, s, recs)
  /\ calls' = If(~ui'.hydrated, {[kind |-> "mode"]}) \cup SectorCalls(ui') \cup CapCalls(ui')
ModeRead(c, recs) ==
  /\ Net
  /\ LET other == ui.kept \notin {"none", ui.mode}
         u == Kept([IF other THEN Mounts(ui, ui.kept, recs) ELSE ui EXCEPT !.hydrated = TRUE, !.asked = IF other THEN 0 ELSE @])
     IN /\ ui' = u
        /\ calls' = IF other THEN SectorCalls(u) \cup CapCalls(u) ELSE calls \ {c}
SetMode(m, recs) == m # ui.mode /\ Act /\ After([Kept(Mounts(ui, m, recs)) EXCEPT !.asked = 0], TRUE, TRUE)
\* Back replays an intent with a sector while the page is open.
NavArrives(s, recs) ==
  /\ Act
  /\ LET u == [ui EXCEPT !.pending = s, !.asked = s] IN
     IF ui.mode = "long" THEN After(u, FALSE, FALSE) ELSE After(Kept(Mounts(u, "long", recs)), TRUE, TRUE)

-------------------------------------------------------------------------------
\* A scan changes the list while it is looked at.
ScanBegins == ~ui.scanning /\ Act /\ ui' = [ui EXCEPT !.scanning = TRUE, !.error = FALSE] /\ UNCHANGED calls
Analysed(r, qualifies) ==
  /\ ui.scanning /\ Net
  /\ After([ui EXCEPT !.recs = {x \in @ : x.sym # r.sym} \cup If(qualifies, {r})], TRUE, FALSE)
ScanEnds(failed) == ui.scanning /\ Net /\ After([ui EXCEPT !.scanning = FALSE, !.error = failed], ~failed, FALSE)

\* The server knows a symbol after a while, and its sector and cap with it.
Warms(s) == s \notin ui.warm /\ Net /\ ui' = [ui EXCEPT !.warm = @ \cup {s}] /\ UNCHANGED calls
SectorsArrive(c) ==
  /\ Net
  /\ After([ui EXCEPT !.sec = [s \in Symbols |-> IF s \notin c.of THEN @[s] ELSE IF s \in ui.warm THEN SectorOf[s] ELSE Null]], TRUE, FALSE)
SectorsFail(c) == Net /\ ui' = [ui EXCEPT !.lost = TRUE] /\ calls' = calls \ {c}
\* A poll goes on while caps are pending, within its rounds and failures.
Again(c, errs, enr) ==
  LET more == c.round < MaxRounds /\ errs <= MaxErrs /\ ~(c.of \subseteq enr) IN
  /\ ui' = [ui EXCEPT !.enr = enr, !.gave = ~more /\ ~(c.of \subseteq enr)]
  /\ calls' = (calls \ {c}) \cup If(more, {[c EXCEPT !.round = @ + 1, !.errs = errs]})
CapsArrive(c) == Net /\ Again(c, 0, ui.enr \cup (c.of \cap ui.warm))
CapsFail(c) == Net /\ Again(c, c.errs + 1, ui.enr)

\* The controls, the cards, the sheet.
SetSort(k) == k # ui.sort /\ Act /\ ui' = [ui EXCEPT !.sort = k] /\ UNCHANGED calls
SetStrat(k) == k # ui.strat /\ Act /\ After([ui EXCEPT !.strat = k], FALSE, FALSE)
SetSector(s) ==
  /\ SectorChips(ui) /\ Act
  /\ After([ui EXCEPT !.sector = IF @ = s THEN 0 ELSE s, !.asked = 0], FALSE, FALSE)
Open(r) == ui.open = None /\ ui.detail = 0 /\ Act /\ ui' = [ui EXCEPT !.open = r] /\ UNCHANGED calls
Close == (ui.open # None \/ ui.detail # 0) /\ Act /\ ui' = [ui EXCEPT !.open = None, !.detail = 0] /\ UNCHANGED calls
OnChart == ui.open # None /\ Act /\ ui' = [ui EXCEPT !.open = None, !.detail = ui.open.sym] /\ UNCHANGED calls

Controls ==
  \/ \E k \in Page(ui).orders : SetSort(k)
  \/ \E k \in Page(ui).strategies : SetStrat(k)
  \/ \E s \in Sectors : SetSector(s)
  \/ \E r \in OnShow(ui) : Open(r)
  \/ Close \/ OnChart
Next ==
  \/ Controls
  \/ ScanBegins \/ \E failed \in BOOLEAN : ScanEnds(failed)
  \/ \E r \in Recs, q \in BOOLEAN : Analysed(r, q)
  \/ \E s \in Symbols : Warms(s)
  \/ \E c \in Of({"sectors"}) : SectorsArrive(c) \/ SectorsFail(c)
  \/ \E c \in Of({"caps"}) : CapsArrive(c) \/ CapsFail(c)
  \/ \E recs \in Stores :
       \/ \E c \in Of({"mode"}) : ModeRead(c, recs)
       \/ \E m \in Modes : SetMode(m, recs)
       \/ \E s \in Sectors : NavArrives(s, recs)
       \/ \E s \in Sectors \cup {0} : Reopen(s, recs)
Spec == Init /\ [][Next]_client

-------------------------------------------------------------------------------
\* A list that shows nothing says why, unless a scan took away every match of a model that is
\* still chosen (RecommendationsScreen.tsx:708-721, InstitutionalScreen.tsx:498-505); and while
\* the order may be chosen the list stands in the order chosen.
EmptySaysWhy ==
  OnShow(ui) = {} /\ ~ui.scanning =>
    Page(ui).messages # {} \/ (ui.mode \in {"inst", "smc"} /\ ui.strat \notin AvailStrategies(ui))
SortIsTold ==
  LET shown == Shown(ui) IN
  Page(ui).orders # {} => \A a, b \in DOMAIN shown : a < b => Place(ui.sort, shown[a]) <= Place(ui.sort, shown[b])
\* The sectors and caps that are not known are being asked for, or the last request failed, in
\* whatever order scans, strategies and answers come; so a sector hides a stock of its own only
\* while that lasts, or when the server did not have it yet, for that is never asked again
\* (RecommendationsScreen.tsx:417-438, enrich.tsx:50-91).
UnknownIsAsked ==
  /\ ui.lost \/ Missing(ui) = {} \/ \E c \in Of({"sectors"}) : c.of = Missing(ui)
  /\ ui.gave \/ ShownSyms(ui) \subseteq ui.enr \/ \E c \in Of({"caps"}) : c.of = ShownSyms(ui)
  /\ ui.mode = "long" /\ ui.sector # 0 =>
       \A r \in ui.recs : SectorOf[r.sym] = ui.sector /\ Keeps(LONG_STRATEGIES[ui.strat], r) /\ r.sym \notin ShownSyms(ui) => ui.sec[r.sym] \in {Unasked, Null}
\* A sector one came with is the long-term list's, until another is picked: it is only lost to a
\* list remembered from before, and waits only when the list was open already
\* (RecommendationsScreen.tsx:407-413, 808-834).
SectorLands == ui.asked # 0 => ui.mode = "long" /\ ui.asked \in {ui.sector, ui.pending}
\* The list on show is the one that is remembered, once that was read.
ModeIsKept == ui.hydrated => ui.kept = ui.mode
\* A sheet repeats every figure of its card, but for a reward to risk that is net of costs on
\* one of them and not on the other.  With the flag off no deadline and no report is to be had,
\* and only the long-term card and the head of its sheet still name an action (flags.ts:3-9).
\* A sheet and a chart are never open at once.
SheetsBearCardsOut ==
  /\ \A adv \in BOOLEAN : Row(ui.mode, adv).figures \ UNION {d.figures : d \in Details(ui.mode, adv)} \subseteq If(ui.mode = "long", {"rr"})
  /\ \A d \in Details(ui.mode, FALSE) : "eta" \notin d.figures /\ "report" \notin d.offers
  /\ \A d \in Details(ui.mode, FALSE) \cup {Row(ui.mode, FALSE)} : "action" \in d.advice => ui.mode = "long"
  /\ Report(ui, FALSE) = {}
  /\ ui.open = None \/ ui.detail = 0
=============================================================================
