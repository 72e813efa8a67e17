------------------------------- MODULE MCBooks -------------------------------
(***************************************************************************)
(* Small instances of what the client keeps (lists, books, the workspace   *)
(* of the terminal, the pages' history) and of the pure computations, one  *)
(* of them in each behaviour, and the properties they share: nothing kept  *)
(* is lost, what is pointed at exists, the books balance.  The replay's    *)
(* loop, one of them, is the module extended here.                         *)
(***************************************************************************)
EXTENDS Replay, FiniteSets

CONSTANTS
  none, cmp,                                      \* null, and the id of the comparison's tab
  Steps,                                          \* what a user does on each
  Tickers, Prices, MaxLists,                      \* the symbols of lists, trades and holdings, what they cost
  OpeningCash, Cap, MaxMounts,                    \* the paper accounts, and how often a page opens
  Custom,                                         \* the user's groups
  Intents, Taps,                                  \* what the pages' buttons ask for, tabs tapped
  Firms, IndexNames, Ranked, MaxRounds,           \* the terminal's companies and indices
  RowSets, Canonical, Choices,                    \* the tables' rows, and the columns kept
  Recs, Stores, Slow, SectorOf, Modes,            \* what the lists of cards hold
  Rooms, Dm, Limit, MaxMsgs, MaxPolls,            \* the conversations
  Devices, Bound                                  \* the push registry
VARIABLES
  focus, ui, calls, steps,
  graph, centre, history, generating, genErr, idxCmd, aiKey, mobile, W, frame, body, news, cache, asked, failed, strayed

client == <<ui, calls>>
terminal == <<graph, centre, history, generating, genErr, idxCmd, aiKey, mobile, W, frame, body, news, cache, asked, failed, strayed>>
booksVars == <<focus, client, steps, terminal, vars>>

Lists == INSTANCE Watchlists WITH Symbols <- Tickers, MaxSteps <- Steps.lists
Paper == INSTANCE PaperBook WITH Symbols <- Tickers, Start <- OpeningCash, MaxMounts <- MaxMounts.paper, MaxSteps <- Steps.paper
Folio == INSTANCE Portfolio WITH Symbols <- Tickers, MaxMounts <- MaxMounts.folio, MaxSteps <- Steps.folio
Pages == INSTANCE Navigation WITH NoSym <- 0, MaxSteps <- Steps.pages
Term == INSTANCE Terminal WITH
  Symbols <- Firms, Indices <- IndexNames, Segments <- Ranked, None <- none, Cmp <- cmp, MaxSteps <- Steps.terminal, MaxRounds <- MaxRounds.caps,
  calls <- asked
Tab == INSTANCE Tables WITH Kept <- Choices, MaxSteps <- Steps.tables
Card == INSTANCE Cards WITH Symbols <- Tickers, MaxRounds <- MaxRounds.cards, MaxErrs <- 0, MaxSteps <- Steps.cards
Talk == INSTANCE Chat WITH MaxSteps <- Steps.chat
Reg == INSTANCE Registry WITH MaxSteps <- Steps.registry
View == INSTANCE GraphView
Sum == INSTANCE Calculators
Row == INSTANCE Scoring

\* The values in the run: few of everything, and each kind at least once.
MCSteps == [lists |-> 5, paper |-> 5, folio |-> 4, pages |-> 5, terminal |-> 3, tables |-> 4, cards |-> 2, chat |-> 4, registry |-> 3]
MCMounts == [paper |-> 3, folio |-> 2]
MCRounds == [caps |-> 1, cards |-> 2]
To(p, s, sym) == [page |-> p, sub |-> s, sym |-> sym]
MCIntents ==
  {To("screens", "mb", 1), To("analysis", "mb", 2), To("analysis", "patterns", 1), To("desk", "inst", 1), To("desk", "inst", 2),
   To("desk", "", 0), To("stock", "stock", 1), To("stock", "stock", 2), To("backtest", "bt", 0)}
\* Bars over three levels, on days that follow each other or with a day off; calls of both sides
\* with and without a stop, a target and a deadline that falls within the series.
MCTimes  == {<<1, 2, 3, 4>>, <<1, 2, 4, 5>>}
MCShapes == [l : {0, 1}, h : {1, 2}]
Call(sd, st, t, h) == [side |-> sd, stop |-> st, target |-> t, horizon |-> h]
Alike(p) == [b \in 1 .. 4 |-> p]
MCPlans  == {Alike(Call("long", 0, 2, 2)), Alike(Call("long", none, 2, 1)), Alike(Call("long", 0, none, 3)),
             Alike(Call("long", none, none, 1)), Alike(Call("short", 2, 0, 2)), Alike(Call("short", none, 0, 9)),
             <<Call("long", 0, 2, 2), Call("short", 2, 0, 1), Call("long", none, 2, 9), Call("long", 0, 2, 1)>>}
\* Every set of edges between two companies, with a third beside them or not.
Edge(s, d, t) == [src |-> s, dst |-> d, type |-> t]
Between == {Edge(p[1], p[2], t) : p \in {<<1, 2>>, <<2, 1>>}, t \in View!EdgeTypes}
Beside == {{}, {Edge(1, 3, "invests")}, {Edge(3, 2, "supplies"), Edge(3, 1, "group")}}

Line(n, f, l) == [id |-> n, sym |-> n, num |-> f, text |-> l]
MCRowSets == {{Line(1, 0, 1), Line(2, 2, 2), Line(3, 1, 0)}}
MCKept == {[order |-> <<"num", "num", "sym">>, hidden |-> {"num"}]}

\* Two stocks, each without some of the figures; the server is slow to know the second.
Rec(n, sc, mo, fu, pa, rw, rs, up, et, ms) ==
  [sym |-> n, score |-> sc, mom |-> mo, fund |-> fu, pat |-> pa, rr |-> rw, rsi |-> rs, upside |-> up, eta |-> et, models |-> ms]
One == Rec(1, 70, 60, 50, -1, 30, 40, 5, -1, {"sweep"})
Other == Rec(2, 60, 58, -1, 55, -1, 50, 9, 5, {"trend"})
MCRecs == {One, Other}
MCStores == {MCRecs}
MCSectorOf == <<1, 2>>

\* The calculators over small amounts, factors and costs.
Costs == {[segment |-> sg, flat |-> fl, slippage |-> sl] : sg \in {"delivery", "intraday"}, fl \in {0, 5000, 50000}, sl \in {0, 1}}
SumsAgree(a, b, c, g) ==
  /\ Sum!InvestingAgrees(b, g, a) /\ Sum!WithdrawalsAddUp(b, c, g, a) /\ Sum!SizeIsRisk(20 * a, g, b, c)
  /\ \A m \in Costs : Sum!CostsAreCosts(b, c, b + a, m)
  /\ \A t \in {"call", "put"}, x \in {"buy", "sell"} : Sum!BreakevenPays(t, x, b, c, g)
  /\ \A f, t \in {"INR", "USD", "EUR"} : Sum!ThereAndBack(a, [INR |-> 1, USD |-> b, EUR |-> c], f, t)
\* The screener's rows with and without each value, every filter on them, every pair of
\* expression rows and of clauses, every history of up to four closes.
Bl == Row!Blank
ScreenRows == [rsi : {Bl, 1, 2}, pe : {Bl, 1, 2}, cross : {0, 1}, sector : {0, 1, 2}]
Bounds == [min : {Bl, 1, 2}, max : {Bl, 1, 2}]
Asked == {[rsi |-> x, pe |-> y, cross |-> [min |-> n, max |-> Bl], sector |-> [min |-> m, max |-> Bl]] : x, y \in Bounds, n, m \in {0, 1}}
         \cup [{"rsi"} -> Bounds] \cup [{"pe"} -> Bounds]
Exprs ==
  [key : {"rsi"}, op : {"gt", "lt", "between", "eq"}, v1 : {Bl, 1}, v2 : {Bl, 2}, join : {"and", "or"}]
  \cup [key : {"cross"}, op : {"is"}, v1 : {Bl}, v2 : {Bl}, join : {"and", "or"}]
  \cup [key : {"sector"}, op : {"has"}, v1 : {0, 1}, v2 : {Bl}, join : {"and", "or"}]
Clauses ==
  [words : {{}, {"squeeze", "fired"}, {"squeeze"}, {"new", "high", "volume"}, {"oversold"}, {"large cap", "pe"}, {"rsi"}, {"pe", "roe"},
            {"forward", "pe"}, {"52", "high", "near"}, {"200 dma", "below"}, {"200 dma", "cross"}},
   bounds : {Row!NoBounds, Row!Least(10), Row!AtMost(20)}]
Signals(r, w) ==
  [rsi : {r}, willr : {w}, bollb : {10, 50, 90}, d9 : {-1, 1}, d20 : {-1, 1}, d50 : {0, 1}, d200 : {-1, 1}, m : {-2, -1, 1, 2},
   on : BOOLEAN, fire : BOOLEAN, surge : {FALSE}]
Strong == {[roe |-> r, roce |-> 20, de |-> 5, eg |-> e, pe |-> 12, pb |-> 20, peg |-> p, fcf |-> 1, rsi |-> x, d50 |-> 1, d200 |-> 1,
            relvol |-> 15, high |-> -5, d20 |-> -1, on |-> TRUE] : r \in {12, 20}, e \in {9, 12}, p \in {-1, 10}, x \in {40, 60}}
Histories == UNION {[1..n -> {0, 1, 2, 4}] : n \in 1..4}
Input(what, S) == {[what |-> what, of |-> x] : x \in S}
Scored ==
  Input("filters", Asked) \cup Input("expression", Exprs) \cup Input("clause", Clauses) \cup Input("history", Histories)
  \cup Input("signal", {Bl, 20, 35, 50, 67, 75} \X {Bl, -90, -50, -10}) \cup Input("score", 0..100) \cup Input("strategy", Strong) \cup Input("value", (0..4) \X (-1..3))
ScoresAgree(in) ==
  LET x == in.of IN
  CASE in.what = "filters" -> Row!Translates(ScreenRows, x)
    [] in.what = "expression" -> \A e \in Exprs : Row!IncompleteIsNeutral(ScreenRows, x, e)
    [] in.what = "clause" -> \A c \in Clauses : Row!SentenceIsKept(x, c)
    [] in.what = "history" ->
         /\ \A T \in {-50, 0, 50, 100}, H \in 1..2 : Row!FrequenciesAgree(x, T, H)
         /\ Row!SortsBothWays([k \in DOMAIN x |-> [rsi |-> IF x[k] = 4 THEN Bl ELSE x[k]]], "rsi")
    [] in.what = "signal" -> \A r \in Signals(x[1], x[2]) : Row!SurgeConfirms(r)
    [] in.what = "score" -> \A b \in 0..100, act \in {"none", "BUY", "WATCH", "AVOID"} : Row!VerdictsRise(x, b, act, 40)
    [] in.what = "strategy" -> Row!StrategiesNeedTheirData(x)
    [] in.what = "value" ->
         \A pb \in 0..3, g, more \in {-2, 0, 1, 2, 3} :
           Row!ValuesAgree([px |-> x[1], eps |-> x[2], pb |-> pb, g |-> g, dy |-> 2, fcf |-> x[2], mcap |-> 3], more)

ASSUME BooksAssumptions ==
  /\ Term!TerminalAssumptions /\ ReplayAssumptions /\ Folio!PortfolioAssumptions /\ Paper!PaperAssumptions /\ Reg!RegistryAssumptions
  /\ Pages!NavigationAssumptions /\ Tab!TablesAssumptions /\ Card!CardsAssumptions /\ Talk!ChatAssumptions

In(f, p) == focus = f => p
NoReplay == candles = <<>> /\ time = <<>> /\ signal = <<>> /\ plan = none /\ i = 0 /\ busy = 0 /\ walk = 0 /\ trades = <<>>
Foci == {"lists", "tracker", "simulator", "folio", "pages", "terminal", "bars", "view", "tables", "cards", "chat", "registry", "sums", "scores"}
BooksInit ==
  /\ focus \in Foci /\ Term!Init /\ (focus # "terminal" => ~mobile)
  /\ IF focus = "bars" THEN Init ELSE NoReplay
  /\ \/ focus = "lists" /\ Lists!Init
     \/ focus \in {"tracker", "simulator"} /\ Paper!Init
     \/ focus = "folio" /\ Folio!Init
     \/ focus = "pages" /\ Pages!Init
     \/ focus = "tables" /\ Tab!Init
     \/ focus = "cards" /\ Card!Init
     \/ focus = "chat" /\ Talk!Init
     \/ focus = "registry" /\ Reg!Init
     \/ focus \in {"terminal", "bars"} /\ ui = none /\ calls = {}
     \/ focus = "view" /\ calls = {} /\ \E e \in SUBSET Between, f \in Beside : ui = e \cup f
     \/ focus = "sums" /\ calls = {} /\ ui \in (0..3) \X (0..4) \X (0..4) \X (1..3)
     \/ focus = "scores" /\ calls = {} /\ ui \in Scored
BooksNext ==
  /\ UNCHANGED focus
  /\ \/ /\ UNCHANGED <<terminal, vars>>
        /\ \/ focus = "lists" /\ Lists!Next
           \/ focus = "tracker" /\ Paper!Tracker
           \/ focus = "simulator" /\ Paper!Simulator
           \/ focus = "folio" /\ Folio!Next
           \/ focus = "pages" /\ Pages!Next
           \/ focus = "tables" /\ Tab!Next
           \/ focus = "cards" /\ Card!Next
           \/ focus = "chat" /\ Talk!Next
           \/ focus = "registry" /\ Reg!Next
     \/ focus = "terminal" /\ Term!Next /\ UNCHANGED <<client, vars>>
     \/ focus = "bars" /\ Next /\ UNCHANGED <<client, steps, terminal>>
BooksSpec == BooksInit /\ [][BooksNext]_booksVars
-------------------------------------------------------------------------------
\* No write undoes another's, but for the writes of stale copies and the messages the modules
\* record: what was added and not removed is there, in the lists, the paper trades and the
\* holdings, the columns and the list chosen are those kept, a thread of the chat shows what
\* it has moved past, a device that joined is on the list.
NothingLost ==
  /\ In("lists", Lists!NothingLost) /\ In("tracker", Paper!NothingLost) /\ In("folio", Folio!NothingLost)
  /\ In("tables", Tab!KeptIsShown) /\ In("cards", Card!ModeIsKept)
  /\ In("chat", Talk!BelowTheCursorIsShown) /\ In("registry", Reg!DevicesAreThoseJoined)
\* What is pointed at exists: the active list, the group picked, the terminal's active tab.
WhatIsPickedExists == In("lists", Lists!ActiveExists) /\ In("folio", Folio!PickedExists) /\ In("terminal", Term!Workspace)
\* What is shown is what was asked for: the page of the last intent, its symbol, the active tab's
\* company, the sector of the cards, the conversation; answers the pages do not guard excepted,
\* as each module records them.
ShownIsAsked ==
  /\ In("pages", Pages!ShownIsAsked /\ Pages!PlaceIsTop /\ Pages!BackStaysInside)
  /\ In("terminal", Term!BodyIsActiveTab /\ Term!TrailMovesOn)
  /\ In("cards", Card!SectorLands /\ Card!UnknownIsAsked)
  /\ In("chat", Talk!ThreadIsItsConversation /\ Talk!ReadWasShown /\ Talk!WaitsForAnAnswer)
\* One open paper trade in a symbol; cash and positions that add up until the log runs over its
\* bound, and all orders kept but those filled from an older account; an arming is delivered
\* once and what was deleted or revoked stays so unless requests overlapped on it or a restart
\* cut a check short; uses are not counted twice.
BooksBalance ==
  In("tracker", Paper!OneOpen) /\ In("simulator", Paper!BooksBalance /\ Paper!OrdersKept)
  /\ In("registry", Reg!ToldOnce /\ Reg!RemovedStaysRemoved)
\* A symbol removed on the page is not put back by the recorded calls, unless a stale copy of the
\* list was written (a removal by a row's button is not among them); and an entry price stays
\* what it was while there is one.
ListsKeepTheirWord == [][focus = "lists" => Lists!EntryStays /\ Lists!RemovedStays']_booksVars
\* What is read in two ways agrees: the four readings of a company's relations; the table, its
\* columns, its export and what was asked of it; each calculator and those that bear on it; a
\* sentence, its filters, their expression and the rows kept; a card, its sheet and the printed list.
ReadingsAgree ==
  /\ In("view", View!ReadingsAgree(ui, 1))
  /\ In("sums", SumsAgree(ui[1], ui[2], ui[3], ui[4])) /\ In("scores", ScoresAgree(ui))
  /\ In("tables", Tab!ColumnsAreWhole /\ Tab!SortedAsAsked /\ Tab!ExportIsShown)
  /\ In("cards", Card!EmptySaysWhy /\ Card!SortIsTold /\ Card!SheetsBearCardsOut)
===============================================================================
