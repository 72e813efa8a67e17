------------------------------- MODULE Navigation -------------------------------
(***************************************************************************)
(* How the pages of the client are reached.  There is no router: an intent *)
(* (page, tab, symbol) is kept in a variable, the shell and the tab hosts  *)
(* select themselves from it, and the screen that mounts takes its symbol. *)
(* A stack of intents runs beside the browser's history, so that Back      *)
(* replays the intent before.                                              *)
(***************************************************************************)
EXTENDS Client

CONSTANTS Intents, NoSym, Taps     \* what the pages' buttons ask for; tabs tapped by the user

\* Old page names, and the dossier's own, land on the six pages of the shell.
DeskSubs == {"inst", "shareholders", "paper", "risk", "bt"}
MapTarget(page, sub) ==
  CASE page \in {"stock", "terminal", "backtest"} -> page
    [] page \in {"screens", "screener", "heatmap"} -> "screens"
    [] page \in {"desk", "lists", "tools", "charts", "more"} -> IF sub = "bt" THEN "backtest" ELSE "desk"
    [] page = "analysis" -> IF sub = "bt" THEN "backtest" ELSE IF sub \in DeskSubs THEN "desk" ELSE "screens"
    [] OTHER -> "today"
\* The tabs of the two hosts, and of the screener inside the first.
ScreensTabs == {"screener", "reco", "patterns", "heatmap", "universe"}
DeskTabs == {"watchlist", "portfolio", "paper", "calibration", "alerts", "inst", "shareholders", "risk", "calc", "account", "more"}
ScreenerTabs == {"custom", "mb", "momentum", "penny"}
Resolve(host, sub) == IF host = "screens" /\ sub \in {"mb", "momentum"} THEN "screener" ELSE sub
TabsOf(host) == IF host = "screens" THEN ScreensTabs ELSE IF host = "desk" THEN DeskTabs ELSE {}
Pick(sub) == IF sub = "screener" THEN "custom" ELSE sub

\* The screen that is mounted, which of them take a symbol, and which hear of one while mounted.
Mounted(u) ==
  IF u.page = "screens" THEN IF u.tab["screens"] = "screener" THEN u.inner ELSE u.tab["screens"]
  ELSE IF u.page = "desk" THEN u.tab["desk"] ELSE u.page
Takes == {"mb", "momentum", "patterns", "inst", "stock"}
Listens == {"stock"}
\* An intent for a tab that takes a symbol names a page, old or new, that has the tab.
Lands(j) ==
  j.sub \in Takes \cap (DeskTabs \cup ScreensTabs \cup ScreenerTabs) =>
    LET page == MapTarget(j.page, j.sub) IN Resolve(page, j.sub) \in TabsOf(page)
NavigationAssumptions == \A j \in Intents : Lands(j)

Home == [page |-> "today", sub |-> "", sym |-> NoSym]
Init ==
  /\ ui = [stack |-> <<Home>>, pos |-> 0, last |-> 0,       \* the browser's entries of this app
           pending |-> Home, page |-> "today", inner |-> "custom",
           tab |-> [h \in {"screens", "desk"} |-> IF h = "screens" THEN "screener" ELSE "watchlist"],
           shown |-> NoSym,
           left |-> FALSE, wandered |-> FALSE, forward |-> FALSE, twice |-> FALSE,
           kept |-> FALSE]     \* history: the intent's symbol came to a screen already mounted that does not listen
  /\ calls = {} /\ steps = 0

Top(u) == u.stack[Len(u.stack)]
\* A mounting screen takes the symbol meant for it; the stack keeps its own.
TakeSymbol(u) ==
  IF Mounted(u) \in Takes /\ u.pending.sub = Mounted(u) /\ u.pending.sym # NoSym
  THEN [u EXCEPT !.pending.sym = NoSym, !.shown = u.pending.sym] ELSE u
\* The listeners: the shell selects the page, its host the tab, the screener's host its own.
Arrived(u, i) ==
  LET page == MapTarget(i.page, i.sub)
      tab == Resolve(page, i.sub)
      here == tab \in TabsOf(page)
      tabs == IF here THEN [u.tab EXCEPT ![page] = tab] ELSE u.tab
      hub == page = "screens" /\ tabs["screens"] = "screener"
      stays == u.page = "screens" /\ u.tab["screens"] = "screener"
      inner == IF ~hub THEN u.inner ELSE IF Pick(i.sub) \in ScreenerTabs THEN Pick(i.sub) ELSE IF stays THEN u.inner ELSE "custom"
      v == [u EXCEPT !.pending = i, !.page = page, !.tab = tabs, !.inner = inner, !.wandered = FALSE, !.kept = FALSE]
      mounts == Mounted(v) # Mounted(u) \/ page # u.page
  IN IF mounts THEN TakeSymbol([v EXCEPT !.shown = NoSym])
     ELSE IF Mounted(v) \in Listens THEN TakeSymbol(v)
     ELSE [v EXCEPT !.kept = i.sym # NoSym]

\* Re-selecting where one is makes no entry.  Variant: the tab is not compared.
SamePage(a, b) == a.page = b.page
SameIntent(a, b) == a.page = b.page /\ a.sub = b.sub /\ a.sym = b.sym
Navigate(i) ==
  /\ ~ui.left /\ Act /\ UNCHANGED calls
  /\ ui' = IF SameIntent(Top(ui), i) THEN Arrived(ui, i)
           ELSE Arrived([ui EXCEPT !.stack = Append(@, i), !.pos = @ + 1, !.last = ui.pos + 1], i)

\* The browser moved: the stack is brought into line and the intent before replayed.
\* Variant: the stack is left as it is.
PoppedNot(s) == s
Popped(s) == IF Len(s) > 1 THEN SubSeq(s, 1, Len(s) - 1) ELSE s
PopState(u) == LET v == [u EXCEPT !.stack = Popped(@)] IN Arrived(v, Top(v))
Backwards(u) == IF u.pos = 0 THEN [u EXCEPT !.left = TRUE] ELSE PopState([u EXCEPT !.pos = @ - 1])
GoBack ==               \* the app's own Back: the browser does the work, a little later
  /\ ~ui.left /\ Len(ui.stack) > 1 /\ Act
  /\ calls' = calls \cup {[kind |-> "back", n |-> steps]} /\ ui' = [ui EXCEPT !.twice = @ \/ calls # {}]
HistoryMoves(c) == ~ui.left /\ Net /\ calls' = calls \ {c} /\ ui' = Backwards(ui)
BrowserBack == ~ui.left /\ ui.pos > 0 /\ Act /\ ui' = Backwards([ui EXCEPT !.twice = @ \/ calls # {}]) /\ UNCHANGED calls
BrowserForward ==       \* popstate fires for this too
  /\ ~ui.left /\ ui.pos < ui.last /\ Act /\ UNCHANGED calls
  /\ ui' = PopState([ui EXCEPT !.pos = @ + 1, !.forward = TRUE])

\* A tab tapped selects itself and leaves no entry; so does a page chosen by its plain name.
Tap(t) ==
  /\ ~ui.left /\ Act /\ UNCHANGED calls
  /\ LET u == IF t \in TabsOf(ui.page) THEN [ui EXCEPT !.tab[ui.page] = t] ELSE [ui EXCEPT !.inner = t] IN
     /\ \/ t \in TabsOf(ui.page)
        \/ t \in ScreenerTabs /\ ui.page = "screens" /\ ui.tab["screens"] = "screener"
     /\ Mounted(u) # Mounted(ui)
     /\ ui' = TakeSymbol([u EXCEPT !.wandered = TRUE, !.shown = NoSym,
                                   !.inner = IF t = "screener" /\ ui.page = "screens" THEN "custom" ELSE @])
LegacyNav(page) ==
  /\ ~ui.left /\ page # ui.page /\ Act /\ UNCHANGED calls
  /\ ui' = TakeSymbol([ui EXCEPT !.page = page, !.wandered = TRUE, !.shown = NoSym,
                                 !.inner = IF page = "screens" THEN "custom" ELSE @])

Next ==
  \/ \E i \in Intents : Navigate(i)
  \/ GoBack \/ BrowserBack \/ BrowserForward
  \/ \E c \in Of({"back"}) : HistoryMoves(c)
  \/ \E t \in Taps : Tap(t)
  \/ LegacyNav("stock")
Spec == Init /\ [][Next]_client

-------------------------------------------------------------------------------
\* The page and tab on show are those of the last intent on the stack, until the user taps
\* another (navIntent.ts:113-133, Shell.tsx:216-247, Hosts.tsx:54-97).
PlaceIsTop ==
  ~ui.wandered /\ ~ui.left =>
    /\ ui.page = MapTarget(Top(ui).page, Top(ui).sub)
    /\ Top(ui).sub \in Takes \cap (DeskTabs \cup ScreensTabs \cup ScreenerTabs) => Mounted(ui) = Top(ui).sub
\* The stack is as deep as the browser's history, unless the user went forward: the app's
\* Back shows exactly when there is a page to go back to, and does not leave the app
\* unless it was pressed again before the browser had moved (navIntent.ts:50-111).
BackStaysInside ==
  /\ ~ui.forward => Len(ui.stack) = ui.pos + 1
  /\ ui.left => ui.twice \/ ui.forward
\* A screen reached for a symbol shows it, after Back too, unless it was already mounted
\* and does not listen (navIntent.ts:149-157).
ShownIsAsked ==
  ~ui.wandered /\ ~ui.kept /\ ~ui.left /\ Top(ui).sym # NoSym /\ Mounted(ui) \in Takes /\ Top(ui).sub = Mounted(ui) =>
    ui.shown = Top(ui).sym
===============================================================================
