------------------------------- MODULE Watchlists -------------------------------
(***************************************************************************)
(* The named lists of symbols kept on the device, and the three ways they  *)
(* are written: by the Watchlist page, by list and symbol; by the screens' *)
(* row buttons, which write their own copy of the active list plus or      *)
(* minus a symbol over it; and by the report of one stock, which reads the *)
(* list first.  Opening the page folds the calls recorded by the row       *)
(* buttons (the track list) into the active list.  Only one page is        *)
(* mounted at a time, and a read-modify-write of the storage is not        *)
(* interleaved with another (the storage answers in the same task).        *)
(***************************************************************************)
EXTENDS Client, Filters

CONSTANTS Symbols, MaxLists, Prices

NoPrice == 0
ActiveOf(u) == IF \E i \in DOMAIN u.lists : u.lists[i].id = u.active
               THEN CHOOSE i \in DOMAIN u.lists : u.lists[i].id = u.active ELSE 1
Held(u) == u.lists[ActiveOf(u)].syms
Content(u) == UNION {{<<u.lists[i].id, s>> : s \in u.lists[i].syms} : i \in DOMAIN u.lists}
Wanted(u, i) == {s \in Symbols : <<i, s>> \in u.want}

\* A screen with row buttons reads its copies when it mounts.
OpenTable(u) == [u EXCEPT !.page = "table", !.copy = Held(u), !.trackCopy = u.track, !.quotes = {}]

Init ==
  /\ \E s \in SUBSET Symbols :
       ui = OpenTable([page |-> "table", lists |-> <<[id |-> 1, syms |-> s]>>, active |-> 1, made |-> 1,
              track |-> {}, entries |-> [x \in Symbols |-> NoPrice], quotes |-> {}, copy |-> {}, trackCopy |-> {},
              want |-> {<<1, x>> : x \in s},   \* history: what the lists were asked to hold
              gone |-> {},                     \* history: removed on the Watchlist page, not asked for since
              stale |-> FALSE])                \* history: a copy that was no longer the list was written over it
  /\ calls = {} /\ steps = 0

\* The calls that are to be in the active list, and their prices where there is no entry yet.
SyncTrackList(u) ==
  LET add == {c.sym : c \in u.track} IN
  [u EXCEPT !.entries = [x \in Symbols |-> IF @[x] = NoPrice /\ \E c \in u.track : c.sym = x
                                           THEN (CHOOSE c \in u.track : c.sym = x).price ELSE @[x]],
            !.lists[ActiveOf(u)].syms = @ \cup add,
            !.want = @ \cup {<<u.lists[ActiveOf(u)].id, x>> : x \in add}]
\* The prices asked for when the page opens, when the lists change and each half minute.
FetchQuotes(u) == If(Held(u) # {}, {[kind |-> "quotes", syms |-> Held(u)]})
Opened(u) == [SyncTrackList(u) EXCEPT !.page = "watch", !.quotes = {}]
OpenWatchlist ==
  /\ ui.page = "table" /\ Act /\ ui' = Opened(ui) /\ calls' = FetchQuotes(Opened(ui))
Leave == ui.page = "watch" /\ Act /\ ui' = OpenTable(ui) /\ calls' = {}

\* A price seen for a listed symbol that has no entry becomes its entry.  Variant: each time.
WithEntryAlways(e, s, p) == p
WithEntry(e, s, p) == IF e[s] = NoPrice THEN p ELSE e[s]
Stamped(u, q) ==
  [u EXCEPT !.quotes = q,
            !.entries = [s \in Symbols |-> IF s \in Held(u) /\ \E r \in q : r[1] = s
                                           THEN WithEntry(@, s, (CHOOSE r \in q : r[1] = s)[2]) ELSE @[s]]]
QuotesArrive(c, p) == Net /\ calls' = calls \ {c} /\ ui' = Stamped(ui, {<<s, p>> : s \in c.syms})
QuotesFail(c) == Act /\ calls' = calls \ {c} /\ UNCHANGED ui
Poll == ui.page = "watch" /\ calls = {} /\ FetchQuotes(ui) # {} /\ Act /\ calls' = FetchQuotes(ui) /\ UNCHANGED ui

\* What the page does: the store is read, changed and written; the page shows what was written,
\* and a price it still has may become an entry at once.
Store(u) ==
  /\ ui.page = "watch" /\ Act /\ calls' = calls \cup FetchQuotes(u)
  /\ ui' = Stamped(u, IF Held(u) = {} THEN {} ELSE u.quotes)
Id(u) == u.lists[ActiveOf(u)].id
SetActive(i) == i \in DOMAIN ui.lists /\ Store([ui EXCEPT !.active = ui.lists[i].id])
CreateWatchlist ==
  /\ ui.made < MaxLists
  /\ Store([ui EXCEPT !.lists = Append(@, [id |-> ui.made + 1, syms |-> {}]), !.active = ui.made + 1, !.made = @ + 1])
AddSymbolToWatchlist(s) ==
  /\ s \notin Held(ui)
  /\ Store([ui EXCEPT !.lists[ActiveOf(ui)].syms = @ \cup {s}, !.want = @ \cup {<<Id(ui), s>>}, !.gone = @ \ {<<Id(ui), s>>}])

\* Removing a symbol drops its entry and its call.  Variant: the call is kept.
UntrackedNot(track, s) == track
Untracked(track, s) == {c \in track : c.sym # s}
RemoveSymbolFromWatchlist(s) ==
  /\ s \in Held(ui)
  /\ Store([ui EXCEPT !.lists[ActiveOf(ui)].syms = @ \ {s}, !.entries[s] = NoPrice, !.track = Untracked(@, s),
                      !.want = @ \ {<<Id(ui), s>>}, !.gone = @ \cup {<<Id(ui), s>>}])

\* Deleting the last list clears it; deleting the active one makes the first active.
\* Variant: the deleted list stays the active one.
NextActiveKept(lists, a) == a
NextActive(lists, a) == IF \E i \in DOMAIN lists : lists[i].id = a THEN a ELSE lists[1].id
DeleteWatchlist ==
  LET d == Id(ui)  rest == Places(ui.lists, {i \in DOMAIN ui.lists : ui.lists[i].id # d})
      u == [ui EXCEPT !.want = {p \in @ : p[1] # d}, !.gone = {p \in @ : p[1] # d}]
  IN IF Len(ui.lists) = 1 THEN Store([u EXCEPT !.lists[1].syms = {}])
     ELSE Store([u EXCEPT !.lists = rest, !.active = NextActive(rest, @)])

\* The row buttons: the screen's copy with the change is written over the active list.
Written(syms) == [ui EXCEPT !.lists[ActiveOf(ui)].syms = syms, !.copy = syms, !.stale = @ \/ ui.copy # Held(ui)]
AddSymbol(s) ==
  /\ ui.page = "table" /\ s \notin ui.copy /\ Act /\ UNCHANGED calls
  /\ ui' = [Written(ui.copy \cup {s}) EXCEPT !.want = @ \cup {<<Id(ui), s>>}, !.gone = @ \ {<<Id(ui), s>>}]
RemoveSymbol(s) ==
  /\ ui.page = "table" /\ s \in ui.copy /\ Act /\ UNCHANGED calls
  /\ ui' = [Written(ui.copy \ {s}) EXCEPT !.want = @ \ {<<Id(ui), s>>}]
\* The report reads the list first; the table's copy does not hear of it.
AddFromReport(s) ==
  /\ ui.page = "table" /\ s \notin Held(ui) /\ Act /\ UNCHANGED calls
  /\ ui' = [ui EXCEPT !.lists[ActiveOf(ui)].syms = @ \cup {s}, !.want = @ \cup {<<Id(ui), s>>}, !.gone = @ \ {<<Id(ui), s>>}]

\* Buy and sell calls of the row buttons: the same one again untracks.
Call(s, d, p) == [sym |-> s, dir |-> d, price |-> p]
Tracked(list) == ui.page = "table" /\ Act /\ UNCHANGED calls /\ ui' = [ui EXCEPT !.track = list, !.trackCopy = list]
AddTrack(s, d, p) ==
  /\ \A c \in ui.trackCopy : ~(c.sym = s /\ c.dir = d)
  /\ ui.page = "table" /\ Act /\ UNCHANGED calls
  /\ LET list == {c \in ui.trackCopy : c.sym # s} \cup {Call(s, d, p)} IN
     ui' = [ui EXCEPT !.track = list, !.trackCopy = list, !.gone = {g \in @ : g[2] # s}]
RemoveTrack(c) == Tracked(ui.trackCopy \ {c})

Next ==
  \/ OpenWatchlist \/ Leave \/ Poll \/ CreateWatchlist \/ DeleteWatchlist
  \/ \E i \in 1..MaxLists : SetActive(i)
  \/ \E c \in Of({"quotes"}) : QuotesFail(c) \/ \E p \in Prices : QuotesArrive(c, p)
  \/ \E s \in Symbols :
       \/ AddSymbolToWatchlist(s) \/ (ui.page = "watch" /\ RemoveSymbolFromWatchlist(s))
       \/ AddSymbol(s) \/ RemoveSymbol(s) \/ AddFromReport(s)
       \/ \E d \in {"buy", "sell"}, p \in Prices : AddTrack(s, d, p)
  \/ \E c \in ui.trackCopy : RemoveTrack(c)
Spec == Init /\ [][Next]_client

-------------------------------------------------------------------------------
\* The lists hold what they were asked to hold, unless a screen wrote a copy that was
\* no longer the list over it (watchlist.ts:113-220, MultibaggerScreen.tsx:981-990).
NothingLost == ~ui.stale => Content(ui) = ui.want
\* There is a list, and the active one is among them (watchlist.ts:137-156).
ActiveExists == ui.lists # <<>> /\ \E i \in DOMAIN ui.lists : ui.lists[i].id = ui.active
\* A symbol removed on the page is not put back by the recorded calls
\* (watchentry.ts:48-53, WatchlistScreen.tsx:288-299).
RemovedStays == ~ui.stale => ui.gone \cap Content(ui) = {}
\* The price a symbol was added at does not move while it has one (watchentry.ts:36-42).
EntryStays == \A s \in Symbols : ui.entries[s] # NoPrice /\ ui'.entries[s] # NoPrice => ui'.entries[s] = ui.entries[s]
===============================================================================
