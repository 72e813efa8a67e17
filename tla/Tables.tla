-------------------------------- MODULE Tables --------------------------------
(***************************************************************************)
(* The tables of the client: which columns are on show, in which order the *)
(* rows stand and which of them are left, what an export holds.  The       *)
(* choice of columns is kept on the device and read back when the screen   *)
(* opens, after its first frame.  The tables differ in a few ways, one     *)
(* record each.  A row is an id (its place in the server's order) with a   *)
(* figure and a label, either of which may be absent.                      *)
(***************************************************************************)
EXTENDS Client, SequencesExt

CONSTANTS
  RowSets,      \* what the server may send, sets of rows [id, num, text]
  Canonical,    \* the labels a sector menu always has
  Kept          \* choices of columns found on the device: [order, hidden]
TablesAssumptions == \A d \in Kept : d = [order |-> d.order, hidden |-> d.hidden]

Columns == <<"sym", "num", "text">>     \* the first is locked
Locked == Columns[1]
Absent == 0

\* picks:  how columns are chosen: a draft that is applied, or one tick at a time
\* turns:  headers sort by two states, three (off again), or not at all
\* low:    the columns whose absent values count as the lowest; the others' come last
\* narrow: what a phone sorts by: the visible columns, all of them, or the same headers
MomentumTable    == [picks |-> "ticks", turns |-> 2, first |-> "num", low |-> {"sym", "text"}, narrow |-> "visible", sectors |-> TRUE]
MultibaggerTable == [MomentumTable EXCEPT !.low = {"sym", "num", "text"}, !.narrow = "table"]
PatternTable     == [MomentumTable EXCEPT !.low = {"sym", "num", "text"}, !.narrow = "all", !.sectors = FALSE]
PennyTable       == [picks |-> "none", turns |-> 3, first |-> "none", low |-> {}, narrow |-> "table", sectors |-> FALSE]
PortfolioTable   == [picks |-> "draft", turns |-> 0, first |-> "num", low |-> {}, narrow |-> "table", sectors |-> FALSE]
WatchlistTable   == [PortfolioTable EXCEPT !.first = "none"]
Table ==
  [momentum |-> MomentumTable, multibagger |-> MultibaggerTable, patterns |-> PatternTable,
   penny |-> PennyTable, portfolio |-> PortfolioTable, watchlist |-> WatchlistTable]
T == Table[ui.table]

-------------------------------------------------------------------------------
\* An order that was kept may name a column twice, or lack one that is newer than it.
Distinct(s) == SelectSeq([i \in DOMAIN s |-> IF \E j \in 1..(i - 1) : s[j] = s[i] THEN "gone" ELSE s[i]], LAMBDA c : c # "gone")
Ordered(order) ==
  LET known == Distinct(SelectSeq(order, LAMBDA c : c \in Range(Columns)))
      all == known \o SelectSeq(Columns, LAMBDA c : c \notin Range(known))
  IN <<Locked>> \o SelectSeq(all, LAMBDA c : c # Locked)
VisibleCols(u) == SelectSeq(Ordered(u.order), LAMBDA c : c = Locked \/ c \notin u.hidden)
\* The headers one may sort by.
NarrowHeaders(u) == IF T.narrow = "all" THEN Range(Columns) ELSE Range(VisibleCols(u)) \ {Locked}
Headers(u) == IF u.narrow /\ T.narrow # "table" THEN NarrowHeaders(u) ELSE Range(VisibleCols(u))
\* A phone's card holds the figures among the columns on show.
CardStats(u) == Range(VisibleCols(u)) \cap {"num"}

\* Rows before rows: by the column in force, then as the server sent them.
\* Variant: an absent value is a low number for every table.
BeforeLow(r, s) == LET d == ui.dir IN r[ui.sort] * d < s[ui.sort] * d
Before(r, s) ==
  LET x == r[ui.sort]
      y == s[ui.sort]
  IN IF (x # Absent /\ y # Absent) \/ ui.sort \in T.low THEN x * ui.dir < y * ui.dir
     ELSE x # Absent /\ y = Absent
Matches == {r \in ui.rows : ui.sector = Absent \/ r.text = ui.sector}
Shown ==
  SetToSortSeq(Matches, LAMBDA r, s : IF ui.sort = "none" \/ ~(Before(r, s) \/ Before(s, r)) THEN r.id < s.id ELSE Before(r, s))
Sectors == Canonical \cup ({r.text : r \in ui.rows} \ {Absent})
Export == [header |-> VisibleCols(ui), rows |-> [i \in DOMAIN Shown |-> [k \in DOMAIN VisibleCols(ui) |-> Shown[i][VisibleCols(ui)[k]]]]]

-------------------------------------------------------------------------------
Default == [order |-> Columns, hidden |-> {}]
Choice(u) == [order |-> u.order, hidden |-> u.hidden]
Reading(u) == If(Table[u.table].picks # "none", {[kind |-> "read", v |-> u.disk]})
Init ==
  \E t \in DOMAIN Table, n \in BOOLEAN, d \in Kept \cup {Default} :
    LET u == [table |-> t, narrow |-> n, disk |-> d, order |-> Columns, hidden |-> {}, restored |-> FALSE, draft |-> <<>>,
              sort |-> Table[t].first, dir |-> -1, sector |-> Absent, rows |-> {}, ahead |-> FALSE]
        found == IF Table[t].picks = "draft" THEN d ELSE [Default EXCEPT !.hidden = d.hidden]
        v == [u EXCEPT !.disk = found]
    IN /\ n => Table[t].narrow # "table"
       /\ d # Default => Table[t].picks # "none"
       /\ ui = v /\ calls = Reading(v) /\ steps = 0

\* The choice read back replaces what is there; a table with a draft then writes every change.
Restored(c) ==
  /\ Net /\ calls' = calls \ {c}
  /\ ui' = [ui EXCEPT !.order = c.v.order, !.hidden = c.v.hidden, !.restored = TRUE]
Written(u) == IF u.restored THEN [u EXCEPT !.disk = Choice(u)] ELSE [u EXCEPT !.ahead = TRUE]
\* One tick: shown at once and written at once, whether or not the old choice was read.
\* Variant: nothing is written.
TickedOnly(c) == LET h == IF c \in ui.hidden THEN ui.hidden \ {c} ELSE ui.hidden \cup {c} IN [ui EXCEPT !.hidden = h]
Ticked(c) ==
  LET h == IF c \in ui.hidden THEN ui.hidden \ {c} ELSE ui.hidden \cup {c} IN
  [ui EXCEPT !.hidden = h, !.disk.hidden = h, !.ahead = @ \/ calls # {}]
ToggleCol(c) == T.picks = "ticks" /\ c # Locked /\ Act /\ ui' = Ticked(c) /\ UNCHANGED calls
\* The menu's draft: ticks and moves, the locked column first, then applied or reset.
OpenMenu ==
  /\ T.picks = "draft" /\ ui.draft = <<>> /\ Act /\ UNCHANGED calls
  /\ ui' = [ui EXCEPT !.draft = [i \in DOMAIN Columns |-> [key |-> Ordered(ui.order)[i], on |-> Ordered(ui.order)[i] \notin ui.hidden]]]
Swap(s, i, j) == [s EXCEPT ![i] = s[j], ![j] = s[i]]
MoveColumn(i, j) ==
  /\ ui.draft # <<>> /\ i > 1 /\ j > 1 /\ j <= Len(ui.draft) /\ Act
  /\ ui' = [ui EXCEPT !.draft = Swap(@, i, j)] /\ UNCHANGED calls
TickDraft(i) == ui.draft # <<>> /\ ui.draft[i].key # Locked /\ Act /\ ui' = [ui EXCEPT !.draft[i].on = ~@] /\ UNCHANGED calls
Apply ==
  /\ ui.draft # <<>> /\ Act /\ UNCHANGED calls
  /\ ui' = Written([ui EXCEPT !.order = [i \in DOMAIN ui.draft |-> ui.draft[i].key], !.draft = <<>>,
                              !.hidden = {ui.draft[i].key : i \in {j \in DOMAIN ui.draft : ~ui.draft[j].on}}])
Reset == ui.draft # <<>> /\ Act /\ ui' = Written([ui EXCEPT !.order = Columns, !.hidden = {}, !.draft = <<>>]) /\ UNCHANGED calls
Cancel == ui.draft # <<>> /\ Net /\ ui' = [ui EXCEPT !.draft = <<>>] /\ UNCHANGED calls
Reopen ==
  /\ ui.draft = <<>> /\ Act
  /\ ui' = [ui EXCEPT !.order = Columns, !.hidden = {}, !.restored = FALSE, !.ahead = FALSE,
                      !.sort = T.first, !.dir = -1, !.sector = Absent, !.rows = {}]
  /\ calls' = Reading(ui)

\* A header pressed: down, up and, in the penny table, off; a label begins upwards.
FirstDir(k) == IF T.turns = 3 \/ k = "num" THEN -1 ELSE 1
OnSort(k) ==
  /\ T.turns > 0 /\ k \in Headers(ui) /\ Act /\ UNCHANGED calls
  /\ ui' = IF ui.sort # k THEN [ui EXCEPT !.sort = k, !.dir = FirstDir(k)]
           ELSE IF T.turns = 3 /\ ui.dir = 1 THEN [ui EXCEPT !.sort = "none", !.dir = -1]
           ELSE [ui EXCEPT !.dir = -@]
PickSector(s) == T.sectors /\ ui.rows # {} /\ s \in {Absent} \cup Sectors /\ s # ui.sector /\ Act /\ ui' = [ui EXCEPT !.sector = s] /\ UNCHANGED calls
RowsArrive(S) == ui.rows = {} /\ Net /\ ui' = [ui EXCEPT !.rows = S] /\ UNCHANGED calls

Next ==
  \/ \E c \in Range(Columns) : ToggleCol(c) \/ OnSort(c)
  \/ OpenMenu \/ Apply \/ Reset \/ Cancel \/ Reopen
  \/ \E i \in DOMAIN ui.draft : TickDraft(i) \/ MoveColumn(i, i + 1) \/ MoveColumn(i, i - 1)
  \/ \E s \in {Absent} \cup Sectors : PickSector(s)
  \/ \E S \in RowSets : RowsArrive(S)
  \/ \E c \in Of({"read"}) : Restored(c)
Spec == Init /\ [][Next]_client

-------------------------------------------------------------------------------
\* The columns on show are those not hidden, each once, the locked one first, whatever
\* order was kept (WatchlistScreen.tsx:330-348).
ColumnsAreWhole ==
  LET v == VisibleCols(ui) IN
  /\ Range(v) = {c \in Range(Columns) : c = Locked \/ c \notin ui.hidden}
  /\ Len(v) = Cardinality(Range(v)) /\ v[1] = Locked
\* The choice on the device is the one on show, unless it was changed before the kept one
\* had been read (MomentumScreen.tsx:681-692: the read then undoes the change on screen only;
\* WatchlistScreen.tsx:207-241: it undoes it for good).
KeptIsShown == calls = {} /\ ~ui.ahead => T.picks = "none" \/ ui.disk = Choice(ui)
\* Every row that matches is there once, in the order asked for; where absent values do not
\* count as low they come last whichever way the column is turned (PennyScreen.tsx:317-333,
\* MomentumScreen.tsx:652-674).
SortedAsAsked ==
  /\ Range(Shown) = Matches /\ Len(Shown) = Cardinality(Matches)
  /\ ui.sort # "none" =>
       \A i, j \in DOMAIN Shown : i < j =>
         LET x == Shown[i][ui.sort]
             y == Shown[j][ui.sort]
         IN IF ui.sort \in T.low THEN x * ui.dir <= y * ui.dir
            ELSE x = Absent => y = Absent
\* An export holds the columns and rows on show, and a phone's card no column that is
\* hidden (MomentumScreen.tsx:714-719, 971-975).
ExportIsShown == Export.header = VisibleCols(ui) /\ Len(Export.rows) = Len(Shown) /\ CardStats(ui) \subseteq Range(Export.header)
===============================================================================
