---------------------------- MODULE ScreenerSheets ----------------------------
(***************************************************************************)
(* What the screener's sheets edit (screens/ScreenerScreen.tsx): the       *)
(* filter rows with their presets and the metric picker, drafts of the     *)
(* universes and of the columns, and the saved screens (savedScreens.ts).  *)
(* A draft counts when it is applied.                                      *)
(***************************************************************************)
EXTENDS Client, Filters

CONSTANTS
  Markets, Fallback,           \* the universes, and the one "none" falls back to
  Columns,                     \* the table's columns in their order, a sequence
  Presets, RowsOf(_),          \* preset screens, and the metrics each filters on
  Metrics, Names, Cap          \* metrics of a filter; names of saved screens; how many are kept

Pinned == {"sno", "sym"}
Keys(s) == {s[i] : i \in DOMAIN s}
\* A column is listed once, the number and the symbol are columns; a preset filters on metrics.
SheetsAssumptions ==
  /\ Columns \in Seq(STRING) /\ Pinned \subseteq Keys(Columns) /\ Metrics \subseteq STRING
  /\ \A i, j \in DOMAIN Columns : Columns[i] = Columns[j] => i = j
  /\ Presets \subseteq STRING /\ \A p \in Presets : RowsOf(p) \in Seq(STRING)
  /\ Fallback \in Markets /\ Cap \in Nat

Init ==
  /\ ui = [sheet |-> "none", sel |-> {Fallback}, picks |-> {}, rows |-> <<>>, nextId |-> 1, row |-> 0, presets |-> FALSE,
           order |-> Columns, hidden |-> {}, draft |-> <<>>, saved |-> <<>>]
  /\ calls = {} /\ steps = 0
Set(u) == Act /\ ui' = u /\ UNCHANGED calls
At(s) == ui.sheet = s
Closed(u) == [u EXCEPT !.sheet = "none"]
Close == ~At("none") /\ Set([ui EXCEPT !.sheet = IF At("picker") THEN "filters" ELSE "none"])

-------------------------------------------------------------------------------
\* The universe picker: the draft starts from the choice; "all" toggles; nothing
\* cannot be applied.
OpenUniverses == At("none") /\ Set([ui EXCEPT !.sheet = "universe", !.picks = ui.sel])
ToggleMarket(m) == At("universe") /\ Set([ui EXCEPT !.picks = IF m \in @ THEN @ \ {m} ELSE @ \cup {m}])
ToggleAll == At("universe") /\ Set([ui EXCEPT !.picks = IF @ = Markets THEN {Fallback} ELSE Markets])
\* Variant: nothing can be applied too.
AppliesAny(picks) == TRUE
Applies(picks) == picks # {}
ApplyMarkets == At("universe") /\ Applies(ui.picks) /\ Set(Closed([ui EXCEPT !.sel = ui.picks]))

-------------------------------------------------------------------------------
\* The filter rows: [id, metric, src].
Row(id, metric, src) == [id |-> id, metric |-> metric, src |-> src]
Plus(u, metrics, src) ==
  [u EXCEPT !.rows = @ \o [i \in DOMAIN metrics |-> Row(u.nextId + i - 1, metrics[i], src)], !.nextId = @ + Len(metrics)]
On(rows, p) == \E i \in DOMAIN rows : rows[i].src = p
Off(rows, p) == Places(rows, {i \in DOMAIN rows : rows[i].src # p})

OpenFilters == At("none") /\ Set([ui EXCEPT !.sheet = "filters"])
ShowPresets == At("filters") /\ Set([ui EXCEPT !.presets = ~@])
AddRow == At("filters") /\ Set(Plus(ui, <<"price">>, "hand"))
BuildFromText(ms) == At("filters") /\ ms # <<>> /\ Set(Plus(ui, ms, "nl"))   \* applyNl
RemoveRow(id) == At("filters") /\ Set([ui EXCEPT !.rows = Places(@, {i \in DOMAIN @ : @[i].id # id})])
ClearAll == At("filters") /\ ui.rows # <<>> /\ Set([ui EXCEPT !.rows = <<>>])
\* A preset goes on with its rows and comes off with all that carry its tag.
TogglePreset(p) ==
  /\ At("filters") /\ ui.presets
  /\ Set(IF On(ui.rows, p) THEN [ui EXCEPT !.rows = Off(@, p)] ELSE Plus(ui, RowsOf(p), p))
\* The metric picker of one row.
OpenPicker(id) == At("filters") /\ Set([ui EXCEPT !.sheet = "picker", !.row = id])
PickMetric(k) ==
  /\ At("picker")
  /\ Set([ui EXCEPT !.sheet = "filters", !.rows = [i \in DOMAIN @ |-> IF @[i].id = ui.row THEN [@[i] EXCEPT !.metric = k] ELSE @[i]]])

-------------------------------------------------------------------------------
\* The columns.  The draft lists all of them, those of the stored order first and
\* the symbol in front; the table puts the number before it.
Without(s, ks) == Places(s, {i \in DOMAIN s : s[i] \notin ks})
Front(s, k) == IF k \in Keys(s) THEN <<k>> \o Without(s, {k}) ELSE s
Complete(order) ==
  LET known == Places(order, {i \in DOMAIN order : order[i] \in Keys(Columns)}) IN known \o Without(Columns, Keys(known))
VisibleCols(order, hidden) == Without(Front(Front(Complete(order), "sym"), "sno"), hidden \ {"sym"})
DraftOf(u) ==
  LET keys == Front(Complete(u.order), "sym") IN [i \in DOMAIN keys |-> [key |-> keys[i], on |-> keys[i] \notin u.hidden]]

OpenColumns == At("none") /\ Set([ui EXCEPT !.sheet = "columns", !.draft = DraftOf(ui)])
Toggled(draft, k) == [i \in DOMAIN draft |-> IF draft[i].key = k THEN [draft[i] EXCEPT !.on = ~@] ELSE draft[i]]
ToggleColumn(k) ==
  /\ At("columns") /\ k # "sym"
  /\ Set([ui EXCEPT !.draft = Toggled(@, k)])
MoveColumn(i, j) ==     \* one up or down, never past the symbol
  /\ At("columns") /\ i > 1 /\ j > 1 /\ j <= Len(ui.draft) /\ (i = j + 1 \/ j = i + 1)
  /\ Set([ui EXCEPT !.draft = [@ EXCEPT ![i] = ui.draft[j], ![j] = ui.draft[i]]])
ApplyColumns ==
  /\ At("columns")
  /\ Set(Closed([ui EXCEPT !.order = [i \in DOMAIN ui.draft |-> ui.draft[i].key],
                           !.hidden = {ui.draft[i].key : i \in {n \in DOMAIN ui.draft : ~ui.draft[n].on}}]))
ResetColumns == At("columns") /\ Set(Closed([ui EXCEPT !.order = Columns, !.hidden = {}]))

-------------------------------------------------------------------------------
\* Saved screens: by name, the newest first, capped.
OpenSaved == At("none") /\ Set([ui EXCEPT !.sheet = "saved"])
Untitled(saved, n) == Places(saved, {i \in DOMAIN saved : saved[i].name # n})
Screen(n) == [name |-> n, sel |-> ui.sel, rows |-> ui.rows]
SaveScreen(n) ==
  /\ At("saved")
  /\ LET next == <<Screen(n)>> \o Untitled(ui.saved, n) IN
     Set([ui EXCEPT !.saved = SubSeq(next, 1, IF Len(next) < Cap THEN Len(next) ELSE Cap)])
DeleteScreen(n) == At("saved") /\ Set([ui EXCEPT !.saved = Untitled(@, n)])
ApplySaved(i) ==
  /\ At("saved") /\ Set(Closed([ui EXCEPT !.sel = ui.saved[i].sel, !.rows = ui.saved[i].rows]))

Next ==
  \/ Close \/ OpenUniverses \/ ToggleAll \/ ApplyMarkets \/ OpenFilters \/ ShowPresets \/ AddRow \/ ClearAll
  \/ OpenColumns \/ ApplyColumns \/ ResetColumns \/ OpenSaved
  \/ \E m \in Markets : ToggleMarket(m)
  \/ \E ms \in {<<>>} \cup {<<k>> : k \in Metrics} : BuildFromText(ms)
  \/ \E i \in DOMAIN ui.rows : RemoveRow(ui.rows[i].id) \/ OpenPicker(ui.rows[i].id)
  \/ \E p \in Presets : TogglePreset(p)
  \/ \E k \in Metrics : PickMetric(k)
  \/ \E k \in Keys(Columns) : ToggleColumn(k)
  \/ \E i, j \in DOMAIN ui.draft : MoveColumn(i, j)
  \/ \E n \in Names : SaveScreen(n) \/ DeleteScreen(n)
  \/ \E i \in DOMAIN ui.saved : ApplySaved(i)
Spec == Init /\ [][Next]_client

-------------------------------------------------------------------------------
\* Whatever is drafted, applied, saved and reopened: there is a universe to scan,
\* the table has every shown column once with the symbol next to the number, the
\* row a metric is picked for is there, and no two rows or screens share their
\* name (ScreenerScreen.tsx:778-799, 1278-1340, 1414-1419).
SheetsLeaveAScreen ==
  LET cols == VisibleCols(ui.order, ui.hidden)
      distinct(s) == Cardinality(Keys(s)) = Len(s)
  IN /\ ui.sel # {} /\ \A i \in DOMAIN ui.saved : ui.saved[i].sel # {}
     /\ Keys(cols) = (Keys(Columns) \ ui.hidden) \cup {"sym"} /\ distinct(cols)
     /\ cols[IF "sno" \in ui.hidden THEN 1 ELSE 2] = "sym"
     /\ At("picker") => \E i \in DOMAIN ui.rows : ui.rows[i].id = ui.row
     /\ distinct([i \in DOMAIN ui.rows |-> ui.rows[i].id])
     /\ distinct([i \in DOMAIN ui.saved |-> ui.saved[i].name])
==============================================================================
