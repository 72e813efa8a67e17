------------------------------ MODULE BooksProofs ------------------------------
(***************************************************************************)
(* Proofs about what the tables, the cards and the chat keep to, for any   *)
(* rows, cards, conversations and bounds, each with an inductive invariant *)
(* of its own as in KeptProofs; and, at the end, the properties that all   *)
(* the parts of MCBooks share.                                             *)
(***************************************************************************)
EXTENDS PagesProofs

-------------------------------------------------------------------------------
\* The tables.  A choice being read is the one on the device until the user changed it, and nothing
\* is read any more once a choice was read back.
TabFields == {"table", "narrow", "disk", "order", "hidden", "restored", "draft", "sort", "dir", "sector", "rows", "ahead"}
IsChoice(d) == d = [order |-> d.order, hidden |-> d.hidden]
KeptOk(u, C) ==
  /\ \A c, d \in C : c = d
  /\ u.restored => C = {}
  /\ ~u.ahead => \A c \in C : c.v = u.disk
  /\ C = {} /\ ~u.ahead => Tab!Table[u.table].picks = "none" \/ u.disk = Tab!Choice(u)
TabOk(u, C) == DOMAIN u = TabFields /\ IsChoice(u.disk) /\ {u.restored, u.ahead} \subseteq BOOLEAN /\ KeptOk(u, C)
TabInv == TabOk(ui, calls)

\* Nothing of the choice changes, or the request under way only.
LEMMA TabSame ==
  ASSUME NEW u, NEW v, NEW C, TabOk(u, C), DOMAIN v = DOMAIN u, v.table = u.table, v.disk = u.disk, v.order = u.order,
         v.hidden = u.hidden, v.restored = u.restored, v.ahead = u.ahead
  PROVE  TabOk(v, C)
<1>1. Tab!Choice(v) = Tab!Choice(u)
  BY DEF Tab!Choice
<1>2. QED
  BY <1>1 DEF TabOk, KeptOk

\* What is written on the device is what is on show.
LEMMA TabWritten ==
  ASSUME NEW u, NEW w, NEW C, DOMAIN u = TabFields, IsChoice(u.disk), {u.restored, u.ahead} \subseteq BOOLEAN,
         \A c, d \in C : c = d, u.restored => C = {}, w = Tab!Written(u)
  PROVE  TabOk(w, C)
<1>1. CASE u.restored
  <2>1. w = [u EXCEPT !.disk = Tab!Choice(u)]
    BY <1>1 DEF Tab!Written
  <2>2. /\ DOMAIN w = TabFields /\ w.disk = Tab!Choice(u) /\ w.order = u.order /\ w.hidden = u.hidden /\ w.restored = u.restored
        /\ w.ahead = u.ahead /\ w.table = u.table
    BY <2>1 DEF TabFields
  <2>3. Tab!Choice(w) = Tab!Choice(u) /\ IsChoice(Tab!Choice(u))
    BY <2>2 DEF Tab!Choice, IsChoice
  <2>4. C = {}
    BY <1>1
  <2>5. QED
    BY <2>2, <2>3, <2>4 DEF TabOk, KeptOk
<1>2. CASE ~u.restored
  <2>1. w = [u EXCEPT !.ahead = TRUE]
    BY <1>2 DEF Tab!Written
  <2>2. /\ DOMAIN w = TabFields /\ w.disk = u.disk /\ w.order = u.order /\ w.hidden = u.hidden /\ w.restored = u.restored
        /\ w.ahead = TRUE /\ w.table = u.table
    BY <2>1 DEF TabFields
  <2>3. QED
    BY <1>2, <2>2 DEF TabOk, KeptOk
<1>3. QED
  BY <1>1, <1>2

\* A screen that opens reads what the device holds.
LEMMA TabReading ==
  ASSUME NEW u, DOMAIN u = TabFields, IsChoice(u.disk), u.restored = FALSE, u.ahead = FALSE
  PROVE  TabOk(u, Tab!Reading(u))
<1>1. CASE Tab!Table[u.table].picks # "none"
  <2> DEFINE c == [kind |-> "read", v |-> u.disk]
  <2>1. Tab!Reading(u) = {c} /\ c.v = u.disk
    BY <1>1 DEF Tab!Reading, Tab!If
  <2> HIDE DEF c
  <2>2. QED
    BY <2>1 DEF TabOk, KeptOk
<1>2. CASE ~(Tab!Table[u.table].picks # "none")
  <2>1. Tab!Reading(u) = {}
    BY <1>2 DEF Tab!Reading, Tab!If
  <2>2. QED
    BY <1>2, <2>1 DEF TabOk, KeptOk
<1>3. QED
  BY <1>1, <1>2

\* From facts about the next state to the invariant there.
LEMMA TabNext == ASSUME TabOk(ui', calls') PROVE TabInv'
BY DEF TabInv, TabOk, KeptOk, IsChoice, TabFields, Tab!Choice

LEMMA TabRestored == ASSUME TabInv, NEW c \in calls, Tab!Restored(c) PROVE TabInv'
<1>0. TabOk(ui, calls) /\ calls' = calls \ {c} /\ ui' = [ui EXCEPT !.order = c.v.order, !.hidden = c.v.hidden, !.restored = TRUE]
  BY DEF TabInv, Tab!Restored
<1>1. /\ DOMAIN ui' = TabFields /\ ui'.disk = ui.disk /\ ui'.order = c.v.order /\ ui'.hidden = c.v.hidden /\ ui'.restored = TRUE
      /\ ui'.ahead = ui.ahead /\ ui'.table = ui.table
  BY <1>0 DEF TabOk, TabFields
<1>2. calls' = {}
  BY <1>0 DEF TabOk, KeptOk
<1>3. ASSUME ~ui.ahead PROVE ui'.disk = Tab!Choice(ui')
  <2>1. c.v = ui.disk /\ IsChoice(ui.disk)
    BY <1>0, <1>3 DEF TabOk, KeptOk
  <2>2. QED
    BY <1>1, <2>1 DEF Tab!Choice, IsChoice
<1>4. TabOk(ui', calls')
  <2>1. IsChoice(ui'.disk) /\ {ui'.restored, ui'.ahead} \subseteq BOOLEAN
    BY <1>0, <1>1 DEF TabOk
  <2>2. KeptOk(ui', calls')
    BY <1>1, <1>2, <1>3 DEF KeptOk
  <2>3. QED
    BY <1>1, <2>1, <2>2 DEF TabOk
<1>5. QED
  BY <1>4, TabNext

LEMMA TabTick == ASSUME TabInv, NEW k, Tab!ToggleCol(k) PROVE TabInv'
<1> DEFINE h == IF k \in ui.hidden THEN ui.hidden \ {k} ELSE ui.hidden \cup {k}
<1>0. TabOk(ui, calls) /\ calls' = calls /\ ui' = [ui EXCEPT !.hidden = h, !.disk.hidden = h, !.ahead = @ \/ calls # {}]
  BY DEF TabInv, Tab!ToggleCol, Tab!Ticked
<1> HIDE DEF h
<1>1. /\ DOMAIN ui' = TabFields /\ ui'.order = ui.order /\ ui'.hidden = h /\ ui'.restored = ui.restored /\ ui'.table = ui.table
      /\ ui'.disk = [ui.disk EXCEPT !.hidden = h]
  BY <1>0 DEF TabOk, TabFields
<1>2. ui'.ahead = (ui.ahead \/ calls # {})
  BY <1>0 DEF TabOk, TabFields
<1>3. ui'.ahead \in BOOLEAN /\ (ui'.ahead <=> ui.ahead \/ calls # {})
  BY <1>2
<1>4. DOMAIN ui.disk = {"order", "hidden"}
  BY <1>0 DEF TabOk, IsChoice
<1>5. ui'.disk = [order |-> ui.disk.order, hidden |-> h]
  BY <1>1, <1>4
<1>6. IsChoice(ui'.disk)
  BY <1>5 DEF IsChoice
<1>7. ASSUME calls = {}, ~ui.ahead PROVE Tab!Table[ui'.table].picks = "none" \/ ui'.disk = Tab!Choice(ui')
  <2>1. Tab!Table[ui.table].picks = "none" \/ ui.disk = Tab!Choice(ui)
    BY <1>0, <1>7 DEF TabOk, KeptOk
  <2>2. ui.disk = Tab!Choice(ui) => ui.disk.order = ui.order
    BY DEF Tab!Choice
  <2>3. QED
    BY <1>1, <1>5, <2>1, <2>2 DEF Tab!Choice
<1>8. KeptOk(ui', calls')
  BY <1>0, <1>1, <1>3, <1>7 DEF KeptOk, TabOk
<1>9. {ui'.restored, ui'.ahead} \subseteq BOOLEAN
  BY <1>0, <1>1, <1>3 DEF TabOk
<1>10. QED
  BY <1>1, <1>6, <1>8, <1>9, TabNext DEF TabOk

LEMMA TabApply == ASSUME TabInv, Tab!Apply \/ Tab!Reset PROVE TabInv'
<1> DEFINE a == [ui EXCEPT !.order = [p \in DOMAIN ui.draft |-> ui.draft[p].key], !.draft = <<>>,
                           !.hidden = {ui.draft[p].key : p \in {q \in DOMAIN ui.draft : ~ui.draft[q].on}}]
           r == [ui EXCEPT !.order = Tab!Columns, !.hidden = {}, !.draft = <<>>]
<1>0. TabOk(ui, calls) /\ calls' = calls /\ \E u \in {a, r} : ui' = Tab!Written(u)
  BY DEF TabInv, Tab!Apply, Tab!Reset
<1>1. ASSUME NEW u \in {a, r} PROVE DOMAIN u = TabFields /\ u.disk = ui.disk /\ u.restored = ui.restored /\ u.ahead = ui.ahead
  BY <1>0 DEF TabOk, TabFields
<1> HIDE DEF a, r
<1>2. PICK u \in {a, r} : ui' = Tab!Written(u)
  BY <1>0
<1>3. DOMAIN u = TabFields /\ IsChoice(u.disk) /\ {u.restored, u.ahead} \subseteq BOOLEAN /\ (\A c, d \in calls : c = d) /\ (u.restored => calls = {})
  BY <1>0, <1>1 DEF TabOk, KeptOk
<1> DEFINE w == Tab!Written(u)
<1>4. TabOk(w, calls)
  BY <1>3, TabWritten
<1> HIDE DEF w
<1>5. ui' = w
  BY <1>2 DEF w
<1>6. TabOk(ui', calls')
  BY <1>0, <1>4, <1>5
<1>7. QED
  BY <1>6, TabNext

LEMMA TabReopen == ASSUME TabInv, Tab!Reopen PROVE TabInv'
<1>0. /\ TabOk(ui, calls) /\ calls' = Tab!Reading(ui)
      /\ ui' = [ui EXCEPT !.order = Tab!Columns, !.hidden = {}, !.restored = FALSE, !.ahead = FALSE,
                          !.sort = Tab!T.first, !.dir = -1, !.sector = Tab!Absent, !.rows = {}]
  BY DEF TabInv, Tab!Reopen
<1>1. DOMAIN ui' = TabFields /\ ui'.disk = ui.disk /\ ui'.restored = FALSE /\ ui'.ahead = FALSE /\ ui'.table = ui.table
  BY <1>0 DEF TabOk, TabFields
<1>2. Tab!Reading(ui') = Tab!Reading(ui) /\ IsChoice(ui'.disk)
  BY <1>0, <1>1 DEF Tab!Reading, TabOk
<1>3. TabOk(ui', Tab!Reading(ui'))
  BY <1>1, <1>2, TabReading
<1>4. QED
  BY <1>0, <1>2, <1>3, TabNext

\* Whatever else is done leaves the choice alone.
LEMMA TabElse ==
  ASSUME TabInv, NEW f, f \subseteq {"draft", "sort", "dir", "sector", "rows"},
         DOMAIN ui' = DOMAIN ui, \A k \in DOMAIN ui \ f : ui'[k] = ui[k], calls' = calls
  PROVE  TabInv'
<1>1. DOMAIN ui = TabFields
  BY DEF TabInv, TabOk
<1>2. /\ ui'["table"] = ui["table"] /\ ui'["disk"] = ui["disk"] /\ ui'["order"] = ui["order"] /\ ui'["hidden"] = ui["hidden"]
      /\ ui'["restored"] = ui["restored"] /\ ui'["ahead"] = ui["ahead"]
  BY <1>1 DEF TabFields
<1>3. TabOk(ui', calls)
  BY <1>2, TabSame DEF TabInv
<1>4. QED
  BY <1>3, TabNext

LEMMA TabStep == ASSUME TabInv, Tab!Next PROVE TabInv'
<1>0. DOMAIN ui = TabFields
  BY DEF TabInv, TabOk
<1>1. ASSUME NEW k, Tab!ToggleCol(k) PROVE TabInv'
  BY <1>1, TabTick
<1>2. ASSUME NEW k, Tab!OnSort(k) PROVE TabInv'
  <2>1. DOMAIN ui' = DOMAIN ui /\ (\A f \in DOMAIN ui \ {"sort", "dir"} : ui'[f] = ui[f]) /\ calls' = calls
    BY <1>2 DEF Tab!OnSort
  <2>2. {"sort", "dir"} \subseteq {"draft", "sort", "dir", "sector", "rows"}
    OBVIOUS
  <2>3. QED
    BY <2>1, <2>2, TabElse
<1>3. CASE Tab!Apply \/ Tab!Reset
  BY <1>3, TabApply
<1>4. CASE Tab!Reopen
  BY <1>4, TabReopen
<1>5. ASSUME Tab!OpenMenu \/ Tab!Cancel \/ (\E p \in DOMAIN ui.draft : Tab!TickDraft(p) \/ Tab!MoveColumn(p, p + 1) \/ Tab!MoveColumn(p, p - 1))
      PROVE  TabInv'
  <2>1. DOMAIN ui' = DOMAIN ui /\ (\A f \in DOMAIN ui \ {"draft"} : ui'[f] = ui[f]) /\ calls' = calls
    BY <1>5 DEF Tab!OpenMenu, Tab!Cancel, Tab!TickDraft, Tab!MoveColumn
  <2>2. {"draft"} \subseteq {"draft", "sort", "dir", "sector", "rows"}
    OBVIOUS
  <2>3. QED
    BY <2>1, <2>2, TabElse
<1>6. ASSUME NEW s, Tab!PickSector(s) PROVE TabInv'
  <2>1. DOMAIN ui' = DOMAIN ui /\ (\A f \in DOMAIN ui \ {"sector"} : ui'[f] = ui[f]) /\ calls' = calls
    BY <1>6 DEF Tab!PickSector
  <2>2. {"sector"} \subseteq {"draft", "sort", "dir", "sector", "rows"}
    OBVIOUS
  <2>3. QED
    BY <2>1, <2>2, TabElse
<1>7. ASSUME NEW S, Tab!RowsArrive(S) PROVE TabInv'
  <2>1. DOMAIN ui' = DOMAIN ui /\ (\A f \in DOMAIN ui \ {"rows"} : ui'[f] = ui[f]) /\ calls' = calls
    BY <1>7 DEF Tab!RowsArrive
  <2>2. {"rows"} \subseteq {"draft", "sort", "dir", "sector", "rows"}
    OBVIOUS
  <2>3. QED
    BY <2>1, <2>2, TabElse
<1>8. ASSUME NEW c \in Tab!Of({"read"}), Tab!Restored(c) PROVE TabInv'
  <2>1. c \in calls
    BY DEF Tab!Of
  <2>2. QED
    BY <1>8, <2>1, TabRestored
<1>9. QED
  BY <1>1, <1>2, <1>3, <1>4, <1>5, <1>6, <1>7, <1>8 DEF Tab!Next

LEMMA TabUnchanged == ASSUME TabInv, UNCHANGED client PROVE TabInv'
<1>1. ui' = ui /\ calls' = calls
  BY DEF client
<1>2. QED
  BY <1>1, TabNext DEF TabInv

LEMMA TabInit == ASSUME Tab!TablesAssumptions, Tab!Init PROVE TabInv
<1>1. PICK t \in DOMAIN Tab!Table, n \in BOOLEAN, d \in Choices \cup {Tab!Default} :
        LET u == [table |-> t, narrow |-> n, disk |-> d, order |-> Tab!Columns, hidden |-> {}, restored |-> FALSE, draft |-> <<>>,
                  sort |-> Tab!Table[t].first, dir |-> -1, sector |-> Tab!Absent, rows |-> {}, ahead |-> FALSE]
            found == IF Tab!Table[t].picks = "draft" THEN d ELSE [Tab!Default EXCEPT !.hidden = d.hidden]
            v == [u EXCEPT !.disk = found]
        IN /\ n => Tab!Table[t].narrow # "table"
           /\ d # Tab!Default => Tab!Table[t].picks # "none"
           /\ ui = v /\ calls = Tab!Reading(v) /\ steps = 0
  BY DEF Tab!Init
<1> DEFINE found == IF Tab!Table[t].picks = "draft" THEN d ELSE [Tab!Default EXCEPT !.hidden = d.hidden]
<1>2. IsChoice(d) /\ IsChoice([Tab!Default EXCEPT !.hidden = d.hidden])
  BY DEF Tab!TablesAssumptions, IsChoice, Tab!Default
<1>3. IsChoice(found)
  BY <1>2
<1> HIDE DEF found
<1>4. DOMAIN ui = TabFields /\ ui.disk = found /\ ui.restored = FALSE /\ ui.ahead = FALSE /\ calls = Tab!Reading(ui)
  BY <1>1 DEF TabFields, found
<1>5. QED
  BY <1>3, <1>4, TabReading DEF TabInv

LEMMA TabSound == TabInv => Tab!KeptIsShown
BY DEF TabInv, TabOk, KeptOk, Tab!KeptIsShown, Tab!T

LEMMA TabAlways == BooksSpec => [](focus = "tables" => TabInv)
<1>0. Tab!TablesAssumptions
  BY BooksAssumptions
<1>1. BooksInit => (focus = "tables" => TabInv)
  BY <1>0, TabInit DEF BooksInit
<1>2. (focus = "tables" => TabInv) /\ [BooksNext]_booksVars => (focus = "tables" => TabInv)'
  <2> SUFFICES ASSUME focus = "tables" => TabInv, [BooksNext]_booksVars, focus' = "tables" PROVE TabInv'
    OBVIOUS
  <2>1. focus = "tables"
    BY DEF BooksNext, booksVars
  <2>2. Tab!Next \/ UNCHANGED client
    BY <2>1 DEF BooksNext, booksVars
  <2>3. QED
    BY <2>1, <2>2, TabStep, TabUnchanged
<1>3. QED
  BY <1>1, <1>2, PTL DEF BooksSpec

-------------------------------------------------------------------------------
\* The cards.  What is not known is being asked for: a request for sectors has just those that are
\* missing, one for caps just the symbols on show, whatever was asked for before.
CardFields ==
  {"mode", "kept", "hydrated", "pending", "recs", "scanning", "error", "sort", "strat", "sector", "sec", "lost", "enr", "gave", "warm",
   "open", "detail", "asked"}
SecOk(f) == DOMAIN f = Tickers /\ \A s \in Tickers : f[s] \in {Card!Unasked, Card!Null, SectorOf[s]}
CardOk(u) ==
  /\ DOMAIN u = CardFields /\ u.recs \subseteq Recs /\ SecOk(u.sec)
  /\ u.hydrated => u.kept = u.mode
  /\ u.asked # 0 => u.mode = "long" /\ u.asked \in {u.sector, u.pending}
SectorsAsked(u, C) == u.lost \/ Card!Missing(u) = {} \/ \E c \in C : c.kind = "sectors" /\ c.of = Card!Missing(u)
CapsAsked(u, C) ==
  /\ \A c \in C : c.kind = "caps" => {"kind", "of"} \subseteq DOMAIN c /\ c.of = Card!ShownSyms(u)
  /\ u.gave \/ Card!ShownSyms(u) \subseteq u.enr \/ \E c \in C : c.kind = "caps" /\ c.of = Card!ShownSyms(u)
CardInv == CardOk(ui) /\ SectorsAsked(ui, calls) /\ CapsAsked(ui, calls)

\* What is on show and what is missing hang on a few fields.
LEMMA CardShows ==
  ASSUME NEW u, NEW v, v.mode = u.mode, v.recs = u.recs, v.strat = u.strat, v.sector = u.sector, v.sec = u.sec
  PROVE  Card!ShownSyms(v) = Card!ShownSyms(u) /\ Card!Missing(v) = Card!Missing(u)
<1>1. DOMAIN Card!LongShown(v) = DOMAIN Card!LongShown(u)
  BY DEF Card!LongShown
<1>2. DOMAIN Card!SwingShown(v) = DOMAIN Card!SwingShown(u)
  <2>1. CASE u.strat = "balanced"
    BY <2>1 DEF Card!SwingShown
  <2>2. CASE u.strat # "balanced"
    BY <2>2 DEF Card!SwingShown
  <2>3. QED
    BY <2>1, <2>2
<1>3. DOMAIN Card!InstShown(v) = DOMAIN Card!InstShown(u)
  BY DEF Card!InstShown
<1>4. DOMAIN Card!SmcShown(v) = DOMAIN Card!SmcShown(u)
  BY <1>3 DEF Card!SmcShown
<1>5. Card!OnShow(v) = Card!OnShow(u)
  <2>1. CASE u.mode = "long"
    BY <1>1, <2>1 DEF Card!OnShow, Card!ListOf
  <2>2. CASE u.mode = "short"
    BY <1>2, <2>2 DEF Card!OnShow, Card!ListOf
  <2>3. CASE u.mode = "inst"
    BY <1>3, <2>3 DEF Card!OnShow, Card!ListOf
  <2>4. CASE u.mode \notin {"long", "short", "inst"}
    BY <1>4, <2>4 DEF Card!OnShow, Card!ListOf
  <2>5. QED
    BY <2>1, <2>2, <2>3, <2>4
<1>6. QED
  BY <1>5 DEF Card!ShownSyms, Card!Missing

\* The next state has the invariant.
LEMMA CardNext == ASSUME CardOk(ui'), SectorsAsked(ui', calls'), CapsAsked(ui', calls') PROVE CardInv'
<1>1. CardOk(ui)'
  BY DEF CardOk, SecOk, CardFields
<1>2. SectorsAsked(ui, calls)' /\ CapsAsked(ui, calls)'
  BY DEF SectorsAsked, CapsAsked, Card!Missing, Card!ShownSyms, Card!OnShow, Card!ListOf, Card!LongShown, Card!SwingShown, Card!InstShown, Card!SmcShown
<1>3. QED
  BY <1>1, <1>2 DEF CardInv

\* Fields that no request hangs on, and what is asked, change apart.
LEMMA CardCalm ==
  ASSUME CardInv, NEW w, CardOk(w), w.mode = ui.mode, w.recs = ui.recs, w.strat = ui.strat, w.sector = ui.sector, w.sec = ui.sec,
         w.lost = ui.lost, w.enr = ui.enr, w.gave = ui.gave, ui' = w,
         \A c \in calls : c \in calls' \/ c.kind \notin {"sectors", "caps"},
         \A c \in calls' : c \in calls
  PROVE  CardInv'
<1>1. Card!ShownSyms(w) = Card!ShownSyms(ui) /\ Card!Missing(w) = Card!Missing(ui)
  BY CardShows
<1>2. SectorsAsked(w, calls')
  BY <1>1 DEF CardInv, SectorsAsked
<1>3. CapsAsked(w, calls')
  BY <1>1 DEF CardInv, CapsAsked
<1>4. QED
  BY <1>2, <1>3, CardNext

\* After a change.
LEMMA CardAfter ==
  ASSUME CardInv, NEW u, CardOk(u), NEW ran \in BOOLEAN, NEW anew \in BOOLEAN, Card!After(u, ran, anew),
         ~ran => Card!Missing(u) = Card!Missing(ui) /\ u.lost = ui.lost, u.enr = ui.enr, ~anew => u.gave = ui.gave
  PROVE  CardInv'
<1> DEFINE shown == Card!ShownSyms(u)
           missing == Card!Missing(u)
           moved == anew \/ shown # Card!ShownSyms(ui)
           sectors == [kind |-> "sectors", of |-> missing]
           caps == [kind |-> "caps", of |-> shown, round |-> 1, errs |-> 0]
<1>1. ui' = [u EXCEPT !.lost = @ /\ ~ran, !.gave = @ /\ ~moved]
  BY DEF Card!After
<1>2. calls' = Card!If(~ran, Card!Of({"sectors"})) \cup Card!If(~moved, Card!Of({"caps"})) \cup Card!Of({"mode"})
                 \cup Card!If(ran, Card!SectorCalls(u)) \cup Card!If(moved, Card!CapCalls(u))
  BY DEF Card!After
<1>3. Card!SectorCalls(u) = IF missing # {} THEN {sectors} ELSE {}
  BY DEF Card!SectorCalls, Card!If
<1>4. Card!CapCalls(u) = IF ~(shown \subseteq u.enr) THEN {caps} ELSE {}
  BY DEF Card!CapCalls, Card!If
<1>5. sectors.kind = "sectors" /\ sectors.of = missing /\ caps.kind = "caps" /\ caps.of = shown /\ {"kind", "of"} \subseteq DOMAIN caps
  OBVIOUS
<1> HIDE DEF sectors, caps
<1>6. /\ DOMAIN ui' = CardFields /\ ui'.mode = u.mode /\ ui'.recs = u.recs /\ ui'.strat = u.strat /\ ui'.sector = u.sector /\ ui'.sec = u.sec
      /\ ui'.enr = u.enr /\ ui'.hydrated = u.hydrated /\ ui'.kept = u.kept /\ ui'.asked = u.asked /\ ui'.pending = u.pending
  BY <1>1 DEF CardOk, CardFields
<1>7. ui'.lost = (u.lost /\ ~ran) /\ ui'.gave = (u.gave /\ ~moved)
  BY <1>1 DEF CardOk, CardFields
<1>8. Card!ShownSyms(ui') = shown /\ Card!Missing(ui') = missing
  BY <1>6, CardShows
<1> HIDE DEF shown, missing
<1>9. CardOk(ui')
  BY <1>6 DEF CardOk, SecOk
<1>10. SectorsAsked(ui', calls')
  <2>1. CASE ran
    <3>1. missing # {} => sectors \in calls'
      BY <1>2, <1>3, <2>1 DEF Card!If
    <3>2. QED
      BY <1>5, <1>8, <3>1 DEF SectorsAsked
  <2>2. CASE ~ran
    <3>1. missing = Card!Missing(ui) /\ u.lost = ui.lost
      BY <2>2 DEF missing
    <3>2. \A c \in calls : c.kind = "sectors" => c \in calls'
      BY <1>2, <2>2 DEF Card!If, Card!Of
    <3>3. ui'.lost <=> ui.lost
      BY <1>7, <2>2, <3>1
    <3>4. QED
      BY <1>8, <3>1, <3>2, <3>3 DEF CardInv, SectorsAsked
  <2>3. QED
    BY <2>1, <2>2
<1>11. CapsAsked(ui', calls')
  <2>1. CASE moved
    <3>1. \A c \in calls' : c.kind = "caps" => c = caps
      BY <1>2, <1>3, <1>4, <1>5, <2>1 DEF Card!If, Card!Of
    <3>2. ~(shown \subseteq u.enr) => caps \in calls'
      BY <1>2, <1>4, <2>1 DEF Card!If
    <3>3. QED
      BY <1>5, <1>6, <1>8, <3>1, <3>2 DEF CapsAsked
  <2>2. CASE ~moved
    <3>1. shown = Card!ShownSyms(ui) /\ u.gave = ui.gave
      BY <2>2
    <3>2. \A c \in calls : c.kind = "caps" => c \in calls'
      BY <1>2, <2>2 DEF Card!If, Card!Of
    <3>3. \A c \in calls' : c.kind = "caps" => c \in calls
      BY <1>2, <1>3, <1>5, <2>2 DEF Card!If, Card!Of
    <3>4. ui'.gave <=> ui.gave
      BY <1>7, <2>2, <3>1
    <3>5. QED
      BY <1>6, <1>8, <3>1, <3>2, <3>3, <3>4 DEF CardInv, CapsAsked
  <2>3. QED
    BY <2>1, <2>2
<1>12. QED
  BY <1>9, <1>10, <1>11, CardNext

\* A list that mounts asks for all it needs.
LEMMA CardFresh ==
  ASSUME NEW w, NEW M, \A c \in M : c.kind = "mode", NEW C, C = M \cup Card!SectorCalls(w) \cup Card!CapCalls(w)
  PROVE  SectorsAsked(w, C) /\ CapsAsked(w, C)
<1> DEFINE shown == Card!ShownSyms(w)
           missing == Card!Missing(w)
           sectors == [kind |-> "sectors", of |-> missing]
           caps == [kind |-> "caps", of |-> shown, round |-> 1, errs |-> 0]
<1>1. Card!SectorCalls(w) = IF missing # {} THEN {sectors} ELSE {}
  BY DEF Card!SectorCalls, Card!If
<1>2. Card!CapCalls(w) = IF ~(shown \subseteq w.enr) THEN {caps} ELSE {}
  BY DEF Card!CapCalls, Card!If
<1>3. sectors.kind = "sectors" /\ sectors.of = missing /\ caps.kind = "caps" /\ caps.of = shown /\ {"kind", "of"} \subseteq DOMAIN caps
  OBVIOUS
<1> HIDE DEF sectors, caps, shown, missing
<1>4. SectorsAsked(w, C)
  BY <1>1, <1>3 DEF SectorsAsked, missing
<1>5. CapsAsked(w, C)
  <2>1. \A c \in C : c.kind = "caps" => c = caps
    BY <1>1, <1>2, <1>3
  <2>2. shown \subseteq w.enr \/ caps \in C
    BY <1>2
  <2>3. QED
    BY <1>3, <2>1, <2>2 DEF CapsAsked, shown
<1>6. QED
  BY <1>4, <1>5

\* The lists mount with what their stores hold.
Settled(u) == DOMAIN u = CardFields
LEMMA CardMounts ==
  ASSUME NEW u, Settled(u), NEW m, NEW S, S \subseteq Recs, NEW v, v = Card!Mounts(u, m, S)
  PROVE  /\ DOMAIN v = CardFields /\ v.recs \subseteq Recs /\ SecOk(v.sec) /\ v.mode = m /\ v.enr = u.enr /\ v.kept = u.kept
         /\ v.hydrated = u.hydrated /\ v.asked = u.asked /\ (m = "long" => v.sector = u.pending /\ v.pending = 0)
<1>1. /\ DOMAIN v = CardFields /\ v.recs = S /\ v.sec = [s \in Tickers |-> Card!Unasked] /\ v.mode = m /\ v.enr = u.enr /\ v.kept = u.kept
      /\ v.hydrated = u.hydrated /\ v.asked = u.asked /\ (m = "long" => v.sector = u.pending /\ v.pending = 0)
  BY DEF Card!Mounts, Settled, CardFields
<1>2. QED
  BY <1>1 DEF SecOk

LEMMA CardOpened ==
  ASSUME NEW u, Settled(u), NEW s, NEW S, S \subseteq Recs, NEW w, w = Card!Opened(u, s, S)
  PROVE  CardOk(w) /\ w.hydrated = FALSE
<1> DEFINE x == [u EXCEPT !.pending = s]
           v == Card!Mounts(x, "long", S)
<1>1. w = [v EXCEPT !.hydrated = v.pending # 0, !.asked = s]
  BY DEF Card!Opened
<1>2. Settled(x) /\ x.pending = s
  BY DEF Settled, CardFields
<1> HIDE DEF x
<1>3. DOMAIN v = CardFields /\ v.recs \subseteq Recs /\ SecOk(v.sec) /\ v.mode = "long" /\ v.sector = s /\ v.pending = 0
  BY <1>2, CardMounts
<1> HIDE DEF v
<1>4. DOMAIN w = CardFields /\ w.recs = v.recs /\ w.sec = v.sec /\ w.mode = "long" /\ w.sector = s /\ w.asked = s /\ w.hydrated = (v.pending # 0)
  BY <1>1, <1>3 DEF CardFields
<1>5. w.hydrated = FALSE
  BY <1>3, <1>4
<1>6. QED
  BY <1>3, <1>4, <1>5 DEF CardOk

\* The mode is written down, and asked is what one came with.
LEMMA CardMode ==
  ASSUME NEW u, Settled(u), u.recs \subseteq Recs, SecOk(u.sec), NEW w, w = Card!Kept(u), u.asked # 0 => u.mode = "long" /\ u.asked \in {u.sector, u.pending}
  PROVE  CardOk(w) /\ w.mode = u.mode /\ w.recs = u.recs /\ w.strat = u.strat /\ w.sector = u.sector /\ w.sec = u.sec /\ w.enr = u.enr
         /\ w.lost = u.lost /\ w.gave = u.gave
<1>1. CASE u.hydrated
  <2>1. w = [u EXCEPT !.kept = u.mode]
    BY <1>1 DEF Card!Kept
  <2>2. /\ DOMAIN w = CardFields /\ w.mode = u.mode /\ w.recs = u.recs /\ w.strat = u.strat /\ w.sector = u.sector /\ w.sec = u.sec /\ w.enr = u.enr
        /\ w.kept = u.mode /\ w.asked = u.asked /\ w.pending = u.pending /\ w.lost = u.lost /\ w.gave = u.gave
    BY <2>1 DEF Settled, CardFields
  <2>3. QED
    BY <2>2 DEF CardOk
<1>2. CASE ~u.hydrated
  <2>1. w = u
    BY <1>2 DEF Card!Kept
  <2>2. QED
    BY <1>2, <2>1 DEF CardOk, Settled
<1>3. QED
  BY <1>1, <1>2

LEMMA CardStored == ASSUME Card!CardsAssumptions, NEW S \in Stores PROVE S \subseteq Recs
BY DEF Card!CardsAssumptions

LEMMA CardRead ==
  ASSUME Card!CardsAssumptions, CardInv, NEW c \in calls, c.kind = "mode", NEW S \in Stores, Card!ModeRead(c, S)
  PROVE  CardInv'
<1> DEFINE other == ui.kept \notin {"none", ui.mode}
           m == Card!Mounts(ui, ui.kept, S)
           b == IF other THEN m ELSE ui
           x == [b EXCEPT !.hydrated = TRUE, !.asked = IF other THEN 0 ELSE @]
           w == Card!Kept(x)
<1>0. CardOk(ui) /\ Settled(ui) /\ S \subseteq Recs
  BY CardStored DEF CardInv, CardOk, Settled
<1>1. ui' = w /\ calls' = IF other THEN Card!SectorCalls(w) \cup Card!CapCalls(w) ELSE calls \ {c}
  BY DEF Card!ModeRead
<1>2. CASE other
  <2>1. DOMAIN m = CardFields /\ m.recs \subseteq Recs /\ SecOk(m.sec)
    BY <1>0, CardMounts
  <2> HIDE DEF m
  <2>2. DOMAIN x = CardFields /\ x.recs = m.recs /\ x.sec = m.sec /\ x.asked = 0
    BY <1>2, <2>1 DEF CardFields
  <2> HIDE DEF x
  <2>3. CardOk(w)
    BY <2>1, <2>2, CardMode DEF Settled
  <2> HIDE DEF w
  <2> DEFINE M == {d \in calls : FALSE}
  <2>4. calls' = M \cup Card!SectorCalls(w) \cup Card!CapCalls(w) /\ \A d \in M : d.kind = "mode"
    BY <1>1, <1>2
  <2> HIDE DEF M
  <2>5. SectorsAsked(w, calls') /\ CapsAsked(w, calls')
    BY <2>4, CardFresh
  <2>6. QED
    BY <1>1, <2>3, <2>5, CardNext
<1>3. CASE ~other
  <2>1. /\ DOMAIN x = CardFields /\ x.mode = ui.mode /\ x.recs = ui.recs /\ x.strat = ui.strat /\ x.sector = ui.sector /\ x.sec = ui.sec
        /\ x.enr = ui.enr /\ x.asked = ui.asked /\ x.pending = ui.pending /\ x.lost = ui.lost /\ x.gave = ui.gave
    BY <1>0, <1>3 DEF Settled, CardFields
  <2> HIDE DEF x
  <2>2. Settled(x) /\ x.recs \subseteq Recs /\ SecOk(x.sec) /\ (x.asked # 0 => x.mode = "long" /\ x.asked \in {x.sector, x.pending})
    BY <1>0, <2>1 DEF CardOk, Settled
  <2>3. /\ CardOk(w) /\ w.mode = x.mode /\ w.recs = x.recs /\ w.strat = x.strat /\ w.sector = x.sector /\ w.sec = x.sec /\ w.enr = x.enr
        /\ w.lost = x.lost /\ w.gave = x.gave
    BY <2>2, CardMode
  <2> HIDE DEF w
  <2>4. calls' = calls \ {c}
    BY <1>1, <1>3
  <2>5. /\ \A d \in calls : d \in calls' \/ d.kind \notin {"sectors", "caps"}
        /\ \A d \in calls' : d \in calls
    BY <2>4
  <2>6. /\ w.mode = ui.mode /\ w.recs = ui.recs /\ w.strat = ui.strat /\ w.sector = ui.sector /\ w.sec = ui.sec
        /\ w.lost = ui.lost /\ w.enr = ui.enr /\ w.gave = ui.gave /\ ui' = w
    BY <1>1, <2>1, <2>3
  <2>7. QED
    BY <2>3, <2>5, <2>6, CardCalm
<1>4. QED
  BY <1>2, <1>3

LEMMA CardSetMode == ASSUME Card!CardsAssumptions, CardInv, NEW m, NEW S \in Stores, Card!SetMode(m, S) PROVE CardInv'
<1> DEFINE v == Card!Kept(Card!Mounts(ui, m, S))
           u == [v EXCEPT !.asked = 0]
           b == Card!Mounts(ui, m, S)
<1>0. Settled(ui) /\ S \subseteq Recs /\ Card!After(u, TRUE, TRUE)
  BY CardStored DEF CardInv, CardOk, Settled, Card!SetMode
<1>1. /\ DOMAIN b = CardFields /\ b.recs \subseteq Recs /\ SecOk(b.sec) /\ b.enr = ui.enr
  BY <1>0, CardMounts
<1>2. v = Card!Kept(b)
  OBVIOUS
<1> HIDE DEF b
<1>3. v = (IF b.hydrated THEN [b EXCEPT !.kept = b.mode] ELSE b)
  BY <1>2 DEF Card!Kept
<1> HIDE DEF v
<1>4. /\ DOMAIN v = CardFields /\ v.recs = b.recs /\ v.sec = b.sec /\ v.enr = b.enr /\ v.mode = b.mode /\ v.hydrated = b.hydrated
      /\ (b.hydrated => v.kept = v.mode)
  <2>1. CASE b.hydrated
    BY <1>1, <1>3, <2>1 DEF CardFields
  <2>2. CASE ~b.hydrated
    BY <1>1, <1>3, <2>2
  <2>3. QED
    BY <2>1, <2>2
<1>5. DOMAIN u = CardFields /\ u.recs = v.recs /\ u.sec = v.sec /\ u.enr = v.enr /\ u.mode = v.mode /\ u.hydrated = v.hydrated /\ u.kept = v.kept /\ u.asked = 0
  BY <1>4 DEF CardFields
<1> HIDE DEF u
<1>6. CardOk(u) /\ u.enr = ui.enr
  BY <1>1, <1>4, <1>5 DEF CardOk
<1>7. QED
  BY <1>0, <1>6, CardAfter

LEMMA CardArrives == ASSUME Card!CardsAssumptions, CardInv, NEW s, NEW S \in Stores, Card!NavArrives(s, S) PROVE CardInv'
<1> DEFINE u == [ui EXCEPT !.pending = s, !.asked = s]
           b == Card!Mounts(u, "long", S)
           w == Card!Kept(b)
<1>0. CardOk(ui) /\ S \subseteq Recs /\ IF ui.mode = "long" THEN Card!After(u, FALSE, FALSE) ELSE Card!After(w, TRUE, TRUE)
  BY CardStored DEF CardInv, Card!NavArrives
<1>1. /\ DOMAIN u = CardFields /\ u.mode = ui.mode /\ u.recs = ui.recs /\ u.strat = ui.strat /\ u.sector = ui.sector /\ u.sec = ui.sec
      /\ u.enr = ui.enr /\ u.lost = ui.lost /\ u.gave = ui.gave /\ u.hydrated = ui.hydrated /\ u.kept = ui.kept /\ u.asked = s /\ u.pending = s
  BY <1>0 DEF CardOk, CardFields
<1> HIDE DEF u
<1>2. CASE ui.mode = "long"
  <2>1. CardOk(u)
    BY <1>0, <1>1, <1>2 DEF CardOk
  <2>2. Card!Missing(u) = Card!Missing(ui)
    BY <1>1, CardShows
  <2>3. Card!After(u, FALSE, FALSE)
    BY <1>0, <1>2
  <2>4. QED
    BY <1>1, <2>1, <2>2, <2>3, CardAfter
<1>3. CASE ui.mode # "long"
  <2>1. DOMAIN b = CardFields /\ b.recs \subseteq Recs /\ SecOk(b.sec) /\ b.mode = "long" /\ b.enr = u.enr /\ b.asked = u.asked /\ b.sector = u.pending
    BY <1>0, <1>1, CardMounts DEF Settled
  <2> HIDE DEF b
  <2>2. Settled(b) /\ b.recs \subseteq Recs /\ SecOk(b.sec) /\ (b.asked # 0 => b.mode = "long" /\ b.asked \in {b.sector, b.pending})
    BY <1>1, <2>1 DEF Settled
  <2>3. CardOk(w) /\ w.enr = b.enr
    BY <2>2, CardMode
  <2> HIDE DEF w
  <2>4. Card!After(w, TRUE, TRUE) /\ w.enr = ui.enr
    BY <1>0, <1>1, <1>3, <2>1, <2>3
  <2>5. QED
    BY <2>3, <2>4, CardAfter
<1>4. QED
  BY <1>2, <1>3

LEMMA CardReopen == ASSUME Card!CardsAssumptions, CardInv, NEW s, NEW S \in Stores, Card!Reopen(s, S) PROVE CardInv'
<1> DEFINE w == Card!Opened(ui, s, S)
           M == Card!If(~w.hydrated, {[kind |-> "mode"]})
<1>0. Settled(ui) /\ S \subseteq Recs
  BY CardStored DEF CardInv, CardOk, Settled
<1>1. ui' = w /\ calls' = Card!If(~ui'.hydrated, {[kind |-> "mode"]}) \cup Card!SectorCalls(ui') \cup Card!CapCalls(ui')
  BY DEF Card!Reopen
<1>2. CardOk(w)
  BY <1>0, CardOpened
<1> HIDE DEF w
<1>3. \A c \in M : c.kind = "mode"
  BY DEF Card!If
<1>4. calls' = M \cup Card!SectorCalls(w) \cup Card!CapCalls(w)
  BY <1>1
<1> HIDE DEF M
<1>5. SectorsAsked(w, calls') /\ CapsAsked(w, calls')
  BY <1>3, <1>4, CardFresh
<1>6. QED
  BY <1>1, <1>2, <1>5, CardNext

\* A scan, the strategies, the sectors: the list on show changes.
LEMMA CardScan ==
  ASSUME Card!CardsAssumptions, CardInv,
         \/ \E r \in Recs, q \in BOOLEAN : Card!Analysed(r, q)
         \/ \E bad \in BOOLEAN : Card!ScanEnds(bad)
         \/ \E k : Card!SetStrat(k)
         \/ \E s : Card!SetSector(s)
         \/ \E c \in calls : Card!SectorsArrive(c)
  PROVE  CardInv'
<1>0. CardOk(ui) /\ DOMAIN ui = CardFields
  BY DEF CardInv, CardOk
<1>1. ASSUME NEW r \in Recs, NEW q \in BOOLEAN, Card!Analysed(r, q) PROVE CardInv'
  <2> DEFINE u == [ui EXCEPT !.recs = {x \in @ : x.sym # r.sym} \cup Card!If(q, {r})]
  <2>1. Card!After(u, TRUE, FALSE)
    BY <1>1 DEF Card!Analysed
  <2>2. /\ DOMAIN u = CardFields /\ u.mode = ui.mode /\ u.sector = ui.sector /\ u.sec = ui.sec /\ u.recs = {x \in ui.recs : x.sym # r.sym} \cup Card!If(q, {r})
        /\ u.enr = ui.enr /\ u.gave = ui.gave /\ u.hydrated = ui.hydrated /\ u.kept = ui.kept /\ u.asked = ui.asked /\ u.pending = ui.pending
    BY <1>0 DEF CardFields
  <2> HIDE DEF u
  <2>3. u.recs \subseteq Recs
    BY <1>0, <2>2 DEF Card!If, CardOk
  <2>4. CardOk(u)
    BY <1>0, <2>2, <2>3 DEF CardOk
  <2>5. QED
    BY <2>1, <2>2, <2>4, CardAfter
<1>2. ASSUME NEW bad \in BOOLEAN, Card!ScanEnds(bad) PROVE CardInv'
  <2> DEFINE u == [ui EXCEPT !.scanning = FALSE, !.error = bad]
  <2>1. Card!After(u, ~bad, FALSE)
    BY <1>2 DEF Card!ScanEnds
  <2>2. /\ DOMAIN u = CardFields /\ u.mode = ui.mode /\ u.sector = ui.sector /\ u.sec = ui.sec /\ u.recs = ui.recs /\ u.strat = ui.strat
        /\ u.enr = ui.enr /\ u.gave = ui.gave /\ u.hydrated = ui.hydrated /\ u.kept = ui.kept /\ u.asked = ui.asked /\ u.pending = ui.pending
        /\ u.lost = ui.lost
    BY <1>0 DEF CardFields
  <2> HIDE DEF u
  <2>3. CardOk(u)
    BY <1>0, <2>2 DEF CardOk
  <2>4. Card!Missing(u) = Card!Missing(ui)
    BY <2>2, CardShows
  <2>5. (~bad) \in BOOLEAN
    <3>1. CASE bad = TRUE
      BY <3>1
    <3>2. CASE bad = FALSE
      BY <3>2
    <3>3. QED
      BY <3>1, <3>2
  <2>6. QED
    BY <2>1, <2>2, <2>3, <2>4, <2>5, CardAfter
<1>3. ASSUME NEW k, Card!SetStrat(k) PROVE CardInv'
  <2> DEFINE u == [ui EXCEPT !.strat = k]
  <2>1. Card!After(u, FALSE, FALSE)
    BY <1>3 DEF Card!SetStrat
  <2>2. /\ DOMAIN u = CardFields /\ u.mode = ui.mode /\ u.sector = ui.sector /\ u.sec = ui.sec /\ u.recs = ui.recs
        /\ u.enr = ui.enr /\ u.gave = ui.gave /\ u.hydrated = ui.hydrated /\ u.kept = ui.kept /\ u.asked = ui.asked /\ u.pending = ui.pending
        /\ u.lost = ui.lost
    BY <1>0 DEF CardFields
  <2> HIDE DEF u
  <2>3. CardOk(u)
    BY <1>0, <2>2 DEF CardOk
  <2>4. Card!Missing(u) = Card!Missing(ui)
    BY <2>2 DEF Card!Missing
  <2>5. QED
    BY <2>1, <2>2, <2>3, <2>4, CardAfter
<1>4. ASSUME NEW s, Card!SetSector(s) PROVE CardInv'
  <2> DEFINE u == [ui EXCEPT !.sector = IF @ = s THEN 0 ELSE s, !.asked = 0]
  <2>1. Card!After(u, FALSE, FALSE)
    BY <1>4 DEF Card!SetSector
  <2>2. /\ DOMAIN u = CardFields /\ u.mode = ui.mode /\ u.sec = ui.sec /\ u.recs = ui.recs
        /\ u.enr = ui.enr /\ u.gave = ui.gave /\ u.hydrated = ui.hydrated /\ u.kept = ui.kept /\ u.asked = 0
        /\ u.lost = ui.lost
    BY <1>0 DEF CardFields
  <2> HIDE DEF u
  <2>3. CardOk(u)
    BY <1>0, <2>2 DEF CardOk
  <2>4. Card!Missing(u) = Card!Missing(ui)
    BY <2>2 DEF Card!Missing
  <2>5. QED
    BY <2>1, <2>2, <2>3, <2>4, CardAfter
<1>5. ASSUME NEW c \in calls, Card!SectorsArrive(c) PROVE CardInv'
  <2> DEFINE u == [ui EXCEPT !.sec = [s \in Tickers |-> IF s \notin c.of THEN @[s] ELSE IF s \in ui.warm THEN SectorOf[s] ELSE Card!Null]]
  <2>1. Card!After(u, TRUE, FALSE)
    BY <1>5 DEF Card!SectorsArrive
  <2>2. /\ DOMAIN u = CardFields /\ u.mode = ui.mode /\ u.recs = ui.recs /\ u.strat = ui.strat /\ u.sector = ui.sector
        /\ u.sec = [s \in Tickers |-> IF s \notin c.of THEN ui.sec[s] ELSE IF s \in ui.warm THEN SectorOf[s] ELSE Card!Null]
        /\ u.enr = ui.enr /\ u.gave = ui.gave /\ u.hydrated = ui.hydrated /\ u.kept = ui.kept /\ u.asked = ui.asked /\ u.pending = ui.pending
    BY <1>0 DEF CardFields
  <2> HIDE DEF u
  <2>3. SecOk(u.sec)
    BY <1>0, <2>2 DEF SecOk, CardOk
  <2>4. CardOk(u)
    BY <1>0, <2>2, <2>3 DEF CardOk
  <2>5. QED
    BY <2>1, <2>2, <2>4, CardAfter
<1>6. QED
  BY <1>1, <1>2, <1>3, <1>4, <1>5

\* The caps come, or do not: what is asked is what is on show, so a request that goes on is for it.
LEMMA CardAgain ==
  ASSUME CardInv, NEW c \in calls, c.kind = "caps", NEW errs, NEW enr, ui.enr \subseteq enr, Card!Again(c, errs, enr)
  PROVE  CardInv'
<1> DEFINE more == c.round < MaxRounds.cards /\ errs <= 0 /\ ~(c.of \subseteq enr)
           w == [ui EXCEPT !.enr = enr, !.gave = ~more /\ ~(c.of \subseteq enr)]
           d == [c EXCEPT !.round = @ + 1, !.errs = errs]
<1>0. CardOk(ui) /\ SectorsAsked(ui, calls) /\ CapsAsked(ui, calls)
  BY DEF CardInv
<1>1. ui' = w /\ calls' = (calls \ {c}) \cup (IF more THEN {d} ELSE {})
  BY DEF Card!Again, Card!If
<1>2. {"kind", "of"} \subseteq DOMAIN c /\ c.of = Card!ShownSyms(ui)
  BY <1>0 DEF CapsAsked
<1>3. d.kind = "caps" /\ d.of = c.of /\ {"kind", "of"} \subseteq DOMAIN d
  BY <1>2
<1> HIDE DEF d
<1>4. /\ DOMAIN w = CardFields /\ w.mode = ui.mode /\ w.recs = ui.recs /\ w.strat = ui.strat /\ w.sector = ui.sector /\ w.sec = ui.sec
      /\ w.enr = enr /\ w.hydrated = ui.hydrated /\ w.kept = ui.kept /\ w.asked = ui.asked /\ w.pending = ui.pending /\ w.lost = ui.lost
  BY <1>0 DEF CardOk, CardFields
<1>5. w.gave = (~more /\ ~(c.of \subseteq enr))
  BY <1>0 DEF CardOk, CardFields
<1> HIDE DEF w, more
<1>6. Card!ShownSyms(w) = Card!ShownSyms(ui) /\ Card!Missing(w) = Card!Missing(ui)
  BY <1>4, CardShows
<1>7. CardOk(w)
  BY <1>0, <1>4 DEF CardOk
<1>8. SectorsAsked(w, calls')
  <2>1. \A x \in calls : x.kind = "sectors" => x \in calls'
    BY <1>1
  <2>2. QED
    BY <1>0, <1>4, <1>6, <2>1 DEF SectorsAsked
<1>9. CapsAsked(w, calls')
  <2>1. \A x \in calls' : x \in calls \/ x = d
    BY <1>1
  <2>2. \A x \in calls' : x.kind = "caps" => {"kind", "of"} \subseteq DOMAIN x /\ x.of = Card!ShownSyms(w)
    BY <1>0, <1>2, <1>3, <1>6, <2>1 DEF CapsAsked
  <2>3. CASE more
    BY <1>1, <1>2, <1>3, <1>6, <2>2, <2>3 DEF CapsAsked
  <2>4. CASE ~more
    <3>1. w.gave \/ c.of \subseteq enr
      BY <1>5, <2>4
    <3>2. QED
      BY <1>2, <1>4, <1>6, <2>2, <3>1 DEF CapsAsked
  <2>5. QED
    BY <2>3, <2>4
<1>10. QED
  BY <1>1, <1>7, <1>8, <1>9, CardNext

LEMMA CardFails == ASSUME CardInv, NEW c \in calls, c.kind = "sectors", Card!SectorsFail(c) PROVE CardInv'
<1> DEFINE w == [ui EXCEPT !.lost = TRUE]
<1>0. CardOk(ui) /\ CapsAsked(ui, calls) /\ ui' = w /\ calls' = calls \ {c}
  BY DEF CardInv, Card!SectorsFail
<1>1. /\ DOMAIN w = CardFields /\ w.mode = ui.mode /\ w.recs = ui.recs /\ w.strat = ui.strat /\ w.sector = ui.sector /\ w.sec = ui.sec
      /\ w.enr = ui.enr /\ w.hydrated = ui.hydrated /\ w.kept = ui.kept /\ w.asked = ui.asked /\ w.pending = ui.pending /\ w.lost = TRUE
      /\ w.gave = ui.gave
  BY <1>0 DEF CardOk, CardFields
<1> HIDE DEF w
<1>2. CardOk(w)
  BY <1>0, <1>1 DEF CardOk
<1>3. SectorsAsked(w, calls')
  BY <1>1 DEF SectorsAsked
<1>4. CapsAsked(w, calls')
  <2>1. Card!ShownSyms(w) = Card!ShownSyms(ui)
    BY <1>1, CardShows
  <2>2. \A x \in calls : x.kind = "caps" => x \in calls'
    BY <1>0
  <2>3. QED
    BY <1>0, <1>1, <2>1, <2>2 DEF CapsAsked
<1>5. QED
  BY <1>0, <1>2, <1>3, <1>4, CardNext

\* What else the user does, and what the server comes to know, asks for nothing.
LEMMA CardElse ==
  ASSUME CardInv, NEW f, f \subseteq {"warm", "scanning", "error", "sort", "open", "detail"},
         DOMAIN ui' = DOMAIN ui, \A k \in DOMAIN ui \ f : ui'[k] = ui[k], calls' = calls
  PROVE  CardInv'
<1> DEFINE w == ui'
<1>1. DOMAIN ui = CardFields
  BY DEF CardInv, CardOk
<1>2. /\ w["mode"] = ui["mode"] /\ w["recs"] = ui["recs"] /\ w["strat"] = ui["strat"] /\ w["sector"] = ui["sector"] /\ w["sec"] = ui["sec"]
      /\ w["lost"] = ui["lost"] /\ w["enr"] = ui["enr"] /\ w["gave"] = ui["gave"] /\ w["hydrated"] = ui["hydrated"] /\ w["kept"] = ui["kept"]
      /\ w["asked"] = ui["asked"] /\ w["pending"] = ui["pending"]
  BY <1>1 DEF CardFields
<1>3. /\ w.mode = ui.mode /\ w.recs = ui.recs /\ w.strat = ui.strat /\ w.sector = ui.sector /\ w.sec = ui.sec
      /\ w.lost = ui.lost /\ w.enr = ui.enr /\ w.gave = ui.gave /\ w.hydrated = ui.hydrated /\ w.kept = ui.kept
      /\ w.asked = ui.asked /\ w.pending = ui.pending /\ DOMAIN w = CardFields
  BY <1>1, <1>2
<1>w. ui' = w
  OBVIOUS
<1> HIDE DEF w
<1>4. CardOk(w)
  BY <1>3 DEF CardOk, CardInv
<1>5. /\ \A c \in calls : c \in calls' \/ c.kind \notin {"sectors", "caps"}
      /\ \A c \in calls' : c \in calls
  OBVIOUS
<1>6. QED
  BY <1>3, <1>4, <1>5, <1>w, CardCalm

LEMMA CardStep == ASSUME Card!CardsAssumptions, CardInv, Card!Next PROVE CardInv'
<1>0. DOMAIN ui = CardFields
  BY DEF CardInv, CardOk
<1>1. ASSUME NEW k, Card!SetSort(k) PROVE CardInv'
  <2>1. DOMAIN ui' = DOMAIN ui /\ (\A f \in DOMAIN ui \ {"sort"} : ui'[f] = ui[f]) /\ calls' = calls
    BY <1>1 DEF Card!SetSort
  <2>2. {"sort"} \subseteq {"warm", "scanning", "error", "sort", "open", "detail"}
    OBVIOUS
  <2>3. QED
    BY <2>1, <2>2, CardElse
<1>2. ASSUME Card!Close \/ Card!OnChart \/ \E r : Card!Open(r) PROVE CardInv'
  <2>1. DOMAIN ui' = DOMAIN ui /\ (\A f \in DOMAIN ui \ {"open", "detail"} : ui'[f] = ui[f]) /\ calls' = calls
    BY <1>2 DEF Card!Close, Card!OnChart, Card!Open
  <2>2. {"open", "detail"} \subseteq {"warm", "scanning", "error", "sort", "open", "detail"}
    OBVIOUS
  <2>3. QED
    BY <2>1, <2>2, CardElse
<1>3. ASSUME Card!ScanBegins PROVE CardInv'
  <2>1. DOMAIN ui' = DOMAIN ui /\ (\A f \in DOMAIN ui \ {"scanning", "error"} : ui'[f] = ui[f]) /\ calls' = calls
    BY <1>3 DEF Card!ScanBegins
  <2>2. {"scanning", "error"} \subseteq {"warm", "scanning", "error", "sort", "open", "detail"}
    OBVIOUS
  <2>3. QED
    BY <2>1, <2>2, CardElse
<1>4. ASSUME NEW s, Card!Warms(s) PROVE CardInv'
  <2>1. DOMAIN ui' = DOMAIN ui /\ (\A f \in DOMAIN ui \ {"warm"} : ui'[f] = ui[f]) /\ calls' = calls
    BY <1>4 DEF Card!Warms
  <2>2. {"warm"} \subseteq {"warm", "scanning", "error", "sort", "open", "detail"}
    OBVIOUS
  <2>3. QED
    BY <2>1, <2>2, CardElse
<1>5. ASSUME NEW c \in Card!Of({"sectors"}), Card!SectorsArrive(c) \/ Card!SectorsFail(c) PROVE CardInv'
  <2>1. c \in calls /\ c.kind = "sectors"
    BY DEF Card!Of
  <2>2. QED
    BY <1>5, <2>1, CardScan, CardFails
<1>6. ASSUME NEW c \in Card!Of({"caps"}), Card!CapsArrive(c) \/ Card!CapsFail(c) PROVE CardInv'
  <2>1. c \in calls /\ c.kind = "caps"
    BY DEF Card!Of
  <2>2. CASE Card!CapsArrive(c)
    <3> DEFINE enr == ui.enr \cup (c.of \cap ui.warm)
    <3>1. Card!Again(c, 0, enr) /\ ui.enr \subseteq enr
      BY <2>2 DEF Card!CapsArrive
    <3> HIDE DEF enr
    <3>2. QED
      BY <2>1, <3>1, CardAgain
  <2>3. CASE Card!CapsFail(c)
    <3>1. Card!Again(c, c.errs + 1, ui.enr) /\ ui.enr \subseteq ui.enr
      BY <2>3 DEF Card!CapsFail
    <3>2. QED
      BY <2>1, <3>1, CardAgain
  <2>4. QED
    BY <1>6, <2>2, <2>3
<1>7. ASSUME NEW c \in Card!Of({"mode"}), NEW S \in Stores, Card!ModeRead(c, S) PROVE CardInv'
  <2>1. c \in calls /\ c.kind = "mode"
    BY DEF Card!Of
  <2>2. QED
    BY <1>7, <2>1, CardRead
<1>8. CASE Card!Controls
  BY <1>1, <1>2, <1>8, CardScan DEF Card!Controls
<1>9. CASE (\E bad \in BOOLEAN : Card!ScanEnds(bad)) \/ (\E r \in Recs, q \in BOOLEAN : Card!Analysed(r, q))
  BY <1>9, CardScan
<1>10. ASSUME NEW S \in Stores, (\E m : Card!SetMode(m, S)) \/ (\E s : Card!NavArrives(s, S)) \/ (\E s : Card!Reopen(s, S)) PROVE CardInv'
  BY <1>10, CardSetMode, CardArrives, CardReopen
<1>11. QED
  BY <1>3, <1>4, <1>5, <1>6, <1>7, <1>8, <1>9, <1>10 DEF Card!Next

LEMMA CardUnchanged == ASSUME CardInv, UNCHANGED client PROVE CardInv'
<1>1. ui' = ui /\ calls' = calls
  BY DEF client
<1>2. QED
  BY <1>1, CardNext DEF CardInv

LEMMA CardInit == ASSUME Card!CardsAssumptions, Card!Init PROVE CardInv
<1> DEFINE Blank(k) == [Card!Blankscreen EXCEPT !.kept = k]
<1>1. PICK s \in Card!Sectors \cup {0}, k \in Modes \cup {"none"}, S \in Stores : ui = Card!Opened(Blank(k), s, S)
  BY DEF Card!Init
<1>2. calls = {[kind |-> "mode"]} \cup Card!SectorCalls(ui) \cup Card!CapCalls(ui)
  BY DEF Card!Init
<1>3. Settled(Blank(k)) /\ S \subseteq Recs
  BY CardStored DEF Settled, CardFields, Card!Blankscreen
<1> DEFINE b == Blank(k)
           w == Card!Opened(b, s, S)
<1> HIDE DEF Blank
<1>4. CardOk(w)
  BY <1>3, CardOpened
<1>5. ui = w
  BY <1>1
<1> HIDE DEF w
<1> DEFINE M == {[kind |-> "mode"]}
<1>6. calls = M \cup Card!SectorCalls(w) \cup Card!CapCalls(w) /\ \A c \in M : c.kind = "mode"
  BY <1>2, <1>5
<1> HIDE DEF M
<1>7. SectorsAsked(w, calls) /\ CapsAsked(w, calls)
  BY <1>6, CardFresh
<1>8. QED
  BY <1>4, <1>5, <1>7 DEF CardInv

LEMMA CardSound == ASSUME Card!CardsAssumptions PROVE CardInv => Card!ModeIsKept /\ Card!SectorLands /\ Card!UnknownIsAsked
<1> SUFFICES ASSUME CardInv PROVE Card!ModeIsKept /\ Card!SectorLands /\ Card!UnknownIsAsked
  OBVIOUS
<1>1. Card!ModeIsKept /\ Card!SectorLands
  BY DEF CardInv, CardOk, Card!ModeIsKept, Card!SectorLands
<1>2. ui.lost \/ Card!Missing(ui) = {} \/ \E c \in Card!Of({"sectors"}) : c.of = Card!Missing(ui)
  BY DEF CardInv, SectorsAsked, Card!Of
<1>3. ui.gave \/ Card!ShownSyms(ui) \subseteq ui.enr \/ \E c \in Card!Of({"caps"}) : c.of = Card!ShownSyms(ui)
  BY DEF CardInv, CapsAsked, Card!Of
<1>4. ASSUME ui.mode = "long", ui.sector # 0, NEW r \in ui.recs, SectorOf[r.sym] = ui.sector,
             Card!Keeps(Card!LONG_STRATEGIES[ui.strat], r), r.sym \notin Card!ShownSyms(ui)
      PROVE  ui.sec[r.sym] \in {Card!Unasked, Card!Null}
  <2>1. r.sym \in Tickers /\ SecOk(ui.sec)
    BY DEF CardInv, CardOk, Card!CardsAssumptions
  <2>2. Card!OnShow(ui) = DOMAIN Card!LongShown(ui)
    BY <1>4 DEF Card!OnShow, Card!ListOf
  <2>3. r \notin DOMAIN Card!LongShown(ui)
    BY <1>4, <2>2 DEF Card!ShownSyms
  <2>4. ui.sec[r.sym] # ui.sector
    BY <1>4, <2>3 DEF Card!LongShown
  <2>5. QED
    BY <1>4, <2>1, <2>4 DEF SecOk
<1>5. QED
  BY <1>1, <1>2, <1>3, <1>4 DEF Card!UnknownIsAsked

LEMMA CardAlways == BooksSpec => [](focus = "cards" => CardInv)
<1>0. Card!CardsAssumptions
  BY BooksAssumptions
<1>1. BooksInit => (focus = "cards" => CardInv)
  BY <1>0, CardInit DEF BooksInit
<1>2. (focus = "cards" => CardInv) /\ [BooksNext]_booksVars => (focus = "cards" => CardInv)'
  <2> SUFFICES ASSUME focus = "cards" => CardInv, [BooksNext]_booksVars, focus' = "cards" PROVE CardInv'
    OBVIOUS
  <2>1. focus = "cards"
    BY DEF BooksNext, booksVars
  <2>2. Card!Next \/ UNCHANGED client
    BY <2>1 DEF BooksNext, booksVars
  <2>3. QED
    BY <1>0, <2>1, <2>2, CardStep, CardUnchanged
<1>3. QED
  BY <1>1, <1>2, PTL DEF BooksSpec

-------------------------------------------------------------------------------
\* The chat.  An answer to a poll is a stretch of its conversation without a gap; all up to the
\* cursor of the thread, and up to that of each poll under way, is on show or known to be lost;
\* and while no two requests overlapped, there is one at most and it goes on from the last message.
Spots == Talk!Convs \cup {0}
Note == [conv : Spots, mine : BOOLEAN]
Increasing(f) == \A j, k \in DOMAIN f : j < k => f[j] < f[k]
FreshOk(f, conv, n, h) ==
  /\ f \in Seq(1..Len(h))
  /\ \A k \in DOMAIN f : h[f[k]].conv = conv /\ f[k] > n
  /\ Increasing(f)
  /\ f # <<>> => \A x \in 1..Len(h) : h[x].conv = conv /\ x > n /\ x <= f[Len(f)] => \E k \in DOMAIN f : f[k] = x

ChatFields ==
  {"me", "view", "conv", "mount", "log", "reads", "msgs", "loaded", "since", "sending", "rows", "lost", "seen", "overlapped", "replaced", "late"}
PollFields == {"kind", "k", "mount", "conv", "since", "first", "served", "fresh"}
SendFields == {"kind", "mount", "conv", "stored"}
Base(u) ==
  /\ DOMAIN u = ChatFields
  /\ u.log \in Seq(Note) /\ u.mount \in Nat /\ u.conv \in Spots
  /\ u.msgs \in Seq(1..Len(u.log)) /\ u.since \in 0..Len(u.log)
  /\ {u.loaded, u.overlapped, u.replaced} \subseteq BOOLEAN
ReadsOk(u) == DOMAIN u.reads = Talk!Convs /\ \A k \in Talk!Convs : u.reads[k] \in u.seen \cup {0} \/ k \in u.late
CallOk(u, S, c) ==
  /\ c.kind \in {"join", "overview", "dm", "poll", "read", "send"}
  /\ c.kind = "poll" =>
       /\ DOMAIN c = PollFields /\ c.mount \in Nat /\ c.mount <= u.mount /\ c.conv \in Spots /\ c.since \in 0..Len(u.log)
       /\ {c.first, c.served} \subseteq BOOLEAN
       /\ c.served => FreshOk(c.fresh, c.conv, c.since, u.log)
  /\ c.kind = "send" =>
       /\ DOMAIN c = SendFields /\ c.mount \in Nat /\ c.mount <= u.mount /\ c.conv \in Spots /\ c.stored \in 0..Len(u.log)
       /\ c.stored # 0 => u.log[c.stored].conv = c.conv
  /\ c.kind = "read" => c.last \in S \/ c.conv \in u.late
Ours(u, c) == c.kind \in {"poll", "send"} /\ c.mount = u.mount
Known(u, x) == x \in u.lost \/ \E k \in DOMAIN u.msgs : u.msgs[k] = x
KnownUpTo(u, n) == \A x \in 1..Len(u.log) : u.log[x].conv = u.conv /\ x <= n => Known(u, x)
Stretch(u) == (\A k \in DOMAIN u.msgs : u.log[u.msgs[k]].conv = u.conv) /\ KnownUpTo(u, u.since)
InOrder(u) == Increasing(u.msgs) /\ \A k \in DOMAIN u.msgs : u.msgs[k] <= u.since
OneSpot(u, C) == \A c \in C : Ours(u, c) => c.conv = u.conv /\ (c.kind = "poll" => KnownUpTo(u, c.since))
AfterLast(u, c) == (c.kind = "poll" => c.since = u.since) /\ (c.kind = "send" /\ c.stored # 0 => \A k \in DOMAIN u.msgs : u.msgs[k] < c.stored)
OneByOne(u, C) == \A c \in C : Ours(u, c) => AfterLast(u, c) /\ \A d \in C : Ours(u, d) => d = c
Waits(u, C) == ~u.loaded => \E c \in C : c.kind = "poll" /\ c.mount = u.mount /\ c.first
ThreadOk(u, C) ==
  /\ ~u.replaced => Stretch(u) /\ OneSpot(u, C)
  /\ ~u.replaced /\ ~u.overlapped => InOrder(u) /\ OneByOne(u, C)
  /\ Waits(u, C)
ChatOk(u, C) == Base(u) /\ ReadsOk(u) /\ (\A c \in C : CallOk(u, u.seen, c)) /\ (u.view = "thread" => ThreadOk(u, C))
ChatInv == ChatOk(ui, calls)

LEMMA ChatCard == ASSUME NEW S PROVE Talk!Cardinality(S) = Cardinality(S)
BY DEF Talk!Cardinality, Cardinality, Talk!IsFiniteSet, IsFiniteSet

\* What a poll is answered with.
LEMMA ChatFetched ==
  ASSUME Talk!ChatAssumptions, NEW u, u.log \in Seq(Note), NEW conv, NEW n, NEW f, f = Talk!Messages(u, conv, n)
  PROVE  FreshOk(f, conv, n, u.log)
<1> DEFINE h == u.log
           s == [x \in DOMAIN h |-> x]
           after == {x \in DOMAIN h : h[x].conv = conv /\ x > n}
           Lower(y) == {x \in after : x < y}
           first == {x \in after : Talk!Cardinality(Lower(x)) < Limit}
           D == 1..Len(h)
<1>1. Len(h) \in Nat /\ DOMAIN h = D
  BY LenProperties
<1>2. f = Places(s, first)
  <2>1. f = Talk!Places(s, first)
    BY DEF Talk!Messages
  <2> HIDE DEF s, first
  <2>2. Talk!Places(s, first) = Places(s, first)
    BY DEF Talk!Places, Places
  <2>3. QED
    BY <2>1, <2>2
<1>3. s \in Seq(D) /\ Len(s) = Len(h) /\ \A x \in D : s[x] = x
  <2>1. s \in [1..Len(h) -> D]
    BY <1>1
  <2>2. s \in Seq(D)
    BY <1>1, <2>1, SeqDef
  <2>3. DOMAIN s = 1..Len(s) /\ Len(s) \in Nat
    BY <2>2, LenProperties
  <2>4. Len(s) = Len(h)
    BY <1>1, <2>1, <2>3
  <2>5. QED
    BY <1>1, <2>2, <2>4
<1>4. \A x \in after : x \in D /\ h[x].conv = conv /\ x > n
  BY <1>1
<1>5. \A x \in D : h[x].conv = conv /\ x > n => x \in after
  BY <1>1
<1> HIDE DEF s
<1>6. ASSUME NEW x \in after, NEW y \in first, x <= y PROVE x \in first
  <2>1. y \in after /\ Talk!Cardinality(Lower(y)) < Limit
    OBVIOUS
  <2>2. Lower(x) \in SUBSET Lower(y)
    <3>1. x \in Int /\ y \in Int
      BY <1>1, <1>4, <2>1
    <3>2. \A z \in after : z \in Int
      BY <1>1, <1>4
    <3>3. QED
      BY <1>6, <3>1, <3>2
  <2>3. IsFiniteSet(Lower(y))
    <3>1. IsFiniteSet(D)
      BY <1>1, FS_Interval
    <3>2. Lower(y) \in SUBSET D
      BY <1>4
    <3> HIDE DEF Lower, D
    <3>3. QED
      BY <3>1, <3>2, FS_Subset
  <2> DEFINE A == Lower(x)
             B == Lower(y)
  <2> HIDE DEF A, B
  <2>4. Cardinality(A) <= Cardinality(B) /\ Cardinality(A) \in Nat /\ Cardinality(B) \in Nat
    <3>1. IsFiniteSet(B) /\ A \in SUBSET B
      BY <2>2, <2>3 DEF A, B
    <3>2. QED
      BY <3>1, FS_Subset, FS_CardinalityType
  <2>5. Cardinality(B) < Limit /\ Limit \in Nat
    BY <2>1, ChatCard DEF Talk!ChatAssumptions, B
  <2>6. Cardinality(A) < Limit
    BY <2>4, <2>5
  <2>7. QED
    BY <2>6, ChatCard DEF A
<1>7. \A y \in first : y \in after
  OBVIOUS
<1> HIDE DEF first, after
<1>8. f \in Seq(D) /\ Picks(f, s, Among(Len(s), first))
  BY <1>2, <1>3, PlacesPick
<1>9. PICK g \in [1..Len(f) -> Among(Len(s), first)] :
        /\ \A k \in 1..Len(f) : f[k] = s[g[k]]
        /\ \A j, k \in 1..Len(f) : j < k => g[j] < g[k]
        /\ \A x \in Among(Len(s), first) : \E k \in 1..Len(f) : g[k] = x
  BY <1>8 DEF Picks
<1>10. ASSUME NEW k \in 1..Len(f) PROVE g[k] \in D /\ g[k] \in first /\ f[k] = g[k]
  <2>1. g[k] \in 1..Len(s) /\ g[k] \in first
    BY <1>9 DEF Among
  <2>2. f[k] = s[g[k]]
    BY <1>9
  <2> HIDE DEF first, after
  <2>3. QED
    BY <1>3, <2>1, <2>2
<1>11. Len(f) \in Nat /\ DOMAIN f = 1..Len(f)
  BY <1>8, LenProperties
<1>12. Increasing(f)
  BY <1>9, <1>10, <1>11 DEF Increasing
<1>13. \A k \in DOMAIN f : h[f[k]].conv = conv /\ f[k] > n
  BY <1>4, <1>7, <1>10, <1>11
<1>14. ASSUME f # <<>>, NEW x \in D, h[x].conv = conv, x > n, x <= f[Len(f)] PROVE \E k \in DOMAIN f : f[k] = x
  <2>1. Len(f) \in 1..Len(f)
    BY <1>8, <1>11, <1>14, EmptySeq
  <2>2. f[Len(f)] \in first
    BY <1>10, <2>1
  <2>3. x \in first
    BY <1>5, <1>6, <1>14, <2>2
  <2>4. x \in Among(Len(s), first)
    BY <1>3, <2>3 DEF Among
  <2>5. QED
    BY <1>9, <1>10, <1>11, <2>4
<1>15. QED
  BY <1>8, <1>12, <1>13, <1>14 DEF FreshOk

\* The next state has the invariant.
LEMMA ChatNext == ASSUME ChatOk(ui', calls') PROVE ChatInv'
BY DEF ChatInv, ChatOk, Base, ReadsOk, CallOk, FreshOk, Increasing, ThreadOk, Stretch, InOrder, OneSpot, OneByOne, AfterLast, Waits, KnownUpTo, Known, Ours, ChatFields,
       PollFields, SendFields, Note, Spots, Talk!Convs

\* Requests that are gone, and fields that none of this hangs on.
SameThread(u, v) ==
  /\ DOMAIN v = DOMAIN u /\ v.log = u.log /\ v.mount = u.mount /\ v.conv = u.conv /\ v.msgs = u.msgs /\ v.since = u.since /\ v.lost = u.lost
  /\ v.loaded = u.loaded /\ v.replaced = u.replaced
LEMMA ChatCall ==
  ASSUME NEW u, NEW v, NEW S, NEW T, NEW c, CallOk(u, S, c), v.log = u.log, u.mount <= v.mount, u.mount \in Nat, v.mount \in Nat,
         S \subseteq T, u.late \subseteq v.late
  PROVE  CallOk(v, T, c)
BY DEF CallOk

LEMMA ChatThread ==
  ASSUME NEW u, NEW v, SameThread(u, v), NEW C, ThreadOk(u, C), v.overlapped = u.overlapped,
         NEW E, \A c \in E : Ours(u, c) => c \in C,
         \A c \in C : c.kind = "poll" /\ c.mount = u.mount /\ c.first => c \in E \/ u.loaded
  PROVE  ThreadOk(v, E)
<1>1. \A c : Ours(v, c) <=> Ours(u, c)
  BY DEF SameThread, Ours
<1>2. \A n : KnownUpTo(v, n) <=> KnownUpTo(u, n)
  BY DEF SameThread, KnownUpTo, Known
<1>3. Stretch(u) => Stretch(v)
  BY <1>2 DEF SameThread, Stretch
<1>4. OneSpot(u, C) => OneSpot(v, E)
  BY <1>1, <1>2 DEF SameThread, OneSpot
<1>5. InOrder(u) => InOrder(v)
  BY DEF SameThread, InOrder
<1>6. OneByOne(u, C) => OneByOne(v, E)
  BY <1>1 DEF SameThread, OneByOne, AfterLast
<1>7. Waits(v, E)
  BY DEF ThreadOk, Waits, SameThread
<1>8. QED
  BY <1>3, <1>4, <1>5, <1>6, <1>7 DEF ThreadOk, SameThread

\* Away from a thread, or back to it with its requests.
LEMMA ChatCalm ==
  ASSUME ChatInv, NEW w, ui' = w, SameThread(ui, w), w.overlapped = ui.overlapped, ReadsOk(w), ui.seen \subseteq w.seen, ui.late \subseteq w.late,
         w.view = "thread" => ui.view = "thread",
         \A c \in calls' : c \in calls \/ c.kind \in {"join", "overview", "dm"} \/ (c.kind = "read" /\ (c.last \in w.seen \/ c.conv \in w.late)),
         \A c \in calls : c.kind = "poll" /\ c.mount = ui.mount /\ c.first => c \in calls' \/ ui.loaded \/ ui.view # "thread"
  PROVE  ChatInv'
<1>0. Base(ui) /\ (\A c \in calls : CallOk(ui, ui.seen, c)) /\ (ui.view = "thread" => ThreadOk(ui, calls))
  BY DEF ChatInv, ChatOk
<1>1. Base(w)
  BY <1>0 DEF Base, SameThread
<1>2. ASSUME NEW c \in calls' PROVE CallOk(w, w.seen, c)
  <2>1. CASE c \in calls
    <3>1. CallOk(ui, ui.seen, c) /\ ui.mount \in Nat /\ w.mount = ui.mount /\ w.log = ui.log
      BY <1>0, <2>1 DEF Base, SameThread
    <3>2. ui.mount <= w.mount /\ w.mount \in Nat
      BY <3>1
    <3>3. QED
      BY <3>1, <3>2, ChatCall
  <2>2. CASE c \notin calls
    BY <2>2 DEF CallOk
  <2>3. QED
    BY <2>1, <2>2
<1>3. ASSUME w.view = "thread" PROVE ThreadOk(w, calls')
  <2>1. ThreadOk(ui, calls) /\ ui.view = "thread"
    BY <1>0, <1>3
  <2>2. \A c \in calls' : Ours(ui, c) => c \in calls
    BY DEF Ours
  <2>3. QED
    BY <2>1, <2>2, ChatThread
<1>4. ChatOk(ui', calls')
  BY <1>1, <1>2, <1>3 DEF ChatOk
<1>5. QED
  BY <1>4, ChatNext

\* What is shown changed: a poll goes out, from the cursor as it is now.
LEMMA ChatRenewed ==
  ASSUME NEW u, NEW C, Base(u), ReadsOk(u), u.view = "thread" \/ u.view # "thread", Talk!Renewed(u, C),
         \A c \in C : CallOk(u, u.seen \cup Talk!Range(u.msgs), c),
         ~u.replaced => Stretch(u) /\ OneSpot(u, C),
         ~u.replaced /\ ~u.overlapped => InOrder(u)
  PROVE  ChatInv'
<1> DEFINE p == Talk!Poll(u)
           run == Talk!Running(u, C)
           w == [u EXCEPT !.overlapped = @ \/ run, !.seen = @ \cup Talk!Range(u.msgs)]
<1>1. ui' = w /\ calls' = C \cup {p}
  BY DEF Talk!Renewed
<1>2. /\ DOMAIN p = PollFields /\ p.kind = "poll" /\ p.mount = u.mount /\ p.conv = u.conv /\ p.since = u.since /\ p.first = ~u.loaded
      /\ p.served = FALSE
  BY DEF Talk!Poll, PollFields
<1>3. run <=> \E c \in C : Ours(u, c)
  BY DEF Talk!Running, Ours
<1> HIDE DEF p, run
<1>4. /\ SameThread(u, w) /\ w.view = u.view /\ w.reads = u.reads /\ w.late = u.late /\ w.seen = u.seen \cup Talk!Range(u.msgs)
  BY DEF Base, ChatFields, SameThread
<1>5. w.overlapped = (u.overlapped \/ run)
  BY DEF Base, ChatFields
<1> HIDE DEF w
<1>6. w.overlapped \in BOOLEAN /\ (w.overlapped <=> u.overlapped \/ run)
  BY <1>5
<1>7. Base(w)
  BY <1>4, <1>6 DEF Base, SameThread
<1>8. ReadsOk(w)
  BY <1>4 DEF ReadsOk
<1>9. CallOk(w, w.seen, p)
  <2>1. p.first \in BOOLEAN /\ p.served \in BOOLEAN
    BY <1>2
  <2>2. p.mount \in Nat /\ p.mount <= w.mount /\ p.conv \in Spots /\ p.since \in 0..Len(w.log)
    BY <1>2, <1>4 DEF SameThread, Base
  <2>3. QED
    BY <1>2, <2>1, <2>2 DEF CallOk
<1>10. ASSUME NEW c \in C PROVE CallOk(w, w.seen, c)
  <2>1. CallOk(u, w.seen, c) /\ w.log = u.log /\ w.mount = u.mount /\ u.mount \in Nat /\ u.late \subseteq w.late
    BY <1>4 DEF SameThread, Base
  <2>2. u.mount <= w.mount /\ w.mount \in Nat /\ w.seen \subseteq w.seen
    BY <2>1
  <2>3. QED
    BY <2>1, <2>2, ChatCall
<1>11. \A n : KnownUpTo(w, n) <=> KnownUpTo(u, n)
  BY <1>4 DEF SameThread, KnownUpTo, Known
<1>12. \A c : Ours(w, c) <=> Ours(u, c)
  BY <1>4 DEF SameThread, Ours
<1>13. ASSUME ~w.replaced PROVE Stretch(w) /\ OneSpot(w, calls')
  <2>1. Stretch(u) /\ OneSpot(u, C)
    BY <1>4, <1>13 DEF SameThread
  <2>2. Stretch(w)
    BY <1>4, <1>11, <2>1 DEF SameThread, Stretch
  <2>3. p.conv = w.conv /\ KnownUpTo(w, p.since)
    BY <1>2, <1>4, <1>11, <2>1 DEF SameThread, Stretch
  <2>4. QED
    BY <1>1, <1>4, <1>11, <1>12, <2>1, <2>2, <2>3 DEF OneSpot, SameThread
<1>14. ASSUME ~w.replaced, ~w.overlapped PROVE InOrder(w) /\ OneByOne(w, calls')
  <2>1. InOrder(u) /\ ~run
    BY <1>4, <1>6, <1>14 DEF SameThread
  <2>2. \A c \in calls' : Ours(w, c) => c = p
    BY <1>1, <1>3, <1>12, <2>1
  <2>3. AfterLast(w, p)
    BY <1>2, <1>4 DEF AfterLast, SameThread
  <2>4. QED
    BY <1>4, <2>1, <2>2, <2>3 DEF InOrder, OneByOne, SameThread
<1>15. Waits(w, calls')
  <2>1. p.first <=> ~u.loaded
    BY <1>2
  <2>2. QED
    BY <1>1, <1>2, <1>4, <2>1 DEF Waits, SameThread
<1>16. ChatOk(ui', calls')
  BY <1>1, <1>7, <1>8, <1>9, <1>10, <1>13, <1>14, <1>15 DEF ChatOk, ThreadOk
<1>17. QED
  BY <1>16, ChatNext

\* A conversation grows at its end.
LEMMA ChatGrown ==
  ASSUME NEW h \in Seq(Note), NEW e \in Note, NEW g, g = Append(h, e)
  PROVE  /\ g \in Seq(Note) /\ Len(h) \in Nat /\ Len(g) = Len(h) + 1 /\ DOMAIN g = 1..Len(g) /\ DOMAIN h = 1..Len(h)
         /\ g[Len(g)] = e /\ \A x \in 1..Len(h) : g[x] = h[x]
<1>1. Len(h) \in Nat /\ DOMAIN h = 1..Len(h)
  BY LenProperties
<1>2. g \in Seq(Note) /\ Len(g) = Len(h) + 1 /\ (\A x \in 1..Len(h) : g[x] = h[x]) /\ g[Len(h) + 1] = e
  BY AppendProperties
<1>3. DOMAIN g = 1..Len(g)
  BY <1>2, LenProperties
<1>4. QED
  BY <1>1, <1>2, <1>3

LEMMA ChatPosted ==
  ASSUME NEW u, NEW C, ChatOk(u, C), NEW e \in Note, NEW w, w = [u EXCEPT !.log = Append(@, e)]
  PROVE  /\ ChatOk(w, C) /\ w.msgs = u.msgs /\ w.seen = u.seen /\ w.late = u.late /\ w.mount = u.mount
         /\ u.msgs \in Seq(1..Len(u.log)) /\ Len(u.log) \in Nat /\ Len(w.log) = Len(u.log) + 1 /\ w.log[Len(w.log)] = e
<1> DEFINE h == u.log
           g == Append(h, e)
<1>1. Base(u) /\ ReadsOk(u) /\ (\A c \in C : CallOk(u, u.seen, c)) /\ (u.view = "thread" => ThreadOk(u, C))
  BY DEF ChatOk
<1>2. h \in Seq(Note)
  BY <1>1 DEF Base
<1>3. w.log = g /\ DOMAIN w = DOMAIN u /\ \A f \in ChatFields \ {"log"} : w[f] = u[f]
  BY <1>1 DEF Base, ChatFields
<1>4. /\ w.mount = u.mount /\ w.conv = u.conv /\ w.msgs = u.msgs /\ w.since = u.since /\ w.lost = u.lost /\ w.view = u.view
      /\ w.loaded = u.loaded /\ w.replaced = u.replaced /\ w.overlapped = u.overlapped
      /\ w.reads = u.reads /\ w.seen = u.seen /\ w.late = u.late
  BY <1>3 DEF ChatFields
<1> HIDE DEF g
<1>5. /\ g \in Seq(Note) /\ Len(h) \in Nat /\ Len(g) = Len(h) + 1 /\ DOMAIN g = 1..Len(g) /\ DOMAIN h = 1..Len(h)
      /\ g[Len(g)] = e /\ \A x \in 1..Len(h) : g[x] = h[x]
  <2>1. g = Append(h, e)
    BY DEF g
  <2> HIDE DEF h
  <2>2. QED
    BY <1>2, <2>1, ChatGrown
<1>6. \A x \in 1..Len(h) : x \in 1..Len(g)
  BY <1>5
<1>7. \A x \in 0..Len(h) : x \in 0..Len(g)
  BY <1>5
<1>8. ASSUME NEW f \in Seq(1..Len(h)) PROVE f \in Seq(1..Len(g)) /\ Len(f) \in Nat /\ DOMAIN f = 1..Len(f) /\ \A k \in DOMAIN f : f[k] \in 1..Len(h)
  <2>1. Len(f) \in Nat /\ DOMAIN f = 1..Len(f) /\ \A k \in 1..Len(f) : f[k] \in 1..Len(h)
    BY LenProperties, ElementOfSeq
  <2>2. f \in [1..Len(f) -> 1..Len(g)]
    <3>1. f \in [1..Len(f) -> 1..Len(h)]
      BY LenProperties
    <3>2. QED
      BY <1>6, <3>1
  <2> HIDE DEF h, g
  <2>3. f \in Seq(1..Len(g))
    <3>1. f \in UNION {[1..x -> 1..Len(g)] : x \in Nat}
      BY <2>1, <2>2
    <3>2. QED
      BY <3>1, SeqDef
  <2>4. QED
    BY <2>1, <2>3
<1>9. Base(w)
  <2>1. w.msgs \in Seq(1..Len(w.log)) /\ w.since \in 0..Len(w.log)
    BY <1>1, <1>3, <1>4, <1>7, <1>8 DEF Base
  <2>2. QED
    BY <1>1, <1>3, <1>4, <1>5, <2>1 DEF Base
<1>10. ReadsOk(w)
  BY <1>1, <1>4 DEF ReadsOk
<1>11. ASSUME NEW f, NEW conv, NEW n, FreshOk(f, conv, n, h) PROVE FreshOk(f, conv, n, g)
  <2>1. f \in Seq(1..Len(h)) /\ Increasing(f) /\ \A k \in DOMAIN f : h[f[k]].conv = conv /\ f[k] > n
    BY <1>11 DEF FreshOk
  <2>2. f \in Seq(1..Len(g)) /\ Len(f) \in Nat /\ DOMAIN f = 1..Len(f) /\ \A k \in DOMAIN f : f[k] \in 1..Len(h)
    BY <1>8, <2>1
  <2>3. \A k \in DOMAIN f : g[f[k]].conv = conv /\ f[k] > n
    BY <1>5, <2>1, <2>2
  <2>4. ASSUME f # <<>>, NEW x \in 1..Len(g), g[x].conv = conv, x > n, x <= f[Len(f)] PROVE \E k \in DOMAIN f : f[k] = x
    <3>1. Len(f) \in DOMAIN f
      BY <2>1, <2>2, <2>4, EmptySeq
    <3>2. f[Len(f)] \in 1..Len(h)
      BY <2>2, <3>1
    <3>3. x \in 1..Len(h)
      BY <1>5, <2>4, <3>2
    <3>4. h[x].conv = conv
      BY <1>5, <2>4, <3>3
    <3>5. QED
      BY <1>11, <2>4, <3>3, <3>4 DEF FreshOk
  <2>5. QED
    BY <2>1, <2>2, <2>3, <2>4 DEF FreshOk
<1>12. ASSUME NEW c \in C PROVE CallOk(w, w.seen, c)
  <2>1. CallOk(u, u.seen, c)
    BY <1>1
  <2>2. c.kind = "send" /\ c.stored # 0 => w.log[c.stored].conv = c.conv
    <3> SUFFICES ASSUME c.kind = "send", c.stored # 0 PROVE w.log[c.stored].conv = c.conv
      OBVIOUS
    <3>1. c.stored \in 0..Len(h) /\ c.stored # 0 /\ h[c.stored].conv = c.conv
      BY <2>1 DEF CallOk
    <3>2. c.stored \in 1..Len(h)
      BY <1>5, <3>1
    <3>3. QED
      BY <1>3, <1>5, <3>1, <3>2
  <2>3. (c.kind = "poll" => c.since \in 0..Len(w.log)) /\ (c.kind = "send" => c.stored \in 0..Len(w.log))
    BY <1>3, <1>7, <2>1 DEF CallOk
  <2>4. c.kind = "poll" /\ c.served => FreshOk(c.fresh, c.conv, c.since, w.log)
    BY <1>3, <1>11, <2>1 DEF CallOk
  <2> HIDE DEF h
  <2>5. QED
    BY <1>4, <2>1, <2>2, <2>3, <2>4 DEF CallOk
<1>13. \A x : Known(w, x) <=> Known(u, x)
  BY <1>4 DEF Known
<1>14. ASSUME NEW n \in 0..Len(h), KnownUpTo(u, n) PROVE KnownUpTo(w, n)
  <2>1. SUFFICES ASSUME NEW x \in 1..Len(g), g[x].conv = u.conv, x <= n PROVE Known(u, x)
    BY <1>3, <1>4, <1>13 DEF KnownUpTo
  <2>2. x \in 1..Len(h)
    BY <1>5, <2>1
  <2>3. h[x].conv = u.conv
    BY <1>5, <2>1, <2>2
  <2>4. QED
    BY <1>14, <2>1, <2>2, <2>3 DEF KnownUpTo
<1>15. \A c : Ours(w, c) <=> Ours(u, c)
  BY <1>4 DEF Ours
<1>16. Stretch(u) => Stretch(w)
  <2> SUFFICES ASSUME Stretch(u) PROVE Stretch(w)
    OBVIOUS
  <2>1. u.msgs \in Seq(1..Len(h)) /\ u.since \in 0..Len(h)
    BY <1>1 DEF Base
  <2>2. \A k \in DOMAIN w.msgs : w.log[w.msgs[k]].conv = w.conv
    <3>1. ASSUME NEW k \in DOMAIN u.msgs PROVE g[u.msgs[k]].conv = u.conv
      <4>1. u.msgs[k] \in 1..Len(h)
        BY <1>8, <2>1
      <4>2. h[u.msgs[k]].conv = u.conv
        BY DEF Stretch
      <4>3. QED
        BY <1>5, <4>1, <4>2
    <3>2. QED
      BY <1>3, <1>4, <3>1
  <2>3. KnownUpTo(w, w.since)
    BY <1>4, <1>14, <2>1 DEF Stretch
  <2>4. QED
    BY <2>2, <2>3 DEF Stretch
<1>17. OneSpot(u, C) => OneSpot(w, C)
  <2> SUFFICES ASSUME OneSpot(u, C), NEW c \in C, Ours(u, c) PROVE c.conv = u.conv /\ (c.kind = "poll" => KnownUpTo(w, c.since))
    BY <1>4, <1>15 DEF OneSpot
  <2>1. c.conv = u.conv /\ (c.kind = "poll" => KnownUpTo(u, c.since))
    BY DEF OneSpot
  <2>2. c.kind = "poll" => c.since \in 0..Len(h)
    BY <1>1 DEF CallOk
  <2>3. QED
    BY <1>14, <2>1, <2>2
<1>18. InOrder(u) => InOrder(w)
  BY <1>4 DEF InOrder
<1>19. OneByOne(u, C) => OneByOne(w, C)
  BY <1>4, <1>15 DEF OneByOne, AfterLast
<1>20. Waits(u, C) => Waits(w, C)
  BY <1>4 DEF Waits
<1>21. u.view = "thread" => ThreadOk(w, C)
  BY <1>1, <1>4, <1>16, <1>17, <1>18, <1>19, <1>20 DEF ThreadOk
<1>22. ChatOk(w, C)
  BY <1>4, <1>9, <1>10, <1>12, <1>21 DEF ChatOk
<1>23. u.msgs \in Seq(1..Len(u.log)) /\ Len(u.log) \in Nat /\ Len(w.log) = Len(u.log) + 1 /\ w.log[Len(w.log)] = e
  BY <1>1, <1>3, <1>5 DEF Base
<1>24. QED
  BY <1>4, <1>22, <1>23

\* A request that was answered or stored, in the place of what it was.
LEMMA ChatSwap ==
  ASSUME NEW u, NEW C, ChatOk(u, C), NEW c \in C, NEW d, d.kind = c.kind, d.mount = c.mount, d.conv = c.conv, CallOk(u, u.seen, d),
         c.kind = "poll" => d.since = c.since /\ d.first = c.first,
         c.kind = "send" => d.stored = 0 \/ \A k \in DOMAIN u.msgs : u.msgs[k] < d.stored,
         NEW E, E = (C \ {c}) \cup {d}
  PROVE  ChatOk(u, E)
<1>1. Base(u) /\ ReadsOk(u) /\ (\A x \in C : CallOk(u, u.seen, x)) /\ (u.view = "thread" => ThreadOk(u, C))
  BY DEF ChatOk
<1>2. Ours(u, d) <=> Ours(u, c)
  BY DEF Ours
<1>3. OneSpot(u, C) => OneSpot(u, E)
  BY <1>2 DEF OneSpot
<1>4. OneByOne(u, C) => OneByOne(u, E)
  <2> SUFFICES ASSUME OneByOne(u, C) PROVE OneByOne(u, E)
    OBVIOUS
  <2>1. ASSUME Ours(u, d) PROVE AfterLast(u, d)
    <3>1. AfterLast(u, c)
      BY <1>2, <2>1 DEF OneByOne
    <3>2. QED
      BY <3>1 DEF AfterLast
  <2>2. ASSUME NEW x \in E, Ours(u, x) PROVE AfterLast(u, x)
    BY <2>1, <2>2 DEF OneByOne
  <2>3. ASSUME NEW x \in E, NEW y \in E, Ours(u, x), Ours(u, y) PROVE x = y
    BY <1>2, <2>3 DEF OneByOne
  <2>4. QED
    BY <2>2, <2>3 DEF OneByOne
<1>5. Waits(u, C) => Waits(u, E)
  BY DEF Waits
<1>6. u.view = "thread" => ThreadOk(u, E)
  BY <1>1, <1>3, <1>4, <1>5 DEF ThreadOk
<1>7. \A x \in E : CallOk(u, u.seen, x)
  BY <1>1
<1>8. QED
  BY <1>1, <1>6, <1>7 DEF ChatOk


LEMMA ChatStored ==
  ASSUME ChatInv, NEW c \in calls, c.kind = "send", Talk!Stored(c)
  PROVE  ChatInv'
<1> DEFINE e == [conv |-> c.conv, mine |-> TRUE]
           w == [ui EXCEPT !.log = Append(@, e)]
           d == [c EXCEPT !.stored = Len(ui.log) + 1]
           E == (calls \ {c}) \cup {d}
<1>1. ui' = w /\ calls' = E
  BY DEF Talk!Stored, Talk!Post
<1>2. ChatOk(ui, calls) /\ CallOk(ui, ui.seen, c)
  BY DEF ChatInv, ChatOk
<1>3. DOMAIN c = SendFields /\ c.mount \in Nat /\ c.mount <= ui.mount /\ c.conv \in Spots
  BY <1>2 DEF CallOk
<1>4. e \in Note
  BY <1>3 DEF Note
<1>5. e.conv = c.conv
  OBVIOUS
<1>6. d.kind = c.kind /\ d.mount = c.mount /\ d.conv = c.conv /\ d.stored = Len(ui.log) + 1 /\ DOMAIN d = SendFields
  BY <1>3 DEF SendFields
<1> HIDE DEF d, e
<1>7. w = [ui EXCEPT !.log = Append(@, e)]
  OBVIOUS
<1> HIDE DEF w
<1>8. /\ ChatOk(w, calls) /\ w.msgs = ui.msgs /\ w.seen = ui.seen /\ w.late = ui.late /\ w.mount = ui.mount
      /\ ui.msgs \in Seq(1..Len(ui.log)) /\ Len(ui.log) \in Nat /\ Len(w.log) = Len(ui.log) + 1 /\ w.log[Len(w.log)] = e
  BY <1>2, <1>4, <1>7, ChatPosted
<1>9. CallOk(w, w.seen, d)
  <2>1. d.stored = Len(w.log) /\ d.stored \in 0..Len(w.log)
    BY <1>6, <1>8
  <2>2. w.log[d.stored].conv = d.conv
    BY <1>5, <1>6, <1>8, <2>1
  <2>3. QED
    BY <1>3, <1>6, <1>8, <2>1, <2>2 DEF CallOk
<1>10. \A k \in DOMAIN w.msgs : w.msgs[k] < d.stored
  <2>1. \A k \in DOMAIN w.msgs : w.msgs[k] \in 1..Len(ui.log)
    BY <1>8, LenProperties, ElementOfSeq
  <2>2. QED
    BY <1>6, <1>8, <2>1
<1>11. ChatOk(w, E)
  BY <1>6, <1>8, <1>9, <1>10, ChatSwap
<1>12. QED
  BY <1>1, <1>11, ChatNext

LEMMA ChatOthersPost ==
  ASSUME ChatInv, NEW conv \in Talk!Convs, Talk!OthersPost(conv)
  PROVE  ChatInv'
<1> DEFINE e == [conv |-> conv, mine |-> FALSE]
           w == [ui EXCEPT !.log = Append(@, e)]
<1>1. ui' = w /\ calls' = calls
  BY DEF Talk!OthersPost, Talk!Post
<1>2. ChatOk(ui, calls)
  BY DEF ChatInv
<1>3. e \in Note
  BY DEF Note, Spots
<1> HIDE DEF e
<1>4. w = [ui EXCEPT !.log = Append(@, e)]
  OBVIOUS
<1> HIDE DEF w
<1>5. ChatOk(w, calls)
  BY <1>2, <1>3, <1>4, ChatPosted
<1>6. QED
  BY <1>1, <1>5, ChatNext

LEMMA ChatServed ==
  ASSUME Talk!ChatAssumptions, ChatInv, NEW c \in calls, c.kind = "poll", Talk!Served(c)
  PROVE  ChatInv'
<1> DEFINE f == Talk!Messages(ui, c.conv, c.since)
           d == [c EXCEPT !.served = TRUE, !.fresh = f]
           E == (calls \ {c}) \cup {d}
<1>1. ui' = ui /\ calls' = E
  BY DEF Talk!Served
<1>2. ChatOk(ui, calls) /\ CallOk(ui, ui.seen, c) /\ ui.log \in Seq(Note)
  BY DEF ChatInv, ChatOk, Base
<1>3. DOMAIN c = PollFields /\ c.mount \in Nat /\ c.mount <= ui.mount /\ c.conv \in Spots /\ c.since \in 0..Len(ui.log) /\ c.first \in BOOLEAN
  BY <1>2 DEF CallOk
<1>4. f = Talk!Messages(ui, c.conv, c.since)
  OBVIOUS
<1> HIDE DEF f
<1>5. FreshOk(f, c.conv, c.since, ui.log)
  BY <1>2, <1>4, ChatFetched
<1>6. /\ d.kind = c.kind /\ d.mount = c.mount /\ d.conv = c.conv /\ d.since = c.since /\ d.first = c.first /\ d.served = TRUE /\ d.fresh = f
      /\ DOMAIN d = PollFields
  BY <1>3 DEF PollFields
<1> HIDE DEF d
<1>7. CallOk(ui, ui.seen, d)
  <2>1. d.first \in BOOLEAN /\ d.served \in BOOLEAN
    BY <1>3, <1>6
  <2>2. QED
    BY <1>3, <1>5, <1>6, <2>1 DEF CallOk
<1>8. ChatOk(ui, E)
  BY <1>2, <1>6, <1>7, ChatSwap
<1>9. QED
  BY <1>1, <1>8, ChatNext

\* A request that is gone and did not matter: not a poll that is waited for.
LEMMA ChatDone ==
  ASSUME ChatInv, NEW c \in calls, calls' = calls \ {c}, NEW w, ui' = w, SameThread(ui, w), w.overlapped = ui.overlapped,
         ReadsOk(w), ui.seen \subseteq w.seen, ui.late \subseteq w.late, w.view = "thread" => ui.view = "thread",
         c.kind = "poll" => ~(Talk!Mounted(c) /\ c.first)
  PROVE  ChatInv'
<1>1. \A x \in calls' : x \in calls \/ x.kind \in {"join", "overview", "dm"} \/ (x.kind = "read" /\ (x.last \in w.seen \/ x.conv \in w.late))
  OBVIOUS
<1>2. \A x \in calls : x.kind = "poll" /\ x.mount = ui.mount /\ x.first => x \in calls' \/ ui.loaded \/ ui.view # "thread"
  BY DEF Talk!Mounted
<1>3. QED
  BY <1>1, <1>2, ChatCalm

\* An empty first answer, or one that failed, clears the thread.
LEMMA ChatNothing ==
  ASSUME ChatInv, NEW c \in calls, c.kind = "poll", Talk!Nothing(c)
  PROVE  ChatInv'
<1>1. Base(ui) /\ ReadsOk(ui) /\ (\A x \in calls : CallOk(ui, ui.seen, x)) /\ (ui.view = "thread" => ThreadOk(ui, calls))
  BY DEF ChatInv, ChatOk
<1>2. CASE ~(Talk!Mounted(c) /\ c.first)
  <2>1. ui' = ui /\ calls' = calls \ {c}
    BY <1>2 DEF Talk!Nothing
  <2>2. SameThread(ui, ui)
    BY DEF SameThread
  <2>3. QED
    BY <1>1, <1>2, <2>1, <2>2, ChatDone
<1>3. CASE Talk!Mounted(c) /\ c.first
  <2> DEFINE u == Talk!Cleared(ui)
             C == calls \ {c}
  <2>1. Talk!Renewed(u, C) /\ ui.view = "thread"
    BY <1>3 DEF Talk!Nothing, Talk!Mounted
  <2>2. /\ DOMAIN u = DOMAIN ui /\ u.loaded = TRUE /\ u.msgs = <<>> /\ u.lost = ui.lost \cup Talk!Range(ui.msgs)
        /\ u.log = ui.log /\ u.mount = ui.mount /\ u.conv = ui.conv /\ u.since = ui.since /\ u.view = ui.view
        /\ u.reads = ui.reads /\ u.seen = ui.seen /\ u.late = ui.late
    BY <1>1 DEF Base, ChatFields, Talk!Cleared
  <2>3. u.overlapped = ui.overlapped /\ u.replaced = ui.replaced
    BY <1>1 DEF Base, ChatFields, Talk!Cleared
  <2> HIDE DEF u
  <2>4. DOMAIN u.msgs = {}
    BY <2>2
  <2>5. Base(u)
    <3>1. u.msgs \in Seq(1..Len(u.log))
      BY <2>2
    <3>2. u.loaded \in BOOLEAN /\ u.overlapped \in BOOLEAN /\ u.replaced \in BOOLEAN
      BY <1>1, <2>2, <2>3 DEF Base
    <3>3. QED
      BY <1>1, <2>2, <3>1, <3>2 DEF Base
  <2>6. ReadsOk(u)
    BY <1>1, <2>2 DEF ReadsOk
  <2>7. ASSUME NEW x \in C PROVE CallOk(u, u.seen \cup Talk!Range(u.msgs), x)
    <3>1. CallOk(ui, ui.seen, x) /\ ui.mount \in Nat
      BY <1>1 DEF Base
    <3>2. u.log = ui.log /\ ui.mount <= u.mount /\ u.mount \in Nat /\ ui.seen \subseteq u.seen \cup Talk!Range(u.msgs) /\ ui.late \subseteq u.late
      BY <2>2, <3>1
    <3>3. QED
      BY <3>1, <3>2, ChatCall
  <2>8. ASSUME NEW x, Known(ui, x) PROVE Known(u, x)
    BY <2>2, <2>8 DEF Known, Talk!Range
  <2>9. \A n : KnownUpTo(ui, n) => KnownUpTo(u, n)
    BY <2>2, <2>8 DEF KnownUpTo
  <2>10. ~u.replaced => Stretch(u) /\ OneSpot(u, C)
    <3> SUFFICES ASSUME ~u.replaced PROVE Stretch(u) /\ OneSpot(u, C)
      OBVIOUS
    <3>1. Stretch(ui) /\ OneSpot(ui, calls)
      BY <1>1, <2>1, <2>3 DEF ThreadOk
    <3>2. Stretch(u)
      BY <2>2, <2>4, <2>9, <3>1 DEF Stretch
    <3>3. OneSpot(u, C)
      BY <2>2, <2>9, <3>1 DEF OneSpot, Ours
    <3>4. QED
      BY <3>2, <3>3
  <2>11. InOrder(u)
    BY <2>4 DEF InOrder, Increasing
  <2>12. QED
    BY <2>1, <2>5, <2>6, <2>7, <2>10, <2>11, ChatRenewed
<1>4. QED
  BY <1>2, <1>3


\* Two lists one after the other: each place of the whole is a place of one of them.
LEMMA ChatJoined ==
  ASSUME NEW D, NEW m \in Seq(D), NEW f \in Seq(D), NEW g, g = m \o f
  PROVE  /\ g \in Seq(D) /\ DOMAIN g = 1..Len(g) /\ Len(g) = Len(m) + Len(f)
         /\ \A k \in 1..Len(m) : k \in DOMAIN g /\ g[k] = m[k]
         /\ \A k \in 1..Len(f) : k + Len(m) \in DOMAIN g /\ g[k + Len(m)] = f[k]
         /\ \A k \in DOMAIN g : (k \in 1..Len(m) /\ g[k] = m[k]) \/ (k - Len(m) \in 1..Len(f) /\ g[k] = f[k - Len(m)])
<1>1. Len(m) \in Nat /\ Len(f) \in Nat
  BY LenProperties
<1>2. /\ g \in Seq(D) /\ Len(g) = Len(m) + Len(f)
      /\ \A k \in 1..(Len(m) + Len(f)) : g[k] = IF k <= Len(m) THEN m[k] ELSE f[k - Len(m)]
  BY ConcatProperties
<1>3. DOMAIN g = 1..(Len(m) + Len(f))
  BY <1>2, LenProperties
<1> DEFINE a == Len(m)
           b == Len(f)
<1>4. a \in Nat /\ b \in Nat
  BY <1>1
<1> HIDE DEF a, b
<1>5. ASSUME NEW k \in 1..a PROVE k \in 1..(a + b) /\ k <= a
  BY <1>4
<1>6. ASSUME NEW k \in 1..b PROVE k + a \in 1..(a + b) /\ ~(k + a <= a) /\ (k + a) - a = k
  BY <1>4
<1>7. ASSUME NEW k \in 1..(a + b) PROVE (k <= a => k \in 1..a) /\ (~(k <= a) => k - a \in 1..b)
  BY <1>4
<1>8. DOMAIN g = 1..(a + b) /\ \A k \in 1..(a + b) : g[k] = IF k <= a THEN m[k] ELSE f[k - a]
  BY <1>2, <1>3 DEF a, b
<1>9. \A k \in 1..a : k \in DOMAIN g /\ g[k] = m[k]
  BY <1>5, <1>8
<1>10. \A k \in 1..b : k + a \in DOMAIN g /\ g[k + a] = f[k]
  <2> SUFFICES ASSUME NEW k \in 1..b PROVE k + a \in DOMAIN g /\ g[k + a] = f[k]
    OBVIOUS
  <2>1. k + a \in 1..(a + b) /\ ~(k + a <= a) /\ (k + a) - a = k
    BY <1>6
  <2>2. g[k + a] = f[(k + a) - a]
    BY <1>8, <2>1
  <2>3. QED
    BY <1>8, <2>1, <2>2
<1>11. \A k \in DOMAIN g : (k \in 1..a /\ g[k] = m[k]) \/ (k - a \in 1..b /\ g[k] = f[k - a])
  BY <1>7, <1>8
<1>12. QED
  BY <1>2, <1>3, <1>9, <1>10, <1>11 DEF a, b

\* An answer with messages goes on from the cursor of its poll, which may be behind the thread's.
LEMMA ChatArrives ==
  ASSUME ChatInv, NEW c \in calls, c.kind = "poll", c.served, c.fresh # <<>>, Talk!Mounted(c),
         Talk!Renewed([ui EXCEPT !.msgs = @ \o c.fresh, !.loaded = TRUE, !.since = Talk!Last(c.fresh), !.lost = @ \ Talk!Range(c.fresh)],
                      (calls \ {c}) \cup {Talk!MarkRead(c)})
  PROVE  ChatInv'
<1> DEFINE f == c.fresh
           m == ui.msgs
           h == ui.log
           g == m \o f
           last == f[Len(f)]
           r == Talk!MarkRead(c)
           u == [ui EXCEPT !.msgs = @ \o c.fresh, !.loaded = TRUE, !.since = Talk!Last(c.fresh), !.lost = @ \ Talk!Range(c.fresh)]
           C == (calls \ {c}) \cup {r}
<1>1. Base(ui) /\ ReadsOk(ui) /\ (\A x \in calls : CallOk(ui, ui.seen, x)) /\ ui.view = "thread" /\ ThreadOk(ui, calls) /\ c.mount = ui.mount
  BY DEF ChatInv, ChatOk, Talk!Mounted
<1>2. FreshOk(f, c.conv, c.since, h) /\ c.since \in 0..Len(h)
  BY <1>1 DEF CallOk
<1>3. r.kind = "read" /\ r.last = last /\ r.conv = c.conv
  BY DEF Talk!MarkRead, Talk!Last
<1>4. /\ DOMAIN u = DOMAIN ui /\ u.loaded = TRUE /\ u.msgs = g /\ u.lost = ui.lost \ Talk!Range(f) /\ u.since = last
      /\ u.log = h /\ u.mount = ui.mount /\ u.conv = ui.conv /\ u.view = ui.view /\ u.reads = ui.reads /\ u.seen = ui.seen /\ u.late = ui.late
  BY <1>1 DEF Base, ChatFields, Talk!Last
<1>5. u.overlapped = ui.overlapped /\ u.replaced = ui.replaced
  BY <1>1 DEF Base, ChatFields
<1>6. Talk!Renewed(u, C)
  OBVIOUS
<1> HIDE DEF u, r
<1>7. f \in Seq(1..Len(h)) /\ m \in Seq(1..Len(h)) /\ h \in Seq(Note)
  BY <1>1, <1>2 DEF FreshOk, Base
<1>8. Len(h) \in Nat
  BY <1>7, LenProperties
<1> DEFINE D == 1..Len(h)
<1>9. /\ Len(f) \in Nat /\ DOMAIN f = 1..Len(f) /\ Len(m) \in Nat /\ DOMAIN m = 1..Len(m)
      /\ (\A k \in 1..Len(f) : f[k] \in D) /\ (\A k \in 1..Len(m) : m[k] \in D)
  BY <1>7, LenProperties, ElementOfSeq
<1>10. g \in Seq(D) /\ DOMAIN g = 1..Len(g) /\ Len(g) = Len(m) + Len(f)
  <2>1. m \in Seq(D) /\ f \in Seq(D) /\ g = m \o f
    BY <1>7
  <2> HIDE DEF m, f, D, g
  <2>2. QED
    BY <2>1, ChatJoined
<1>11. /\ \A k \in 1..Len(m) : k \in DOMAIN g /\ g[k] = m[k]
       /\ \A k \in 1..Len(f) : k + Len(m) \in DOMAIN g /\ g[k + Len(m)] = f[k]
       /\ \A k \in DOMAIN g : (k \in 1..Len(m) /\ g[k] = m[k]) \/ (k - Len(m) \in 1..Len(f) /\ g[k] = f[k - Len(m)])
  <2>1. m \in Seq(D) /\ f \in Seq(D) /\ g = m \o f
    BY <1>7
  <2> HIDE DEF m, f, D, g
  <2>2. QED
    BY <2>1, ChatJoined
<1> HIDE DEF g
<1>12. Len(f) \in 1..Len(f) /\ last \in D
  <2>1. Len(f) # 0
    BY <1>7, EmptySeq
  <2>2. QED
    BY <1>9, <2>1
<1>13. \A k \in 1..Len(m) : k \in DOMAIN g /\ g[k] = m[k]
  BY <1>11
<1>14. \A k \in 1..Len(f) : k + Len(m) \in DOMAIN g /\ g[k + Len(m)] = f[k]
  BY <1>11
<1>15. \A k \in DOMAIN g : (k \in 1..Len(m) /\ g[k] = m[k]) \/ (k - Len(m) \in 1..Len(f) /\ g[k] = f[k - Len(m)])
  BY <1>11
<1>16. Base(u)
  <2>1. u.msgs \in Seq(1..Len(u.log)) /\ u.since \in 0..Len(u.log)
    BY <1>4, <1>8, <1>10, <1>12
  <2>2. u.loaded \in BOOLEAN /\ u.overlapped \in BOOLEAN /\ u.replaced \in BOOLEAN
    BY <1>1, <1>4, <1>5 DEF Base
  <2>3. QED
    BY <1>1, <1>4, <2>1, <2>2 DEF Base
<1>17. ReadsOk(u)
  BY <1>1, <1>4 DEF ReadsOk
<1>18. last \in Talk!Range(u.msgs)
  <2>1. Len(f) + Len(m) \in DOMAIN g /\ g[Len(f) + Len(m)] = last
    BY <1>12, <1>14
  <2>2. QED
    BY <1>4, <2>1 DEF Talk!Range
<1>19. ASSUME NEW x \in C PROVE CallOk(u, u.seen \cup Talk!Range(u.msgs), x)
  <2>1. CASE x \in calls
    <3>1. CallOk(ui, ui.seen, x) /\ ui.mount \in Nat
      BY <1>1, <2>1 DEF Base
    <3>2. u.log = ui.log /\ ui.mount <= u.mount /\ u.mount \in Nat /\ ui.seen \subseteq u.seen \cup Talk!Range(u.msgs) /\ ui.late \subseteq u.late
      BY <1>4, <3>1
    <3>3. QED
      BY <3>1, <3>2, ChatCall
  <2>2. CASE x = r
    BY <1>3, <1>18, <2>2 DEF CallOk
  <2>3. QED
    BY <2>1, <2>2
<1>20. ASSUME NEW x, Known(ui, x) PROVE Known(u, x)
  <2>1. CASE x \in Talk!Range(f)
    <3>1. PICK k \in DOMAIN f : f[k] = x
      BY <2>1 DEF Talk!Range
    <3>2. QED
      BY <1>4, <1>9, <1>14, <3>1 DEF Known
  <2>2. CASE x \notin Talk!Range(f) /\ x \in ui.lost
    BY <1>4, <2>2 DEF Known
  <2>3. CASE \E k \in DOMAIN ui.msgs : ui.msgs[k] = x
    BY <1>4, <1>9, <1>13, <2>3 DEF Known
  <2>4. QED
    BY <1>20, <2>1, <2>2, <2>3 DEF Known
<1>21. \A n : KnownUpTo(ui, n) => KnownUpTo(u, n)
  BY <1>4, <1>20 DEF KnownUpTo
<1>22. ASSUME ~u.replaced PROVE Stretch(u) /\ OneSpot(u, C)
  <2>1. Stretch(ui) /\ OneSpot(ui, calls)
    BY <1>1, <1>5, <1>22 DEF ThreadOk
  <2>2. c.conv = ui.conv /\ KnownUpTo(ui, c.since)
    BY <1>1, <2>1 DEF OneSpot, Ours
  <2>3. \A k \in DOMAIN g : h[g[k]].conv = ui.conv
    <3>1. \A k \in 1..Len(m) : h[m[k]].conv = ui.conv
      BY <1>9, <2>1 DEF Stretch
    <3>2. \A k \in 1..Len(f) : h[f[k]].conv = ui.conv
      BY <1>2, <1>9, <2>2 DEF FreshOk
    <3> HIDE DEF m, f, h
    <3>3. QED
      BY <1>15, <3>1, <3>2
  <2>4. KnownUpTo(u, last)
    <3> SUFFICES ASSUME NEW x \in D, h[x].conv = ui.conv, x <= last PROVE Known(u, x)
      BY <1>4 DEF KnownUpTo
    <3>1. CASE x <= c.since
      BY <1>20, <2>2, <3>1 DEF KnownUpTo
    <3>2. CASE x > c.since
      <4>1. PICK k \in DOMAIN f : f[k] = x
        BY <1>2, <2>2, <3>2 DEF FreshOk
      <4>2. QED
        BY <1>4, <1>9, <1>14, <4>1 DEF Known
    <3>3. QED
      BY <1>2, <1>8, <3>1, <3>2
  <2>5. Stretch(u)
    BY <1>4, <2>3, <2>4 DEF Stretch
  <2>6. OneSpot(u, C)
    BY <1>3, <1>4, <1>21, <2>1 DEF OneSpot, Ours
  <2>7. QED
    BY <2>5, <2>6
<1>23. ASSUME ~u.replaced, ~u.overlapped PROVE InOrder(u)
  <2>1. InOrder(ui) /\ AfterLast(ui, c)
    BY <1>1, <1>5, <1>23 DEF ThreadOk, OneByOne, Ours
  <2>2. c.since = ui.since /\ \A k \in 1..Len(m) : m[k] <= ui.since
    BY <1>9, <2>1 DEF AfterLast, InOrder
  <2>3. \A k \in 1..Len(f) : f[k] > ui.since
    BY <1>2, <1>9, <2>2 DEF FreshOk
  <2>4. \A j, k \in 1..Len(f) : j < k => f[j] < f[k]
    BY <1>2, <1>9 DEF FreshOk, Increasing
  <2>5. \A j, k \in 1..Len(m) : j < k => m[j] < m[k]
    BY <1>9, <2>1 DEF InOrder, Increasing
  <2>6. ASSUME NEW j \in DOMAIN g, NEW k \in DOMAIN g, j < k PROVE g[j] < g[k]
    <3>1. j \in Int /\ k \in Int /\ ui.since \in Int
      BY <1>1, <1>10, <1>11 DEF Base
    <3>2. CASE k \in 1..Len(m)
      <4>1. j \in 1..Len(m)
        BY <1>9, <1>10, <1>11, <2>6, <3>2
      <4>2. QED
        BY <1>13, <2>5, <2>6, <3>2, <4>1
    <3>3. CASE k \notin 1..Len(m)
      <4>1. k - Len(m) \in 1..Len(f) /\ g[k] = f[k - Len(m)]
        BY <1>15, <3>3
      <4>2. CASE j \in 1..Len(m)
        <5>1. g[j] = m[j] /\ m[j] <= ui.since /\ m[j] \in Int /\ f[k - Len(m)] \in Int
          BY <1>9, <1>13, <2>2, <4>1, <4>2
        <5>2. f[k - Len(m)] > ui.since
          BY <2>3, <4>1
        <5>3. QED
          BY <3>1, <4>1, <5>1, <5>2
      <4>3. CASE j \notin 1..Len(m)
        <5>1. j - Len(m) \in 1..Len(f) /\ g[j] = f[j - Len(m)]
          BY <1>15, <4>3
        <5>2. j - Len(m) < k - Len(m)
          BY <1>9, <2>6, <3>1
        <5>3. QED
          BY <2>4, <4>1, <5>1, <5>2
      <4>4. QED
        BY <4>2, <4>3
    <3>4. QED
      BY <3>2, <3>3
  <2>7. \A k \in 1..Len(f) : f[k] <= last
    <3> SUFFICES ASSUME NEW k \in 1..Len(f) PROVE f[k] <= last
      OBVIOUS
    <3>1. k = Len(f) \/ k < Len(f)
      BY <1>9
    <3>2. f[k] \in Int /\ last \in Int
      BY <1>9, <1>12
    <3>3. k < Len(f) => f[k] < last
      BY <1>12, <2>4
    <3>4. QED
      BY <3>1, <3>2, <3>3
  <2>8. \A k \in DOMAIN g : g[k] <= last
    <3> SUFFICES ASSUME NEW k \in DOMAIN g PROVE g[k] <= last
      OBVIOUS
    <3>1. CASE k \in 1..Len(m) /\ g[k] = m[k]
      <4>1. m[k] <= ui.since /\ last > ui.since
        BY <1>12, <2>2, <2>3, <3>1
      <4>2. m[k] \in Int /\ last \in Int /\ ui.since \in Int
        BY <1>1, <1>9, <1>12, <3>1 DEF Base
      <4>3. QED
        BY <3>1, <4>1, <4>2
    <3>2. CASE k - Len(m) \in 1..Len(f) /\ g[k] = f[k - Len(m)]
      BY <2>7, <3>2
    <3>3. QED
      BY <1>15, <3>1, <3>2
  <2>9. QED
    BY <1>4, <2>6, <2>8 DEF InOrder, Increasing
<1>24. QED
  BY <1>6, <1>16, <1>17, <1>19, <1>22, <1>23, ChatRenewed

LEMMA ChatPollEnds ==
  ASSUME ChatInv, NEW c \in calls, c.kind = "poll", Talk!PollArrives(c) \/ Talk!PollFails(c)
  PROVE  ChatInv'
<1>1. CASE Talk!PollFails(c) \/ c.fresh = <<>>
  BY <1>1, ChatNothing DEF Talk!PollFails, Talk!PollArrives
<1>2. CASE Talk!PollArrives(c) /\ c.fresh # <<>> /\ Talk!Mounted(c)
  BY <1>2, ChatArrives DEF Talk!PollArrives
<1>3. CASE Talk!PollArrives(c) /\ c.fresh # <<>> /\ ~Talk!Mounted(c)
  <2> DEFINE w == [ui EXCEPT !.late = @ \cup {c.conv}]
             r == Talk!MarkRead(c)
  <2>1. ui' = w /\ calls' = (calls \ {c}) \cup {r}
    BY <1>3 DEF Talk!PollArrives
  <2>2. Base(ui) /\ ReadsOk(ui)
    BY DEF ChatInv, ChatOk
  <2>3. /\ SameThread(ui, w) /\ w.reads = ui.reads /\ w.seen = ui.seen /\ w.view = ui.view /\ w.late = ui.late \cup {c.conv}
    BY <2>2 DEF Base, ChatFields, SameThread
  <2>4. w.overlapped = ui.overlapped
    BY <2>2 DEF Base, ChatFields
  <2>5. r.kind = "read" /\ r.conv = c.conv
    BY DEF Talk!MarkRead
  <2> HIDE DEF w, r
  <2>6. ReadsOk(w)
    BY <2>2, <2>3 DEF ReadsOk
  <2>7. r.conv \in w.late
    BY <2>3, <2>5
  <2>8. \A x \in calls' : x \in calls \/ x.kind \in {"join", "overview", "dm"} \/ (x.kind = "read" /\ (x.last \in w.seen \/ x.conv \in w.late))
    BY <2>1, <2>5, <2>7
  <2>9. \A x \in calls : x.kind = "poll" /\ x.mount = ui.mount /\ x.first => x \in calls' \/ ui.loaded \/ ui.view # "thread"
    BY <1>3, <2>1 DEF Talk!Mounted
  <2>10. QED
    BY <2>1, <2>3, <2>4, <2>6, <2>8, <2>9, ChatCalm
<1>4. QED
  BY <1>1, <1>2, <1>3


\* A request more, from the thread as it stands.
LEMMA ChatAdds ==
  ASSUME ChatInv, ui.view = "thread", NEW w, ui' = w, SameThread(ui, w), w.view = ui.view, w.reads = ui.reads, w.seen = ui.seen, w.late = ui.late,
         w.overlapped = (ui.overlapped \/ Talk!Running(ui, calls)),
         NEW p, calls' = calls \cup {p}, CallOk(ui, ui.seen, p), p.mount = ui.mount, p.conv = ui.conv, p.kind \in {"poll", "send"},
         p.kind = "poll" => p.since = ui.since, p.kind = "send" => p.stored = 0
  PROVE  ChatInv'
<1>1. Base(ui) /\ ReadsOk(ui) /\ (\A x \in calls : CallOk(ui, ui.seen, x)) /\ ThreadOk(ui, calls)
  BY DEF ChatInv, ChatOk
<1>2. w.overlapped \in BOOLEAN /\ (w.overlapped <=> ui.overlapped \/ \E c \in calls : Ours(ui, c))
  <2>1. Talk!Running(ui, calls) <=> \E c \in calls : Ours(ui, c)
    BY DEF Talk!Running, Ours
  <2>2. QED
    BY <2>1
<1>3. Base(w)
  BY <1>1, <1>2 DEF Base, SameThread
<1>4. ReadsOk(w)
  BY <1>1 DEF ReadsOk
<1>5. ASSUME NEW c \in calls' PROVE CallOk(w, w.seen, c)
  <2>1. CallOk(ui, ui.seen, c) /\ ui.mount \in Nat
    BY <1>1 DEF Base
  <2>2. w.log = ui.log /\ ui.mount <= w.mount /\ w.mount \in Nat /\ ui.seen \subseteq w.seen /\ ui.late \subseteq w.late
    BY <2>1 DEF SameThread
  <2>3. QED
    BY <2>1, <2>2, ChatCall
<1>6. \A n : KnownUpTo(w, n) <=> KnownUpTo(ui, n)
  BY DEF SameThread, KnownUpTo, Known
<1>7. \A c : Ours(w, c) <=> Ours(ui, c)
  BY DEF SameThread, Ours
<1>8. ASSUME ~w.replaced PROVE Stretch(w) /\ OneSpot(w, calls')
  <2>1. Stretch(ui) /\ OneSpot(ui, calls)
    BY <1>1, <1>8 DEF ThreadOk, SameThread
  <2>2. Stretch(w)
    BY <1>6, <2>1 DEF Stretch, SameThread
  <2>3. p.kind = "poll" => KnownUpTo(w, p.since)
    BY <1>6, <2>1 DEF Stretch
  <2>4. OneSpot(w, calls')
    BY <1>6, <1>7, <2>1, <2>3 DEF OneSpot, SameThread
  <2>5. QED
    BY <2>2, <2>4
<1>9. ASSUME ~w.replaced, ~w.overlapped PROVE InOrder(w) /\ OneByOne(w, calls')
  <2>1. InOrder(ui) /\ \A c \in calls : ~Ours(ui, c)
    BY <1>1, <1>2, <1>9 DEF ThreadOk, SameThread
  <2>2. \A c \in calls' : Ours(w, c) => c = p
    BY <1>7, <2>1
  <2>3. AfterLast(w, p)
    BY DEF AfterLast, SameThread
  <2>4. QED
    BY <2>1, <2>2, <2>3 DEF InOrder, OneByOne, SameThread
<1>10. Waits(w, calls')
  BY <1>1 DEF ThreadOk, Waits, SameThread
<1>11. ThreadOk(w, calls')
  BY <1>8, <1>9, <1>10 DEF ThreadOk
<1>12. ChatOk(ui', calls')
  BY <1>3, <1>4, <1>5, <1>11 DEF ChatOk
<1>13. QED
  BY <1>12, ChatNext

LEMMA ChatTick == ASSUME ChatInv, Talk!Tick PROVE ChatInv'
<1> DEFINE p == Talk!Poll(ui)
           w == [ui EXCEPT !.overlapped = @ \/ Talk!Running(ui, calls)]
<1>1. ui' = w /\ calls' = calls \cup {p} /\ ui.view = "thread"
  BY DEF Talk!Tick
<1>2. Base(ui)
  BY DEF ChatInv, ChatOk
<1>3. SameThread(ui, w) /\ w.view = ui.view /\ w.reads = ui.reads /\ w.seen = ui.seen /\ w.late = ui.late
  BY <1>2 DEF Base, ChatFields, SameThread
<1>4. w.overlapped = (ui.overlapped \/ Talk!Running(ui, calls))
  BY <1>2 DEF Base, ChatFields
<1>5. /\ DOMAIN p = PollFields /\ p.kind = "poll" /\ p.mount = ui.mount /\ p.conv = ui.conv /\ p.since = ui.since /\ p.first = ~ui.loaded
      /\ p.served = FALSE
  BY DEF Talk!Poll, PollFields
<1> HIDE DEF p, w
<1>6. CallOk(ui, ui.seen, p)
  <2>1. p.first \in BOOLEAN /\ p.served \in BOOLEAN
    BY <1>5
  <2>2. p.mount \in Nat /\ p.mount <= ui.mount /\ p.conv \in Spots /\ p.since \in 0..Len(ui.log)
    BY <1>2, <1>5 DEF Base
  <2>3. QED
    BY <1>5, <2>1, <2>2 DEF CallOk
<1>7. QED
  BY <1>1, <1>3, <1>4, <1>5, <1>6, ChatAdds

LEMMA ChatDoSend == ASSUME ChatInv, Talk!DoSend PROVE ChatInv'
<1> DEFINE p == [kind |-> "send", mount |-> ui.mount, conv |-> ui.conv, stored |-> 0]
           w == [ui EXCEPT !.sending = TRUE, !.overlapped = @ \/ Talk!Running(ui, calls)]
<1>1. ui' = w /\ calls' = calls \cup {p} /\ ui.view = "thread"
  BY DEF Talk!DoSend
<1>2. Base(ui)
  BY DEF ChatInv, ChatOk
<1>3. SameThread(ui, w) /\ w.view = ui.view /\ w.reads = ui.reads /\ w.seen = ui.seen /\ w.late = ui.late
  BY <1>2 DEF Base, ChatFields, SameThread
<1>4. w.overlapped = (ui.overlapped \/ Talk!Running(ui, calls))
  BY <1>2 DEF Base, ChatFields
<1>5. DOMAIN p = SendFields /\ p.kind = "send" /\ p.mount = ui.mount /\ p.conv = ui.conv /\ p.stored = 0
  BY DEF SendFields
<1> HIDE DEF p, w
<1>6. CallOk(ui, ui.seen, p)
  <2>1. Len(ui.log) \in Nat
    BY <1>2, LenProperties DEF Base
  <2>2. p.mount \in Nat /\ p.mount <= ui.mount /\ p.conv \in Spots /\ p.stored \in 0..Len(ui.log)
    BY <1>2, <1>5, <2>1 DEF Base
  <2>3. QED
    BY <1>5, <2>2 DEF CallOk
<1>7. QED
  BY <1>1, <1>3, <1>4, <1>5, <1>6, ChatAdds

LEMMA ChatMax ==
  ASSUME NEW x \in Int, NEW y \in Int
  PROVE  Talk!Max({x, y}) \in {x, y} /\ Talk!Max({x, y}) >= x /\ Talk!Max({x, y}) >= y
<1> DEFINE S == {x, y}
           P(m) == m \in S /\ \A z \in S : m >= z
<1>1. Talk!Max(S) = CHOOSE m \in S : \A z \in S : m >= z
  BY DEF Talk!Max
<1>2. (CHOOSE m \in S : \A z \in S : m >= z) = CHOOSE m : P(m)
  OBVIOUS
<1>3. \E m : P(m)
  <2>1. CASE x >= y
    BY <2>1
  <2>2. CASE y >= x
    BY <2>2
  <2>3. QED
    BY <2>1, <2>2
<1>4. P(CHOOSE m : P(m))
  <2> HIDE DEF P
  <2>1. QED
    BY <1>3
<1>5. QED
  BY <1>1, <1>2, <1>4

\* An own message goes to the end, and the cursor past it: what it passed over is lost.
LEMMA ChatSent ==
  ASSUME ChatInv, NEW c \in calls, c.kind = "send", c.stored # 0, Talk!Mounted(c), Talk!Renewed(Talk!Sent(ui, c.stored), calls \ {c})
  PROVE  ChatInv'
<1> DEFINE id == c.stored
           m == ui.msgs
           h == ui.log
           g == Append(m, id)
           top == Talk!Max({ui.since, id})
           u == Talk!Sent(ui, id)
           C == calls \ {c}
           D == 1..Len(h)
<1>1. Base(ui) /\ ReadsOk(ui) /\ (\A x \in calls : CallOk(ui, ui.seen, x)) /\ ui.view = "thread" /\ ThreadOk(ui, calls) /\ c.mount = ui.mount
  BY DEF ChatInv, ChatOk, Talk!Mounted
<1>2. h \in Seq(Note) /\ m \in Seq(D) /\ Len(h) \in Nat /\ ui.since \in 0..Len(h) /\ id \in 0..Len(h) /\ h[id].conv = c.conv
  BY <1>1, LenProperties DEF Base, CallOk
<1>3. id \in D /\ id \in Int /\ ui.since \in Int
  BY <1>2
<1>4. /\ DOMAIN u = DOMAIN ui /\ u.loaded = TRUE /\ u.msgs = g /\ u.lost = ui.lost \cup Talk!Passed(ui, id) /\ u.since = top
      /\ u.log = h /\ u.mount = ui.mount /\ u.conv = ui.conv /\ u.view = ui.view /\ u.reads = ui.reads /\ u.seen = ui.seen /\ u.late = ui.late
  BY <1>1 DEF Base, ChatFields, Talk!Sent
<1>5. u.overlapped = ui.overlapped /\ u.replaced = ui.replaced
  BY <1>1 DEF Base, ChatFields, Talk!Sent
<1>6. Talk!Renewed(u, C)
  OBVIOUS
<1> HIDE DEF u
<1>7. top \in {ui.since, id} /\ top >= ui.since /\ top >= id
  BY <1>3, ChatMax
<1> HIDE DEF top
<1>8. /\ g \in Seq(D) /\ Len(g) = Len(m) + 1 /\ Len(m) \in Nat /\ DOMAIN g = 1..(Len(m) + 1) /\ DOMAIN m = 1..Len(m)
      /\ g[Len(m) + 1] = id /\ \A k \in 1..Len(m) : g[k] = m[k] /\ m[k] \in D
  <2>1. m \in Seq(D) /\ id \in D
    BY <1>2, <1>3
  <2> HIDE DEF m, id, D
  <2>2. g \in Seq(D) /\ Len(g) = Len(m) + 1 /\ (\A k \in 1..Len(m) : g[k] = m[k]) /\ g[Len(m) + 1] = id
    BY <2>1, AppendProperties
  <2>3. Len(m) \in Nat /\ DOMAIN m = 1..Len(m) /\ \A k \in 1..Len(m) : m[k] \in D
    BY <2>1, LenProperties, ElementOfSeq
  <2>4. DOMAIN g = 1..(Len(m) + 1)
    BY <2>2, LenProperties
  <2>5. QED
    BY <2>2, <2>3, <2>4
<1> HIDE DEF g
<1>9. (\A k \in 1..Len(m) : k \in DOMAIN g /\ g[k] = m[k]) /\ Len(m) + 1 \in DOMAIN g /\ \A k \in DOMAIN g : k \in 1..Len(m) \/ k = Len(m) + 1
  BY <1>8
<1>10. Base(u)
  <2>1. u.since \in 0..Len(u.log)
    BY <1>2, <1>4, <1>7
  <2>2. u.msgs \in Seq(1..Len(u.log))
    BY <1>4, <1>8
  <2>3. u.loaded \in BOOLEAN /\ u.overlapped \in BOOLEAN /\ u.replaced \in BOOLEAN
    BY <1>1, <1>4, <1>5 DEF Base
  <2>4. QED
    BY <1>1, <1>4, <2>1, <2>2, <2>3 DEF Base
<1>11. ReadsOk(u)
  BY <1>1, <1>4 DEF ReadsOk
<1>12. ASSUME NEW x \in C PROVE CallOk(u, u.seen \cup Talk!Range(u.msgs), x)
  <2>1. CallOk(ui, ui.seen, x) /\ ui.mount \in Nat
    BY <1>1 DEF Base
  <2>2. u.log = ui.log /\ ui.mount <= u.mount /\ u.mount \in Nat /\ ui.seen \subseteq u.seen \cup Talk!Range(u.msgs) /\ ui.late \subseteq u.late
    BY <1>4, <2>1
  <2>3. QED
    BY <2>1, <2>2, ChatCall
<1>13. ASSUME NEW x, Known(ui, x) PROVE Known(u, x)
  <2>1. CASE x \in ui.lost
    BY <1>4, <2>1 DEF Known
  <2>2. CASE \E k \in DOMAIN ui.msgs : ui.msgs[k] = x
    BY <1>4, <1>8, <1>9, <2>2 DEF Known
  <2>3. QED
    BY <1>13, <2>1, <2>2 DEF Known
<1>14. \A n : KnownUpTo(ui, n) => KnownUpTo(u, n)
  BY <1>4, <1>13 DEF KnownUpTo
<1>15. ASSUME ~u.replaced PROVE Stretch(u) /\ OneSpot(u, C)
  <2>1. Stretch(ui) /\ OneSpot(ui, calls)
    BY <1>1, <1>5, <1>15 DEF ThreadOk
  <2>2. c.conv = ui.conv
    BY <1>1, <2>1 DEF OneSpot, Ours
  <2>3. \A k \in DOMAIN g : h[g[k]].conv = ui.conv
    <3>1. \A k \in 1..Len(m) : h[m[k]].conv = ui.conv
      BY <1>8, <2>1 DEF Stretch
    <3>2. h[id].conv = ui.conv
      BY <1>2, <2>2
    <3> HIDE DEF m, h, id
    <3>3. QED
      BY <1>8, <1>9, <3>1, <3>2
  <2>4. KnownUpTo(u, top)
    <3> SUFFICES ASSUME NEW x \in D, h[x].conv = ui.conv, x <= top PROVE Known(u, x)
      BY <1>4 DEF KnownUpTo
    <3>1. CASE x <= ui.since
      BY <1>13, <2>1, <3>1 DEF Stretch, KnownUpTo
    <3>2. CASE x = id
      BY <1>4, <1>8, <1>9, <3>2 DEF Known
    <3>3. CASE x > ui.since /\ x < id
      <4>1. CASE \E k \in DOMAIN m : m[k] = x
        BY <1>13, <4>1 DEF Known
      <4>2. CASE ~\E k \in DOMAIN m : m[k] = x
        <5>1. DOMAIN h = D
          BY <1>2, LenProperties
        <5>2. x \notin Talk!Range(m)
          BY <4>2 DEF Talk!Range
        <5>3. x \in Talk!Passed(ui, id)
          BY <3>3, <5>1, <5>2 DEF Talk!Passed
        <5>4. QED
          BY <1>4, <5>3 DEF Known
      <4>3. QED
        BY <4>1, <4>2
    <3>4. x \in Int /\ (x <= ui.since \/ x <= id)
      BY <1>3, <1>7
    <3>5. QED
      BY <1>3, <3>1, <3>2, <3>3, <3>4
  <2>5. Stretch(u)
    BY <1>4, <2>3, <2>4 DEF Stretch
  <2>6. OneSpot(u, C)
    BY <1>4, <1>14, <2>1 DEF OneSpot, Ours
  <2>7. QED
    BY <2>5, <2>6
<1>16. ASSUME ~u.replaced, ~u.overlapped PROVE InOrder(u)
  <2>1. InOrder(ui) /\ AfterLast(ui, c)
    BY <1>1, <1>5, <1>16 DEF ThreadOk, OneByOne, Ours
  <2>2. \A k \in 1..Len(m) : m[k] <= ui.since /\ m[k] < id
    BY <1>8, <2>1 DEF AfterLast, InOrder
  <2>3. \A j, k \in 1..Len(m) : j < k => m[j] < m[k]
    BY <1>8, <2>1 DEF InOrder, Increasing
  <2>4. ASSUME NEW j \in DOMAIN g, NEW k \in DOMAIN g, j < k PROVE g[j] < g[k]
    <3>1. j \in 1..Len(m)
      BY <1>8, <2>4
    <3>2. g[j] = m[j] /\ m[j] < id
      BY <1>8, <2>2, <3>1
    <3>3. CASE k \in 1..Len(m)
      BY <1>8, <2>3, <2>4, <3>1, <3>3
    <3>4. CASE k = Len(m) + 1
      BY <1>8, <3>2, <3>4
    <3>5. QED
      BY <1>9, <3>3, <3>4
  <2>5. ASSUME NEW k \in DOMAIN g PROVE g[k] <= top
    <3>1. CASE k \in 1..Len(m)
      <4>1. g[k] = m[k] /\ m[k] \in Int /\ m[k] <= ui.since
        BY <1>8, <2>2, <3>1
      <4>2. top \in Int /\ ui.since \in Int /\ top >= ui.since
        BY <1>3, <1>7
      <4>3. QED
        BY <4>1, <4>2
    <3>2. CASE k = Len(m) + 1
      BY <1>3, <1>7, <1>8, <3>2
    <3>3. QED
      BY <1>9, <3>1, <3>2
  <2>6. QED
    BY <1>4, <2>4, <2>5 DEF InOrder, Increasing
<1>17. QED
  BY <1>6, <1>10, <1>11, <1>12, <1>15, <1>16, ChatRenewed

LEMMA ChatSendEnds ==
  ASSUME ChatInv, NEW c \in calls, c.kind = "send", Talk!SendArrives(c) \/ Talk!SendFails(c)
  PROVE  ChatInv'
<1>1. Base(ui) /\ ReadsOk(ui)
  BY DEF ChatInv, ChatOk
<1>2. CASE Talk!SendArrives(c) /\ Talk!Mounted(c)
  BY <1>2, ChatSent DEF Talk!SendArrives
<1>3. CASE Talk!SendArrives(c) /\ ~Talk!Mounted(c)
  <2>1. ui' = ui /\ calls' = calls \ {c} /\ SameThread(ui, ui)
    BY <1>3 DEF Talk!SendArrives, SameThread
  <2>2. QED
    BY <1>1, <2>1, ChatDone
<1>4. CASE Talk!SendFails(c)
  <2> DEFINE w == IF Talk!Mounted(c) THEN [ui EXCEPT !.sending = FALSE] ELSE ui
  <2>1. ui' = w /\ calls' = calls \ {c}
    BY <1>4 DEF Talk!SendFails
  <2>2. SameThread(ui, w) /\ w.view = ui.view /\ w.reads = ui.reads /\ w.seen = ui.seen /\ w.late = ui.late
    BY <1>1 DEF Base, ChatFields, SameThread
  <2>3. w.overlapped = ui.overlapped
    BY <1>1 DEF Base, ChatFields
  <2> HIDE DEF w
  <2>4. ReadsOk(w)
    BY <1>1, <2>2 DEF ReadsOk
  <2>5. QED
    BY <2>1, <2>2, <2>3, <2>4, ChatDone
<1>5. QED
  BY <1>2, <1>3, <1>4


\* A thread that opens has no requests of its own yet; over another one, it is marked as replaced.
LEMMA ChatOpened ==
  ASSUME ChatInv, NEW conv \in Talk!Convs, NEW C \in SUBSET calls, Talk!Renewed(Talk!Opened(ui, conv), C),
         ui.view = "thread" => ui.conv # conv
  PROVE  ChatInv'
<1> DEFINE u == Talk!Opened(ui, conv)
<1>1. Base(ui) /\ ReadsOk(ui) /\ (\A x \in calls : CallOk(ui, ui.seen, x)) /\ (ui.view = "thread" => ThreadOk(ui, calls))
  BY DEF ChatInv, ChatOk
<1>2. Talk!Renewed(u, C)
  OBVIOUS
<1>3. conv \in Spots
  BY DEF Spots
<1>4. /\ DOMAIN u = DOMAIN ui /\ u.conv = conv /\ u.log = ui.log /\ u.reads = ui.reads /\ u.seen = ui.seen /\ u.late = ui.late
      /\ (ui.view = "thread" => u.mount = ui.mount /\ u.msgs = ui.msgs /\ u.since = ui.since)
      /\ (ui.view # "thread" => u.mount = ui.mount + 1 /\ u.msgs = <<>> /\ u.since = 0)
  BY <1>1 DEF Base, ChatFields, Talk!Opened
<1>5. /\ (ui.view = "thread" => u.loaded = ui.loaded /\ u.overlapped = ui.overlapped /\ u.replaced = (ui.replaced \/ ui.conv # conv))
      /\ (ui.view # "thread" => u.loaded = FALSE /\ u.overlapped = FALSE /\ u.replaced = FALSE)
  BY <1>1 DEF Base, ChatFields, Talk!Opened
<1> HIDE DEF u
<1>6. u.replaced => ui.view = "thread"
  BY <1>5
<1>7. ui.view = "thread" => u.replaced
  BY <1>5
<1>8. ui.mount \in Nat /\ u.mount \in Nat /\ ui.mount <= u.mount /\ (ui.view # "thread" => u.mount # ui.mount /\ ~(u.mount <= ui.mount))
  BY <1>1, <1>4 DEF Base
<1>9. Base(u)
  <2>1. u.loaded \in BOOLEAN /\ u.overlapped \in BOOLEAN /\ u.replaced \in BOOLEAN
    <3>1. CASE ui.view = "thread"
      <4>1. u.loaded \in BOOLEAN /\ u.overlapped \in BOOLEAN
        BY <1>1, <1>5, <3>1 DEF Base
      <4>2. u.replaced \in BOOLEAN
        BY <1>5, <3>1
      <4>3. QED
        BY <4>1, <4>2
    <3>2. CASE ui.view # "thread"
      BY <1>5, <3>2
    <3>3. QED
      BY <3>1, <3>2
  <2>2. u.msgs \in Seq(1..Len(u.log)) /\ u.since \in 0..Len(u.log)
    <3>1. CASE ui.view = "thread"
      BY <1>1, <1>4, <3>1 DEF Base
    <3>2. CASE ui.view # "thread"
      <4>1. Len(ui.log) \in Nat
        BY <1>1, LenProperties DEF Base
      <4>2. u.msgs = <<>> /\ u.since = 0 /\ Len(u.log) \in Nat
        BY <1>4, <3>2, <4>1
      <4>3. u.msgs \in Seq(1..Len(u.log))
        BY <4>2
      <4>4. u.since \in 0..Len(u.log)
        BY <4>2
      <4>5. QED
        BY <4>3, <4>4
    <3>3. QED
      BY <3>1, <3>2
  <2>3. QED
    BY <1>1, <1>3, <1>4, <1>8, <2>1, <2>2 DEF Base
<1>10. ReadsOk(u)
  BY <1>1, <1>4 DEF ReadsOk
<1>11. ASSUME NEW x \in C PROVE CallOk(u, u.seen \cup Talk!Range(u.msgs), x)
  <2>1. CallOk(ui, ui.seen, x)
    BY <1>1
  <2>2. u.log = ui.log /\ ui.seen \subseteq u.seen \cup Talk!Range(u.msgs) /\ ui.late \subseteq u.late
    BY <1>4
  <2>3. QED
    BY <1>8, <2>1, <2>2, ChatCall
<1>12. ASSUME ~u.replaced PROVE Stretch(u) /\ OneSpot(u, C) /\ InOrder(u)
  <2>1. ui.view # "thread"
    BY <1>7, <1>12
  <2>2. DOMAIN u.msgs = {} /\ u.since = 0
    BY <1>4, <2>1
  <2>3. Stretch(u)
    <3>1. KnownUpTo(u, 0)
      <4>1. Len(u.log) \in Nat
        BY <1>9, LenProperties DEF Base
      <4>2. \A x \in 1..Len(u.log) : ~(x <= 0)
        BY <4>1
      <4>3. QED
        BY <4>2 DEF KnownUpTo
    <3>2. QED
      BY <2>2, <3>1 DEF Stretch
  <2>4. OneSpot(u, C)
    <3>1. ASSUME NEW c \in C PROVE ~Ours(u, c)
      <4>1. CallOk(ui, ui.seen, c)
        BY <1>1
      <4>2. c.kind \in {"poll", "send"} => c.mount <= ui.mount
        BY <4>1 DEF CallOk
      <4>3. QED
        BY <1>8, <2>1, <4>2 DEF Ours
    <3>2. QED
      BY <3>1 DEF OneSpot
  <2>5. InOrder(u)
    BY <2>2 DEF InOrder, Increasing
  <2>6. QED
    BY <2>3, <2>4, <2>5
<1>13. QED
  BY <1>2, <1>9, <1>10, <1>11, <1>12, ChatRenewed

LEMMA ChatBack == ASSUME ChatInv, Talk!Back PROVE ChatInv'
<1> DEFINE w == [ui EXCEPT !.view = "list", !.conv = Talk!NoConv, !.rows = <<>>]
<1>1. ui' = w /\ calls' = calls
  BY DEF Talk!Back
<1>2. Base(ui) /\ ReadsOk(ui) /\ \A x \in calls : CallOk(ui, ui.seen, x)
  BY DEF ChatInv, ChatOk
<1>3. /\ DOMAIN w = DOMAIN ui /\ w.log = ui.log /\ w.mount = ui.mount /\ w.conv = 0 /\ w.msgs = ui.msgs /\ w.since = ui.since
      /\ w.reads = ui.reads /\ w.seen = ui.seen /\ w.late = ui.late /\ w.view = "list"
  BY <1>2 DEF Base, ChatFields, Talk!NoConv
<1>4. w.loaded = ui.loaded /\ w.overlapped = ui.overlapped /\ w.replaced = ui.replaced
  BY <1>2 DEF Base, ChatFields
<1> HIDE DEF w
<1>5. Base(w)
  BY <1>2, <1>3, <1>4 DEF Base, Spots
<1>6. ReadsOk(w)
  BY <1>2, <1>3 DEF ReadsOk
<1>7. ASSUME NEW x \in calls PROVE CallOk(w, w.seen, x)
  <2>1. CallOk(ui, ui.seen, x) /\ ui.mount \in Nat
    BY <1>2 DEF Base
  <2>2. w.log = ui.log /\ ui.mount <= w.mount /\ w.mount \in Nat /\ ui.seen \subseteq w.seen /\ ui.late \subseteq w.late
    BY <1>3, <2>1
  <2>3. QED
    BY <2>1, <2>2, ChatCall
<1>8. ChatOk(ui', calls')
  BY <1>1, <1>3, <1>5, <1>6, <1>7 DEF ChatOk
<1>9. QED
  BY <1>8, ChatNext

\* The account, the list and the search touch no thread.
LEMMA ChatAside ==
  ASSUME ChatInv, NEW w, ui' = w, DOMAIN w = DOMAIN ui, \A f \in DOMAIN ui \ {"me", "view", "rows"} : w[f] = ui[f],
         w.view = "thread" => ui.view = "thread",
         NEW x, calls' = calls \/ (x.kind \in {"join", "overview", "dm"} /\ (calls' = calls \cup {x} \/ calls' = calls \ {x}))
  PROVE  ChatInv'
<1>1. Base(ui) /\ ReadsOk(ui)
  BY DEF ChatInv, ChatOk
<1>2. SameThread(ui, w) /\ w.reads = ui.reads /\ w.seen = ui.seen /\ w.late = ui.late /\ w.overlapped = ui.overlapped
  BY <1>1 DEF Base, ChatFields, SameThread
<1>3. ReadsOk(w)
  BY <1>1, <1>2 DEF ReadsOk
<1>4. \A c \in calls' : c \in calls \/ c.kind \in {"join", "overview", "dm"} \/ (c.kind = "read" /\ (c.last \in w.seen \/ c.conv \in w.late))
  OBVIOUS
<1>5. \A c \in calls : c.kind = "poll" /\ c.mount = ui.mount /\ c.first => c \in calls' \/ ui.loaded \/ ui.view # "thread"
  OBVIOUS
<1>6. QED
  BY <1>2, <1>3, <1>4, <1>5, ChatCalm

LEMMA ChatReadEnds ==
  ASSUME ChatInv, NEW c \in calls, c.kind = "read", Talk!ReadArrives(c) \/ Talk!ReadLost(c)
  PROVE  ChatInv'
<1>1. Base(ui) /\ ReadsOk(ui) /\ CallOk(ui, ui.seen, c)
  BY DEF ChatInv, ChatOk
<1>2. CASE Talk!ReadLost(c)
  <2>1. ui' = ui /\ calls' = calls \ {c} /\ SameThread(ui, ui)
    BY <1>2 DEF Talk!ReadLost, SameThread
  <2>2. QED
    BY <1>1, <2>1, ChatDone
<1>3. CASE Talk!ReadArrives(c)
  <2> DEFINE w == [ui EXCEPT !.reads[c.conv] = IF c.last > @ THEN c.last ELSE @]
  <2>1. ui' = w /\ calls' = calls \ {c}
    BY <1>3 DEF Talk!ReadArrives
  <2>2. SameThread(ui, w) /\ w.view = ui.view /\ w.seen = ui.seen /\ w.late = ui.late
    BY <1>1 DEF Base, ChatFields, SameThread
  <2>3. w.overlapped = ui.overlapped
    BY <1>1 DEF Base, ChatFields
  <2>4. DOMAIN w.reads = DOMAIN ui.reads /\ \A k \in DOMAIN ui.reads : w.reads[k] = ui.reads[k] \/ (k = c.conv /\ w.reads[k] = c.last)
    BY <1>1 DEF Base, ChatFields
  <2> HIDE DEF w
  <2>5. c.last \in ui.seen \/ c.conv \in ui.late
    BY <1>1 DEF CallOk
  <2>6. ReadsOk(w)
    BY <1>1, <2>2, <2>4, <2>5 DEF ReadsOk
  <2>7. QED
    BY <2>1, <2>2, <2>3, <2>6, ChatDone
<1>4. QED
  BY <1>2, <1>3

LEMMA ChatStep == ASSUME Talk!ChatAssumptions, ChatInv, Talk!Next PROVE ChatInv'
<1>0. Base(ui) /\ \A k : \A c \in Talk!Of({k}) : c \in calls /\ c.kind = k
  BY DEF ChatInv, ChatOk, Talk!Of
<1>1. CASE Talk!Join
  <2> DEFINE x == [kind |-> "join", n |-> steps]
  <2>1. ui' = ui /\ calls' = calls \cup {x} /\ x.kind \in {"join", "overview", "dm"}
    BY <1>1 DEF Talk!Join
  <2>2. QED
    BY <2>1, ChatAside
<1>2. CASE Talk!LoadOverview
  <2> DEFINE x == [kind |-> "overview"]
  <2>1. ui' = ui /\ calls' = calls \cup {x} /\ x.kind \in {"join", "overview", "dm"}
    BY <1>2 DEF Talk!LoadOverview
  <2>2. QED
    BY <2>1, ChatAside
<1>3. CASE Talk!Pick
  <2> DEFINE x == [kind |-> "dm", n |-> steps]
  <2>1. ui' = ui /\ calls' = calls \cup {x} /\ x.kind \in {"join", "overview", "dm"}
    BY <1>3 DEF Talk!Pick
  <2>2. QED
    BY <2>1, ChatAside
<1>4. CASE Talk!NewDm \/ Talk!CloseDm
  <2>1. PICK v \in {"new", "list"} : ui' = [ui EXCEPT !.view = v] /\ calls' = calls
    BY <1>4 DEF Talk!NewDm, Talk!CloseDm
  <2> DEFINE w == [ui EXCEPT !.view = v]
  <2>2. DOMAIN w = DOMAIN ui /\ (\A f \in DOMAIN ui \ {"me", "view", "rows"} : w[f] = ui[f]) /\ w.view # "thread"
    BY <1>0 DEF Base, ChatFields
  <2>3. ui' = w
    BY <2>1
  <2> HIDE DEF w
  <2>4. QED
    BY <2>1, <2>2, <2>3, ChatAside
<1>5. ASSUME NEW c \in Talk!Of({"join"}), Talk!Joined(c) \/ Talk!JoinFails(c) PROVE ChatInv'
  <2> DEFINE v == [ui EXCEPT !.me = TRUE, !.view = IF @ = "setup" THEN "list" ELSE @]
  <2>1. DOMAIN v = DOMAIN ui /\ (\A f \in DOMAIN ui \ {"me", "view", "rows"} : v[f] = ui[f]) /\ (v.view = "thread" => ui.view = "thread")
    BY <1>0 DEF Base, ChatFields
  <2>2. (ui' = v \/ ui' = ui) /\ calls' = calls \ {c} /\ c.kind \in {"join", "overview", "dm"}
    BY <1>0, <1>5 DEF Talk!Joined, Talk!JoinFails
  <2> HIDE DEF v
  <2>3. QED
    BY <2>1, <2>2, ChatAside
<1>6. ASSUME NEW c \in Talk!Of({"overview"}), Talk!OverviewArrives(c) \/ Talk!OverviewFails(c) PROVE ChatInv'
  <2>1. ASSUME NEW z PROVE DOMAIN [ui EXCEPT !.rows = z] = DOMAIN ui /\ (\A f \in DOMAIN ui \ {"me", "view", "rows"} : [ui EXCEPT !.rows = z][f] = ui[f])
                           /\ [ui EXCEPT !.rows = z].view = ui.view
    BY <1>0 DEF Base, ChatFields
  <2>2. (ui' = ui \/ \E z : ui' = [ui EXCEPT !.rows = z]) /\ calls' = calls \ {c} /\ c.kind \in {"join", "overview", "dm"}
    BY <1>0, <1>6 DEF Talk!OverviewArrives, Talk!OverviewFails
  <2>3. DOMAIN ui' = DOMAIN ui /\ (\A f \in DOMAIN ui \ {"me", "view", "rows"} : ui'[f] = ui[f]) /\ ui'.view = ui.view
    <3>1. CASE ui' = ui
      BY <3>1
    <3>2. CASE \E z : ui' = [ui EXCEPT !.rows = z]
      <4>1. PICK z : ui' = [ui EXCEPT !.rows = z]
        BY <3>2
      <4>2. QED
        BY <2>1, <4>1
    <3>3. QED
      BY <2>2, <3>1, <3>2
  <2>4. QED
    BY <2>2, <2>3, ChatAside
<1>7. ASSUME NEW c \in Talk!Of({"dm"}), Talk!OpenDm(c) \/ Talk!OpenDmAgain(c) \/ Talk!OpenDmRefused(c) \/ Talk!OpenDmFails(c) PROVE ChatInv'
  <2>1. c \in calls /\ c.kind = "dm"
    BY <1>0
  <2>2. CASE Talk!OpenDm(c)
    <3>1. Talk!Renewed(Talk!Opened(ui, Dm), calls \ {c}) /\ ui.conv # Dm /\ Dm \in Talk!Convs /\ calls \ {c} \in SUBSET calls
      BY <2>2 DEF Talk!OpenDm, Talk!Convs
    <3>2. QED
      BY <3>1, ChatOpened
  <2>3. CASE Talk!OpenDmAgain(c) \/ Talk!OpenDmFails(c)
    <3>1. ui' = ui /\ calls' = calls \ {c}
      BY <2>3 DEF Talk!OpenDmAgain, Talk!OpenDmFails
    <3>2. QED
      BY <2>1, <3>1, ChatAside
  <2>4. CASE Talk!OpenDmRefused(c)
    <3> DEFINE v == [ui EXCEPT !.view = IF @ = "new" THEN "list" ELSE @]
    <3>1. DOMAIN v = DOMAIN ui /\ (\A f \in DOMAIN ui \ {"me", "view", "rows"} : v[f] = ui[f]) /\ (v.view = "thread" => ui.view = "thread")
      BY <1>0 DEF Base, ChatFields
    <3>2. ui' = v /\ calls' = calls \ {c}
      BY <2>4 DEF Talk!OpenDmRefused
    <3> HIDE DEF v
    <3>3. QED
      BY <2>1, <3>1, <3>2, ChatAside
  <2>5. QED
    BY <1>7, <2>2, <2>3, <2>4
<1>8. ASSUME NEW c \in Talk!Polls, Talk!Served(c) \/ Talk!PollArrives(c) \/ Talk!PollFails(c) PROVE ChatInv'
  <2>1. c \in calls /\ c.kind = "poll"
    BY <1>0 DEF Talk!Polls
  <2>2. QED
    BY <1>8, <2>1, ChatServed, ChatPollEnds
<1>9. ASSUME NEW c \in Talk!Of({"read"}), Talk!ReadArrives(c) \/ Talk!ReadLost(c) PROVE ChatInv'
  BY <1>0, <1>9, ChatReadEnds
<1>10. ASSUME NEW c \in Talk!Of({"send"}), Talk!Stored(c) \/ Talk!SendArrives(c) \/ Talk!SendFails(c) PROVE ChatInv'
  BY <1>0, <1>10, ChatStored, ChatSendEnds
<1>11. ASSUME NEW r \in Talk!Convs, Talk!OpenThread(r) \/ Talk!OthersPost(r) PROVE ChatInv'
  <2>1. CASE Talk!OpenThread(r)
    <3>1. Talk!Renewed(Talk!Opened(ui, r), calls) /\ ui.view = "list" /\ calls \in SUBSET calls
      BY <2>1 DEF Talk!OpenThread
    <3>2. QED
      BY <3>1, ChatOpened
  <2>2. CASE Talk!OthersPost(r)
    BY <2>2, ChatOthersPost
  <2>3. QED
    BY <1>11, <2>1, <2>2
<1>12. CASE Talk!Back \/ Talk!Tick \/ Talk!DoSend
  BY <1>12, ChatBack, ChatTick, ChatDoSend
<1>13. QED
  BY <1>1, <1>2, <1>3, <1>4, <1>5, <1>6, <1>7, <1>8, <1>9, <1>10, <1>11, <1>12 DEF Talk!Next

LEMMA ChatUnchanged == ASSUME ChatInv, UNCHANGED client PROVE ChatInv'
<1>1. ui' = ui /\ calls' = calls
  BY DEF client
<1>2. QED
  BY <1>1, ChatNext DEF ChatInv

LEMMA ChatInit == ASSUME Talk!ChatAssumptions, Talk!Init PROVE ChatInv
<1>1. PICK me \in BOOLEAN, n \in 0..1 :
        ui = [me |-> me, view |-> IF me THEN "list" ELSE "setup", conv |-> Talk!NoConv, mount |-> 0,
              log |-> [k \in 1..n |-> [conv |-> CHOOSE r \in Rooms : TRUE, mine |-> FALSE]],
              reads |-> [c \in Talk!Convs |-> 0],
              msgs |-> <<>>, loaded |-> FALSE, since |-> 0, sending |-> FALSE,
              rows |-> <<>>, lost |-> {}, seen |-> {},
              overlapped |-> FALSE, replaced |-> FALSE, late |-> {}]
  BY DEF Talk!Init
<1>2. calls = {}
  BY DEF Talk!Init
<1> DEFINE e == [conv |-> CHOOSE r \in Rooms : TRUE, mine |-> FALSE]
           h == [k \in 1..n |-> e]
<1>3. e \in Note
  <2>1. (CHOOSE r \in Rooms : TRUE) \in Rooms
    BY DEF Talk!ChatAssumptions
  <2>2. QED
    BY <2>1 DEF Note, Spots, Talk!Convs
<1>4. h \in Seq(Note) /\ Len(h) \in Nat
  <2> HIDE DEF e
  <2>1. h \in [1..n -> Note] /\ n \in Nat
    BY <1>3
  <2>2. h \in Seq(Note)
    BY <2>1, SeqDef
  <2>3. QED
    BY <2>2, LenProperties
<1>5. /\ DOMAIN ui = ChatFields /\ ui.log = h /\ ui.mount = 0 /\ ui.conv = 0 /\ ui.msgs = <<>> /\ ui.since = 0
      /\ ui.reads = [c \in Talk!Convs |-> 0] /\ ui.view # "thread" /\ ui.loaded = FALSE /\ ui.overlapped = FALSE /\ ui.replaced = FALSE
  BY <1>1 DEF ChatFields, Talk!NoConv
<1> HIDE DEF h
<1>6. Base(ui)
  <2>1. ui.loaded \in BOOLEAN /\ ui.overlapped \in BOOLEAN /\ ui.replaced \in BOOLEAN
    BY <1>5
  <2>2. ui.msgs \in Seq(1..Len(ui.log)) /\ ui.since \in 0..Len(ui.log)
    BY <1>4, <1>5
  <2>3. QED
    BY <1>4, <1>5, <2>1, <2>2 DEF Base, Spots
<1>7. ReadsOk(ui)
  BY <1>5 DEF ReadsOk
<1>8. QED
  BY <1>2, <1>5, <1>6, <1>7 DEF ChatInv, ChatOk

LEMMA ChatSound == ChatInv => Talk!BelowTheCursorIsShown /\ Talk!ThreadIsItsConversation /\ Talk!ReadWasShown /\ Talk!WaitsForAnAnswer
<1> SUFFICES ASSUME ChatInv PROVE Talk!BelowTheCursorIsShown /\ Talk!ThreadIsItsConversation /\ Talk!ReadWasShown /\ Talk!WaitsForAnAnswer
  OBVIOUS
<1>1. Base(ui) /\ ReadsOk(ui) /\ (ui.view = "thread" => ThreadOk(ui, calls))
  BY DEF ChatInv, ChatOk
<1>2. ui.log \in Seq(Note) /\ DOMAIN ui.log = 1..Len(ui.log)
  BY <1>1, LenProperties DEF Base
<1>3. Talk!BelowTheCursorIsShown
  <2> SUFFICES ASSUME ui.view = "thread", ~ui.replaced, NEW x \in DOMAIN ui.log, ui.log[x].conv = ui.conv, x <= ui.since
               PROVE  x \in Talk!Range(ui.msgs) \cup ui.lost
    BY DEF Talk!BelowTheCursorIsShown
  <2>1. KnownUpTo(ui, ui.since)
    BY <1>1 DEF ThreadOk, Stretch
  <2>2. Known(ui, x)
    BY <1>2, <2>1 DEF KnownUpTo
  <2>3. QED
    BY <2>2 DEF Known, Talk!Range
<1>4. Talk!ThreadIsItsConversation
  BY <1>1 DEF Talk!ThreadIsItsConversation, ThreadOk, Stretch, InOrder, Increasing
<1>5. Talk!ReadWasShown
  BY <1>1 DEF Talk!ReadWasShown, ReadsOk
<1>6. Talk!WaitsForAnAnswer
  BY <1>1 DEF Talk!WaitsForAnAnswer, ThreadOk, Waits, Talk!Polls, Talk!Of, Talk!Mounted
<1>7. QED
  BY <1>3, <1>4, <1>5, <1>6

LEMMA ChatAlways == BooksSpec => [](focus = "chat" => ChatInv)
<1>0. Talk!ChatAssumptions
  BY BooksAssumptions
<1>1. BooksInit => (focus = "chat" => ChatInv)
  BY <1>0, ChatInit DEF BooksInit
<1>2. (focus = "chat" => ChatInv) /\ [BooksNext]_booksVars => (focus = "chat" => ChatInv)'
  <2> SUFFICES ASSUME focus = "chat" => ChatInv, [BooksNext]_booksVars, focus' = "chat" PROVE ChatInv'
    OBVIOUS
  <2>1. focus = "chat"
    BY DEF BooksNext, booksVars
  <2>2. Talk!Next \/ UNCHANGED client
    BY <2>1 DEF BooksNext, booksVars
  <2>3. QED
    BY <1>0, <2>1, <2>2, ChatStep, ChatUnchanged
<1>3. QED
  BY <1>1, <1>2, PTL DEF BooksSpec

-------------------------------------------------------------------------------
\* What all of them keep to, whichever of them runs.

\* The books balance: a symbol has one open paper trade, whoever's page wrote last; the simulator
\* keeps its orders, and its cash and positions are what they add up to; an alert tells once, and
\* what was deleted or revoked stays so.
THEOREM TheBooksBalance == BooksSpec => []BooksBalance
<1>1. (focus = "tracker" => TrackInv) /\ (focus = "simulator" => SimInv) /\ (focus = "registry" => RegInv) => BooksBalance
  BY TrackSound, SimSound, RegSound DEF BooksBalance, In
<1>2. QED
  BY <1>1, TrackAlways, SimAlways, RegAlways, PTL

\* What is pointed at exists: the active list, the group picked, the terminal's active tab.
THEOREM PickedExists == BooksSpec => []WhatIsPickedExists
<1>0. Term!TerminalAssumptions
  BY BooksAssumptions
<1>1. (focus = "lists" => ListsInv) /\ (focus = "folio" => FolioInv) /\ TermInv => WhatIsPickedExists
  BY <1>0, ListsSound, FolioSound, TermSound DEF WhatIsPickedExists, In
<1>2. QED
  BY <1>1, ListsAlways, FolioAlways, TermAlways, PTL

\* No write undoes another's: what was added and not removed is there, in the lists, the paper
\* trades and the holdings; the columns and the list chosen are those kept; a thread of the chat
\* shows what it has moved past; a device that joined is on the list.
THEOREM NothingIsLost == BooksSpec => []NothingLost
<1>0. Card!CardsAssumptions
  BY BooksAssumptions
<1>1. (focus = "lists" => ListsInv) /\ (focus = "tracker" => TrackInv) /\ (focus = "folio" => FolioInv) /\ (focus = "tables" => TabInv)
      /\ (focus = "cards" => CardInv) /\ (focus = "chat" => ChatInv) /\ (focus = "registry" => RegInv) => NothingLost
  BY <1>0, ListsSound, TrackSound, FolioSound, TabSound, CardSound, ChatSound, RegSound DEF NothingLost, In
<1>2. QED
  BY <1>1, ListsAlways, TrackAlways, FolioAlways, TabAlways, CardAlways, ChatAlways, RegAlways, PTL

\* What is shown is what was asked for: the page of the last intent and its symbol, the place one
\* goes back to, the company of the terminal's active tab, the sector of the cards, the conversation
\* of the chat, whose thread never waits for an answer that nobody is to give.
THEOREM AskedIsShown == BooksSpec => []ShownIsAsked
<1>0. Term!TerminalAssumptions /\ Card!CardsAssumptions
  BY BooksAssumptions
<1>1. (focus = "pages" => NavInv) /\ TermInv /\ (focus = "cards" => CardInv) /\ (focus = "chat" => ChatInv) => ShownIsAsked
  BY <1>0, NavSound, TermSound, CardSound, ChatSound DEF ShownIsAsked, In
<1>2. QED
  BY <1>1, NavAlways, TermAlways, CardAlways, ChatAlways, PTL
===============================================================================
