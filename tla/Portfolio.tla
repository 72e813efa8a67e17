------------------------------- MODULE Portfolio -------------------------------
(***************************************************************************)
(* The holdings kept on the device, each in a group: bought into the group *)
(* that is selected, removed from one group, moved between groups, and     *)
(* overwritten by what the broker reports.  The broker's answer is merged  *)
(* into the list the page had when it asked; the page's other buttons work *)
(* meanwhile, and a page that was left still merges.                       *)
(***************************************************************************)
EXTENDS Client, Filters

CONSTANTS Symbols, Custom, MaxMounts

\* The groups a user makes are finitely many.
PortfolioAssumptions == IsFiniteSet(Custom)

Default == 0
Groups == Custom \cup {Default}
All == -1                        \* the card of all holdings
Row(s, g, n, cost) == [sym |-> s, group |-> g, qty |-> n, cost |-> cost]
RowsOf(list, s) == {h \in list : h.sym = s}
At(list, s, g) == {h \in list : h.sym = s /\ h.group = g}
The(rows) == CHOOSE h \in rows : TRUE       \* where there is one

Init ==
  /\ \E list \in {{}} \cup {{Row(s, Default, 1, 1)} : s \in Symbols} :
       ui = [stored |-> list, list |-> list, custom |-> {}, active |-> All, mount |-> 1, syncing |-> FALSE,
             want |-> [s \in Symbols |-> IF \E h \in list : h.sym = s THEN 1 ELSE 0],   \* history: bought and not removed,
                                                                                       \* or what the broker says
             behind |-> FALSE]   \* history: the broker's holdings were merged into an older list
  /\ calls = {} /\ steps = 0

AllGroups(u) == {Default} \cup u.custom \cup {h.group : h \in u.list}
Shown(u) == IF u.active = All THEN u.list ELSE {h \in u.list : h.group = u.active}
Saved(list) == [ui EXCEPT !.stored = list, !.list = list]
User(u) == Act /\ ui' = u /\ UNCHANGED calls

\* A lot bought is blended into the symbol's row of the group.  Variant: it replaces it.
BlendedOver(old, s, g, n, p) == Row(s, g, n, n * p)
Blended(old, s, g, n, p) == Row(s, g, old.qty + n, old.cost + n * p)
AddHolding(s, n, p) ==
  LET g == IF ui.active = All THEN Default ELSE ui.active
      here == At(ui.list, s, g)
      new == IF here = {} THEN Row(s, g, n, n * p) ELSE Blended(The(here), s, g, n, p)
  IN User([Saved((ui.list \ here) \cup {new}) EXCEPT !.want[s] = @ + n])
RemoveHolding(h) == h \in Shown(ui) /\ User([Saved(ui.list \ {h}) EXCEPT !.want[h.sym] = @ - h.qty])
MoveHolding(h, to) ==
  /\ h \in Shown(ui) /\ to \in AllGroups(ui) \ {h.group}
  /\ LET there == At(ui.list, h.sym, to)
         new == IF there = {} THEN [h EXCEPT !.group = to]
                ELSE [The(there) EXCEPT !.qty = @ + h.qty, !.cost = @ + h.cost]
     IN User(Saved((ui.list \ ({h} \cup there)) \cup {new}))

\* Groups.  An empty group of the user's can be deleted; all holdings are shown then.
\* Variant: the deleted group stays selected.
PickGroup(g) == g \in AllGroups(ui) \cup {All} /\ g # ui.active /\ User([ui EXCEPT !.active = g])
CreateGroup(g) == g \notin AllGroups(ui) /\ User([ui EXCEPT !.custom = @ \cup {g}, !.active = g])
WithoutKeeping(u, g) == [u EXCEPT !.custom = @ \ {g}]
Without(u, g) == [u EXCEPT !.custom = @ \ {g}, !.active = All]
DeleteGroup(g) ==
  /\ g \in Custom /\ ui.active = g /\ Shown(ui) = {}
  /\ User(Without(ui, g))

\* What the broker says of a symbol wins over its row, unless the user split it over
\* groups.  Variant: one of the rows takes the broker's total all the same.
SplitNever(list, s) == FALSE
Split(list, s) == Cardinality(RowsOf(list, s)) > 1
Imported(list, s, n) ==
  LET rows == RowsOf(list, s) IN
  IF n = 0 \/ Split(list, s) THEN rows
  ELSE IF rows = {} THEN {Row(s, Default, n, n)}
  ELSE (rows \ {The(rows)}) \cup {Row(s, The(rows).group, n, n)}
ImportHoldings(list, broker) == UNION {Imported(list, s, broker[s]) : s \in Symbols}
BrokerSync ==
  /\ ~ui.syncing /\ Act /\ ui' = [ui EXCEPT !.syncing = TRUE]
  /\ calls' = calls \cup {[kind |-> "broker", mount |-> ui.mount, list |-> ui.list]}
Mine(c) == c.mount = ui.mount
HoldingsArrive(c, broker) ==
  /\ Net /\ calls' = calls \ {c}
  /\ LET next == ImportHoldings(c.list, broker)
         u == [ui EXCEPT !.stored = next, !.behind = @ \/ c.list # ui.stored \/ ~Mine(c),
                         !.want = [s \in Symbols |->
                            IF broker[s] = 0 \/ Cardinality(RowsOf(ui.stored, s)) > 1 THEN @[s] ELSE broker[s]]]
     IN ui' = IF Mine(c) THEN [u EXCEPT !.list = next, !.syncing = FALSE] ELSE u
SyncFails(c) == Act /\ calls' = calls \ {c} /\ ui' = IF Mine(c) THEN [ui EXCEPT !.syncing = FALSE] ELSE ui
Reopen ==
  /\ ui.mount < MaxMounts /\ Act /\ UNCHANGED calls
  /\ ui' = [ui EXCEPT !.mount = @ + 1, !.list = ui.stored, !.syncing = FALSE]

Next ==
  \/ BrokerSync \/ Reopen
  \/ \E s \in Symbols, p \in {1, 2} : AddHolding(s, 1, p)
  \/ \E h \in ui.list : RemoveHolding(h) \/ \E g \in Groups : MoveHolding(h, g)
  \/ \E g \in Custom : CreateGroup(g) \/ DeleteGroup(g)
  \/ \E g \in Groups \cup {All} : PickGroup(g)
  \/ \E c \in Of({"broker"}) : SyncFails(c) \/ \E b \in [Symbols -> {0, 2}] : HoldingsArrive(c, b)
Spec == Init /\ [][Next]_client

-------------------------------------------------------------------------------
QuantityIn(list, s, g) == LET here == At(list, s, g) IN IF here = {} THEN 0 ELSE The(here).qty
Quantity(list, s) == Total([g \in Groups |-> QuantityIn(list, s, g)])
\* A symbol is held once in a group, and over its groups as much as was bought and not
\* removed or the broker reported; unless the broker's answer was merged into an older
\* list (portfolio.ts:65-157, PortfolioScreen.tsx:249-265).
NothingLost ==
  /\ \A h, k \in ui.stored : h.sym = k.sym /\ h.group = k.group => h = k
  /\ ~ui.behind => ui.list = ui.stored /\ \A s \in Symbols : Quantity(ui.stored, s) = ui.want[s]
\* The card that is selected is one of those shown, unless a list came back without its
\* group (PortfolioScreen.tsx:281-318).
PickedExists == ~ui.behind => ui.active \in AllGroups(ui) \cup {All}
===============================================================================
