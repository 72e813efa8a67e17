------------------------------- MODULE PaperBook -------------------------------
(***************************************************************************)
(* The two paper accounts of the client.  The outcome tracker logs trades  *)
(* from other screens and, when its page opens, asks for prices and closes *)
(* the trades that reached their target or stop, in the list it had when   *)
(* it asked.  The simulator buys and sells at the price that answers, from *)
(* the account it had when the button was pressed; its buttons are shut    *)
(* meanwhile, but not the reset, and a page left and reopened has buttons  *)
(* of its own.                                                             *)
(***************************************************************************)
EXTENDS Client, Filters

CONSTANTS Symbols, Prices, Start, Cap, MaxMounts

\* Prices and the cash at the start are amounts, the log has a bound, the symbols are finitely many.
PaperAssumptions == IsFiniteSet(Symbols) /\ Prices \subseteq Nat /\ Start \in Nat /\ Cap \in Nat

NoPos == [qty |-> 0, cost |-> 0]
Fresh == [cash |-> Start, pos |-> [s \in Symbols |-> NoPos], trades |-> <<>>]
Init ==
  /\ ui = [list |-> <<>>, shown |-> <<>>, open |-> FALSE, made |-> 0, mount |-> 1,
           sim |-> Fresh, acct |-> Fresh, busy |-> FALSE,
           asked |-> {},          \* history: the trades the log was asked to hold
           settled |-> {},        \* history: the trades that were closed, and how
           orders |-> 0,          \* history: orders filled since the account was last reset
           behind |-> FALSE,      \* history: an answer for an older list, account or page was written
           trimmed |-> FALSE]     \* history: the log of either ran over its bound
  /\ calls = {} /\ steps = 0

Ids(list) == {list[i].id : i \in DOMAIN list}
Capped(list) == SubSeq(list, 1, IF Len(list) < Cap THEN Len(list) ELSE Cap)
OpenOf(list, s) == {i \in DOMAIN list : list[i].sym = s /\ list[i].st = "open"}

\* A screen logs a trade: the list is read, an open trade of the symbol gives way to it.
\* Variant: it stays.
GivingWayNot(list, s) == list
GivingWay(list, s) == Places(list, DOMAIN list \ OpenOf(list, s))
AddPaperTrade(s) ==
  /\ ~ui.open /\ Act /\ UNCHANGED calls
  /\ LET t == [id |-> ui.made + 1, sym |-> s, st |-> "open"]
         kept == GivingWay(ui.list, s)
         next == <<t>> \o kept
     IN ui' = [ui EXCEPT !.list = Capped(next), !.made = @ + 1, !.asked = (@ \ {ui.list[i].id : i \in OpenOf(ui.list, s)}) \cup {t.id},
                         !.trimmed = @ \/ Len(next) > Cap]

\* The page opens: the list is read and the prices of its open trades are asked for.
OpenTracker ==
  /\ ~ui.open /\ ui.mount < MaxMounts /\ Act
  /\ ui' = [ui EXCEPT !.open = TRUE, !.mount = @ + 1, !.shown = <<>>]
  /\ calls' = calls \cup {[kind |-> "prices", mount |-> ui.mount + 1, list |-> ui.list]}
LeaveTracker == ui.open /\ Act /\ ui' = [ui EXCEPT !.open = FALSE] /\ UNCHANGED calls

\* The trades that reached a level are closed, the target before the stop; the list is
\* written only when one did.  Variant: closed trades are looked at again.
Judged(t, at) == IF at[t.sym] \in {"won", "lost"} THEN [t EXCEPT !.st = at[t.sym]] ELSE t
ReconcileAll(list, at) == [i \in DOMAIN list |-> Judged(list[i], at)]
Reconcile(list, at) == [i \in DOMAIN list |-> IF list[i].st = "open" THEN Judged(list[i], at) ELSE list[i]]
PricesArrive(c, at) ==      \* a symbol without a price, or all of them when the request fails: "none"
  /\ Net /\ calls' = calls \ {c}
  /\ LET next == Reconcile(c.list, at)
         u == IF next # c.list
              THEN [ui EXCEPT !.list = next, !.behind = @ \/ ui.list # c.list,
                              !.settled = @ \cup {<<next[i].id, next[i].st>> : i \in {j \in DOMAIN next : next[j] # c.list[j]}}]
              ELSE [ui EXCEPT !.behind = @ \/ ui.list # c.list]
     IN ui' = IF ui.open /\ c.mount = ui.mount THEN [u EXCEPT !.shown = next] ELSE u
Removed(list) == [ui EXCEPT !.list = list, !.shown = list, !.asked = Ids(list)]
RemovePaperTrade(id) ==
  /\ ui.open /\ id \in Ids(ui.shown) /\ Act /\ UNCHANGED calls
  /\ ui' = Removed(Places(ui.list, {i \in DOMAIN ui.list : ui.list[i].id # id}))
ClearPaperTrades == ui.open /\ ui.shown # <<>> /\ Act /\ UNCHANGED calls /\ ui' = Removed(<<>>)

-------------------------------------------------------------------------------
\* The simulator.  An order is filled from the account the press had.
Log(a, t) == LET all == Append(a.trades, t) IN SubSeq(all, IF Len(all) > Cap THEN 2 ELSE 1, Len(all))
Buy(a, s, n, p) ==
  [a EXCEPT !.cash = @ - n * p, !.pos[s] = [qty |-> @.qty + n, cost |-> @.cost + n * p],
            !.trades = Log(a, [sym |-> s, realized |-> 0])]
\* What a sale of the whole position realises.  Variant: the proceeds.
ProceedsOf(a, s, p) == a.pos[s].qty * p
Realized(a, s, p) == a.pos[s].qty * p - a.pos[s].cost
Sell(a, s, p) ==
  [a EXCEPT !.cash = @ + a.pos[s].qty * p, !.pos[s] = NoPos, !.trades = Log(a, [sym |-> s, realized |-> Realized(a, s, p)])]
Press(c) == ~ui.busy /\ Act /\ ui' = [ui EXCEPT !.busy = TRUE] /\ calls' = calls \cup {c}
DoBuy(s, n) == Press([kind |-> "order", side |-> "buy", mount |-> ui.mount, from |-> ui.sim, sym |-> s, n |-> n])
DoSell(s) ==
  ui.sim.pos[s].qty > 0 /\ Press([kind |-> "order", side |-> "sell", mount |-> ui.mount, from |-> ui.sim, sym |-> s, n |-> 0])
Freed(u, c) == IF c.mount = u.mount THEN [u EXCEPT !.busy = FALSE] ELSE u
Filled(c, a) ==
  LET u == [ui EXCEPT !.acct = a, !.orders = @ + 1, !.behind = @ \/ ui.acct # c.from \/ c.mount # ui.mount,
                      !.trimmed = @ \/ Len(c.from.trades) = Cap]
  IN Freed(IF c.mount = ui.mount THEN [u EXCEPT !.sim = a] ELSE u, c)
\* Variant: the cost is not compared with the cash.
AffordsAny(a, n, p) == TRUE
Affords(a, n, p) == n * p <= a.cash
OrderPriced(c, p) ==
  /\ Net /\ calls' = calls \ {c}
  /\ ui' = IF c.side = "sell" THEN Filled(c, Sell(c.from, c.sym, p))
           ELSE IF Affords(c.from, c.n, p) THEN Filled(c, Buy(c.from, c.sym, c.n, p))
           ELSE Freed(IF c.mount = ui.mount THEN [ui EXCEPT !.sim = c.from, !.behind = @ \/ ui.acct # c.from] ELSE ui, c)
OrderFails(c) == Act /\ calls' = calls \ {c} /\ ui' = Freed(ui, c)    \* no answer, or no price in it
ResetSim == Act /\ ui' = [ui EXCEPT !.acct = Fresh, !.sim = Fresh, !.orders = 0] /\ UNCHANGED calls
ReopenSim ==
  /\ ui.mount < MaxMounts /\ Act /\ UNCHANGED calls
  /\ ui' = [ui EXCEPT !.mount = @ + 1, !.busy = FALSE, !.sim = ui.acct, !.open = FALSE]

Tracker ==
  \/ OpenTracker \/ LeaveTracker \/ ClearPaperTrades
  \/ \E s \in Symbols : AddPaperTrade(s)
  \/ \E c \in Of({"prices"}), at \in [Symbols -> {"won", "lost", "none"}] : PricesArrive(c, at)
  \/ \E id \in Ids(ui.shown) : RemovePaperTrade(id)
Simulator ==
  \/ ResetSim \/ ReopenSim
  \/ \E s \in Symbols : DoSell(s) \/ \E n \in {1, 2} : DoBuy(s, n)
  \/ \E c \in Of({"order"}) : OrderFails(c) \/ \E p \in Prices : OrderPriced(c, p)
TrackerSpec == Init /\ [][Tracker]_client
SimulatorSpec == Init /\ [][Simulator]_client

-------------------------------------------------------------------------------
RealizedOf(a) == Total([i \in DOMAIN a.trades |-> a.trades[i].realized])
CostOf(a) == Total([s \in Symbols |-> a.pos[s].cost])
\* A symbol has at most one open trade, whatever list was written last (paperTrades.ts:48-57).
OneOpen == \A s \in Symbols : \A i, j \in OpenOf(ui.list, s) : i = j
\* The log holds what was logged and not removed, and a closed trade keeps its outcome, unless a
\* list was written over a newer one or ran over its bound (paperTrades.ts:48-108).
NothingLost ==
  ~ui.behind /\ ~ui.trimmed =>
    Ids(ui.list) = ui.asked /\ \A i \in DOMAIN ui.list : \A r \in ui.settled : r[1] = ui.list[i].id => r[2] = ui.list[i].st
\* The page's figures add up: cash and cost are what was put in and what was realised,
\* until the log of trades ran over its bound; and the cash is never overdrawn
\* (paperSim.ts:65-128).
BooksBalance ==
  /\ ui.acct.cash >= 0
  /\ ~ui.trimmed => ui.acct.cash + CostOf(ui.acct) = Start + RealizedOf(ui.acct)
\* Every order is in the account, and the page shows it, unless an order was filled from an
\* older account or for a page that was left (PaperTradeScreen.tsx:195-240).
OrdersKept ==
  ~ui.behind => ui.sim = ui.acct /\ (~ui.trimmed => Len(ui.acct.trades) = ui.orders)
===============================================================================
