------------------------------ MODULE MCScreens ------------------------------
(***************************************************************************)
(* Small instances of the client's screens that ask and show, one of them  *)
(* open in each behaviour, and the properties they share: what is shown    *)
(* was asked for, what is said to be loading is asked for, nothing is      *)
(* asked for twice or left out, what was begun ends.                       *)
(***************************************************************************)
EXTENDS Integers, Sequences, FiniteSets, TLC

CONSTANTS
  none,                                       \* no job, no expiry
  Steps,                                      \* what a user does on each screen
  Companies,                                  \* numbers: what is listed, opened, asked about
  Universes, MembersOf, PageSize, MaxRounds,  \* the screener's table
  Markets, Fallback, Columns, Presets, PresetRows, Metrics, Titles, Cap,   \* its sheets
  Expiries, MaxLegs,                          \* the option desk
  Callers, MaxVersion,                        \* the read cache
  TTL, LongTTL, Rounds, MaxMisses,            \* the screens that poll
  Workers, MaxMounts,                         \* the recommendation lists
  Tested, Bots, Names, MaxRunning, MaxJobs, MaxSaved,   \* the backtester
  Sources                                     \* the dossier
VARIABLES focus, ui, calls, steps
client == <<ui, calls, steps>>
screensVars == <<focus, client>>

\* Their values in the runs.
MCSteps ==
  [table |-> 2, sheet |-> 6, panel |-> 3, stock |-> 2, desk |-> 3, cache |-> 4, view |-> 2, list |-> 3, backtest |-> 2, dossier |-> 2]
MCMembersOf == (1 :> {1, 2}) @@ (2 :> {2})
MCColumns == <<"sno", "sym", "price">>
MCPresetRows == ("p" :> <<"d20", "d50">>)
MCExpiries == (1 :> {1, 2}) @@ (2 :> {2})

Table == INSTANCE ScreenerTable WITH NoJob <- none, MaxSteps <- Steps.table
Sheet == INSTANCE ScreenerSheets WITH
  RowsOf <- LAMBDA p : PresetRows[p], Names <- Titles, MaxSteps <- Steps.sheet
Panel == INSTANCE Panels WITH Subjects <- Companies, Nobody <- 0, MaxSteps <- Steps.panel
Stock == INSTANCE StockPage WITH Stocks <- Companies, NoStock <- 0, MaxRecent <- 1, MaxSteps <- Steps.stock
Desk == INSTANCE OptionDesk WITH
  Underlyings <- Companies, ExpiriesOf <- LAMBDA s : Expiries[s], None <- none, MaxSteps <- Steps.desk
Cache == INSTANCE ClientCache WITH MaxSteps <- Steps.cache
View == INSTANCE SweepView WITH MaxSteps <- Steps.view
List == INSTANCE ScanList WITH Symbols <- Companies, MaxSteps <- Steps.list
Test == INSTANCE Backtest WITH Symbols <- Tested, MaxSteps <- Steps.backtest
Doss == INSTANCE Dossier WITH Symbols <- Companies, Nobody <- 0, MaxSteps <- Steps.dossier

\* Companies are numbered from 1, 0 stands for none of them; the screener's universes are
\* finite; a sweep's refresh has an address of its own beside those of its levels.
ASSUME ScreensAssumptions ==
  /\ Companies \subseteq Nat \ {0} /\ Doss!DossierAssumptions /\ Sheet!SheetsAssumptions /\ Test!BacktestAssumptions
  /\ IsFiniteSet(Universes) /\ \A u \in Universes : MembersOf[u] \subseteq Nat /\ IsFiniteSet(MembersOf[u])
  /\ PageSize \in Nat \ {0} /\ none \notin [seq : Nat, symbols : SUBSET Nat]

In(f, p) == focus = f => p
Init ==
  \/ focus = "table" /\ Table!Init
  \/ focus = "sheet" /\ Sheet!Init
  \/ focus = "panel" /\ Panel!Init
  \/ focus = "stock" /\ Stock!Init
  \/ focus = "desk" /\ Desk!Init
  \/ focus = "cache" /\ Cache!Init
  \/ focus = "view" /\ View!Init
  \/ focus = "list" /\ List!Init
  \/ focus = "backtest" /\ Test!Init
  \/ focus = "dossier" /\ Doss!Init
Next ==
  /\ UNCHANGED focus
  /\ \/ focus = "table" /\ Table!Next
     \/ focus = "sheet" /\ Sheet!Next
     \/ focus = "panel" /\ Panel!Next
     \/ focus = "stock" /\ Stock!Next
     \/ focus = "desk" /\ Desk!Next
     \/ focus = "cache" /\ Cache!Next
     \/ focus = "view" /\ View!Next
     \/ focus = "list" /\ List!Next
     \/ focus = "backtest" /\ Test!Next
     \/ focus = "dossier" /\ Doss!Next
Fair(A, B, C) == ((focus = "view" /\ A) \/ (focus = "list" /\ B) \/ (focus = "backtest" /\ C)) /\ UNCHANGED focus
\* One screen is open in a behaviour, so its share of each condition is a condition of its own.
Spec ==
  /\ Init /\ [][Next]_screensVars
  /\ WF_screensVars(Fair(View!Open, List!Work, Test!Simulate))
  /\ WF_screensVars(Fair(View!Answers, FALSE, Test!Answers))
  /\ WF_screensVars(Fair(View!Timers, FALSE, Test!Timers))
  /\ WF_screensVars(Fair(View!SweepEnds, FALSE, FALSE))
-------------------------------------------------------------------------------
\* What a screen shows is what it was asked for: the rows of the universes chosen, the panel's
\* subject, the stock of the page, the expiry's chain, the level's list, the store's own list;
\* where a screen does not guard its answers, unless one was overtaken, as its module records.
ShownIsAsked ==
  /\ In("table", Table!RowsOfSelection) /\ In("panel", Panel!ShownIsAsked) /\ In("stock", Stock!ShownIsAsked)
  /\ In("desk", Desk!ShownIsAsked) /\ In("view", View!ShownIsAsked) /\ In("list", List!ShownIsAsked)
  /\ In("backtest", Test!ShownIsAsked) /\ In("dossier", Doss!ShownIsAsked)
\* A screen that says it loads has a request or a timer under way for it, but for the signs its
\* module says are left behind (a verdict answered by an error, an empty load, an overtaken answer).
LoadingIsAsked ==
  /\ In("table", Table!LoadingIsAsked) /\ In("panel", Panel!LoadingIsAsked) /\ In("stock", Stock!LoadingIsAsked)
  /\ In("desk", Desk!LoadingIsAsked) /\ In("cache", Cache!LoadingIsAsked)
  /\ In("view", View!LoadingIsAsked) /\ In("list", List!LoadingIsAsked)
  /\ In("backtest", Test!LoadingIsAsked) /\ In("dossier", Doss!LoadingIsAsked)
\* Each symbol is asked for exactly once: none is in two scans of one load or analysed again by
\* a scan that should skip it; a table that is done has all its technicals and a page with
\* rows, and what any scan analysed is in the list's record.
EachExactlyOnce ==
  /\ In("table", Table!AskedOnce /\ Table!NothingLeftOut /\ Table!PageHasRows)
  /\ In("list", List!AskedOnce /\ List!NothingLost)
\* A sheet or dialog leaves a screen that can be run; two legs of a strategy are two contracts; a
\* saved backtest that was loaded is the one that will run, and what was saved is kept.
SheetsLeaveAScreen ==
  /\ In("sheet", Sheet!SheetsLeaveAScreen) /\ In("desk", Desk!LegsAreApart)
  /\ In("backtest", Test!LoadedIsBuilt /\ Test!KeptIsShown /\ Test!JobsBounded)
\* Within a session the memory of the read cache is only replaced by what is no older.
Forward == [][In("cache", Cache!Forward)]_screensVars
\* Every loop of polls and every scan comes to an end, again and again.
PollsEnd == []<>(In("view", ui.over) /\ In("list", ~ui.scanning) /\ In("backtest", ~ui.running))
===============================================================================
