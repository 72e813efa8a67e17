-------------------------------- MODULE Panels --------------------------------
(***************************************************************************)
(* Panels that ask the server about a subject (a symbol, an index, a       *)
(* timeframe) and show the answer.  They run the same few steps; what      *)
(* tells them apart is read off their code, one record each: whether the   *)
(* subject moves while the panel is open, whether a new one clears what is *)
(* shown, whether the answer to an old one is dropped (guarded), whether   *)
(* answers are kept by subject, what is shown while waiting, and for an    *)
(* answer without content, one with an error, and none at all; and whether *)
(* the user (or a timer) can ask again.                                    *)
(***************************************************************************)
EXTENDS Client

CONSTANTS Subjects, Nobody

Guarded ==
  [moves |-> TRUE, clears |-> TRUE, guarded |-> TRUE, keyed |-> FALSE, waiting |-> "loading",
   empty |-> "message", error |-> "message", fail |-> "message", again |-> FALSE]
Unguarded == [Guarded EXCEPT !.guarded = FALSE]
Once == [Guarded EXCEPT !.moves = FALSE, !.guarded = FALSE]
Kept == [Guarded EXCEPT !.guarded = FALSE, !.keyed = TRUE, !.clears = FALSE]
Quiet(p) == [p EXCEPT !.empty = "nothing", !.error = "nothing", !.fail = "nothing"]

-------------------------------------------------------------------------------
\* The panels.
Checklist         == [Guarded EXCEPT !.empty = "nothing"]
Timeframes        == Guarded
StrategyScores    == Quiet(Guarded)
VerdictTimeframes == Quiet(Guarded)
\* A setup that comes with an error leaves the sign that it is being analysed.
Verdict           == [Once EXCEPT !.guarded = TRUE, !.error = "loading"]
DetailChart       == [Guarded EXCEPT !.again = TRUE]
StockPatterns     == Unguarded
CorporateActions  == Unguarded
CorporateDeals    == [Unguarded EXCEPT !.moves = FALSE]
PriceChart        == Unguarded
Members           == [Unguarded EXCEPT !.again = TRUE]
RiskReport        == [Once EXCEPT !.again = TRUE]
IndexLevels       == [Kept EXCEPT !.again = TRUE]
EntityPositions   == Kept
SymbolPivot       == Unguarded
Holidays          == Once
Broadcasts        == [Once EXCEPT !.again = TRUE]
ServerAlerts      == [Once EXCEPT !.again = TRUE]
Community         == [Once EXCEPT !.waiting = "message", !.again = TRUE]

Panel ==
  [checklist |-> Checklist, timeframes |-> Timeframes, strategies |-> StrategyScores, verdict |-> Verdict,
   horizons |-> VerdictTimeframes, detail |-> DetailChart, patterns |-> StockPatterns,
   actions |-> CorporateActions, deals |-> CorporateDeals, chart |-> PriceChart, members |-> Members,
   risk |-> RiskReport, levels |-> IndexLevels, entities |-> EntityPositions, pivot |-> SymbolPivot,
   holidays |-> Holidays, broadcasts |-> Broadcasts, alerts |-> ServerAlerts, community |-> Community]
P == Panel[ui.panel]

-------------------------------------------------------------------------------
Asking(s, n) == [kind |-> "load", of |-> s, n |-> n]
Init ==
  /\ \E p \in DOMAIN Panel, s \in Subjects :
       /\ ui = [panel |-> p, subject |-> s, of |-> Nobody, shown |-> Panel[p].waiting, n |-> 1,
                memo |-> [t \in Subjects |-> "unasked"],
                mute |-> FALSE, overtaken |-> FALSE]   \* history: a silent error; an answer that another request overtook
       /\ calls = {Asking(s, 1)}
  /\ steps = 0

\* Another subject: in a guarded panel nothing comes of the last one's request.
\* Variant: it is let through.
LeftOver == calls
StillWanted == IF P.guarded THEN {} ELSE calls
Ask(s) ==
  /\ calls' = StillWanted \cup {Asking(s, ui.n + 1)}
  /\ ui' = [ui EXCEPT !.subject = s, !.n = @ + 1, !.mute = FALSE,
                      !.shown = IF P.clears THEN P.waiting ELSE @, !.of = IF P.clears THEN Nobody ELSE @]
Choose(s) ==
  /\ P.moves /\ s # ui.subject /\ Act
  /\ IF P.keyed
     THEN /\ ui' = [ui EXCEPT !.subject = s, !.of = s, !.shown = IF ui.memo[s] = "unasked" THEN "loading" ELSE ui.memo[s],
                              !.n = @ + 1]
          /\ calls' = calls \cup If(ui.memo[s] = "unasked", {Asking(s, ui.n + 1)})
     ELSE Ask(s)
\* Retry, refresh, and the timers that ask again.
Again ==
  /\ P.again /\ ui.shown # "loading" /\ Act
  /\ IF P.keyed THEN /\ calls' = calls \cup {Asking(ui.subject, ui.n + 1)} /\ ui' = [ui EXCEPT !.n = @ + 1]
     ELSE Ask(ui.subject)

Outcome(r) == CASE r = "data" -> "data" [] r = "empty" -> P.empty [] r = "error" -> P.error [] OTHER -> P.fail
Answer(c, r) ==
  /\ Net /\ calls' = calls \ {c}
  /\ IF P.keyed
     THEN LET kept == IF r = "fail" /\ ui.memo[c.of] = "data" THEN "data" ELSE Outcome(r) IN
          ui' = [ui EXCEPT !.memo[c.of] = kept, !.shown = IF c.of = ui.subject THEN kept ELSE @,
                           !.of = IF c.of = ui.subject THEN c.of ELSE @]
     ELSE ui' = [ui EXCEPT !.of = c.of, !.shown = Outcome(r), !.mute = Outcome(r) = "loading",
                           !.overtaken = @ \/ c.n # ui.n]

Answers == \E c \in calls, r \in {"data", "empty", "error", "fail"} : Answer(c, r)
Next == Again \/ Answers \/ \E s \in Subjects : Choose(s)
Spec == Init /\ [][Next]_client

-------------------------------------------------------------------------------
\* What a panel shows is about its subject; in a panel without a guard, as long
\* as no answer overtook a newer request (e.g. ChecklistPanel.tsx:20-37, against
\* CorporateScreen.tsx:20-33).
ShownIsAsked == ui.shown = "data" => ui.of = ui.subject \/ (~P.guarded /\ ui.overtaken)

\* A panel that says it loads has asked; but for the verdict, whose answer may be
\* an error it never shows (TradeVerdict.tsx:57).
LoadingIsAsked ==
  ui.shown = "loading" => (\E c \in calls : c.of = ui.subject) \/ ui.mute \/ ui.overtaken
==============================================================================
