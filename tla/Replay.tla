-------------------------------- MODULE Replay --------------------------------
(***************************************************************************)
(* The replay of one engine over one symbol's bars (backfill.walk_forward, *)
(* backfill.replay_symbol, backfill._index_at), as the loops they are: bar *)
(* by bar a signal opens a trade at the next bar's open, the trade is      *)
(* walked forward at once, and the source is busy until the bar it ended   *)
(* on.  Backfill has many such loops next to the live ledger and leaves    *)
(* open what the bars hold; here they decide.                              *)
(***************************************************************************)
EXTENDS Integers, Sequences

CONSTANTS
  NBars,      \* bars of history
  Times,      \* the dates they may have, in days: markets close on some
  Shapes,     \* the lows and highs a bar may have
  Plans,      \* what the calls may carry: bar -> side, stop, target, horizon
  NoLevel     \* the mark of a plan without a stop, or a target

Bars == 1 .. NBars

\* What a run's constants must satisfy.
ReplayAssumptions ==
  /\ NBars \in Nat \ {0} /\ NoLevel \notin Int
  /\ Times \subseteq {t \in [Bars -> Int] : \A j, k \in Bars : j < k => t[j] < t[k]}
  /\ Shapes \subseteq {c \in [l : Int, h : Int] : c.l <= c.h}
  /\ Plans \subseteq [Bars -> [side : {"long", "short"}, horizon : Nat,
                             stop : Int \cup {NoLevel}, target : Int \cup {NoLevel}]]

VARIABLES
  candles,   \* bar -> its low and high
  time,      \* bar -> its date
  signal,    \* bar -> whether the engine calls a trade on it
  plan,      \* bar -> the side, stop, target and horizon of a call on it
  i,         \* the loop's bar
  busy,      \* busy_until
  walk,      \* the bar walk_forward looks at, 0 when it is not called
  trades     \* the trades written, in order

given == <<candles, time, signal, plan>>
vars  == <<given, i, busy, walk, trades>>

-------------------------------------------------------------------------------
\* The plan of a trade is that of the bar before its entry.
Plan(entry) == plan[entry - 1]
HitStop(c, p) ==
  /\ p.stop # NoLevel
  /\ IF p.side = "short" THEN c.h >= p.stop ELSE c.l <= p.stop
HitTarget(c, p) ==
  /\ p.target # NoLevel
  /\ IF p.side = "short" THEN c.l <= p.target ELSE c.h >= p.target
Stopped(j, entry) == HitStop(candles[j], Plan(entry))
Won(j, entry)     == HitTarget(candles[j], Plan(entry))
Late(j, entry)    == time[j] >= time[entry] + Plan(entry).horizon

\* walk_forward on one bar: stop, target and deadline are looked at in this order.
\* Variant: the target is looked at before the stop.
VerdictTargetFirst(j, entry) ==
  IF Won(j, entry) THEN "won" ELSE IF Stopped(j, entry) THEN "lost"
  ELSE IF Late(j, entry) THEN "closed" ELSE "open"
Verdict(j, entry) ==
  IF Stopped(j, entry) THEN "lost" ELSE IF Won(j, entry) THEN "won"
  ELSE IF Late(j, entry) THEN "closed" ELSE "open"

\* _index_at: the first bar from `from' on whose date is not before t.
IndexAt(t, from) ==
  LET later == {j \in from .. NBars : time[j] >= t} IN
  IF later = {} THEN NBars + 1 ELSE CHOOSE j \in later : \A k \in later : j <= k

Init ==
  /\ candles \in [Bars -> Shapes]
  /\ time \in Times
  /\ signal \in [Bars -> BOOLEAN]
  /\ plan \in Plans
  /\ i = 1 /\ busy = 0 /\ walk = 0 /\ trades = <<>>

Looping == walk = 0 /\ i < NBars

\* No call on this bar, or the source is still busy.
Pass ==
  /\ Looping /\ (~signal[i] \/ i <= busy)
  /\ i' = i + 1
  /\ UNCHANGED <<given, busy, walk, trades>>

\* open_trade, and walk_forward is called from the entry bar on.
Enter ==
  /\ Looping /\ signal[i] /\ i > busy
  /\ trades' = Append(trades, [entry |-> i + 1, status |-> "open", exit |-> NBars + 1])
  /\ walk' = i + 1
  /\ UNCHANGED <<given, i, busy>>

\* The trade that is walked forward.
Walked == Len(trades)
Seen   == Verdict(walk, trades[Walked].entry)

WalkOn ==
  /\ walk \in Bars /\ Seen = "open"
  /\ walk' = walk + 1
  /\ UNCHANGED <<given, i, busy, trades>>

\* walk_forward returned an outcome: settle(), and busy until that bar.
WalkEnd ==
  /\ walk \in Bars /\ Seen # "open"
  /\ trades' = [trades EXCEPT ![Walked] = [@ EXCEPT !.status = Seen, !.exit = walk]]
  /\ busy' = IndexAt(time[walk], i)
  /\ i' = i + 1 /\ walk' = 0
  /\ UNCHANGED given

\* It returned None: mark(), and no re-entry.
RunOut ==
  /\ walk = NBars + 1
  /\ busy' = NBars + 1
  /\ i' = i + 1 /\ walk' = 0
  /\ UNCHANGED <<given, trades>>

Next == Pass \/ Enter \/ WalkOn \/ WalkEnd \/ RunOut
Spec == Init /\ [][Next]_vars

-------------------------------------------------------------------------------
TypeOK ==
  /\ candles \in [Bars -> Shapes] /\ time \in Times
  /\ signal \in [Bars -> BOOLEAN] /\ plan \in Plans
  /\ i \in Bars /\ busy \in 0 .. NBars + 1 /\ walk \in 0 .. NBars + 1
  /\ trades \in Seq([entry : Bars, status : {"open", "won", "lost", "closed"},
                     exit : 1 .. NBars + 1])

\* The calls of one engine in one symbol do not overlap: the next one enters
\* after the bar the previous one ended on.
Disjoint ==
  \A m, n \in DOMAIN trades : m < n => trades[m].exit < trades[n].entry

Ends(t, j) == Stopped(j, t.entry) \/ Won(j, t.entry) \/ Late(j, t.entry)
\* A trade ends on the first bar that touches a level or is past its horizon,
\* and a bar that touches both counts against it (module docstring: a bar whose
\* range covers both levels is a stop-out); an open one has met no such bar.
Reached(n) == IF walk # 0 /\ n = Walked THEN walk - 1 ELSE NBars
FirstTouch(t, reached) ==
  /\ \A j \in t.entry .. reached : j < t.exit => ~Ends(t, j)
  /\ t.status = "open" <=> t.exit \notin Bars
  /\ t.exit \in Bars =>
       /\ Ends(t, t.exit)
       /\ t.status = "lost" <=> Stopped(t.exit, t.entry)
       /\ t.status = "won" => Won(t.exit, t.entry)
       /\ t.status = "closed" => ~Won(t.exit, t.entry)
FirstTouchPessimistic == \A n \in DOMAIN trades : FirstTouch(trades[n], Reached(n))

\* No call is lost and none is padded: a signal already passed either entered a
\* trade at the next bar or fell while an earlier trade was still on, never
\* both; and nothing else entered one.
Entered(b) == \E n \in DOMAIN trades : trades[n].entry = b + 1
Covered(b) == \E n \in DOMAIN trades : trades[n].entry <= b /\ b <= trades[n].exit
EverySignalAccounted ==
  \A b \in Bars : b < i => (signal[b] => (Entered(b) <=> ~Covered(b))) /\ (Entered(b) => signal[b])

\* A replayed call is settled by its first touch, stop first, calls do not overlap and every
\* signal is accounted for.
ReplaySound == Disjoint /\ FirstTouchPessimistic /\ EverySignalAccounted

\* The replay keeps the promise of the live record: one open call at a time, each resolved
\* at most once, none taken out.
Book == INSTANCE TrackRecord WITH
          Keys <- {"pair"},
          Outcomes <- {"won", "lost", "closed"} \X Bars,
          Open <- <<"open", NBars + 1>>,
          book <- [n \in DOMAIN trades |->
                     [key |-> "pair", outcome |-> <<trades[n].status, trades[n].exit>>]]
ImplementsTrackRecord == Book!Spec
===============================================================================
