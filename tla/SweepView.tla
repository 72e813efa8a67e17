------------------------------- MODULE SweepView -------------------------------
(***************************************************************************)
(* Screens that follow a sweep of the server: the momentum radar, the      *)
(* multibagger and pattern screens, the trade scan and the sector map.  A  *)
(* request may start a sweep and answers with a snapshot of it; while it   *)
(* says running the screen sleeps and asks again, through the client's     *)
(* read cache, where a snapshot stays fresh for TTL sleeps.  A refresh has *)
(* an address of its own, and so an entry of its own in that cache.        *)
(***************************************************************************)
EXTENDS Client

CONSTANTS TTL, LongTTL, Rounds, MaxMisses    \* the sector map's TTL outlives its Rounds of polls

\* What tells the screens apart.
Radar == [refresh |-> "ask", ttl |-> TTL, rounds |-> FALSE, retries |-> FALSE, keeps |-> TRUE, enriches |-> FALSE, levels |-> 1]
Multibagger == [Radar EXCEPT !.enriches = TRUE]
Patterns == [Radar EXCEPT !.refresh = "aside", !.retries = TRUE, !.keeps = FALSE]
TradeScan == [Patterns EXCEPT !.ttl = 0]
SectorMap == [Radar EXCEPT !.refresh = "none", !.ttl = LongTTL, !.rounds = TRUE, !.levels = 2]
Screens == [radar |-> Radar, multibagger |-> Multibagger, patterns |-> Patterns, trades |-> TradeScan, sectors |-> SectorMap]
S == Screens[ui.screen]

\* A snapshot: of which sweep, how far it is (2: all of it), what it says.
Nothing == [n |-> 0, part |-> 0, st |-> "none"]
Refreshing == 0
Keys == {Refreshing, 1, 2}     \* an address for a refresh, one for each level
Empty == [snap |-> Nothing, age |-> 0]
Wait(k, t, l) == [kind |-> "wait", key |-> k, tick |-> t, level |-> l]
Timer(t, l) == [kind |-> "timer", tick |-> t, level |-> l]
Get(k) == [kind |-> "get", key |-> k]

-------------------------------------------------------------------------------
\* The server (mb_screen.py; the other sweeps likewise).
Idle(n, st) == [n |-> n, part |-> IF n = 0 THEN 0 ELSE 2, st |-> st, stale |-> FALSE]
Begun(v, force) ==            \* ensure_started: one sweep at a time, the results emptied
  IF v.st = "running" \/ (~force /\ v.st = "done" /\ ~v.stale) THEN v
  ELSE [n |-> v.n + 1, part |-> 0, st |-> "running", stale |-> FALSE]
Snapshot(v) == [n |-> v.n, part |-> v.part, st |-> v.st]
Sweeping == ui.server.st = "running" /\ Net /\ UNCHANGED calls
SweepFinds == Sweeping /\ ui.server.part = 0 /\ ui' = [ui EXCEPT !.server.part = 1]
SweepEnds == Sweeping /\ ui' = [ui EXCEPT !.server.part = 2, !.server.st = "done"]
SweepFails ==
  /\ ui.server.st = "running" /\ Act /\ UNCHANGED calls
  /\ ui' = [ui EXCEPT !.server.st = IF ui.server.part > 0 THEN "done" ELSE "error", !.server.stale = TRUE]

-------------------------------------------------------------------------------
\* The client's cache.
Ask(u, k, rest) ==     \* a loop asks: it is answered at once or waits
  LET e == u.mem[k]
      w == Wait(k, u.tick, u.level)
      cached == S.ttl > 0 /\ k # Refreshing /\ e.snap # Nothing
  IN [hit |-> cached, snap |-> e.snap,
      calls |-> rest \cup If(~cached, {w}) \cup If(~cached \/ e.age >= S.ttl, {Get(k)})]
AgedNever(mem) == mem     \* variant: a kept answer stays fresh
Aged(mem) == [k \in Keys |-> [mem[k] EXCEPT !.age = IF @ < S.ttl THEN @ + 1 ELSE @]]

-------------------------------------------------------------------------------
\* The loop of a screen.
\* A snapshot came: show it, and sleep or end.
Shows(u, l, v) == [u EXCEPT !.shown = v, !.of = l, !.loading = FALSE, !.misses = 0]
Partial(u, l, v) ==
  IF v.part > 0 \/ ~S.keeps THEN Shows(u, l, v)
  ELSE IF S.rounds THEN [Shows(u, l, v) EXCEPT !.loading = u.loading] ELSE u
GoesOn(u, v) == v.st = "running" /\ (~S.rounds \/ u.round < Rounds)
Over(u, l, v) ==
  IF v.st = "error" /\ v.part = 0 THEN [u EXCEPT !.loading = FALSE, !.over = TRUE]
  ELSE [Shows(u, l, v) EXCEPT !.over = TRUE, !.kept[l] = IF S.keeps /\ ~S.enriches THEN v ELSE @]
Got(u, l, v, rest) ==
  IF GoesOn(u, v)
  THEN [ui |-> Partial(u, l, v), calls |-> rest \cup {Timer(u.tick, l)}]
  ELSE [ui |-> Over(u, l, v), calls |-> rest \cup If(S.enriches /\ v.part > 0, {[kind |-> "enrich", tick |-> u.tick, level |-> l]})]
Step(r) == ui' = r.ui /\ calls' = r.calls
Asks(u, k, rest) ==
  LET a == Ask(u, k, rest) IN IF a.hit THEN Step(Got(u, u.level, a.snap, a.calls)) ELSE Step([ui |-> u, calls |-> a.calls])

\* A loop begins: on opening, for another level, for a refresh.
Fresh(u) == [u EXCEPT !.tick = @ + 1, !.round = 0, !.misses = 0, !.over = FALSE]
Opened(u) ==
  LET k == IF S.keeps THEN u.kept[u.level] ELSE Nothing IN [Fresh(u) EXCEPT !.shown = k, !.of = u.level, !.loading = k = Nothing]
Begin(u) ==            \* the sector map asks again even for a level it kept
  IF u.loading \/ S.levels > 1 THEN Asks(u, u.level, calls) ELSE ui' = [u EXCEPT !.over = TRUE] /\ UNCHANGED calls
Init ==
  /\ \E s \in DOMAIN Screens, v \in {Idle(0, "idle"), Idle(1, "done")}, old \in BOOLEAN :
       ui = [screen |-> s, server |-> v, level |-> 1, tick |-> 0, round |-> 0, misses |-> 0,
             mem |-> [k \in Keys |-> IF k = 1 /\ old /\ v.n = 1 THEN [snap |-> Snapshot(v), age |-> Screens[s].ttl] ELSE Empty],
             kept |-> [l \in 1..2 |-> Nothing], shown |-> Nothing, of |-> 1, loading |-> FALSE, over |-> TRUE,
             wanted |-> 0]    \* history: the sweep a refresh has to bring
  /\ calls = {} /\ steps = 0
Open == ui.tick = 0 /\ Net /\ Begin(Opened(ui))
Leave ==               \* another screen and back: the loop is cancelled
  /\ ui.tick > 0 /\ Act /\ Begin([Opened(ui) EXCEPT !.wanted = 0])
PickLevel(l) == ui.tick > 0 /\ l # ui.level /\ Act /\ Begin(Opened([ui EXCEPT !.level = l]))
\* The server's list a refresh has to bring: the next one, or the one it is at.
Next1 == IF ui.server.st = "running" THEN ui.server.n ELSE ui.server.n + 1
Refresh ==
  /\ ui.tick > 0 /\ S.refresh = "ask" /\ ~ui.loading /\ Act
  /\ Asks([Fresh(ui) EXCEPT !.kept[1] = Nothing, !.shown = Nothing, !.loading = TRUE, !.wanted = Next1], Refreshing, calls)
Rescan ==              \* the refresh is sent aside, and the loop begins again
  /\ ui.tick > 0 /\ S.refresh = "aside" /\ Act
  /\ Asks([Fresh(ui) EXCEPT !.wanted = Next1], 1, calls \cup {Get(Refreshing)})

\* The timer of a loop; one cancelled asks once more for nothing, but the sector map's.
Wakes(c) ==
  /\ Net
  /\ LET u == [ui EXCEPT !.mem = Aged(@)] IN
     IF c.tick = u.tick THEN Asks([u EXCEPT !.round = IF S.rounds THEN @ + 1 ELSE 0], u.level, calls \ {c})
     ELSE ui' = u /\ calls' = calls \ {c}
\* The answer goes to the cache and to the loops that wait for it.
Waiting(k) == {w \in Of({"wait"}) : w.key = k}
MineWaits(g) == \E w \in Waiting(g.key) : w.tick = ui.tick
Answered(g) ==
  LET v == Begun(ui.server, g.key = Refreshing)
      u == [ui EXCEPT !.server = v, !.mem[g.key] = IF S.ttl > 0 THEN [snap |-> Snapshot(v), age |-> 0] ELSE @]
      rest == calls \ ({g} \cup Waiting(g.key))
  IN IF MineWaits(g) THEN Step(Got(u, u.level, Snapshot(v), rest)) ELSE ui' = u /\ calls' = rest
Retries == S.retries /\ ui.misses < MaxMisses
Lost(g) ==
  /\ calls' = (calls \ ({g} \cup Waiting(g.key))) \cup If(MineWaits(g) /\ Retries, {Timer(ui.tick, ui.level)})
  /\ ui' = CASE ~MineWaits(g) -> ui
             [] MineWaits(g) /\ Retries -> [ui EXCEPT !.misses = @ + 1]
             [] OTHER -> [ui EXCEPT !.loading = FALSE, !.over = TRUE, !.wanted = 0]
Answer(g) == Net /\ Answered(g)
Fails(g) == Act /\ Lost(g)
\* The matches' technicals and financials came: the rows are kept for the next visit.
Enriched(c) ==
  /\ Net /\ calls' = calls \ {c}
  /\ ui' = IF c.tick = ui.tick THEN [ui EXCEPT !.kept[1] = ui.shown] ELSE ui
\* Time passes with no loop under way: entries go stale, the server's list too.
TimePasses ==
  /\ calls = {} /\ Act /\ UNCHANGED calls
  /\ ui' = [ui EXCEPT !.mem = [k \in Keys |-> [@[k] EXCEPT !.age = S.ttl]], !.server.stale = TRUE]

Sweep == SweepFinds \/ SweepEnds
Timers == \E c \in Of({"timer"}) : Wakes(c)
Answers == \E g \in Of({"get"}) : Answer(g)
Next ==
  \/ Open \/ Sweep \/ Timers \/ Answers \/ SweepFails \/ Leave \/ Refresh \/ Rescan \/ TimePasses
  \/ \E c \in Of({"enrich"}) : Enriched(c)
  \/ \E l \in 1..S.levels : PickLevel(l)
  \/ \E g \in Of({"get"}) : Fails(g)
Spec == Init /\ [][Next]_client
Fairness == WF_client(Open) /\ WF_client(SweepEnds) /\ WF_client(Timers) /\ WF_client(Answers)
FairSpec == Spec /\ Fairness
-------------------------------------------------------------------------------
\* The list shown is that of the level chosen (HeatmapScreen.tsx:309-375).
ShownIsAsked == ui.shown.n > 0 => ui.of = ui.level
\* A screen that says it loads has a loop that asks or sleeps (MomentumScreen.tsx:563-615).
LoadingIsAsked == ui.loading => \E c \in Of({"wait", "timer"}) : c.tick = ui.tick
\* Every loop comes to an end: the sweep's last snapshot gets past the client's own
\* cache, where a snapshot that said running stays for a while (swr.ts:95-126).
PollsEnd == []<>ui.over
\* "drop caches and force a fresh server-side screen run" (MultibaggerScreen.tsx:358):
\* when a refresh is over, what is shown is of the sweep it asked for.
RefreshIsNewer == ui.over /\ ui.shown.n > 0 => ui.shown.n >= ui.wanted
===============================================================================
