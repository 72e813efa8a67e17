------------------------------- MODULE Backfill -------------------------------
(***************************************************************************)
(* The historical replay (backfill.py) next to the live ledger (TradeLog). *)
(*                                                                         *)
(* One background run replays the engines over every symbol's past bars in *)
(* a small pool of workers and writes the trades it finds straight into    *)
(* the same table: an INSERT of an open row, then, in a second statement,  *)
(* its settlement or its mark.  Live recorders and the mark pass run       *)
(* meanwhile.  A marker in the store says that a run has completed; it is  *)
(* written at the very end, and looked at before a run is started.         *)
(***************************************************************************)
EXTENDS TradeLog

CONSTANTS
  Workers,      \* the pool of _run
  Callers,      \* threads that call ensure_started: the boot thread, the route
  Forcing,      \* the callers that pass force=True
  Replayed,     \* the replayable sources (reco, momentum)
  ReplayPicks,  \* source -> the picks its engine finds on past bars
  NBars,         \* bars of history; the last one is the present, time 0
  MaxRuns        \* bound of the model: runs started

Bars       == 1 .. NBars
BarTime(b) == b - NBars

\* What a run's constants must satisfy.
BackfillAssumptions ==
  /\ Forcing \subseteq Callers
  /\ Replayed \subseteq Sources
  /\ ReplayPicks \in [Replayed -> SUBSET Pick]
  /\ NBars \in Nat \ {0} /\ MaxRuns \in Nat

VARIABLES
  bfPhase,   \* "off" when backfill._thread is None, else "begin" | "run"
  bfTodo,    \* symbols of the universe no worker has taken yet
  marker,    \* the completion marker in the store (STATE_KEY)
  callPc,    \* caller -> "idle" | "checked"
  wSym,      \* worker -> the symbol it replays, None when it has none
  wBar,      \* worker -> the bar its replay loop has reached
  wBusy,     \* worker -> source -> busy_until
  wTrade,    \* worker -> id and source of the row it has opened and not resolved
  runs       \* how many runs were started (history variable)

bfVars  == <<bfPhase, bfTodo, marker, callPc, wSym, wBar, wBusy, wTrade, runs>>
allVars == <<vars, bfVars>>

NoTrade == [id |-> 0, source |-> None]
Fresh   == [s \in Replayed |-> 0]

IdleWorkers ==
  /\ wSym' = [w \in Workers |-> None]
  /\ wBar' = [w \in Workers |-> 1]
  /\ wBusy' = [w \in Workers |-> Fresh]
  /\ wTrade' = [w \in Workers |-> NoTrade]

BInit ==
  /\ Init
  /\ bfPhase = "off" /\ bfTodo = {} /\ marker = FALSE /\ runs = 0
  /\ callPc = [c \in Callers |-> "idle"]
  /\ wSym = [w \in Workers |-> None]
  /\ wBar = [w \in Workers |-> 1]
  /\ wBusy = [w \in Workers |-> Fresh]
  /\ wTrade = [w \in Workers |-> NoTrade]

(***************************************************************************)
(* ensure_started(): the thread is looked at under the lock, the marker    *)
(* outside it, and the thread again under the lock before it is created.   *)
(***************************************************************************)
StartCheck(c) ==
  /\ callPc[c] = "idle"
  /\ bfPhase = "off"
  /\ c \in Forcing \/ ~marker
  /\ callPc' = [callPc EXCEPT ![c] = "checked"]
  /\ UNCHANGED <<vars, bfPhase, bfTodo, marker, wSym, wBar, wBusy, wTrade, runs>>

StartThread(c) ==
  /\ callPc[c] = "checked"
  /\ callPc' = [callPc EXCEPT ![c] = "idle"]
  /\ \/ /\ bfPhase = "off" /\ runs < MaxRuns
        /\ bfPhase' = "begin" /\ runs' = runs + 1
     \/ /\ bfPhase # "off"
        /\ UNCHANGED <<bfPhase, runs>>
  /\ UNCHANGED <<vars, bfTodo, marker, wSym, wBar, wBusy, wTrade>>

\* Variant: the thread is not cleared when there is nothing to replay.
EmptyStuck == bfPhase' = "error" /\ UNCHANGED bfTodo
EmptyUniverse == bfPhase' = "off" /\ UNCHANGED bfTodo

\* _run: read the universe; an empty one ends the run as an error.
Universe ==
  /\ bfPhase = "begin"
  /\ \E u \in SUBSET Symbols :
       \/ u = {} /\ EmptyUniverse
       \/ u # {} /\ bfPhase' = "run" /\ bfTodo' = u
  /\ UNCHANGED <<vars, marker, callPc, wSym, wBar, wBusy, wTrade, runs>>

\* A worker takes the next symbol.  Without enough history it is done with it.
Take(w, s) ==
  /\ bfPhase = "run" /\ wSym[w] = None
  /\ s \in bfTodo
  /\ bfTodo' = bfTodo \ {s}
  /\ \/ wSym' = [wSym EXCEPT ![w] = s]
     \/ UNCHANGED wSym
  /\ wBar' = [wBar EXCEPT ![w] = 1]
  /\ wBusy' = [wBusy EXCEPT ![w] = Fresh]
  /\ UNCHANGED <<vars, bfPhase, marker, callPc, wTrade, runs>>

\* replay_symbol: a signal on bar b fills at the next bar's open.  Signals are
\* taken bar by bar; a source whose last trade is still running, or closed on a
\* bar not yet passed, is skipped.  The order of the two sources on one bar is
\* left open.
ReplayOpen(w, src, b) ==
  /\ wSym[w] # None /\ wTrade[w] = NoTrade
  /\ b >= wBar[w] /\ b < NBars /\ b > wBusy[w][src]
  /\ Len(rows) < MaxRows
  /\ \E p \in ReplayPicks[src] :
       /\ p.sym = wSym[w] /\ p.entry # None
       /\ OpenTrade(src, p, BarTime(b + 1), TRUE)
  /\ wBar' = [wBar EXCEPT ![w] = b]
  /\ wTrade' = [wTrade EXCEPT ![w] = [id |-> Len(rows) + 1, source |-> src]]
  /\ UNCHANGED <<now, recVars, markVars, restarts, bfPhase, bfTodo, marker, callPc,
                 wSym, wBusy, runs>>

\* walk_forward ended the trade on bar b: by the stop, by the target, or at the
\* close once its horizon had passed.
\* Variant: a win is booked at whatever price the bar shows.
WalkEndAnyPrice(row, b, st, px) ==
  \/ st = "lost" /\ row.stop # None /\ px = row.stop
  \/ st = "won" /\ row.target # None
  \/ st = "closed" /\ BarTime(b) >= row.opened + row.horizon
WalkEnd(row, b, st, px) ==
  \/ st = "lost" /\ row.stop # None /\ px = row.stop
  \/ st = "won" /\ row.target # None /\ px = row.target
  \/ st = "closed" /\ BarTime(b) >= row.opened + row.horizon

\* busy_until of a source whose trade ended on bar b.  Variant: a bar short.
EndedShort(b) == b - 1
EndedOn(b)    == b

ReplaySettle(w, b, st, px) ==
  LET i == wTrade[w].id IN
  /\ wTrade[w] # NoTrade
  /\ BarTime(b) >= rows[i].opened
  /\ WalkEnd(rows[i], b, st, px)
  /\ Settle(i, st, px, BarTime(b))
  /\ wBusy' = [wBusy EXCEPT ![w][wTrade[w].source] = EndedOn(b)]
  /\ wTrade' = [wTrade EXCEPT ![w] = NoTrade]
  /\ UNCHANGED <<now, recVars, markVars, restarts, bfPhase, bfTodo, marker, callPc,
                 wSym, wBar, runs>>

\* busy_until of a source whose trade is still running at the end.
\* Variant: a bar too far.
BusyBeyond(w)   == NBars + 2
StillRunning(w) == NBars + 1

\* It never resolved: marked at the last close, and the source is done here.
ReplayMark(w, px) ==
  /\ wTrade[w] # NoTrade
  /\ Mark(wTrade[w].id, px)
  /\ wBusy' = [wBusy EXCEPT ![w][wTrade[w].source] = StillRunning(w)]
  /\ wTrade' = [wTrade EXCEPT ![w] = NoTrade]
  /\ UNCHANGED <<now, recVars, markVars, restarts, bfPhase, bfTodo, marker, callPc,
                 wSym, wBar, runs>>

\* The loop is over, or an error anywhere in it was swallowed by one().
SymbolOver(w) ==
  /\ wSym' = [wSym EXCEPT ![w] = None]
  /\ wTrade' = [wTrade EXCEPT ![w] = NoTrade]
  /\ UNCHANGED <<vars, bfPhase, bfTodo, marker, callPc, wBar, wBusy, runs>>
SymbolDone(w) == wSym[w] # None /\ wTrade[w] = NoTrade /\ SymbolOver(w)
SymbolFail(w) == wSym[w] # None /\ SymbolOver(w)

\* Variant: the pool is not waited for.
AllTaken == bfPhase = "run" /\ bfTodo = {}
PoolDrained == bfPhase = "run" /\ bfTodo = {} /\ \A w \in Workers : wSym[w] = None

\* pool.map returned: the marker is written and the thread is gone.
RunDone ==
  /\ PoolDrained
  /\ marker' = TRUE /\ bfPhase' = "off"
  /\ UNCHANGED <<vars, bfTodo, callPc, wSym, wBar, wBusy, wTrade, runs>>

\* The process restarts: the table and the marker are left.
BRestart ==
  /\ Restart
  /\ bfPhase' = "off" /\ bfTodo' = {}
  /\ callPc' = [c \in Callers |-> "idle"]
  /\ IdleWorkers
  /\ UNCHANGED <<marker, runs>>

Starting == \E c \in Callers : StartCheck(c) \/ StartThread(c)
Resolving(w) == \/ \E b \in Bars, st \in {"won", "lost", "closed"}, px \in Prices :
                     ReplaySettle(w, b, st, px)
                \/ \E px \in Prices : ReplayMark(w, px)
Working(w) == \/ \E s \in Symbols : Take(w, s)
              \/ \E src \in Replayed, b \in Bars : ReplayOpen(w, src, b)
              \/ Resolving(w) \/ SymbolDone(w) \/ SymbolFail(w)
Live == (Tick \/ Recording \/ Marking) /\ UNCHANGED bfVars

BNext == Live \/ Starting \/ Universe \/ (\E w \in Workers : Working(w)) \/ RunDone \/ BRestart
BSpec == BInit /\ [][BNext]_allVars

\* The run's thread and its pool keep going once started.
RunSteps == \/ Universe \/ RunDone
            \/ \E w \in Workers : (\E s \in Symbols : Take(w, s)) \/ Resolving(w) \/ SymbolDone(w)
BFairSpec == BSpec /\ WF_allVars(RunSteps)

-------------------------------------------------------------------------------
BTypeOK ==
  /\ TypeOK
  /\ bfPhase \in {"off", "begin", "run"} /\ bfTodo \subseteq Symbols
  /\ marker \in BOOLEAN /\ runs \in Nat
  /\ callPc \in [Callers -> {"idle", "checked"}]
  /\ wSym \in [Workers -> Symbols \cup {None}]
  /\ wBar \in [Workers -> Bars]
  /\ wBusy \in [Workers -> [Replayed -> 0 .. NBars + 1]]
  /\ wTrade \in [Workers -> [id : Nat, source : Replayed \cup {None}]]

\* The rule of record() holds for the live rows even while replayed rows of the
\* same engine come and go in the table it reads.
LiveOneOpen ==
  \A i, j \in Ids :
    Serial(rows[i].source) /\ ~rows[i].backfilled /\ ~rows[j].backfilled => ~TwiceOpen(i, j)

\* Two replayed calls of one engine in one symbol never overlap on the replay's
\* own timeline ("at most one open trade per source at a time", replay_symbol):
\* once there is a later one the earlier one has ended, and on a bar before that
\* of the later one's signal, which is the bar before its entry.  The mark pass
\* settles the same rows meanwhile, before or after their worker does, and dates
\* them with the present: such a row no longer says on which bar its call ended.
SamePair(i, j) == rows[i].source = rows[j].source /\ rows[i].sym = rows[j].sym
ReplayDisjoint ==
  runs <= 1 =>
    \A i, j \in Ids :
      /\ i < j /\ rows[i].backfilled /\ rows[j].backfilled /\ SamePair(i, j)
      => /\ ~IsOpen(i) /\ rows[i].opened < rows[j].opened
         /\ rows[i].closed + 1 < rows[j].opened \/ rows[i].closed >= 0

\* What ensure_started documents: the replay never writes the same call twice.
ReplayNeverDoubles ==
  \A i, j \in Ids :
    /\ i # j /\ rows[i].backfilled /\ rows[j].backfilled /\ SamePair(i, j)
    => rows[i].opened # rows[j].opened

\* While a run writes and nothing was forced or started on a stale check, the
\* marker is not set: a reader that finds it set sees the complete record.
MarkerMeansComplete ==
  runs <= 1 /\ marker => bfPhase = "off" /\ \A w \in Workers : wTrade[w] = NoTrade

\* Nothing is held twice: live calls of a serial source, replayed calls.
HeldOnce == LiveOneOpen /\ ReplayDisjoint
\* What a reader of the record takes for granted: the exit of a settled call is the one its
\* outcome stands for, and the marker says complete only of a run that is.
RecordIsHonest == OutcomeSound /\ MarkerMeansComplete

\* What the ledger's header promises holds of the live calls with the replay writing into the
\* same table and its workers failing half way: rows are only appended, the terms of every call are
\* fixed, none is opened again, and a live call that is settled is never touched.  (A replayed one
\* may be settled by the mark pass and then again by its worker.)
LiveNeverCurated ==
  [][/\ Len(rows') >= Len(rows)
     /\ \A i \in Ids : /\ Terms(rows'[i]) = Terms(rows[i])
                       /\ rows'[i].backfilled = rows[i].backfilled
                       /\ ~IsOpen(i) => rows'[i].status # "open"
                       /\ ~IsOpen(i) /\ ~rows[i].backfilled => rows'[i] = rows[i]]_allVars

\* A started run ends, whatever its workers meet: ensure_started is never
\* blocked for good by a run that hangs on to the thread.
ReplayEnds == (bfPhase # "off") ~> (bfPhase = "off")
===============================================================================
