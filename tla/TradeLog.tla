------------------------------- MODULE TradeLog -------------------------------
(***************************************************************************)
(* The live half of the track record: tradelog.py.                         *)
(*                                                                         *)
(* Recorder threads append the engines' calls to a ledger table, and a     *)
(* single-flight mark-to-market pass settles them.  The table lives in     *)
(* SQLite behind one connection and one lock, and every statement commits  *)
(* on its own (store.py), so ONE STATEMENT IS ONE STEP here: a read and    *)
(* the write that depends on it are two.  The process may be restarted     *)
(* between any two steps; the table survives, the threads do not.          *)
(***************************************************************************)
EXTENDS Integers, Sequences, FiniteSets

CONSTANTS
  Sources,       \* the engines whose calls are kept
  Symbols,       \* the instruments
  Prices,        \* the prices a quote may return
  Horizons,      \* the holding periods a call may carry, in clock ticks
  None,          \* SQL NULL / Python None
  Recorders,     \* threads that call record()
  SourceOf,      \* the source a recorder thread publishes for
  Published,     \* source -> the pick lists its engine may hand to record()
  MARK_INTERVAL, \* ticks between two unforced mark passes
  MaxRows, MaxNow, MaxRestarts   \* bounds of the model

(***************************************************************************)
(* A pick as record() reads it: an entry that is missing or not positive   *)
(* is None, a source without a stop or a target publishes None.            *)
(***************************************************************************)
Pick == [sym : Symbols, entry : Prices \cup {None}, stop : Prices \cup {None},
         target : Prices \cup {None}, horizon : Horizons]

ASSUME TradeLogAssumptions ==
  /\ Prices \subseteq Int
  /\ Horizons \subseteq Nat
  /\ None \notin Int
  /\ SourceOf \in [Recorders -> Sources]
  /\ Published \in [Sources -> SUBSET Seq(Pick)]
  /\ MARK_INTERVAL \in Nat
  /\ MaxRows \in Nat /\ MaxNow \in Nat /\ MaxRestarts \in Nat

VARIABLES
  rows,      \* the tradelog table, in id order
  now,       \* the wall clock
  recPc,     \* recorder -> "idle" | "insert"
  have,      \* recorder -> the open symbols it read before inserting
  todo,      \* recorder -> the picks it has not looked at yet
  markPc,    \* the mark pass: "idle" when tradelog._thread is None
  lastMark,  \* tradelog._last_mark
  markSyms,  \* the symbols the pass asks quotes for
  prices,    \* the quotes it got: a symbol without one maps to None
  markRows,  \* ids of the rows read as open and not settled or marked yet
  markNow,   \* reconcile()'s `now'
  restarts   \* how often the process was restarted

recVars  == <<recPc, have, todo>>
markVars == <<markPc, lastMark, markSyms, prices, markRows, markNow>>
vars     == <<rows, now, recVars, markVars, restarts>>

(***************************************************************************)
(* Statements on the table.                                                *)
(***************************************************************************)
Row == [source : Sources, sym : Symbols, stop : Prices \cup {None},
        target : Prices \cup {None}, horizon : Horizons, opened : Int,
        backfilled : BOOLEAN, status : {"open", "won", "lost", "closed"},
        exit : Prices \cup {None}, closed : Int \cup {None},
        last : Prices \cup {None}]

Ids      == DOMAIN rows
IsOpen(i) == rows[i].status = "open"

\* SELECT symbol ... WHERE source=? AND status='open'
OpenSymbols(s) == {rows[i].sym : i \in {j \in Ids : rows[j].source = s /\ IsOpen(j)}}

NewRow(s, p, t, b) ==
  [source |-> s, sym |-> p.sym, stop |-> p.stop, target |-> p.target,
   horizon |-> p.horizon, opened |-> t, backfilled |-> b, status |-> "open",
   exit |-> None, closed |-> None, last |-> p.entry]

OpenTrade(s, p, t, b) == rows' = Append(rows, NewRow(s, p, t, b))

\* Variant: a status of its own for a trade that ran out of time.
SettleTimedOut(i, st, px, t) ==
  rows' = [rows EXCEPT ![i] = [@ EXCEPT
             !.status = IF st = "closed" THEN "timed out" ELSE st,
             !.exit = px, !.closed = t, !.last = px]]

\* UPDATE ... WHERE id=? : neither statement looks at the row's status.
Settle(i, st, px, t) ==
  rows' = [rows EXCEPT ![i] =
             [@ EXCEPT !.status = st, !.exit = px, !.closed = t, !.last = px]]
Mark(i, px) == rows' = [rows EXCEPT ![i] = [@ EXCEPT !.last = px]]

-------------------------------------------------------------------------------
Init ==
  /\ rows = <<>>
  /\ now = 0
  /\ recPc = [r \in Recorders |-> "idle"]
  /\ have = [r \in Recorders |-> {}]
  /\ todo = [r \in Recorders |-> <<>>]
  /\ markPc = "idle"
  /\ lastMark = -MARK_INTERVAL
  /\ markSyms = {}
  /\ prices = [s \in Symbols |-> None]
  /\ markRows = {}
  /\ markNow = 0
  /\ restarts = 0

Tick ==
  /\ now < MaxNow
  /\ now' = now + 1
  /\ UNCHANGED <<rows, recVars, markVars, restarts>>

(***************************************************************************)
(* record(): read the source's open symbols, then insert pick by pick.     *)
(***************************************************************************)
\* Variant: the names of the call's own source are not filtered out.
WantedAlways(r) == Head(todo[r]).entry # None

Wanted(r) ==
  LET p == Head(todo[r]) IN p.entry # None /\ p.sym \notin have[r]

RecordRead(r) ==
  /\ recPc[r] = "idle"
  /\ \E ps \in Published[SourceOf[r]] : todo' = [todo EXCEPT ![r] = ps]
  /\ have' = [have EXCEPT ![r] = OpenSymbols(SourceOf[r])]
  /\ recPc' = [recPc EXCEPT ![r] = "insert"]
  /\ UNCHANGED <<rows, now, markVars, restarts>>

RecordInsert(r) ==
  /\ recPc[r] = "insert" /\ todo[r] # <<>> /\ Wanted(r)
  /\ Len(rows) < MaxRows
  /\ OpenTrade(SourceOf[r], Head(todo[r]), now, FALSE)
  /\ have' = [have EXCEPT ![r] = @ \cup {Head(todo[r]).sym}]
  /\ todo' = [todo EXCEPT ![r] = Tail(@)]
  /\ UNCHANGED <<now, recPc, markVars, restarts>>

RecordSkip(r) ==
  /\ recPc[r] = "insert" /\ todo[r] # <<>> /\ ~Wanted(r)
  /\ todo' = [todo EXCEPT ![r] = Tail(@)]
  /\ UNCHANGED <<rows, now, recPc, have, markVars, restarts>>

RecordDone(r) ==
  /\ recPc[r] = "insert" /\ todo[r] = <<>>
  /\ recPc' = [recPc EXCEPT ![r] = "idle"]
  /\ have' = [have EXCEPT ![r] = {}]
  /\ UNCHANGED <<rows, now, todo, markVars, restarts>>

(***************************************************************************)
(* ensure_marked() and _mark_run().  A page view starts a pass when the    *)
(* last one is old, the developer route forces one; both only when none is *)
(* running.                                                                *)
(***************************************************************************)
MarkIdle == markPc = "idle"

EnsureMarked(force) ==
  /\ MarkIdle
  /\ force \/ now - lastMark >= MARK_INTERVAL
  /\ markPc' = "symbols"
  /\ UNCHANGED <<rows, now, recVars, lastMark, markSyms, prices, markRows, markNow, restarts>>

MarkSymbols ==
  /\ markPc = "symbols"
  /\ markSyms' = {rows[i].sym : i \in {j \in Ids : IsOpen(j)}}
  /\ markPc' = "prices"
  /\ UNCHANGED <<rows, now, recVars, lastMark, prices, markRows, markNow, restarts>>

\* A failed batch and a symbol the feed does not know leave no quote behind.
MarkPrices ==
  /\ markPc = "prices"
  /\ \E q \in [markSyms -> Prices \cup {None}] :
       prices' = [s \in Symbols |-> IF s \in markSyms THEN q[s] ELSE None]
  /\ markPc' = "read"
  /\ UNCHANGED <<rows, now, recVars, lastMark, markSyms, markRows, markNow, restarts>>

\* reconcile(): one SELECT of the open rows; rows without a quote are passed over.
\* Variant: the SELECT forgets its WHERE.
ToVisitAny(i) == prices[rows[i].sym] # None
ToVisit(i)    == IsOpen(i) /\ prices[rows[i].sym] # None

MarkRead ==
  /\ markPc = "read"
  /\ markRows' = {i \in Ids : ToVisit(i)}
  /\ markNow' = now
  /\ markPc' = "settle"
  /\ UNCHANGED <<rows, now, recVars, lastMark, markSyms, prices, restarts>>

HitTarget(i, px) == rows[i].target # None /\ px >= rows[i].target
HitStop(i, px)   == rows[i].stop # None /\ px <= rows[i].stop
\* Variants: the horizon is off by one; the horizon is never looked at.
ExpiredEarly(i, t) == t - rows[i].opened >= rows[i].horizon - 1
ExpiredNever(i, t) == FALSE
Expired(i, t)    == t - rows[i].opened >= rows[i].horizon

\* The outcome rule of reconcile(), in its order of precedence.
SettleOrMark(i, px, t) ==
  \/ HitTarget(i, px) /\ Settle(i, "won", rows[i].target, t)
  \/ ~HitTarget(i, px) /\ HitStop(i, px) /\ Settle(i, "lost", rows[i].stop, t)
  \/ ~HitTarget(i, px) /\ ~HitStop(i, px) /\ Expired(i, t) /\ Settle(i, "closed", px, t)
  \/ ~HitTarget(i, px) /\ ~HitStop(i, px) /\ ~Expired(i, t) /\ Mark(i, px)

\* One UPDATE; the rows do not influence each other, so their order is left open.
MarkRow(i) ==
  /\ markPc = "settle"
  /\ i \in markRows
  /\ SettleOrMark(i, prices[rows[i].sym], markNow)
  /\ markRows' = markRows \ {i}
  /\ UNCHANGED <<now, recVars, markPc, lastMark, markSyms, prices, markNow, restarts>>

\* The `finally' of _mark_run.
EndMark ==
  /\ markPc' = "idle"
  /\ lastMark' = now
  /\ markRows' = {} /\ markSyms' = {} /\ markNow' = 0
  /\ prices' = [s \in Symbols |-> None]
  /\ UNCHANGED <<rows, now, recVars, restarts>>

MarkDone == markPc = "settle" /\ markRows = {} /\ EndMark
\* Variant: a failed pass skips the `finally'.
MarkFailStuck ==
  /\ markPc # "idle" /\ markPc' = "dead"
  /\ UNCHANGED <<rows, now, recVars, lastMark, markSyms, prices, markRows, markNow, restarts>>
\* A store error anywhere in the pass: logged, the rest of the pass is dropped.
MarkFail == markPc # "idle" /\ EndMark

(***************************************************************************)
(* The process is killed and comes back: only the table is left.           *)
(***************************************************************************)
ResetThreads ==
  /\ recPc' = [r \in Recorders |-> "idle"]
  /\ have' = [r \in Recorders |-> {}]
  /\ todo' = [r \in Recorders |-> <<>>]
  /\ markPc' = "idle"
  /\ lastMark' = -MARK_INTERVAL
  /\ markSyms' = {} /\ markRows' = {} /\ markNow' = 0
  /\ prices' = [s \in Symbols |-> None]

Restart ==
  /\ restarts < MaxRestarts
  /\ restarts' = restarts + 1
  /\ ResetThreads
  /\ UNCHANGED <<rows, now>>

-------------------------------------------------------------------------------
Recording == \E r \in Recorders :
               RecordRead(r) \/ RecordInsert(r) \/ RecordSkip(r) \/ RecordDone(r)
Marking   == \/ \E force \in BOOLEAN : EnsureMarked(force)
             \/ MarkSymbols \/ MarkPrices \/ MarkRead
             \/ \E i \in markRows : MarkRow(i)
             \/ MarkDone \/ MarkFail

Next == Tick \/ Recording \/ Marking \/ Restart
Spec == Init /\ [][Next]_vars

\* A started daemon thread keeps running: its steps are weakly fair.  Nothing
\* makes a page be opened, an engine publish or the clock be forced.
PassSteps == \/ MarkSymbols \/ MarkPrices \/ MarkRead
             \/ \E i \in markRows : MarkRow(i)
             \/ MarkDone
FairSpec  == Spec /\ WF_vars(PassSteps)

\* With the page left open, its polls recur as the clock runs; the forced pass
\* stands for the poll that would come due after the model's last tick.
PolledSpec ==
  FairSpec /\ WF_vars(Tick) /\ WF_vars(EnsureMarked(TRUE))

-------------------------------------------------------------------------------
TypeOK ==
  /\ rows \in Seq(Row)
  /\ now \in Nat
  /\ recPc \in [Recorders -> {"idle", "insert"}]
  /\ have \in [Recorders -> SUBSET Symbols]
  /\ todo \in [Recorders -> Seq(Pick)]
  /\ markPc \in {"idle", "symbols", "prices", "read", "settle"}
  /\ lastMark \in Int
  /\ markSyms \subseteq Symbols
  /\ prices \in [Symbols -> Prices \cup {None}]
  /\ markRows \subseteq Nat
  /\ markNow \in Nat
  /\ restarts \in Nat

\* A source is serial when one thread at a time publishes for it, as the
\* single-flight sweeps do; requests for /recommendation are not.
Serial(s) == \A a, b \in Recorders : SourceOf[a] = s /\ SourceOf[b] = s => a = b

TwiceOpen(i, j) ==
  /\ i # j /\ IsOpen(i) /\ IsOpen(j)
  /\ rows[i].source = rows[j].source /\ rows[i].sym = rows[j].sym

\* record() keeps one open trade per symbol for a source that publishes from
\* one thread, whatever the mark pass settles and wherever a restart falls
\* between the read and the inserts.
OneOpenPerSymbol ==
  \A i, j \in Ids : Serial(rows[i].source) => ~TwiceOpen(i, j)

\* What the docstring of record() says, without the condition on threads.
OneOpenPerSymbolDoc == \A i, j \in Ids : ~TwiceOpen(i, j)

\* The exit of a settled trade is the one its outcome stands for: a win at the
\* published target, a loss at the published stop, anything else only once the
\* horizon had run out; and an open trade has no exit.
OutcomeSound ==
  \A i \in Ids :
    /\ rows[i].status = "open"   => rows[i].exit = None /\ rows[i].closed = None
    /\ rows[i].status = "won"    => rows[i].exit = rows[i].target /\ rows[i].exit # None
    /\ rows[i].status = "lost"   => rows[i].exit = rows[i].stop /\ rows[i].exit # None
    /\ rows[i].status = "closed" => /\ rows[i].exit # None
                                    /\ rows[i].closed - rows[i].opened >= rows[i].horizon

\* The ledger cannot be curated after the fact (tradelog.py's header): rows are
\* only appended, a row that is settled keeps its outcome and its exit, and
\* what was published of a call never changes.
Terms(row) == <<row.source, row.sym, row.stop, row.target, row.horizon, row.opened>>
NeverCurated ==
  [][/\ Len(rows') >= Len(rows)
     /\ \A i \in Ids : /\ Terms(rows'[i]) = Terms(rows[i])
                       /\ ~IsOpen(i) => rows'[i] = rows[i]]_vars

\* With every source serial the table implements the promise of TrackRecord: a
\* row is a call about its source and symbol, and (status, exit) its outcome.
Outcome(row) == <<row.status, row.exit>>
Book == INSTANCE TrackRecord WITH
          Keys <- Sources \X Symbols,
          Outcomes <- {"won", "lost", "closed"} \X Prices,
          Open <- <<"open", None>>,
          book <- [i \in Ids |-> [key |-> <<rows[i].source, rows[i].sym>>,
                                  outcome |-> Outcome(rows[i])]]
ImplementsTrackRecord == Book!Spec

\* A mark pass always ends, so a later one can start: nothing a quote batch, a
\* store error or a concurrent recorder does leaves _thread set for good.
PassEnds == (markPc # "idle") ~> (markPc = "idle")

\* A step of a pass that runs to its end on a full set of quotes.
HealthyStep ==
  /\ markPc = "prices" /\ markPc' = "read" => \A s \in markSyms : prices'[s] # None
  /\ markPc # "idle" /\ markPc' = "idle" => markPc = "settle" /\ markRows = {}

\* While the page is polled and, from some time on, the feed answers and passes
\* do not fail, no call stays open past its horizon for ever.
EveryCallSettles ==
  <>[][HealthyStep]_vars =>
    \A i \in 1..MaxRows :
      (i \in Ids /\ MaxNow - rows[i].opened >= rows[i].horizon)
        ~> (i \in Ids /\ ~IsOpen(i))
\* Passes end and calls settle.
TheLedgerMovesOn == PassEnds /\ EveryCallSettles
===============================================================================
