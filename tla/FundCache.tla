------------------------------ MODULE FundCache ------------------------------
(***************************************************************************)
(* The fundamentals cache (fundamentals.py).  Three kinds of threads fetch *)
(* into it: requests that open one symbol and complete it, a pool fed by   *)
(* bulk requests, and a universe sweep that can be stopped and counts what *)
(* it does.  How the cache gets to its file is CacheFile's matter; here a    *)
(* restart finds some of what was there.                                   *)
(*                                                                         *)
(* An entry is what the providers gave: nothing, a row that still misses   *)
(* its yfinance fields ("partial"), or a row that is "full".               *)
(***************************************************************************)
EXTENDS Integers, Sequences, FiniteSets

CONSTANTS
  Symbols, None,
  Openers,      \* threads in get_one
  Bulkers,      \* threads in bulk, and so in enqueue
  PoolWorkers,  \* the threads of _pool
  WarmWorkers,  \* the threads of a sweep's own pool
  Asked, Opened,   \* the symbols bulk requests and page views ask for
  TTL, NegTTL,  \* TTL, NEG_TTL
  MaxNow, MaxQueue, MaxSweeps, MaxOpens, MaxRestarts   \* bounds of the model

Fetchers == Openers \cup PoolWorkers \cup WarmWorkers

ASSUME FundAssumptions ==
  /\ None \notin Symbols /\ Asked \cup Opened \subseteq Symbols /\ IsFiniteSet(Symbols)
  /\ Openers \cap PoolWorkers = {} /\ Openers \cap WarmWorkers = {}
  /\ PoolWorkers \cap WarmWorkers = {} /\ IsFiniteSet(WarmWorkers)
  /\ {TTL, NegTTL, MaxNow, MaxQueue, MaxSweeps, MaxOpens, MaxRestarts} \subseteq Nat
  /\ NegTTL <= TTL

VARIABLES
  now,
  cache,      \* symbol -> entry
  inflight,   \* _inflight
  pc, sym,    \* fetcher -> what it does, and for which symbol
  submit,     \* bulker -> what it has marked and not yet handed to the pool
  queue,      \* the pool's queue
  warm,       \* _warm: phase, cancel and the counters
  todo,       \* the symbols of the sweep no worker has taken
  sweeps, opens, restarts   \* counted for the bounds

mem   == <<cache, inflight>>
thr   == <<pc, sym, submit, queue>>
swp   == <<warm, todo>>
count == <<sweeps, opens, restarts>>
vars  == <<now, mem, thr, swp, count>>

Absent == [ts |-> 0, data |-> "absent"]
Empty  == [s \in Symbols |-> Absent]
NoWarm == [phase |-> "off", cancel |-> FALSE, total |-> 0, done |-> 0, ok |-> 0,
           failed |-> 0, skipped |-> 0]

Init ==
  /\ now = 0 /\ cache = Empty /\ inflight = {}
  /\ pc = [t \in Fetchers |-> "idle"] /\ sym = [t \in Fetchers |-> None]
  /\ submit = [c \in Bulkers |-> {}] /\ queue = <<>>
  /\ warm = NoWarm /\ todo = {}
  /\ sweeps = 0 /\ opens = 0 /\ restarts = 0

-------------------------------------------------------------------------------
\* _fresh: a row is good for the full lifetime, a failure for a short one.
Fresh(s) ==
  /\ cache[s] # Absent
  /\ now - cache[s].ts < IF cache[s].data = "failed" THEN NegTTL ELSE TTL

At(t, place, s) == pc' = [pc EXCEPT ![t] = place] /\ sym' = [sym EXCEPT ![t] = s]
Leave(t)        == At(t, "idle", None)

\* get_one: freshness is looked at without the lock, the mark taken with it.
Open(o, s) ==
  /\ pc[o] = "idle" /\ opens < MaxOpens /\ opens' = opens + 1
  /\ At(o, IF Fresh(s) THEN "read" ELSE "mark", s)
  /\ UNCHANGED <<now, mem, submit, queue, swp, sweeps, restarts>>

\* get_one and the sweep mark a symbol whether or not another thread has.
MarkOne(t) ==
  /\ pc[t] = "mark"
  /\ inflight' = inflight \cup {sym[t]}
  /\ At(t, "fetch", sym[t])
  /\ UNCHANGED <<now, cache, submit, queue, swp, count>>

\* _fetch_one has an answer: one locked block stores it and drops the mark.  It
\* catches whatever a provider raises, so it always gets here, and the sweep's
\* own `except' has nothing to catch.
\* Variant: only an answer with data drops it.
DiscardedRows(s, d) == inflight' = IF d = "failed" THEN inflight ELSE inflight \ {s}
Discarded(s, d) == inflight' = inflight \ {s}
After(t) == IF t \in Openers THEN "read" ELSE IF t \in WarmWorkers THEN "count" ELSE "idle"
FetchOne(t, d) ==
  /\ pc[t] = "fetch"
  /\ cache' = [cache EXCEPT ![sym[t]] = [ts |-> now, data |-> d]]
  /\ Discarded(sym[t], d)
  /\ At(t, After(t), IF t \in PoolWorkers THEN None ELSE sym[t])
  /\ UNCHANGED <<now, submit, queue, swp, count>>

\* The rest of get_one: a partial row is completed from a copy, into whatever
\* entry the cache has by then; its time stays.
Read(o) ==
  /\ pc[o] = "read"
  /\ IF cache[sym[o]].data = "partial" THEN At(o, "gap", sym[o]) ELSE Leave(o)
  /\ UNCHANGED <<now, mem, submit, queue, swp, count>>
GapFill(o, answered) ==
  /\ pc[o] = "gap"
  /\ IF answered
     THEN cache' = [cache EXCEPT ![sym[o]] = [@ EXCEPT !.data = "full"]]
     ELSE UNCHANGED cache
  /\ Leave(o)
  /\ UNCHANGED <<now, inflight, submit, queue, swp, count>>

\* enqueue: one locked look marks what is neither fresh nor in flight, then it
\* goes to the pool symbol by symbol.
Enqueue(c) ==
  /\ submit[c] = {}
  /\ LET new == {s \in Asked : ~Fresh(s) /\ s \notin inflight} IN
       submit' = [submit EXCEPT ![c] = new] /\ inflight' = inflight \cup new
  /\ UNCHANGED <<now, cache, pc, sym, queue, swp, count>>
Submit(c, s) ==
  /\ s \in submit[c] /\ Len(queue) < MaxQueue
  /\ submit' = [submit EXCEPT ![c] = @ \ {s}] /\ queue' = Append(queue, s)
  /\ UNCHANGED <<now, mem, pc, sym, swp, count>>
PoolTake(p) ==
  /\ p \in PoolWorkers /\ pc[p] = "idle" /\ queue # <<>>
  /\ queue' = Tail(queue) /\ At(p, "fetch", Head(queue))
  /\ UNCHANGED <<now, mem, submit, swp, count>>

-------------------------------------------------------------------------------
\* warm_start, warm_stop, _warm_run.
WarmStart ==
  /\ warm.phase = "off" /\ sweeps < MaxSweeps /\ sweeps' = sweeps + 1
  /\ warm' = [NoWarm EXCEPT !.phase = "run", !.total = Cardinality(Symbols)]
  /\ todo' = Symbols
  /\ UNCHANGED <<now, mem, thr, opens, restarts>>
WarmStop ==
  /\ warm.cancel = FALSE /\ warm' = [warm EXCEPT !.cancel = TRUE]
  /\ UNCHANGED <<now, mem, thr, todo, count>>

\* one(): a stopped sweep drops the symbol without counting it.
\* Variant: it is counted as done.
CancelCounted == warm' = [warm EXCEPT !.done = @ + 1]
Cancelled == UNCHANGED warm
WarmTake(w, s) ==
  /\ w \in WarmWorkers /\ pc[w] = "idle" /\ s \in todo /\ todo' = todo \ {s}
  /\ \/ warm.cancel /\ Cancelled /\ UNCHANGED <<pc, sym>>
     \/ ~warm.cancel /\ At(w, "look", s) /\ UNCHANGED warm
  /\ UNCHANGED <<now, mem, submit, queue, count>>

\* Variant: it falls through to the count at the end.
SkipThrough(w) ==
  /\ warm' = [warm EXCEPT !.skipped = @ + 1, !.done = @ + 1] /\ At(w, "done", sym[w])
Skip(w) == warm' = [warm EXCEPT !.skipped = @ + 1, !.done = @ + 1] /\ Leave(w)
WarmLook(w) ==
  /\ pc[w] = "look"
  /\ \/ Fresh(sym[w]) /\ Skip(w)
     \/ ~Fresh(sym[w]) /\ At(w, "mark", sym[w]) /\ UNCHANGED warm
  /\ UNCHANGED <<now, mem, submit, queue, todo, count>>
\* The sweep reads back what the fetch left and then counts it, under another
\* lock; nobody sees the moment between the two, so they are one step here.
WarmCount(w) ==
  /\ pc[w] = "count" /\ At(w, "done", sym[w])
  /\ warm' = IF cache[sym[w]].data = "failed" THEN [warm EXCEPT !.failed = @ + 1]
                                              ELSE [warm EXCEPT !.ok = @ + 1]
  /\ UNCHANGED <<now, mem, submit, queue, todo, count>>
WarmDone(w) ==
  /\ pc[w] = "done" /\ Leave(w)
  /\ warm' = [warm EXCEPT !.done = @ + 1]
  /\ UNCHANGED <<now, mem, submit, queue, todo, count>>

\* The pool has drained: the sweep saves, and is over when it has.
\* Variant: it is not waited for.
DrainedTaken == todo = {}
Drained == todo = {} /\ \A w \in WarmWorkers : pc[w] = "idle"
WarmEnd ==
  /\ warm.phase = "run" /\ Drained
  /\ warm' = [warm EXCEPT !.phase = "save"]
  /\ UNCHANGED <<now, mem, thr, todo, count>>
\* The `finally': the cache is saved, whatever comes of it, and the sweep is over.
\* Variant: a save that fails leaves it running.
OverUnlessFailed == warm' = [warm EXCEPT !.phase = "unsaved"]
Over == warm' = [warm EXCEPT !.phase = "off"]
WarmSaved ==
  /\ warm.phase = "save" /\ Over
  /\ UNCHANGED <<now, mem, thr, todo, count>>

Tick == now < MaxNow /\ now' = now + 1 /\ UNCHANGED <<mem, thr, swp, count>>

\* The process is killed; _load takes what the file has: some of the entries,
\* none if it cannot be read or the release has changed their schema.
Restart ==
  /\ restarts < MaxRestarts /\ restarts' = restarts + 1
  /\ (\E kept \in SUBSET Symbols : cache' = [s \in Symbols |-> IF s \in kept THEN cache[s] ELSE Absent])
  /\ inflight' = {}
  /\ pc' = [t \in Fetchers |-> "idle"] /\ sym' = [t \in Fetchers |-> None]
  /\ submit' = [c \in Bulkers |-> {}] /\ queue' = <<>>
  /\ warm' = NoWarm /\ todo' = {}
  /\ UNCHANGED <<now, sweeps, opens>>

-------------------------------------------------------------------------------
Fetching(t) == MarkOne(t) \/ \E d \in {"failed", "partial", "full"} : FetchOne(t, d)
Opening(o)  == Read(o) \/ \E answered \in BOOLEAN : GapFill(o, answered)
Warming(w)  == (\E s \in Symbols : WarmTake(w, s)) \/ WarmLook(w) \/ WarmCount(w) \/ WarmDone(w)
Bulking(c)  == Enqueue(c) \/ \E s \in Symbols : Submit(c, s)
Working     == \/ \E o \in Openers : Opening(o)
               \/ \E c \in Bulkers : Bulking(c)
               \/ \E p \in PoolWorkers : PoolTake(p)
               \/ \E w \in WarmWorkers : Warming(w)
               \/ \E t \in Fetchers : Fetching(t)
               \/ WarmEnd \/ WarmSaved
Next == \/ Working \/ WarmStart \/ WarmStop \/ Tick \/ Restart
        \/ \E o \in Openers, s \in Opened : Open(o, s)
Spec == Init /\ [][Next]_vars

\* Threads keep running, provider calls return, clients keep polling bulk.
FairSpec ==
  /\ Spec
  /\ \A t \in Fetchers : WF_vars(Fetching(t))
  /\ \A c \in Bulkers : WF_vars(Enqueue(c)) /\ WF_vars(\E s \in Symbols : Submit(c, s))
  /\ \A p \in PoolWorkers : WF_vars(PoolTake(p))
  /\ \A w \in WarmWorkers : WF_vars(Warming(w))
  /\ WF_vars(WarmEnd \/ WarmSaved)

-------------------------------------------------------------------------------
Entry   == [ts : 0 .. MaxNow, data : {"absent", "failed", "partial", "full"}]
Total   == 0 .. Cardinality(Symbols)
FTypeOK ==
  /\ now \in 0 .. MaxNow /\ cache \in [Symbols -> Entry] /\ inflight \subseteq Symbols
  /\ todo \subseteq Symbols /\ queue \in Seq(Symbols)
  /\ pc \in [Fetchers -> {"idle", "mark", "fetch", "read", "gap", "look", "count", "done"}]
  /\ sym \in [Fetchers -> Symbols \cup {None}] /\ submit \in [Bulkers -> SUBSET Symbols]
  /\ warm \in [phase : {"off", "run", "save"}, cancel : BOOLEAN, total : Total, done : Total,
               ok : Total, failed : Total, skipped : Total]

\* No mark outlives the work it stands for: a symbol in flight has a fetch
\* running or on its way, though threads mark and unmark the same symbol.
Fetched(s) ==
  \/ \E t \in Fetchers : sym[t] = s /\ pc[t] = "fetch"
  \/ \E c \in Bulkers : s \in submit[c]
  \/ \E k \in DOMAIN queue : queue[k] = s
InflightNotLeaked == \A s \in inflight : Fetched(s)

\* The sweep's counters agree whatever moment the portal polls them: what is
\* done was fetched, failed or skipped, and what is counted and not yet done is
\* with a worker.
WarmTally ==
  warm.ok + warm.failed + warm.skipped - warm.done =
    Cardinality({w \in WarmWorkers : pc[w] = "done"})

\* "A stopped sweep reads as stopped at 412/1455, not as a completed one": a
\* sweep that shows all symbols done has left an entry for every one.
StoppedReadsStopped ==
  warm.total > 0 /\ warm.done = warm.total => \A s \in Symbols : cache[s] # Absent

\* A sweep is never reported over while one of its workers still fetches, and
\* the next one can only start then.
OverMeansOver ==
  warm.phase # "run" => todo = {} /\ \A w \in WarmWorkers : pc[w] = "idle"

\* What a poll of the sweep shows, its counters and its end, is so.
PollSound == WarmTally /\ OverMeansOver

\* A sweep ends, stopped or not, and another can be started.
SweepEnds == (warm.phase # "off") ~> (warm.phase = "off")

\* What bulk clients keep asking for is answered in the end.
Answered(s) == cache[s] # Absent /\ now - cache[s].ts < TTL
BulkAnswered == \A s \in Asked : ~Answered(s) ~> Answered(s)
SweepsEndAndBulkIsAnswered == SweepEnds /\ BulkAnswered
===============================================================================
