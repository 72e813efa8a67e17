------------------------------ MODULE ScanCache ------------------------------
(***************************************************************************)
(* The technical scan cache (scanner.py): requests answer from memory and  *)
(* hand what is missing to a small pool of workers over a bounded queue; a *)
(* warm loop fills the same cache in line; the rows go to disk now and     *)
(* then and are read back at start.  An "in flight" set keeps a symbol     *)
(* from being queued twice, and wedges it if it ever leaks.                *)
(***************************************************************************)
EXTENDS Integers, Sequences, FiniteSets

CONSTANTS
  Symbols, None,
  Clients,      \* requests that poll scan(); each is one thread
  Asked,        \* client -> the symbols it polls for
  Workers,      \* _POOL_SIZE threads
  Warmed,       \* the symbols of the warm loop, {} when it is off
  QueueMax,     \* _QUEUE_MAX
  NegTTL, TTL, StaleMax,   \* _NEG_TTL, _TTL, _STALE_MAX
  MaxNow, MaxRestarts      \* bounds of the model

ASSUME ScanAssumptions ==
  /\ None \notin Symbols /\ Warmed \subseteq Symbols
  /\ Asked \in [Clients -> SUBSET Symbols]
  /\ QueueMax \in Nat \ {0}
  /\ {NegTTL, TTL, StaleMax, MaxNow, MaxRestarts} \subseteq Nat
  /\ NegTTL <= TTL /\ TTL <= StaleMax

VARIABLES
  now,
  cache,      \* symbol -> when it was computed and "row" or "failed"; Absent
  disk,       \* the rows of the cache file, in the same form
  inflight,   \* _inflight
  queue,      \* _queue
  todo,       \* client -> what enqueue has still to look at
  adding,     \* client -> the symbol it has marked in flight and not yet put
  job,        \* worker -> the symbol it computes, or None
  written,    \* the workers that have stored their row and not yet released
  filling,    \* what the warm loop is computing
  stamp,      \* the time the warm loop writes its rows with
  restarts

memory == <<cache, inflight, queue, todo, adding, job, written, filling, stamp>>
vars   == <<now, disk, memory, restarts>>

Absent == [ts |-> 0, row |-> "absent"]
Idle   ==
  /\ inflight = {} /\ queue = <<>> /\ written = {} /\ filling = {} /\ stamp = 0
  /\ todo = [c \in Clients |-> {}] /\ adding = [c \in Clients |-> None]
  /\ job = [w \in Workers |-> None]

Init ==
  /\ now = 0 /\ restarts = 0 /\ Idle
  /\ cache = [s \in Symbols |-> Absent] /\ disk = [s \in Symbols |-> Absent]

-------------------------------------------------------------------------------
\* scan(): how a symbol is answered, decided under the cache lock in one go.
Age(e)     == now - e.ts
HasRow(e)  == e.row = "row" /\ Age(e) < StaleMax
IsFresh(e) == e.row = "row" /\ Age(e) < TTL
Cooling(e) == e.row = "failed" /\ Age(e) < NegTTL
Wanted(s)  == ~IsFresh(cache[s]) /\ ~Cooling(cache[s])

\* A poll: what is neither fresh nor cooling off is to be queued.
Poll(c) ==
  /\ todo[c] = {} /\ adding[c] = None
  /\ todo' = [todo EXCEPT ![c] = {s \in Asked[c] : Wanted(s)}]
  /\ UNCHANGED <<now, disk, cache, inflight, queue, adding, job, written, filling, stamp, restarts>>

\* enqueue(), one symbol: marked in flight, or skipped when it already is.
\* Variant: it is not looked at.
SkippedNever(s) == FALSE
Skipped(s) == s \in inflight
Mark(c, s) ==
  /\ s \in todo[c] /\ adding[c] = None
  /\ todo' = [todo EXCEPT ![c] = @ \ {s}]
  /\ \/ Skipped(s) /\ UNCHANGED <<inflight, adding>>
     \/ /\ ~Skipped(s)
        /\ inflight' = inflight \cup {s} /\ adding' = [adding EXCEPT ![c] = s]
  /\ UNCHANGED <<now, disk, cache, queue, job, written, filling, stamp, restarts>>

\* put_nowait on the bounded queue.  Variant: the queue has no bound.
FullNever == FALSE
Full == Len(queue) >= QueueMax
Put(c) ==
  /\ adding[c] # None /\ ~Full
  /\ queue' = Append(queue, adding[c])
  /\ adding' = [adding EXCEPT ![c] = None]
  /\ UNCHANGED <<now, disk, cache, inflight, todo, job, written, filling, stamp, restarts>>

\* The queue is full: the mark is taken back and the rest of the request dropped.
\* Variant: the mark stays.
UnmarkNot(s) == UNCHANGED inflight
Unmark(s) == inflight' = inflight \ {s}
PutFull(c) ==
  /\ adding[c] # None /\ Full
  /\ Unmark(adding[c])
  /\ adding' = [adding EXCEPT ![c] = None]
  /\ todo' = [todo EXCEPT ![c] = {}]
  /\ UNCHANGED <<now, disk, cache, queue, job, written, filling, stamp, restarts>>

\* A worker takes a symbol, computes it, stores it, releases it.
Take(w) ==
  /\ job[w] = None /\ queue # <<>>
  /\ job' = [job EXCEPT ![w] = Head(queue)] /\ queue' = Tail(queue)
  /\ UNCHANGED <<now, disk, cache, inflight, todo, adding, written, filling, stamp, restarts>>
Store(w, row) ==
  /\ job[w] # None /\ w \notin written
  /\ cache' = [cache EXCEPT ![job[w]] = [ts |-> now, row |-> row]]
  /\ written' = written \cup {w}
  /\ UNCHANGED <<now, disk, inflight, queue, todo, adding, job, filling, stamp, restarts>>
\* Variant: only a computed row releases the symbol.
ReleasedRows(w) == inflight' = IF cache[job[w]].row = "row" THEN inflight \ {job[w]} ELSE inflight
Released(w) == inflight' = inflight \ {job[w]}
Release(w) ==
  /\ w \in written
  /\ Released(w)
  /\ job' = [job EXCEPT ![w] = None] /\ written' = written \ {w}
  /\ UNCHANGED <<now, disk, cache, queue, todo, adding, filling, stamp, restarts>>

\* scan(wait=True) of the warm loop: the same look at the cache, then the rows
\* in whatever order they come, all with the time at which they were asked for.
WarmScan ==
  /\ filling = {}
  /\ filling' = {s \in Warmed : Wanted(s)} /\ stamp' = now
  /\ UNCHANGED <<now, disk, cache, inflight, queue, todo, adding, job, written, restarts>>
Fill(s, row) ==
  /\ s \in filling /\ filling' = filling \ {s}
  /\ cache' = [cache EXCEPT ![s] = [ts |-> stamp, row |-> row]]
  /\ UNCHANGED <<now, disk, inflight, queue, todo, adding, job, written, stamp, restarts>>

\* _save: only rows worth serving are written, and never an empty file.
\* Variant: failures are written, too.
StorableAll(e) == e # Absent
Storable(e) == HasRow(e)
Save ==
  /\ \E s \in Symbols : Storable(cache[s])
  /\ disk' = [s \in Symbols |-> IF Storable(cache[s]) THEN cache[s] ELSE Absent]
  /\ UNCHANGED <<now, memory, restarts>>

Tick == now < MaxNow /\ now' = now + 1 /\ UNCHANGED <<disk, memory, restarts>>

\* The process restarts and _load reads what is still worth serving.
\* Variant: whatever the file holds.
LoadableAll(e) == TRUE
Loadable(e) == Age(e) < StaleMax
Restart ==
  /\ restarts < MaxRestarts /\ restarts' = restarts + 1
  /\ cache' = [s \in Symbols |-> IF Loadable(disk[s]) THEN disk[s] ELSE Absent]
  /\ inflight' = {} /\ queue' = <<>> /\ written' = {} /\ filling' = {} /\ stamp' = 0
  /\ todo' = [c \in Clients |-> {}] /\ adding' = [c \in Clients |-> None]
  /\ job' = [w \in Workers |-> None]
  /\ UNCHANGED <<now, disk>>

Enqueueing(c) == (\E s \in Symbols : Mark(c, s)) \/ Put(c) \/ PutFull(c)
Computing(w)  == (\E row \in {"row", "failed"} : Store(w, row)) \/ Release(w)
Warming       == \E s \in Symbols, row \in {"row", "failed"} : Fill(s, row)
Next == \/ \E c \in Clients : Poll(c) \/ Enqueueing(c)
        \/ \E w \in Workers : Take(w) \/ Computing(w)
        \/ WarmScan \/ Warming \/ Save \/ Tick \/ Restart
Spec == Init /\ [][Next]_vars
\* Threads keep running and clients keep polling.
FairSpec ==
  /\ Spec
  /\ \A c \in Clients : WF_vars(Poll(c)) /\ WF_vars(Enqueueing(c))
  /\ \A w \in Workers : WF_vars(Take(w)) /\ WF_vars(Computing(w))

-------------------------------------------------------------------------------
Entry == [ts : 0 .. MaxNow, row : {"row", "failed", "absent"}]
TypeOK ==
  /\ now \in 0 .. MaxNow /\ restarts \in 0 .. MaxRestarts
  /\ cache \in [Symbols -> Entry] /\ disk \in [Symbols -> Entry]
  /\ inflight \subseteq Symbols /\ queue \in Seq(Symbols) /\ Len(queue) <= QueueMax
  /\ todo \in [Clients -> SUBSET Symbols] /\ adding \in [Clients -> Symbols \cup {None}]
  /\ job \in [Workers -> Symbols \cup {None}]
  /\ written \subseteq Workers /\ filling \subseteq Symbols /\ stamp \in 0 .. now

\* Where a symbol's work stands: with a client about to put it, in the queue,
\* with a worker.
With(s) == {c \in Clients : adding[c] = s}
InQueue(s) == {k \in DOMAIN queue : queue[k] = s}
By(s) == {w \in Workers : job[w] = s}

\* A symbol is in flight exactly when somebody has it: no mark without work
\* ("a leak here wedges the symbol forever"), no work without its mark.
InflightExact ==
  \A s \in Symbols : s \in inflight <=> With(s) \cup InQueue(s) \cup By(s) # {}

\* Nobody else works on it meanwhile: the queue never fills with duplicates of
\* work already running.
OneJobPerSymbol ==
  \A s \in Symbols : Cardinality(With(s)) + Cardinality(InQueue(s)) + Cardinality(By(s)) <= 1

\* A restart serves only rows still worth serving: no failure, which "on disk
\* would outlive its cool-off", and nothing that went out of date on disk.
RestoredIsUsable ==
  [][restarts' # restarts =>
       \A s \in Symbols : cache'[s] = Absent \/ HasRow(cache'[s])]_vars

\* A symbol a client keeps polling for is computed in the end, however often
\* its request finds the queue full or is dropped by a restart.
Polled == UNION {Asked[c] : c \in Clients}
PolledIsAnswered == \A s \in Polled : Wanted(s) ~> ~Wanted(s)
===============================================================================
