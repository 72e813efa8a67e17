---------------------------- MODULE FundCacheProofs ----------------------------
(***************************************************************************)
(* The in-flight set and the sweep's counters of the fundamentals cache,   *)
(* for any number of threads and symbols (fundamentals.py).                *)
(*                                                                         *)
(* A mark is dropped by any fetch of its symbol, even while another runs,  *)
(* and so the marks say less than in ScanCache: where one is, there is     *)
(* work, and no more.  The counters need what no step states: the symbols  *)
(* a sweep has done, those with its workers and those not taken are never  *)
(* more than it started with (Budget).  That a stopped sweep never reads   *)
(* as a complete one needs the symbols it has given up counted too (Lost,  *)
(* Losses).                                                                *)
(***************************************************************************)
EXTENDS FundCache, SequenceTheorems, FiniteSetTheorems, TLAPS

USE FundAssumptions

Active == {w \in WarmWorkers : pc[w] # "idle"}
Counted == {w \in WarmWorkers : pc[w] = "done"}

\* A thread that is not idle is at some symbol.
Somewhere == \A t \in Fetchers : pc[t] # "idle" => sym[t] \in Symbols

Budget == warm.done + Cardinality(Active) + Cardinality(todo) <= Cardinality(Symbols)

IInv == FTypeOK /\ Somewhere /\ InflightNotLeaked /\ WarmTally /\ OverMeansOver /\ Budget

-------------------------------------------------------------------------------
(* How the workers of a sweep are counted.                                 *)

LEMMA Finite ==
  ASSUME FTypeOK
  PROVE  /\ IsFiniteSet(Active) /\ Cardinality(Active) \in Nat
         /\ IsFiniteSet(Counted) /\ Cardinality(Counted) \in Nat
         /\ Cardinality(Counted) <= Cardinality(Active)
         /\ IsFiniteSet(todo) /\ Cardinality(todo) \in Nat
         /\ Cardinality(Symbols) \in Nat
<1>1. IsFiniteSet(Active)
  BY FS_Subset DEF Active
<1>2. Counted \in SUBSET Active
  BY DEF Counted, Active
<1>3. IsFiniteSet(Counted) /\ Cardinality(Counted) <= Cardinality(Active)
  BY <1>1, <1>2, FS_Subset
<1>4. IsFiniteSet(todo)
  BY FS_Subset DEF FTypeOK
<1>5. QED
  BY <1>1, <1>3, <1>4, FS_CardinalityType

(* A sweep's worker that begins, goes on or ends.                          *)
LEMMA WorkerMoves ==
  ASSUME FTypeOK, NEW w \in WarmWorkers, NEW place, pc' = [pc EXCEPT ![w] = place]
  PROVE  /\ Active' = IF place = "idle" THEN Active \ {w} ELSE Active \cup {w}
         /\ Counted' = IF place = "done" THEN Counted \cup {w} ELSE Counted \ {w}
<1>1. pc \in [Fetchers -> {"idle", "mark", "fetch", "read", "gap", "look", "count", "done"}]
      /\ w \in Fetchers /\ WarmWorkers \subseteq Fetchers
  BY DEF FTypeOK, Fetchers
<1>2. QED
  BY <1>1 DEF Active, Counted

(* Nobody in the sweep begins or ends.                                     *)
LEMMA SweepKept ==
  ASSUME IInv, warm' = warm, todo' = todo, Active' = Active, Counted' = Counted
  PROVE  WarmTally' /\ OverMeansOver' /\ Budget'
<1>1. WarmTally'
  BY DEF IInv, WarmTally, Counted
<1>2. OverMeansOver'
  BY DEF IInv, OverMeansOver, Active
<1>3. Budget'
  BY DEF IInv, Budget
<1>4. QED
  BY <1>1, <1>2, <1>3

-------------------------------------------------------------------------------
LEMMA InitIInv == Init => IInv
<1> SUFFICES ASSUME Init PROVE IInv
  OBVIOUS
<1>1. Active = {} /\ Counted = {} /\ Cardinality({}) = 0 /\ Cardinality(Symbols) \in Nat
  BY FS_EmptySet, FS_CardinalityType DEF Init, Active, Counted, Fetchers
<1>2. FTypeOK
  BY <1>1 DEF Init, FTypeOK, Empty, Absent, Entry, NoWarm, Total
<1>3. Somewhere /\ InflightNotLeaked /\ OverMeansOver
  BY DEF Init, Somewhere, InflightNotLeaked, OverMeansOver, NoWarm, Fetchers
<1>4. WarmTally
  <2>1. warm.ok = 0 /\ warm.failed = 0 /\ warm.skipped = 0 /\ warm.done = 0
    BY DEF Init, NoWarm
  <2>2. {w \in WarmWorkers : pc[w] = "done"} = {}
    BY <1>1 DEF Counted
  <2>3. QED
    BY <1>1, <2>1, <2>2 DEF WarmTally
<1>5. Budget
  BY <1>1 DEF Init, Budget, NoWarm
<1>6. QED
  BY <1>2, <1>3, <1>4, <1>5 DEF IInv

(* Marking and fetching, whoever does it (_fetch_one).                     *)
LEMMA FetchingIInv ==
  ASSUME IInv, NEW t \in Fetchers, Fetching(t)
  PROVE  IInv'
<1>0. /\ FTypeOK /\ Somewhere /\ InflightNotLeaked
      /\ pc \in [Fetchers -> {"idle", "mark", "fetch", "read", "gap", "look", "count", "done"}]
      /\ sym \in [Fetchers -> Symbols \cup {None}]
      /\ WarmWorkers \subseteq Fetchers
  BY DEF IInv, FTypeOK, Fetchers
<1>1. CASE MarkOne(t)
  <2>1. /\ pc[t] = "mark" /\ pc' = [pc EXCEPT ![t] = "fetch"] /\ sym' = [sym EXCEPT ![t] = sym[t]]
        /\ inflight' = inflight \cup {sym[t]} /\ sym[t] \in Symbols /\ sym' = sym
        /\ UNCHANGED <<now, cache, submit, queue, warm, todo>>
    BY <1>0, <1>1 DEF MarkOne, At, swp, Somewhere
  <2>2. FTypeOK' /\ Somewhere'
    BY <1>0, <2>1 DEF FTypeOK, Somewhere
  <2>3. InflightNotLeaked'
    BY <1>0, <2>1 DEF InflightNotLeaked, Fetched
  <2>4. Active' = Active /\ Counted' = Counted
    BY <1>0, <2>1 DEF Active, Counted
  <2>5. QED
    BY <2>1, <2>2, <2>3, <2>4, SweepKept DEF IInv
<1>2. ASSUME NEW d \in {"failed", "partial", "full"}, FetchOne(t, d) PROVE IInv'
  <2> DEFINE place == After(t)
  <2>1. /\ pc[t] = "fetch" /\ sym[t] \in Symbols
        /\ inflight' = inflight \ {sym[t]}
        /\ cache' = [cache EXCEPT ![sym[t]] = [ts |-> now, data |-> d]]
        /\ pc' = [pc EXCEPT ![t] = place]
        /\ sym' = [sym EXCEPT ![t] = IF t \in PoolWorkers THEN None ELSE sym[t]]
        /\ UNCHANGED <<now, submit, queue, warm, todo>>
    BY <1>0, <1>2 DEF FetchOne, Discarded, At, swp, Somewhere
  <2>2. /\ place \in {"read", "count", "idle"} /\ (place = "idle" => t \in PoolWorkers)
        /\ (place # "idle" => t \notin PoolWorkers)
        /\ (t \in WarmWorkers => place = "count")
    BY DEF After, Fetchers
  <2> HIDE DEF place
  <2>3. FTypeOK' /\ Somewhere'
    BY <1>0, <2>1, <2>2 DEF FTypeOK, Somewhere, Entry
  <2>4. InflightNotLeaked'
    <3>1. ASSUME NEW s \in inflight' PROVE Fetched(s)'
      <4>1. s # sym[t] /\ Fetched(s)
        BY <1>0, <2>1, <3>1 DEF InflightNotLeaked
      <4>2. ASSUME NEW u \in Fetchers, sym[u] = s, pc[u] = "fetch"
            PROVE  sym'[u] = s /\ pc'[u] = "fetch"
        BY <1>0, <2>1, <4>1, <4>2
      <4>3. QED
        BY <2>1, <4>1, <4>2 DEF Fetched
    <3>2. QED
      BY <3>1 DEF InflightNotLeaked
  <2>5. Active' = Active /\ Counted' = Counted
    BY <1>0, <2>1, <2>2 DEF Active, Counted
  <2>6. QED
    BY <2>1, <2>3, <2>4, <2>5, SweepKept DEF IInv
<1>3. QED
  BY <1>1, <1>2 DEF Fetching
(* A page view looks, reads and completes (get_one).                       *)
LEMMA OpeningIInv ==
  ASSUME IInv, NEW o \in Openers, (\E s \in Opened : Open(o, s)) \/ Opening(o)
  PROVE  IInv'
<1>0. /\ FTypeOK /\ Somewhere /\ InflightNotLeaked
      /\ pc \in [Fetchers -> {"idle", "mark", "fetch", "read", "gap", "look", "count", "done"}]
      /\ sym \in [Fetchers -> Symbols \cup {None}]
      /\ o \in Fetchers /\ o \notin WarmWorkers /\ WarmWorkers \subseteq Fetchers
  BY DEF IInv, FTypeOK, Fetchers
<1>1. ASSUME NEW place \in {"idle", "mark", "read", "gap"}, NEW s \in Symbols \cup {None},
             place # "idle" => s \in Symbols, pc[o] # "fetch", At(o, place, s),
             cache' \in [Symbols -> Entry],
             UNCHANGED <<now, inflight, submit, queue, warm, todo>>
      PROVE  IInv'
  <2>1. FTypeOK' /\ Somewhere'
    BY <1>0, <1>1 DEF FTypeOK, Somewhere, At
  <2>2. InflightNotLeaked'
    <3>1. ASSUME NEW x \in inflight' PROVE Fetched(x)'
      <4>1. ASSUME NEW u \in Fetchers, sym[u] = x, pc[u] = "fetch"
            PROVE  sym'[u] = x /\ pc'[u] = "fetch"
        BY <1>0, <1>1, <4>1 DEF At
      <4>2. QED
        BY <1>0, <1>1, <3>1, <4>1 DEF InflightNotLeaked, Fetched
    <3>2. QED
      BY <3>1 DEF InflightNotLeaked
  <2>3. Active' = Active /\ Counted' = Counted
    BY <1>0, <1>1 DEF Active, Counted, At
  <2>4. QED
    BY <1>1, <2>1, <2>2, <2>3, SweepKept DEF IInv
<1>2. ASSUME NEW s \in Opened, Open(o, s) PROVE IInv'
  BY <1>0, <1>1, <1>2 DEF Open, mem, swp, FTypeOK
<1>3. CASE Read(o)
  BY <1>0, <1>1, <1>3 DEF Read, mem, swp, FTypeOK, Leave, Somewhere
<1>4. ASSUME NEW answered \in BOOLEAN, GapFill(o, answered) PROVE IInv'
  <2>1. cache' \in [Symbols -> Entry]
    <3>1. sym[o] \in Symbols /\ cache \in [Symbols -> Entry]
      BY <1>0, <1>4 DEF GapFill, FTypeOK, Somewhere
    <3>2. [cache[sym[o]] EXCEPT !.data = "full"] \in Entry
      BY <3>1 DEF Entry
    <3>3. QED
      BY <3>1, <3>2, <1>4 DEF GapFill
  <2>2. QED
    BY <1>0, <1>1, <1>4, <2>1 DEF GapFill, swp, Leave
<1>5. QED
  BY <1>2, <1>3, <1>4 DEF Opening

(* A bulk request marks and submits, the pool takes (enqueue).             *)
LEMMA BulkingIInv ==
  ASSUME IInv,
         (\E c \in Bulkers : Bulking(c)) \/ (\E p \in PoolWorkers : PoolTake(p))
  PROVE  IInv'
<1>0. /\ FTypeOK /\ Somewhere /\ InflightNotLeaked /\ queue \in Seq(Symbols)
      /\ pc \in [Fetchers -> {"idle", "mark", "fetch", "read", "gap", "look", "count", "done"}]
      /\ sym \in [Fetchers -> Symbols \cup {None}] /\ submit \in [Bulkers -> SUBSET Symbols]
  BY DEF IInv, FTypeOK
<1>1. ASSUME NEW c \in Bulkers, Enqueue(c) PROVE IInv'
  <2>1. PICK new \in SUBSET Symbols :
          /\ submit' = [submit EXCEPT ![c] = new] /\ inflight' = inflight \cup new
          /\ submit[c] = {} /\ UNCHANGED <<now, cache, pc, sym, queue, warm, todo>>
    BY <1>1 DEF Enqueue, swp
  <2>2. FTypeOK' /\ Somewhere'
    BY <1>0, <2>1 DEF FTypeOK, Somewhere
  <2>3. InflightNotLeaked'
    BY <1>0, <2>1 DEF InflightNotLeaked, Fetched
  <2>4. Active' = Active /\ Counted' = Counted
    BY <2>1 DEF Active, Counted
  <2>5. QED
    BY <2>1, <2>2, <2>3, <2>4, SweepKept DEF IInv
<1>2. ASSUME NEW c \in Bulkers, NEW s \in Symbols, Submit(c, s) PROVE IInv'
  <2> DEFINE n == Len(queue) + 1
  <2>1. /\ submit' = [submit EXCEPT ![c] = @ \ {s}] /\ queue' = Append(queue, s)
        /\ UNCHANGED <<now, cache, inflight, pc, sym, warm, todo>>
    BY <1>2 DEF Submit, mem, swp
  <2>2. /\ queue' \in Seq(Symbols) /\ n \in DOMAIN queue' /\ queue'[n] = s
        /\ \A k \in DOMAIN queue : k \in DOMAIN queue' /\ queue'[k] = queue[k]
    <3>1. Len(queue) \in Nat /\ DOMAIN queue = 1 .. Len(queue)
      BY <1>0
    <3>2. queue' \in Seq(Symbols) /\ Len(queue') = n
      BY <1>0, <2>1, AppendProperties
    <3>3. DOMAIN queue' = 1 .. n
      BY <3>2
    <3>4. queue'[n] = s /\ \A k \in DOMAIN queue : queue'[k] = queue[k]
      BY <1>0, <2>1, <3>1, AppendProperties
    <3>5. QED
      BY <3>1, <3>2, <3>3, <3>4
  <2> HIDE DEF n
  <2>3. FTypeOK' /\ Somewhere'
    BY <1>0, <2>1, <2>2 DEF FTypeOK, Somewhere
  <2>4. InflightNotLeaked'
    BY <1>0, <2>1, <2>2 DEF InflightNotLeaked, Fetched
  <2>5. Active' = Active /\ Counted' = Counted
    BY <2>1 DEF Active, Counted
  <2>6. QED
    BY <2>1, <2>3, <2>4, <2>5, SweepKept DEF IInv
<1>3. ASSUME NEW p \in PoolWorkers, PoolTake(p) PROVE IInv'
  <2> DEFINE s == Head(queue)
  <2>1. /\ pc[p] = "idle" /\ queue # <<>> /\ queue' = Tail(queue)
        /\ pc' = [pc EXCEPT ![p] = "fetch"] /\ sym' = [sym EXCEPT ![p] = s]
        /\ p \in Fetchers /\ p \notin WarmWorkers /\ WarmWorkers \subseteq Fetchers
        /\ UNCHANGED <<now, cache, inflight, submit, warm, todo>>
    BY <1>3 DEF PoolTake, At, mem, swp, Fetchers
  <2>2. /\ s \in Symbols /\ queue' \in Seq(Symbols)
        /\ \A k \in DOMAIN queue :
             queue[k] = s \/ (k - 1 \in DOMAIN queue' /\ queue'[k - 1] = queue[k])
    <3>1. Len(queue) \in Nat \ {0} /\ DOMAIN queue = 1 .. Len(queue)
      BY <1>0, <2>1, EmptySeq
    <3>2. s \in Symbols /\ s = queue[1]
      BY <1>0, <2>1, HeadTailProperties
    <3>3. /\ queue' \in Seq(Symbols) /\ Len(queue') = Len(queue) - 1
          /\ \A k \in 1 .. Len(queue') : queue'[k] = queue[k + 1]
      BY <1>0, <2>1, HeadTailProperties
    <3>4. DOMAIN queue' = 1 .. Len(queue) - 1
      BY <3>3
    <3> HIDE DEF s
    <3>5. ASSUME NEW k \in DOMAIN queue, k # 1 PROVE k - 1 \in DOMAIN queue' /\ queue'[k - 1] = queue[k]
      <4>1. k \in Nat /\ k - 1 \in 1 .. Len(queue) - 1 /\ (k - 1) + 1 = k
        BY <3>1, <3>5
      <4>2. queue'[k - 1] = queue[(k - 1) + 1]
        BY <3>3, <4>1
      <4>3. QED
        BY <3>4, <4>1, <4>2
    <3>6. QED
      BY <3>2, <3>3, <3>5
  <2> HIDE DEF s
  <2>3. FTypeOK' /\ Somewhere'
    BY <1>0, <2>1, <2>2 DEF FTypeOK, Somewhere
  <2>4. InflightNotLeaked'
    <3>1. ASSUME NEW x \in inflight' PROVE Fetched(x)'
      <4>1. ASSUME NEW u \in Fetchers, sym[u] = x, pc[u] = "fetch"
            PROVE  sym'[u] = x /\ pc'[u] = "fetch"
        BY <1>0, <2>1, <4>1
      <4>2. ASSUME NEW k \in DOMAIN queue, queue[k] = x PROVE Fetched(x)'
        BY <1>0, <2>1, <2>2, <4>2 DEF Fetched
      <4>3. QED
        BY <1>0, <2>1, <3>1, <4>1, <4>2 DEF InflightNotLeaked, Fetched
    <3>2. QED
      BY <3>1 DEF InflightNotLeaked
  <2>5. Active' = Active /\ Counted' = Counted
    BY <1>0, <2>1 DEF Active, Counted
  <2>6. QED
    BY <2>1, <2>3, <2>4, <2>5, SweepKept DEF IInv
<1>4. QED
  BY <1>1, <1>2, <1>3 DEF Bulking
-------------------------------------------------------------------------------
(* The sweep.                                                              *)

\* The fields of the counters, as numbers.
Warm == [phase : {"off", "run", "save"}, cancel : BOOLEAN, total : Total, done : Nat,
         ok : Nat, failed : Nat, skipped : Nat]

\* FTypeOK, but for the range of the counters, which the tally gives.
LEMMA SweepTyped ==
  ASSUME IInv, warm' \in Warm, todo' \subseteq Symbols,
         pc' \in [Fetchers -> {"idle", "mark", "fetch", "read", "gap", "look", "count", "done"}],
         sym' \in [Fetchers -> Symbols \cup {None}],
         UNCHANGED <<now, cache, inflight, submit, queue>>, WarmTally', Budget'
  PROVE  FTypeOK'
<1>1. IsFiniteSet(todo') /\ IsFiniteSet(Active')
  <2>1. todo' \in SUBSET Symbols /\ Active' \in SUBSET WarmWorkers
    BY DEF Active
  <2>2. QED
    BY <2>1, FS_Subset
<1>2. Counted' \in SUBSET Active'
  BY DEF Counted, Active
<1>3. /\ Cardinality(Counted') \in Nat /\ Cardinality(Active') \in Nat
      /\ Cardinality(Counted') <= Cardinality(Active')
      /\ Cardinality(todo') \in Nat /\ Cardinality(Symbols) \in Nat
  BY <1>1, <1>2, FS_Subset, FS_CardinalityType
<1>4. warm'.ok + warm'.failed + warm'.skipped - warm'.done = Cardinality(Counted')
  BY DEF WarmTally, Counted
<1>5. warm'.done + Cardinality(Active') + Cardinality(todo') <= Cardinality(Symbols)
  BY DEF Budget
<1>6. warm'.ok \in Nat /\ warm'.failed \in Nat /\ warm'.skipped \in Nat /\ warm'.done \in Nat
  BY DEF Warm
<1>7. warm'.ok \in Total /\ warm'.failed \in Total /\ warm'.skipped \in Total /\ warm'.done \in Total
  BY <1>3, <1>4, <1>5, <1>6 DEF Total
<1>8. warm' \in [phase : {"off", "run", "save"}, cancel : BOOLEAN, total : Total, done : Total,
                 ok : Total, failed : Total, skipped : Total]
  BY <1>7 DEF Warm
<1>9. QED
  BY <1>8 DEF IInv, FTypeOK

\* A step of a sweep's worker that does not fetch leaves the marks to others.
LEMMA MarksLeft ==
  ASSUME IInv, NEW w \in WarmWorkers, pc[w] # "fetch", NEW place, NEW s,
         place # "idle" => s \in Symbols,
         At(w, place, s), UNCHANGED <<inflight, submit, queue>>
  PROVE  InflightNotLeaked' /\ Somewhere'
<1>0. /\ pc \in [Fetchers -> {"idle", "mark", "fetch", "read", "gap", "look", "count", "done"}]
      /\ sym \in [Fetchers -> Symbols \cup {None}] /\ w \in Fetchers
      /\ Somewhere /\ InflightNotLeaked
  BY DEF IInv, FTypeOK, Fetchers
<1>1. Somewhere'
  BY <1>0 DEF Somewhere, At
<1>2. ASSUME NEW u \in Fetchers, NEW x, sym[u] = x, pc[u] = "fetch"
      PROVE  sym'[u] = x /\ pc'[u] = "fetch"
  BY <1>0, <1>2 DEF At
<1>3. InflightNotLeaked'
  BY <1>0, <1>2 DEF InflightNotLeaked, Fetched
<1>4. QED
  BY <1>1, <1>3

(* A sweep's worker takes a symbol, skips or counts it (_warm_run.one).    *)
LEMMA WarmingIInv ==
  ASSUME IInv, NEW w \in WarmWorkers, Warming(w)
  PROVE  IInv'
<1> DEFINE nActive == Cardinality(Active)
           nCounted == Cardinality(Counted)
           nTodo == Cardinality(todo)
<1>0. /\ FTypeOK /\ Somewhere /\ OverMeansOver
      /\ pc \in [Fetchers -> {"idle", "mark", "fetch", "read", "gap", "look", "count", "done"}]
      /\ sym \in [Fetchers -> Symbols \cup {None}]
      /\ w \in Fetchers /\ WarmWorkers \subseteq Fetchers
      /\ warm \in Warm /\ todo \subseteq Symbols
  BY DEF IInv, FTypeOK, Fetchers, Warm, Total
<1>1. /\ nActive \in Nat /\ nCounted \in Nat /\ nTodo \in Nat /\ Cardinality(Symbols) \in Nat
      /\ IsFiniteSet(Active) /\ IsFiniteSet(Counted) /\ IsFiniteSet(todo)
  BY <1>0, Finite
<1>2. warm.ok + warm.failed + warm.skipped - warm.done = nCounted
  BY DEF IInv, WarmTally, Counted
<1>3. warm.done + nActive + nTodo <= Cardinality(Symbols)
  BY DEF IInv, Budget
<1>4. pc[w] # "idle" => warm.phase = "run"
  BY <1>0 DEF OverMeansOver
<1>5. /\ Cardinality(Active \cup {w}) = IF pc[w] = "idle" THEN nActive + 1 ELSE nActive
      /\ Cardinality(Active \ {w}) = IF pc[w] = "idle" THEN nActive ELSE nActive - 1
  BY <1>1, FS_AddElement, FS_RemoveElement DEF Active
<1>6. /\ Cardinality(Counted \cup {w}) = IF pc[w] = "done" THEN nCounted ELSE nCounted + 1
      /\ Cardinality(Counted \ {w}) = IF pc[w] = "done" THEN nCounted - 1 ELSE nCounted
  BY <1>1, FS_AddElement, FS_RemoveElement DEF Counted
<1> HIDE DEF nActive, nCounted, nTodo
<1>7. ASSUME NEW place \in {"idle", "look", "mark", "done"}, NEW s \in Symbols \cup {None},
             place # "idle" => s \in Symbols, pc[w] # "fetch", At(w, place, s),
             UNCHANGED <<now, cache, inflight, submit, queue>>,
             warm' \in Warm, todo' \subseteq Symbols, warm'.phase = "run",
             warm'.ok + warm'.failed + warm'.skipped - warm'.done = Cardinality(Counted'),
             warm'.done + Cardinality(Active') + Cardinality(todo') <= Cardinality(Symbols)
      PROVE  IInv'
  <2>1. WarmTally'
    BY <1>7 DEF WarmTally, Counted
  <2>2. Budget'
    BY <1>7 DEF Budget
  <2>3. FTypeOK'
    BY <1>0, <1>7, <2>1, <2>2, SweepTyped DEF At
  <2>4. InflightNotLeaked' /\ Somewhere'
    BY <1>7, MarksLeft
  <2>5. OverMeansOver'
    BY <1>7 DEF OverMeansOver
  <2>6. QED
    BY <2>1, <2>2, <2>3, <2>4, <2>5 DEF IInv
<1>8. ASSUME NEW s \in Symbols, WarmTake(w, s) PROVE IInv'
  <2>1. /\ pc[w] = "idle" /\ s \in todo /\ todo' = todo \ {s} /\ warm' = warm
        /\ UNCHANGED <<now, cache, inflight, submit, queue>>
    BY <1>8 DEF WarmTake, mem, Cancelled
  <2>2. Cardinality(todo') = nTodo - 1
    BY <1>1, <2>1, FS_RemoveElement DEF nTodo
  <2>3. warm.phase = "run"
    BY <1>0, <2>1 DEF OverMeansOver
  <2>4. CASE UNCHANGED <<pc, sym>>
    <3>1. Active' = Active /\ Counted' = Counted
      BY <2>4 DEF Active, Counted
    <3>2. WarmTally'
      BY <2>1, <3>1, <1>2 DEF WarmTally, Counted, nCounted
    <3>3. warm'.done + Cardinality(Active') + Cardinality(todo') <= Cardinality(Symbols)
      BY <1>0, <1>1, <1>3, <2>1, <2>2, <3>1 DEF nActive, Warm
    <3>4. FTypeOK'
      BY <2>1, <2>4, <3>2, <3>3, <1>0, SweepTyped DEF Budget
    <3>5. InflightNotLeaked' /\ Somewhere' /\ OverMeansOver'
      BY <2>1, <2>3, <2>4, <1>0 DEF IInv, InflightNotLeaked, Fetched, Somewhere, OverMeansOver
    <3>6. QED
      BY <3>2, <3>3, <3>4, <3>5 DEF IInv, Budget
  <2>5. CASE At(w, "look", s)
    <3>0. pc' = [pc EXCEPT ![w] = "look"]
      BY <2>5 DEF At
    <3>1. Active' = Active \cup {w} /\ Counted' = Counted \ {w}
      BY <1>0, <3>0 DEF Active, Counted
    <3>2. Cardinality(Active') = nActive + 1 /\ Cardinality(Counted') = nCounted
      BY <2>1, <3>1, <1>5, <1>6
    <3>3. warm.done + Cardinality(Active') + Cardinality(todo') <= Cardinality(Symbols)
      BY <1>0, <1>1, <1>3, <2>2, <3>2 DEF Warm
    <3>4. QED
      BY <1>0, <1>2, <1>7, <2>1, <2>3, <2>5, <3>2, <3>3
  <2>6. QED
    BY <1>8, <2>4, <2>5 DEF WarmTake
<1>9. CASE WarmLook(w)
  <2>1. /\ pc[w] = "look" /\ warm.phase = "run" /\ sym[w] \in Symbols
        /\ UNCHANGED <<now, cache, inflight, submit, queue, todo>>
    BY <1>0, <1>4, <1>9 DEF WarmLook, mem, Somewhere
  <2>2. CASE Skip(w)
    <3>1. Active' = Active \ {w} /\ Counted' = Counted \ {w}
      BY <1>0, <2>2, WorkerMoves DEF Skip, Leave, At
    <3>2. Cardinality(Active') = nActive - 1 /\ Cardinality(Counted') = nCounted
      BY <2>1, <3>1, <1>5, <1>6
    <3>3. /\ warm' \in Warm /\ warm'.phase = "run"
          /\ warm'.skipped = warm.skipped + 1 /\ warm'.done = warm.done + 1
          /\ warm'.ok = warm.ok /\ warm'.failed = warm.failed
      <4>1. warm' = [warm EXCEPT !.skipped = warm.skipped + 1, !.done = warm.done + 1]
        BY <2>2 DEF Skip
      <4>2. warm.skipped + 1 \in Nat /\ warm.done + 1 \in Nat
        BY <1>0 DEF Warm
      <4>3. QED
        BY <1>0, <2>1, <4>1, <4>2 DEF Warm
    <3>4. /\ warm'.ok + warm'.failed + warm'.skipped - warm'.done = Cardinality(Counted')
          /\ warm'.done + Cardinality(Active') + Cardinality(todo') <= Cardinality(Symbols)
      BY <1>0, <1>1, <1>2, <1>3, <2>1, <3>2, <3>3 DEF Warm, nTodo
    <3>5. QED
      BY <1>0, <1>7, <2>1, <2>2, <3>3, <3>4 DEF Skip, Leave
  <2>3. CASE At(w, "mark", sym[w]) /\ UNCHANGED warm
    <3>0. pc' = [pc EXCEPT ![w] = "mark"]
      BY <2>3 DEF At
    <3>1. Active' = Active \cup {w} /\ Counted' = Counted \ {w}
      BY <1>0, <3>0 DEF Active, Counted
    <3>2. Cardinality(Active') = nActive /\ Cardinality(Counted') = nCounted
      BY <2>1, <3>1, <1>5, <1>6
    <3>3. QED
      BY <1>0, <1>2, <1>3, <1>7, <2>1, <2>3, <3>2 DEF nTodo
  <2>4. QED
    BY <1>9, <2>2, <2>3 DEF WarmLook
<1>10. CASE WarmCount(w)
  <2>1. /\ pc[w] = "count" /\ warm.phase = "run" /\ sym[w] \in Symbols /\ At(w, "done", sym[w])
        /\ UNCHANGED <<now, cache, inflight, submit, queue, todo>>
    BY <1>0, <1>4, <1>10 DEF WarmCount, mem, Somewhere
  <2>2. Active' = Active \cup {w} /\ Counted' = Counted \cup {w}
    BY <1>0, <2>1, WorkerMoves DEF At
  <2>3. Cardinality(Active') = nActive /\ Cardinality(Counted') = nCounted + 1
    BY <2>1, <2>2, <1>5, <1>6
  <2>4. /\ warm' \in Warm /\ warm'.phase = "run" /\ warm'.done = warm.done
        /\ warm'.skipped = warm.skipped
        /\ warm'.ok + warm'.failed = warm.ok + warm.failed + 1
    BY <1>0, <1>10, <2>1 DEF WarmCount, Warm
  <2>5. /\ warm'.ok + warm'.failed + warm'.skipped - warm'.done = Cardinality(Counted')
        /\ warm'.done + Cardinality(Active') + Cardinality(todo') <= Cardinality(Symbols)
    BY <1>0, <1>1, <1>2, <1>3, <2>1, <2>3, <2>4 DEF Warm, nTodo
  <2>6. QED
    BY <1>0, <1>7, <2>1, <2>4, <2>5
<1>11. CASE WarmDone(w)
  <2>1. /\ pc[w] = "done" /\ warm.phase = "run" /\ At(w, "idle", None)
        /\ UNCHANGED <<now, cache, inflight, submit, queue, todo>>
    BY <1>0, <1>4, <1>11 DEF WarmDone, mem, Leave
  <2>2. Active' = Active \ {w} /\ Counted' = Counted \ {w}
    BY <1>0, <2>1, WorkerMoves DEF At
  <2>3. Cardinality(Active') = nActive - 1 /\ Cardinality(Counted') = nCounted - 1
    BY <2>1, <2>2, <1>5, <1>6
  <2>4. /\ warm' \in Warm /\ warm'.phase = "run" /\ warm'.done = warm.done + 1
        /\ warm'.skipped = warm.skipped /\ warm'.ok = warm.ok /\ warm'.failed = warm.failed
    BY <1>0, <1>11, <2>1 DEF WarmDone, Warm
  <2>5. /\ warm'.ok + warm'.failed + warm'.skipped - warm'.done = Cardinality(Counted')
        /\ warm'.done + Cardinality(Active') + Cardinality(todo') <= Cardinality(Symbols)
    BY <1>0, <1>1, <1>2, <1>3, <2>1, <2>3, <2>4 DEF Warm, nTodo
  <2>6. QED
    BY <1>0, <1>7, <2>1, <2>4, <2>5
<1>12. QED
  BY <1>8, <1>9, <1>10, <1>11 DEF Warming
(* A sweep begins, is stopped, drains, saves; time passes; the process is  *)
(* restarted (warm_start, warm_stop, _warm_run, _load).                    *)
LEMMA SweepIInv ==
  ASSUME IInv, WarmStart \/ WarmStop \/ WarmEnd \/ WarmSaved \/ Tick \/ Restart \/ UNCHANGED vars
  PROVE  IInv'
<1>0. FTypeOK /\ Somewhere /\ InflightNotLeaked /\ OverMeansOver /\ warm \in Warm
      /\ now \in 0 .. MaxNow /\ cache \in [Symbols -> Entry] /\ todo \subseteq Symbols
      /\ MaxNow \in Nat
  BY DEF IInv, FTypeOK, Warm, Total
<1>1. ASSUME UNCHANGED <<now, cache, inflight, pc, sym, submit, queue>>
      PROVE  InflightNotLeaked' /\ Somewhere' /\ Active' = Active /\ Counted' = Counted
  BY <1>0, <1>1 DEF InflightNotLeaked, Fetched, Somewhere, Active, Counted
<1>2. ASSUME UNCHANGED <<now, cache, inflight, pc, sym, submit, queue, todo>>, warm' \in Warm,
             UNCHANGED <<warm.done, warm.ok, warm.failed, warm.skipped>>, OverMeansOver'
      PROVE  IInv'
  <2>1. WarmTally' /\ Budget'
    <3>1. Active' = Active /\ Counted' = Counted
      BY <1>1, <1>2
    <3>2. Budget'
      BY <1>2, <3>1 DEF IInv, Budget
    <3>3. WarmTally'
      BY <1>2, <3>1 DEF IInv, WarmTally, Counted
    <3>4. QED
      BY <3>2, <3>3
  <2>2. FTypeOK'
    BY <1>0, <1>2, <2>1, SweepTyped DEF FTypeOK
  <2>3. QED
    BY <1>1, <1>2, <2>1, <2>2 DEF IInv
<1>3. CASE WarmStart
  <2>1. /\ warm.phase = "off" /\ todo' = Symbols
        /\ warm' = [NoWarm EXCEPT !.phase = "run", !.total = Cardinality(Symbols)]
        /\ UNCHANGED <<now, cache, inflight, pc, sym, submit, queue>>
    BY <1>3 DEF WarmStart, mem, thr
  <2>2. Cardinality(Symbols) \in Nat /\ Cardinality({}) = 0
    BY FS_CardinalityType, FS_EmptySet
  <2>3. Active = {} /\ Counted = {}
    BY <1>0, <2>1 DEF OverMeansOver, Active, Counted
  <2>4. Active' = {} /\ Counted' = {}
    BY <1>1, <2>1, <2>3
  <2>5. /\ warm' \in Warm /\ warm'.phase = "run" /\ warm'.done = 0 /\ warm'.ok = 0
        /\ warm'.failed = 0 /\ warm'.skipped = 0
    <3>1. warm' = [phase |-> "run", cancel |-> FALSE, total |-> Cardinality(Symbols),
                   done |-> 0, ok |-> 0, failed |-> 0, skipped |-> 0]
      BY <2>1 DEF NoWarm
    <3>2. Cardinality(Symbols) \in Total
      BY <2>2 DEF Total
    <3>3. QED
      BY <3>1, <3>2 DEF Warm
  <2>6. Budget'
    BY <2>1, <2>2, <2>4, <2>5 DEF Budget
  <2>7. WarmTally'
    BY <2>2, <2>4, <2>5 DEF WarmTally, Counted
  <2>8. FTypeOK'
    BY <1>0, <2>1, <2>5, <2>6, <2>7, SweepTyped DEF FTypeOK
  <2>9. OverMeansOver'
    BY <2>5 DEF OverMeansOver
  <2>10. QED
    BY <1>1, <2>1, <2>6, <2>7, <2>8, <2>9 DEF IInv
<1>4. CASE WarmStop
  <2>1. warm' \in Warm /\ warm'.phase = warm.phase
    BY <1>0, <1>4 DEF WarmStop, Warm
  <2>2. OverMeansOver'
    BY <1>0, <1>4, <2>1 DEF WarmStop, OverMeansOver, thr
  <2>3. UNCHANGED <<warm.done, warm.ok, warm.failed, warm.skipped>>
    BY <1>0, <1>4 DEF WarmStop, Warm
  <2>4. QED
    BY <1>2, <1>4, <2>1, <2>2, <2>3 DEF WarmStop, mem, thr
<1>5. CASE WarmEnd
  <2>1. warm' \in Warm /\ UNCHANGED <<warm.done, warm.ok, warm.failed, warm.skipped>>
    BY <1>0, <1>5 DEF WarmEnd, Warm
  <2>2. OverMeansOver'
    BY <1>5 DEF WarmEnd, Drained, OverMeansOver, thr
  <2>3. QED
    BY <1>2, <1>5, <2>1, <2>2 DEF WarmEnd, mem, thr
<1>6. CASE WarmSaved
  <2>1. warm' \in Warm /\ UNCHANGED <<warm.done, warm.ok, warm.failed, warm.skipped>>
    BY <1>0, <1>6 DEF WarmSaved, Over, Warm
  <2>2. OverMeansOver'
    BY <1>0, <1>6 DEF WarmSaved, OverMeansOver, thr
  <2>3. QED
    BY <1>2, <1>6, <2>1, <2>2 DEF WarmSaved, mem, thr
<1>7. CASE Tick
  <2>1. /\ now' \in 0 .. MaxNow /\ UNCHANGED <<cache, inflight, pc, sym, submit, queue, warm, todo>>
    BY <1>0, <1>7 DEF Tick, mem, thr, swp
  <2>2. FTypeOK' /\ Somewhere' /\ InflightNotLeaked'
    BY <1>0, <2>1 DEF FTypeOK, Somewhere, InflightNotLeaked, Fetched
  <2>3. Active' = Active /\ Counted' = Counted
    BY <2>1 DEF Active, Counted
  <2>4. QED
    BY <2>1, <2>2, <2>3, SweepKept DEF IInv
<1>8. CASE Restart
  <2>1. /\ inflight' = {} /\ todo' = {} /\ queue' = <<>> /\ warm' = NoWarm /\ now' = now
        /\ pc' = [t \in Fetchers |-> "idle"] /\ sym' = [t \in Fetchers |-> None]
        /\ submit' = [c \in Bulkers |-> {}] /\ WarmWorkers \subseteq Fetchers
    BY <1>8 DEF Restart, Fetchers
  <2>2. cache' \in [Symbols -> Entry]
    BY <1>0, <1>8 DEF Restart, Entry, Absent
  <2>3. Active' = {} /\ Counted' = {} /\ Cardinality({}) = 0 /\ Cardinality(Symbols) \in Nat
    BY <2>1, FS_EmptySet, FS_CardinalityType DEF Active, Counted
  <2>4. /\ warm'.done = 0 /\ warm'.ok = 0 /\ warm'.failed = 0 /\ warm'.skipped = 0
        /\ warm'.phase = "off"
    BY <2>1 DEF NoWarm
  <2>5. FTypeOK'
    BY <1>0, <2>1, <2>2, <2>3 DEF FTypeOK, NoWarm, Total
  <2>6. Somewhere' /\ InflightNotLeaked' /\ OverMeansOver'
    BY <2>1 DEF Somewhere, InflightNotLeaked, OverMeansOver
  <2>7. Budget'
    BY <2>1, <2>3, <2>4 DEF Budget
  <2>8. WarmTally'
    BY <2>3, <2>4 DEF WarmTally, Counted
  <2>9. QED
    BY <2>5, <2>6, <2>7, <2>8 DEF IInv
<1>9. CASE UNCHANGED vars
  <2>1. UNCHANGED <<now, cache, inflight, pc, sym, submit, queue, warm, todo>>
    BY <1>9 DEF vars, mem, thr, swp
  <2>2. OverMeansOver'
    BY <1>0, <2>1 DEF OverMeansOver
  <2>3. QED
    BY <1>0, <1>2, <2>1, <2>2
<1>10. QED
  BY <1>3, <1>4, <1>5, <1>6, <1>7, <1>8, <1>9

LEMMA StepIInv == IInv /\ [Next]_vars => IInv'
BY FetchingIInv, OpeningIInv, BulkingIInv, WarmingIInv, SweepIInv DEF Next, Working

LEMMA Invariance == Spec => []IInv
BY InitIInv, StepIInv, PTL DEF Spec

-------------------------------------------------------------------------------
(* A stopped sweep.  Its lost symbols, those without an entry that no      *)
(* worker has or will take, count against what it can still have done.     *)

Lost == {s \in Symbols : /\ cache[s] = Absent /\ s \notin todo
                         /\ \A w \in Active : sym[w] # s}

\* A symbol that is counted has an entry.
Recorded == \A w \in WarmWorkers : pc[w] \in {"count", "done"} => cache[sym[w]] # Absent
WholeSweep == warm.total \in {0, Cardinality(Symbols)}
Losses ==
  warm.total > 0 =>
    warm.done + Cardinality(Active) + Cardinality(todo) + Cardinality(Lost) <= Cardinality(Symbols)

JInv == IInv /\ Recorded /\ WholeSweep /\ Losses

LEMMA LostFinite == IsFiniteSet(Lost) /\ Cardinality(Lost) \in Nat
<1>1. Lost \in SUBSET Symbols
  BY DEF Lost
<1>2. IsFiniteSet(Lost)
  BY <1>1, FS_Subset
<1>3. QED
  BY <1>2, FS_CardinalityType

\* Entries are written over, never taken away, but by a restart.
LEMMA EntriesStay ==
  ASSUME JInv, Next, ~Restart
  PROVE  \A s \in Symbols : cache[s] # Absent => cache'[s] # Absent
<1>0. cache \in [Symbols -> Entry] /\ Somewhere
  BY DEF JInv, IInv, FTypeOK
<1>1. ASSUME NEW t \in Fetchers, NEW d \in {"failed", "partial", "full"}, FetchOne(t, d)
      PROVE  \A s \in Symbols : cache[s] # Absent => cache'[s] # Absent
  <2>1. [ts |-> now, data |-> d] # Absent
    BY DEF Absent
  <2>2. QED
    BY <1>0, <1>1, <2>1 DEF FetchOne
<1>2. ASSUME NEW o \in Openers, NEW answered \in BOOLEAN, GapFill(o, answered)
      PROVE  \A s \in Symbols : cache[s] # Absent => cache'[s] # Absent
  <2>1. o \in Fetchers /\ sym[o] \in Symbols
    BY <1>0, <1>2 DEF GapFill, Somewhere, Fetchers
  <2>2. [cache[sym[o]] EXCEPT !.data = "full"] # Absent
    BY <1>0, <2>1 DEF Entry, Absent
  <2>3. QED
    BY <1>0, <1>2, <2>1, <2>2 DEF GapFill
<1>3. CASE UNCHANGED cache
  BY <1>3
<1>4. QED
  BY <1>1, <1>2, <1>3 DEF Next, Working, Fetching, Opening, Warming, Bulking, MarkOne, Read, Enqueue,
     Submit, PoolTake, WarmTake, WarmLook, WarmCount, WarmDone, WarmEnd, WarmSaved, WarmStart,
     WarmStop, Tick, Open, mem

\* The counts behind Losses are numbers, before and after a step.
LEMMA Numbers ==
  ASSUME IInv
  PROVE  /\ warm.done \in Nat /\ warm.total \in Nat /\ Cardinality(Symbols) \in Nat
         /\ IsFiniteSet(Active) /\ Cardinality(Active) \in Nat
         /\ IsFiniteSet(todo) /\ Cardinality(todo) \in Nat
<1>1. FTypeOK
  BY DEF IInv
<1>2. Cardinality(Symbols) \in Nat /\ warm.done \in Total /\ warm.total \in Total
  BY <1>1, Finite DEF FTypeOK
<1>3. warm.done \in Nat /\ warm.total \in Nat
  BY <1>2 DEF Total
<1>4. QED
  BY <1>1, <1>2, <1>3, Finite

\* Nobody in the sweep begins or ends, and its counters stay.
LEMMA QuietLosses ==
  ASSUME JInv, Next, ~Restart, warm'.done = warm.done, warm'.total = warm.total,
         todo' = todo, Active' = Active, \A w \in Active : sym'[w] = sym[w]
  PROVE  WholeSweep' /\ Losses'
<1>1. Lost' \in SUBSET Lost
  <2>1. \A s \in Symbols : cache[s] # Absent => cache'[s] # Absent
    BY EntriesStay
  <2>2. QED
    BY <2>1 DEF Lost
<1>2. Cardinality(Lost') <= Cardinality(Lost) /\ Cardinality(Lost') \in Nat /\ Cardinality(Lost) \in Nat
  BY <1>1, LostFinite, FS_Subset, FS_CardinalityType
<1>3. WholeSweep'
  BY DEF JInv, WholeSweep
<1>4. Losses'
  BY <1>2, Numbers DEF JInv, Losses
<1>5. QED
  BY <1>3, <1>4

\* The sweep's workers stay where they are.
LEMMA QuietJInv ==
  ASSUME JInv, IInv', Next, ~Restart, warm'.done = warm.done, warm'.total = warm.total,
         todo' = todo, \A w \in WarmWorkers : pc'[w] = pc[w] /\ sym'[w] = sym[w]
  PROVE  JInv'
<1>1. Active' = Active /\ \A w \in Active : sym'[w] = sym[w]
  BY DEF Active
<1>2. WholeSweep' /\ Losses'
  BY <1>1, QuietLosses
<1>3. Recorded'
  <2>1. ASSUME NEW w \in WarmWorkers, pc'[w] \in {"count", "done"} PROVE cache'[sym'[w]] # Absent
    <3>1. sym[w] \in Symbols /\ cache[sym[w]] # Absent
      BY <2>1 DEF JInv, IInv, Somewhere, Recorded, Fetchers
    <3>2. QED
      BY <3>1, EntriesStay
  <2>2. QED
    BY <2>1 DEF Recorded, Absent
<1>4. QED
  BY <1>2, <1>3 DEF JInv

LEMMA FetchingJInv ==
  ASSUME JInv, IInv', NEW t \in Fetchers, Fetching(t), ~Restart
  PROVE  JInv'
<1>0. /\ pc \in [Fetchers -> {"idle", "mark", "fetch", "read", "gap", "look", "count", "done"}]
      /\ sym \in [Fetchers -> Symbols \cup {None}] /\ WarmWorkers \subseteq Fetchers
      /\ cache \in [Symbols -> Entry] /\ Somewhere /\ Recorded /\ Next
  BY DEF JInv, IInv, FTypeOK, Fetchers, Next, Working
<1>1. CASE MarkOne(t)
  <2>1. /\ pc[t] = "mark" /\ pc' = [pc EXCEPT ![t] = "fetch"] /\ sym' = sym
        /\ UNCHANGED <<cache, warm, todo>>
    BY <1>0, <1>1 DEF MarkOne, At, swp
  <2>2. Active' = Active /\ \A w \in Active : sym'[w] = sym[w]
    BY <1>0, <2>1 DEF Active
  <2>3. WholeSweep' /\ Losses'
    BY <1>0, <2>1, <2>2, QuietLosses
  <2>4. Recorded'
    BY <1>0, <2>1 DEF Recorded, Absent
  <2>5. QED
    BY <2>3, <2>4 DEF JInv
<1>2. ASSUME NEW d \in {"failed", "partial", "full"}, FetchOne(t, d) PROVE JInv'
  <2> DEFINE place == After(t)
  <2>1. /\ pc[t] = "fetch" /\ sym[t] \in Symbols
        /\ cache' = [cache EXCEPT ![sym[t]] = [ts |-> now, data |-> d]]
        /\ pc' = [pc EXCEPT ![t] = place]
        /\ sym' = [sym EXCEPT ![t] = IF t \in PoolWorkers THEN None ELSE sym[t]]
        /\ UNCHANGED <<warm, todo>>
    BY <1>0, <1>2 DEF FetchOne, At, swp, Somewhere
  <2>2. t \in WarmWorkers => place = "count" /\ t \notin PoolWorkers
    BY DEF After
  <2> HIDE DEF place
  <2>3. Active' = Active /\ \A w \in Active : sym'[w] = sym[w]
    BY <1>0, <2>1, <2>2 DEF Active
  <2>4. WholeSweep' /\ Losses'
    BY <1>0, <2>1, <2>3, QuietLosses
  <2>5. Recorded'
    <3>1. ASSUME NEW w \in WarmWorkers, pc'[w] \in {"count", "done"} PROVE cache'[sym'[w]] # Absent
      <4>1. CASE w = t
        <5>1. sym'[w] = sym[t] /\ cache'[sym[t]] = [ts |-> now, data |-> d]
          BY <1>0, <2>1, <2>2, <4>1
        <5>2. QED
          BY <5>1 DEF Absent
      <4>2. CASE w # t
        <5>1. sym'[w] = sym[w] /\ pc'[w] = pc[w]
          BY <1>0, <2>1, <4>2
        <5>2. sym[w] \in Symbols /\ cache[sym[w]] # Absent
          BY <1>0, <3>1, <5>1 DEF Somewhere, Recorded
        <5>3. QED
          BY <1>0, <5>1, <5>2, EntriesStay
      <4>3. QED
        BY <4>1, <4>2
    <3>2. QED
      BY <3>1 DEF Recorded, Absent
  <2>6. QED
    BY <2>4, <2>5 DEF JInv
<1>3. QED
  BY <1>1, <1>2 DEF Fetching

\* A worker that takes a symbol or leaves one it has recorded loses none, but the one a stopped
\* sweep drops.
LEMMA WarmingJInv ==
  ASSUME JInv, IInv', NEW w \in WarmWorkers, Warming(w), ~Restart
  PROVE  JInv'
<1> DEFINE nActive == Cardinality(Active)
           nTodo == Cardinality(todo)
           nLost == Cardinality(Lost)
<1>0. /\ pc \in [Fetchers -> {"idle", "mark", "fetch", "read", "gap", "look", "count", "done"}]
      /\ sym \in [Fetchers -> Symbols \cup {None}] /\ w \in Fetchers /\ WarmWorkers \subseteq Fetchers
      /\ Somewhere /\ Recorded /\ Losses /\ WholeSweep /\ todo \subseteq Symbols
      /\ warm \in Warm /\ Next
  <2>1. FTypeOK /\ Somewhere /\ Recorded /\ Losses /\ WholeSweep
    BY DEF JInv, IInv
  <2>2. warm \in Warm
    BY <2>1 DEF FTypeOK, Warm, Total
  <2>3. w \in Fetchers /\ WarmWorkers \subseteq Fetchers /\ Next
    BY DEF Fetchers, Next, Working
  <2>4. QED
    BY <2>1, <2>2, <2>3 DEF FTypeOK
<1>1. /\ warm.done \in Nat /\ warm.total \in Nat /\ Cardinality(Symbols) \in Nat
      /\ nActive \in Nat /\ nTodo \in Nat /\ nLost \in Nat
      /\ IsFiniteSet(Active) /\ IsFiniteSet(todo) /\ IsFiniteSet(Lost)
  BY Numbers, LostFinite DEF JInv
<1>2. warm.total > 0 => warm.done + nActive + nTodo + nLost <= Cardinality(Symbols)
  BY <1>0 DEF Losses
<1>3. /\ cache' = cache /\ warm'.total = warm.total
      /\ \A u \in WarmWorkers \ {w} : pc'[u] = pc[u] /\ sym'[u] = sym[u]
  <2>1. cache' = cache
    BY <1>0 DEF Warming, WarmTake, WarmLook, WarmCount, WarmDone, mem
  <2>2. warm'.total = warm.total
    BY <1>0 DEF Warming, WarmTake, WarmLook, WarmCount, WarmDone, Skip, Cancelled, Warm
  <2>3. \A u \in WarmWorkers \ {w} : pc'[u] = pc[u] /\ sym'[u] = sym[u]
    <3>1. UNCHANGED <<pc, sym>> \/ \E a, b : At(w, a, b)
      BY <1>0 DEF Warming, WarmTake, WarmLook, WarmCount, WarmDone, Skip, Leave
    <3>2. QED
      BY <1>0, <3>1 DEF At
  <2>4. QED
    BY <2>1, <2>2, <2>3
<1>4. WholeSweep'
  BY <1>0, <1>3 DEF WholeSweep
<1>5. ASSUME pc'[w] \in {"count", "done"} => cache[sym'[w]] # Absent PROVE Recorded'
  BY <1>0, <1>3, <1>5 DEF Recorded, Absent
<1>6. ASSUME Lost' \subseteq Lost PROVE Cardinality(Lost') \in Nat /\ Cardinality(Lost') <= nLost
  <2>1. Lost' \in SUBSET Lost
    BY <1>6
  <2>2. QED
    BY <1>1, <2>1, FS_Subset, FS_CardinalityType
<1> HIDE DEF nActive, nTodo, nLost
\* It leaves a symbol that has an entry, and counts it.
<1>7. ASSUME pc[w] # "idle", cache[sym[w]] # Absent, At(w, "idle", None),
             warm'.done = warm.done + 1, todo' = todo
      PROVE  JInv'
  <2>1. pc'[w] = "idle" /\ Active' = Active \ {w} /\ \A u \in Active' : sym'[u] = sym[u]
    BY <1>0, <1>3, <1>7 DEF Active, At
  <2>2. Cardinality(Active') = nActive - 1
    <3>1. w \in Active
      BY <1>7 DEF Active
    <3>2. QED
      BY <1>1, <2>1, <3>1, FS_RemoveElement DEF nActive
  <2>3. Lost' \subseteq Lost
    BY <1>3, <1>7, <2>1 DEF Lost, Absent
  <2>4. Losses'
    BY <1>1, <1>2, <1>3, <1>6, <1>7, <2>2, <2>3 DEF Losses, nTodo
  <2>5. QED
    BY <1>4, <1>5, <2>1, <2>4 DEF JInv
\* It goes on with its symbol.
<1>8. ASSUME pc[w] # "idle", NEW place \in {"mark", "done"}, At(w, place, sym[w]),
             place = "done" => cache[sym[w]] # Absent,
             warm'.done = warm.done, todo' = todo
      PROVE  JInv'
  <2>1. pc'[w] = place /\ sym'[w] = sym[w]
    BY <1>0, <1>8 DEF At
  <2>2. Active' = Active /\ \A u \in Active : sym'[u] = sym[u]
    BY <1>3, <1>8, <2>1 DEF Active
  <2>3. Losses'
    BY <1>0, <1>3, <1>8, <2>2, QuietLosses
  <2>4. QED
    BY <1>4, <1>5, <1>8, <2>1, <2>3 DEF JInv
<1>9. ASSUME NEW s \in Symbols, WarmTake(w, s) PROVE JInv'
  <2>1. pc[w] = "idle" /\ s \in todo /\ todo' = todo \ {s} /\ warm' = warm
    BY <1>9 DEF WarmTake, Cancelled
  <2>2. Cardinality(todo') = nTodo - 1
    BY <1>1, <2>1, FS_RemoveElement DEF nTodo
  <2>3. CASE UNCHANGED <<pc, sym>>
    <3>1. Active' = Active
      BY <2>3 DEF Active
    <3>2. Lost' \in SUBSET (Lost \cup {s})
      BY <1>3, <2>1, <2>3, <3>1 DEF Lost, Absent
    <3>3. Cardinality(Lost') \in Nat /\ Cardinality(Lost') <= nLost + 1
      <4>1. IsFiniteSet(Lost \cup {s}) /\ Cardinality(Lost \cup {s}) \in Nat /\ Cardinality(Lost \cup {s}) <= nLost + 1
        <5>1. IsFiniteSet(Lost \cup {s}) /\ (Cardinality(Lost \cup {s}) = nLost \/ Cardinality(Lost \cup {s}) = nLost + 1)
          BY <1>1, FS_AddElement DEF nLost
        <5>2. QED
          BY <1>1, <5>1
      <4>2. Cardinality(Lost') <= Cardinality(Lost \cup {s}) /\ IsFiniteSet(Lost')
        BY <3>2, <4>1, FS_Subset
      <4>3. Cardinality(Lost') \in Nat
        BY <4>2, FS_CardinalityType
      <4>4. QED
        BY <1>1, <4>1, <4>2, <4>3
    <3>4. Losses'
      BY <1>1, <1>2, <2>1, <2>2, <3>1, <3>3 DEF Losses, nActive
    <3>5. Recorded'
      BY <1>0, <1>3, <2>3 DEF Recorded, Absent
    <3>6. QED
      BY <1>4, <3>4, <3>5 DEF JInv
  <2>4. CASE At(w, "look", s)
    <3>1. pc'[w] = "look" /\ sym'[w] = s
      BY <1>0, <2>4 DEF At
    <3>2. Active' = Active \cup {w} /\ w \notin Active
      BY <1>3, <2>1, <3>1 DEF Active
    <3>3. Cardinality(Active') = nActive + 1
      BY <1>1, <3>2, FS_AddElement DEF nActive
    <3>4. Lost' \subseteq Lost
      BY <1>3, <2>1, <3>1, <3>2 DEF Lost, Absent, Active
    <3>5. Losses'
      BY <1>1, <1>2, <1>6, <2>1, <2>2, <3>3, <3>4 DEF Losses
    <3>6. QED
      BY <1>4, <1>5, <3>1, <3>5 DEF JInv
  <2>5. QED
    BY <1>9, <2>3, <2>4 DEF WarmTake
<1>10. CASE WarmLook(w)
  <2>1. CASE Fresh(sym[w]) /\ Skip(w)
    <3>1. cache[sym[w]] # Absent /\ At(w, "idle", None) /\ warm'.done = warm.done + 1
      BY <1>0, <2>1 DEF Fresh, Skip, Leave, Warm
    <3>2. QED
      BY <1>7, <1>10, <3>1 DEF WarmLook
  <2>2. CASE At(w, "mark", sym[w]) /\ UNCHANGED warm
    BY <1>8, <1>10, <2>2 DEF WarmLook
  <2>3. QED
    BY <1>10, <2>1, <2>2 DEF WarmLook
<1>11. CASE WarmCount(w)
  <2>1. cache[sym[w]] # Absent /\ warm'.done = warm.done
    BY <1>0, <1>11 DEF WarmCount, Recorded, Warm
  <2>2. QED
    BY <1>8, <1>11, <2>1 DEF WarmCount
<1>12. CASE WarmDone(w)
  <2>1. cache[sym[w]] # Absent /\ warm'.done = warm.done + 1
    BY <1>0, <1>12 DEF WarmDone, Recorded, Warm
  <2>2. QED
    BY <1>7, <1>12, <2>1 DEF WarmDone, Leave
<1>13. QED
  BY <1>9, <1>10, <1>11, <1>12 DEF Warming

LEMMA StepJInv == JInv /\ IInv' /\ [Next]_vars => JInv'
<1> SUFFICES ASSUME JInv, IInv', [Next]_vars PROVE JInv'
  OBVIOUS
<1>0. FTypeOK /\ OverMeansOver /\ warm \in Warm
  <2>1. FTypeOK /\ OverMeansOver
    BY DEF JInv, IInv
  <2>2. QED
    BY <2>1 DEF FTypeOK, Warm, Total
<1>1. CASE Restart
  <2>1. pc' = [t \in Fetchers |-> "idle"] /\ warm'.total = 0 /\ WarmWorkers \subseteq Fetchers
    BY <1>1 DEF Restart, NoWarm, Fetchers
  <2>2. QED
    BY <2>1 DEF JInv, Recorded, WholeSweep, Losses
<1>2. CASE WarmStart
  <2>1. /\ warm.phase = "off" /\ todo' = Symbols /\ pc' = pc
        /\ warm'.done = 0 /\ warm'.total = Cardinality(Symbols)
    BY <1>2 DEF WarmStart, NoWarm, thr
  <2>2. Active' = {} /\ Lost' = {}
    BY <1>0, <2>1 DEF OverMeansOver, Active, Lost
  <2>3. Cardinality(Symbols) \in Nat /\ Cardinality({}) = 0
    BY Numbers, FS_EmptySet DEF JInv
  <2>4. Losses'
    BY <2>1, <2>2, <2>3 DEF Losses
  <2>5. Recorded' /\ WholeSweep'
    BY <1>0, <2>1 DEF Recorded, WholeSweep, OverMeansOver
  <2>6. QED
    BY <2>4, <2>5 DEF JInv
<1>3. ASSUME Next, ~Restart, ~WarmStart,
             ~\E t \in Fetchers : Fetching(t), ~\E w \in WarmWorkers : Warming(w)
      PROVE  JInv'
  <2>1. /\ pc \in [Fetchers -> {"idle", "mark", "fetch", "read", "gap", "look", "count", "done"}]
        /\ sym \in [Fetchers -> Symbols \cup {None}] /\ WarmWorkers \subseteq Fetchers
    BY <1>0 DEF FTypeOK, Fetchers
  <2>2. todo' = todo /\ warm'.done = warm.done /\ warm'.total = warm.total
    BY <1>0, <1>3 DEF Next, Working, Opening, Bulking, Open, Read, GapFill, Enqueue, Submit, PoolTake,
       WarmStop, WarmEnd, WarmSaved, Over, Tick, swp, Warm
  <2>3. \A w \in WarmWorkers : pc'[w] = pc[w] /\ sym'[w] = sym[w]
    <3>1. ASSUME NEW t \in Fetchers, t \notin WarmWorkers, NEW place, NEW s, At(t, place, s)
          PROVE  \A w \in WarmWorkers : pc'[w] = pc[w] /\ sym'[w] = sym[w]
      BY <2>1, <3>1 DEF At
    <3>2. ASSUME NEW o \in Openers, Opening(o) \/ \E s \in Opened : Open(o, s)
          PROVE  \A w \in WarmWorkers : pc'[w] = pc[w] /\ sym'[w] = sym[w]
      BY <3>1, <3>2 DEF Fetchers, Opening, Open, Read, GapFill, Leave
    <3>3. ASSUME NEW p \in PoolWorkers, PoolTake(p)
          PROVE  \A w \in WarmWorkers : pc'[w] = pc[w] /\ sym'[w] = sym[w]
      BY <3>1, <3>3 DEF Fetchers, PoolTake
    <3>4. CASE UNCHANGED <<pc, sym>>
      BY <3>4
    <3>5. QED
      BY <1>3, <3>2, <3>3, <3>4 DEF Next, Working, Bulking, Enqueue, Submit, WarmStop, WarmEnd, WarmSaved, Tick, thr
  <2>4. QED
    BY <1>3, <2>2, <2>3, QuietJInv
<1>4. CASE UNCHANGED vars
  BY <1>4 DEF JInv, Recorded, WholeSweep, Losses, Lost, Active, Absent, vars, mem, thr, swp
<1>5. QED
  BY <1>1, <1>2, <1>3, <1>4, FetchingJInv, WarmingJInv

LEMMA InitJInv == Init => JInv
BY InitIInv, FS_EmptySet DEF Init, JInv, Recorded, WholeSweep, Losses, NoWarm, Fetchers

-------------------------------------------------------------------------------
(* Every reachable state of cache, threads and sweep is well typed; the    *)
(* counters never run past the size of the sweep.                          *)
THEOREM TypeCorrect == Spec => []FTypeOK
<1>1. IInv => FTypeOK
  BY DEF IInv
<1>2. QED
  BY <1>1, Invariance, PTL

(* A symbol in flight has a fetch running or on its way, however many      *)
(* threads mark and unmark it (get_one, enqueue, _warm_run, _fetch_one).   *)
THEOREM MarksNotLeaked == Spec => []InflightNotLeaked
<1>1. IInv => InflightNotLeaked
  BY DEF IInv
<1>2. QED
  BY <1>1, Invariance, PTL

(* At every poll what is done was fetched, failed or skipped (_warm_run).  *)
THEOREM CountersAgree == Spec => []WarmTally
<1>1. IInv => WarmTally
  BY DEF IInv
<1>2. QED
  BY <1>1, Invariance, PTL

(* A sweep reported over has no worker left, and none begins before that   *)
(* (_warm_run's finally, warm_start).                                      *)
THEOREM OverWhenDrained == Spec => []OverMeansOver
<1>1. IInv => OverMeansOver
  BY DEF IInv
<1>2. QED
  BY <1>1, Invariance, PTL

\* At every poll of a sweep its counters agree with its workers, and a sweep that
\* reads as over has no worker left.
THEOREM PollsSound == Spec => []PollSound
BY CountersAgree, OverWhenDrained, PTL DEF PollSound

(* "A stopped sweep reads as stopped at 412/1455, not as a completed one": *)
(* when all symbols count as done each has an entry, whoever stopped the   *)
(* sweep and whatever page views and bulk requests fetched in between      *)
(* (_warm_run.one, warm_stop).                                             *)
THEOREM StoppedNeverComplete == Spec => []StoppedReadsStopped
<1>1. JInv => StoppedReadsStopped
  <2> SUFFICES ASSUME JInv, warm.total > 0, warm.done = warm.total PROVE \A s \in Symbols : cache[s] # Absent
    BY DEF StoppedReadsStopped
  <2>1. Cardinality(Active) = 0 /\ Cardinality(todo) = 0 /\ Cardinality(Lost) = 0
    BY Numbers, LostFinite DEF JInv, WholeSweep, Losses
  <2>2. Active = {} /\ todo = {} /\ Lost = {}
    BY <2>1, Numbers, LostFinite, FS_EmptySet DEF JInv
  <2>3. QED
    BY <2>2 DEF Lost
<1>2. Spec => []JInv
  <2>1. JInv => IInv
    BY DEF JInv
  <2>2. QED
    BY <2>1, InitJInv, StepJInv, StepIInv, PTL DEF Spec
<1>3. QED
  BY <1>1, <1>2, PTL
===============================================================================
