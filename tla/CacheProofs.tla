---------------------------- MODULE CacheProofs ----------------------------
(***************************************************************************)
(* Two caches and what is promised of them for any size: the in-flight set *)
(* of the technical scan cache (scanner.enqueue, _worker) and the file of  *)
(* the fundamentals' cache (fundamentals._save, _load).                    *)
(*                                                                         *)
(* OneJobPerSymbol counts; what is inductive is that whoever has a symbol  *)
(* has it alone (Alone), and that with InflightExact: a symbol is only     *)
(* marked when nobody has it, and each step after that hands it on.        *)
(*                                                                         *)
(* The file is whole at every moment and never goes back, however many     *)
(* changes, failed writes and kills there are, as long as one thread saves *)
(* it; with two savers neither holds.                                      *)
(***************************************************************************)
EXTENDS ScanCache, CacheFile, SequenceTheorems, FiniteSetTheorems, TLAPS

USE ScanAssumptions

\* No symbol is with two of its possible owners, or with one of them twice.
Alone ==
  /\ \A c, d \in Clients : adding[c] # None /\ adding[c] = adding[d] => c = d
  /\ \A w, v \in Workers : job[w] # None /\ job[w] = job[v] => w = v
  /\ \A k, l \in DOMAIN queue : queue[k] = queue[l] => k = l
  /\ \A c \in Clients, k \in DOMAIN queue : adding[c] # queue[k]
  /\ \A c \in Clients, w \in Workers : adding[c] # None => adding[c] # job[w]
  /\ \A k \in DOMAIN queue, w \in Workers : queue[k] # job[w]

\* InflightExact, with its sets written out.
Held(s) == \/ \E c \in Clients : adding[c] = s
           \/ \E k \in DOMAIN queue : queue[k] = s
           \/ \E w \in Workers : job[w] = s
Marked == \A s \in Symbols : s \in inflight <=> Held(s)

\* The cache file holds rows and no failures (_save).
DiskRows == \A s \in Symbols : disk[s] = Absent \/ disk[s].row = "row"

IInv == TypeOK /\ Alone /\ Marked /\ DiskRows

-------------------------------------------------------------------------------
LEMMA InitIInv == Init => IInv
<1> SUFFICES ASSUME Init PROVE IInv
  OBVIOUS
<1>1. TypeOK
  BY DEF Init, Idle, TypeOK, Entry, Absent
<1>2. Alone /\ Marked /\ DiskRows
  BY DEF Init, Idle, Alone, Marked, Held, DiskRows
<1>3. QED
  BY <1>1, <1>2 DEF IInv

\* Nobody's hold on a symbol changes.
LEMMA HoldsKept ==
  ASSUME IInv, UNCHANGED <<adding, queue, job, inflight>>
  PROVE  Alone' /\ Marked'
BY DEF IInv, Alone, Marked, Held

(* One symbol of a request is looked at, put, or dropped (enqueue).        *)
LEMMA EnqueueingIInv ==
  ASSUME IInv, NEW c \in Clients, Enqueueing(c)
  PROVE  IInv'
<1>0. TypeOK /\ Alone /\ Marked /\ DiskRows /\ None \notin Symbols
  BY DEF IInv
<1>1. ASSUME NEW s \in Symbols, Mark(c, s) PROVE IInv'
  <2> USE <1>1 DEF Mark
  <2>1. TypeOK'
    BY <1>0 DEF TypeOK
  <2>2. CASE Skipped(s)
    BY <2>1, <2>2, <1>0, HoldsKept DEF IInv, DiskRows, Skipped
  <2>3. CASE ~Skipped(s)
    <3>1. ~Held(s)
      BY <1>0, <2>3 DEF Marked, Skipped
    <3>2. /\ adding' = [adding EXCEPT ![c] = s] /\ inflight' = inflight \cup {s}
          /\ UNCHANGED <<queue, job, disk>> /\ adding[c] = None
          /\ adding \in [Clients -> Symbols \cup {None}]
          /\ queue \in Seq(Symbols)
      BY <2>3, <1>0 DEF Skipped, TypeOK
    <3>3. Alone'
      BY <1>0, <3>1, <3>2 DEF Alone, Held
    <3>4. Marked'
      BY <1>0, <3>1, <3>2 DEF Marked, Held
    <3>5. QED
      BY <2>1, <3>2, <3>3, <3>4, <1>0 DEF IInv, DiskRows
  <2>4. QED
    BY <2>2, <2>3
<1>2. CASE Put(c)
  <2> DEFINE s == adding[c]
             n == Len(queue) + 1
  <2>1. /\ s \in Symbols /\ queue' = Append(queue, s) /\ queue \in Seq(Symbols)
        /\ adding' = [adding EXCEPT ![c] = None] /\ Len(queue) < QueueMax
        /\ adding \in [Clients -> Symbols \cup {None}]
        /\ UNCHANGED <<job, disk, inflight>>
    BY <1>2, <1>0 DEF Put, TypeOK, Full
  <2>2. /\ queue' \in Seq(Symbols) /\ Len(queue') = n /\ n \notin DOMAIN queue
        /\ DOMAIN queue' = DOMAIN queue \cup {n} /\ queue'[n] = s
        /\ \A k \in DOMAIN queue : queue'[k] = queue[k]
    <3>1. Len(queue) \in Nat /\ DOMAIN queue = 1 .. Len(queue)
      BY <2>1
    <3>2. queue' \in Seq(Symbols) /\ Len(queue') = n
      BY <2>1, AppendProperties
    <3>3. DOMAIN queue' = 1 .. n
      BY <3>2
    <3>4. queue'[n] = s /\ \A k \in DOMAIN queue : queue'[k] = queue[k]
      BY <2>1, <3>1, AppendProperties
    <3>5. QED
      BY <3>1, <3>2, <3>3, <3>4
  <2>3. TypeOK'
    BY <1>0, <1>2, <2>1, <2>2 DEF TypeOK, Put
  <2> HIDE DEF n
  <2>4. Alone'
    BY <1>0, <2>1, <2>2 DEF Alone
  <2>5. Marked'
    BY <1>0, <2>1, <2>2 DEF Marked, Held
  <2>6. QED
    BY <2>1, <2>3, <2>4, <2>5, <1>0 DEF IInv, DiskRows
<1>3. CASE PutFull(c)
  <2>1. /\ adding[c] \in Symbols /\ inflight' = inflight \ {adding[c]}
        /\ adding' = [adding EXCEPT ![c] = None]
        /\ adding \in [Clients -> Symbols \cup {None}] /\ queue \in Seq(Symbols)
        /\ UNCHANGED <<job, disk, queue>>
    BY <1>3, <1>0 DEF PutFull, Unmark, TypeOK
  <2>2. TypeOK'
    BY <1>0, <1>3, <2>1 DEF TypeOK, PutFull
  <2>3. Alone' /\ Marked'
    BY <1>0, <2>1 DEF Alone, Marked, Held
  <2>4. QED
    BY <2>1, <2>2, <2>3, <1>0 DEF IInv, DiskRows
<1>4. QED
  BY <1>1, <1>2, <1>3 DEF Enqueueing

(* A worker takes a symbol, stores its row, releases it (_worker).         *)
LEMMA WorkerIInv ==
  ASSUME IInv, NEW w \in Workers, Take(w) \/ Computing(w)
  PROVE  IInv'
<1>0. TypeOK /\ Alone /\ Marked /\ DiskRows /\ None \notin Symbols
  BY DEF IInv
<1>1. CASE Take(w)
  <2> DEFINE s == Head(queue)
  <2>1. /\ queue \in Seq(Symbols) /\ queue # <<>> /\ queue' = Tail(queue)
        /\ job[w] = None /\ job' = [job EXCEPT ![w] = s]
        /\ job \in [Workers -> Symbols \cup {None}]
        /\ adding \in [Clients -> Symbols \cup {None}]
        /\ UNCHANGED <<adding, inflight, disk>>
    BY <1>1, <1>0 DEF Take, TypeOK
  <2>2. /\ s \in Symbols /\ queue' \in Seq(Symbols) /\ Len(queue') = Len(queue) - 1
        /\ Len(queue) \in Nat \ {0} /\ s = queue[1]
        /\ DOMAIN queue = 1 .. Len(queue) /\ DOMAIN queue' = 1 .. Len(queue) - 1
        /\ \A k \in DOMAIN queue' : queue'[k] = queue[k + 1] /\ k + 1 \in DOMAIN queue
    <3>1. Len(queue) \in Nat \ {0} /\ DOMAIN queue = 1 .. Len(queue)
      BY <2>1, EmptySeq
    <3>2. s \in Symbols /\ s = queue[1]
      BY <2>1, <3>1, HeadTailProperties
    <3>3. /\ queue' \in Seq(Symbols) /\ Len(queue') = Len(queue) - 1
          /\ \A k \in 1 .. Len(queue') : queue'[k] = queue[k + 1]
      BY <2>1, HeadTailProperties
    <3>4. DOMAIN queue' = 1 .. Len(queue) - 1
      BY <3>3
    <3>5. QED
      BY <3>1, <3>2, <3>3, <3>4
  <2>3. \A k \in DOMAIN queue : k = 1 \/ (k - 1 \in DOMAIN queue' /\ queue'[k - 1] = queue[k])
    BY <2>2
  <2>4. TypeOK'
    BY <1>0, <1>1, <2>1, <2>2 DEF TypeOK, Take
  <2>5. 1 \in DOMAIN queue
    BY <2>2
  <2> HIDE DEF s
  <2>6. Alone'
    <3>1. \A v \in Workers : job'[v] = IF v = w THEN s ELSE job[v]
      BY <2>1
    <3>2. \A v \in Workers : v # w => job[v] # s
      BY <1>0, <2>1, <2>2, <2>5 DEF Alone
    <3>3. \A v, u \in Workers : job'[v] # None /\ job'[v] = job'[u] => v = u
      BY <1>0, <3>1, <3>2 DEF Alone
    <3>0. \A k \in DOMAIN queue' : k \in Nat /\ k # 0 /\ k + 1 # 1
      BY <2>2
    <3>4. ASSUME NEW k \in DOMAIN queue', NEW l \in DOMAIN queue', queue'[k] = queue'[l] PROVE k = l
      <4>1. k + 1 \in DOMAIN queue /\ l + 1 \in DOMAIN queue /\ queue[k + 1] = queue[l + 1]
        BY <2>2, <3>4
      <4>2. k + 1 = l + 1
        BY <1>0, <4>1 DEF Alone
      <4>3. QED
        BY <3>0, <4>2
    <3>5. /\ \A c \in Clients, k \in DOMAIN queue' : adding[c] # queue'[k]
          /\ \A k \in DOMAIN queue' : queue'[k] # s
      <4>1. ASSUME NEW k \in DOMAIN queue' PROVE queue'[k] = queue[k + 1] /\ k + 1 \in DOMAIN queue /\ k + 1 # 1
        BY <2>2, <3>0
      <4>2. ASSUME NEW k \in DOMAIN queue' PROVE queue[k + 1] # queue[1] /\ \A c \in Clients : adding[c] # queue[k + 1]
        BY <1>0, <2>5, <4>1 DEF Alone
      <4>3. QED
        BY <2>2, <4>1, <4>2
    <3>6. \A c \in Clients : adding[c] # s
      BY <1>0, <2>2, <2>5 DEF Alone
    <3>7. \A c \in Clients, v \in Workers : adding[c] # None => adding[c] # job'[v]
      BY <1>0, <3>1, <3>6 DEF Alone
    <3>8. \A k \in DOMAIN queue', v \in Workers : queue'[k] # job'[v]
      BY <1>0, <2>2, <3>1, <3>5 DEF Alone
    <3>9. UNCHANGED adding /\ \A c, d \in Clients : adding[c] # None /\ adding[c] = adding[d] => c = d
      BY <1>0, <2>1 DEF Alone
    <3>10. QED
      BY <3>3, <3>4, <3>5, <3>7, <3>8, <3>9 DEF Alone
  <2>7. Marked'
    <3>1. ASSUME NEW x \in Symbols
          PROVE  (\E k \in DOMAIN queue : queue[k] = x) <=>
                   x = s \/ (\E k \in DOMAIN queue' : queue'[k] = x)
      <4>1. ASSUME NEW k \in DOMAIN queue, queue[k] = x
            PROVE  x = s \/ (\E l \in DOMAIN queue' : queue'[l] = x)
        BY <2>2, <2>3, <4>1
      <4>2. ASSUME NEW k \in DOMAIN queue', queue'[k] = x
            PROVE  \E l \in DOMAIN queue : queue[l] = x
        BY <2>2, <4>2
      <4>3. QED
        BY <2>2, <2>5, <4>1, <4>2
    <3>2. ASSUME NEW x \in Symbols PROVE Held(x)' <=> Held(x)
      BY <1>0, <2>1, <3>1 DEF Held
    <3>3. QED
      BY <1>0, <2>1, <3>2 DEF Marked
  <2>8. QED
    BY <2>1, <2>4, <2>6, <2>7, <1>0 DEF IInv, DiskRows
<1>2. ASSUME NEW row \in {"row", "failed"}, Store(w, row) PROVE IInv'
  <2>1. TypeOK'
    BY <1>0, <1>2 DEF Store, TypeOK, Entry
  <2>2. QED
    BY <1>0, <1>2, <2>1, HoldsKept DEF Store, IInv, DiskRows
<1>3. CASE Release(w)
  <2>1. /\ inflight' = inflight \ {job[w]} /\ job' = [job EXCEPT ![w] = None]
        /\ job \in [Workers -> Symbols \cup {None}] /\ queue \in Seq(Symbols)
        /\ UNCHANGED <<adding, queue, disk>>
    BY <1>3, <1>0 DEF Release, Released, TypeOK
  <2>2. TypeOK'
    BY <1>0, <1>3, <2>1 DEF TypeOK, Release
  <2>3. Alone'
    BY <1>0, <2>1 DEF Alone
  <2>4. Marked'
    BY <1>0, <2>1 DEF Alone, Marked, Held
  <2>5. QED
    BY <2>1, <2>2, <2>3, <2>4, <1>0 DEF IInv, DiskRows
<1>4. QED
  BY <1>1, <1>2, <1>3 DEF Computing
(* The cache is filled, saved and read back, time passes: the holds stay, or *)
(* all are gone with the process (_blocking_fill, _save, _load).           *)
LEMMA QuietIInv ==
  ASSUME IInv,
         (\E c \in Clients : Poll(c)) \/ WarmScan \/ Warming \/ Save \/ Tick \/ Restart
           \/ UNCHANGED vars
  PROVE  IInv'
<1>0. TypeOK /\ Alone /\ Marked /\ DiskRows /\ None \notin Symbols
  BY DEF IInv
<1>1. ASSUME NEW c \in Clients, Poll(c) PROVE IInv'
  <2>1. TypeOK'
    BY <1>0, <1>1 DEF Poll, TypeOK
  <2>2. QED
    BY <1>0, <1>1, <2>1, HoldsKept DEF Poll, IInv, DiskRows
<1>2. CASE WarmScan
  <2>1. TypeOK'
    BY <1>0, <1>2 DEF WarmScan, TypeOK
  <2>2. QED
    BY <1>0, <1>2, <2>1, HoldsKept DEF WarmScan, IInv, DiskRows
<1>3. ASSUME NEW s \in Symbols, NEW row \in {"row", "failed"}, Fill(s, row) PROVE IInv'
  <2>1. TypeOK'
    <3>1. [ts |-> stamp, row |-> row] \in Entry
      BY <1>0, <1>3 DEF TypeOK, Entry
    <3> DEFINE e == [ts |-> stamp, row |-> row]
    <3>2. cache' = [cache EXCEPT ![s] = e] /\ e \in Entry
      BY <1>3, <3>1 DEF Fill
    <3> HIDE DEF e
    <3>3. cache' \in [Symbols -> Entry]
      BY <1>0, <3>2 DEF TypeOK
    <3>4. QED
      BY <1>0, <1>3, <3>3 DEF Fill, TypeOK
  <2>2. QED
    BY <1>0, <1>3, <2>1, HoldsKept DEF Fill, IInv, DiskRows
<1>4. CASE Save
  <2>1. DiskRows' /\ TypeOK'
    <3>1. /\ UNCHANGED <<now, memory, restarts>>
          /\ disk' = [s \in Symbols |-> IF Storable(cache[s]) THEN cache[s] ELSE Absent]
      BY <1>4 DEF Save
    <3>2. Absent \in Entry /\ \A s \in Symbols : cache[s] \in Entry
      BY <1>0 DEF TypeOK, Entry, Absent
    <3>3. \A s \in Symbols : disk'[s] \in Entry /\ (disk'[s] = Absent \/ disk'[s].row = "row")
      BY <3>1, <3>2 DEF Storable, HasRow
    <3>4. disk' \in [Symbols -> Entry]
      BY <3>1, <3>3
    <3>5. QED
      BY <1>0, <3>1, <3>3, <3>4 DEF DiskRows, TypeOK, memory
  <2>2. QED
    BY <1>0, <1>4, <2>1, HoldsKept DEF Save, memory, IInv
<1>5. CASE Tick
  <2>1. TypeOK'
    BY <1>0, <1>5 DEF Tick, memory, TypeOK
  <2>2. QED
    BY <1>0, <1>5, <2>1, HoldsKept DEF Tick, memory, IInv, DiskRows
<1>6. CASE Restart
  <2>1. TypeOK'
    BY <1>0, <1>6 DEF Restart, TypeOK, Entry, Absent
  <2>2. Alone' /\ Marked' /\ DiskRows'
    BY <1>0, <1>6 DEF Restart, Alone, Marked, Held, DiskRows
  <2>3. QED
    BY <2>1, <2>2 DEF IInv
<1>7. CASE UNCHANGED vars
  BY <1>0, <1>7 DEF vars, memory, IInv, TypeOK, Alone, Marked, Held, DiskRows
<1>8. QED
  BY <1>1, <1>2, <1>3, <1>4, <1>5, <1>6, <1>7 DEF Warming

LEMMA StepIInv == IInv /\ [Next]_vars => IInv'
BY EnqueueingIInv, WorkerIInv, QuietIInv DEF Next

LEMMA Invariance == Spec => []IInv
BY InitIInv, StepIInv, PTL DEF Spec

-------------------------------------------------------------------------------
(* Every reachable state of the cache is well typed.                       *)
THEOREM TypeCorrect == Spec => []TypeOK
<1>1. IInv => TypeOK
  BY DEF IInv
<1>2. QED
  BY <1>1, Invariance, PTL

(* A symbol is in flight exactly when a client, the queue or a worker has  *)
(* it: no mark is left behind when the queue is full or a row fails, and   *)
(* none is dropped while the work goes on (scanner.enqueue, _worker).      *)
THEOREM MarksExact == Spec => []InflightExact
<1>1. IInv => InflightExact
  BY DEF IInv, Marked, Held, InflightExact, With, InQueue, By
<1>2. QED
  BY <1>1, Invariance, PTL

(* A set whose members are all equal has at most one.                      *)
LEMMA AtMostOne ==
  ASSUME NEW S, \A x, y \in S : x = y
  PROVE  IsFiniteSet(S) /\ Cardinality(S) = IF S = {} THEN 0 ELSE 1
<1>1. CASE S = {}
  BY <1>1, FS_EmptySet
<1>2. ASSUME NEW x \in S PROVE IsFiniteSet(S) /\ Cardinality(S) = 1
  <2>1. S = {x}
    OBVIOUS
  <2>2. QED
    BY <2>1, FS_Singleton
<1>3. QED
  BY <1>1, <1>2

(* Nobody works on a symbol that another already has: two requests for the *)
(* same symbol make one job (scanner.enqueue).                             *)
THEOREM NoDuplicateWork == Spec => []OneJobPerSymbol
<1>1. ASSUME IInv, NEW s \in Symbols
      PROVE  Cardinality(With(s)) + Cardinality(InQueue(s)) + Cardinality(By(s)) <= 1
  <2>0. s # None /\ Alone
    BY <1>1 DEF IInv
  <2>1. /\ \A x, y \in With(s) : x = y
        /\ \A x, y \in InQueue(s) : x = y
        /\ \A x, y \in By(s) : x = y
    BY <2>0 DEF Alone, With, InQueue, By
  <2>2. /\ With(s) = {} \/ InQueue(s) = {}
        /\ With(s) = {} \/ By(s) = {}
        /\ InQueue(s) = {} \/ By(s) = {}
    BY <2>0 DEF Alone, With, InQueue, By
  <2>3. /\ Cardinality(With(s)) = IF With(s) = {} THEN 0 ELSE 1
        /\ Cardinality(InQueue(s)) = IF InQueue(s) = {} THEN 0 ELSE 1
        /\ Cardinality(By(s)) = IF By(s) = {} THEN 0 ELSE 1
    BY <2>1, AtMostOne
  <2>4. QED
    BY <2>2, <2>3
<1>2. IInv => OneJobPerSymbol
  BY <1>1 DEF OneJobPerSymbol
<1>3. QED
  BY <1>2, Invariance, PTL

(* A restart serves only rows that are still worth it (scanner._load).     *)
THEOREM RestartServesRows == Spec => RestoredIsUsable
<1>1. ASSUME IInv, Restart, NEW s \in Symbols
      PROVE  cache'[s] = Absent \/ HasRow(cache'[s])
  <2>1. cache'[s] = Absent \/ (cache'[s] = disk[s] /\ Loadable(disk[s]))
    BY <1>1 DEF Restart
  <2>2. disk[s] = Absent \/ disk[s].row = "row"
    BY <1>1 DEF IInv, DiskRows
  <2>3. QED
    BY <2>1, <2>2 DEF HasRow, Loadable, Age
<1>2. [Next]_vars => Restart \/ restarts' = restarts
  BY DEF Next, Poll, Enqueueing, Mark, Put, PutFull, Take, Computing, Store, Release, WarmScan,
         Warming, Fill, Save, Tick, vars
<1>3. ASSUME IInv, [Next]_vars
      PROVE  restarts' # restarts =>
               \A s \in Symbols : cache'[s] = Absent \/ HasRow(cache'[s])
  BY <1>1, <1>2, <1>3
<1>4. QED
  BY <1>3, Invariance, PTL DEF Spec, RestoredIsUsable

-------------------------------------------------------------------------------
\* The file, and the one thread that saves it.
HIDE ScanAssumptions

OneSaver == Savers = {Loop}

-------------------------------------------------------------------------------
\* The temporary file is open in the write and at no other place, by the one
\* thread that ever has it open, under its own name.
OwnFile ==
  /\ fd[Loop] = IF at[Loop] = "write" THEN "tmp" ELSE "none"
  /\ ~mixed[Loop]

\* What is about to be moved into place is the copy, whole.
ReadyToMove == at[Loop] = "replace" => tmp = Whole(copy[Loop])

\* The copy, once made, lies between the file and the cache.
CopyNotOlder ==
  /\ file.ver <= ver
  /\ at[Loop] \in {"open", "write", "replace"} =>
       file.ver <= copy[Loop] /\ copy[Loop] <= ver

FileIInv == FileTypeOK /\ OwnFile /\ ReadyToMove /\ CopyNotOlder /\ Readable

-------------------------------------------------------------------------------
LEMMA FileInitIInv == OneSaver /\ FileInit => FileIInv
<1> SUFFICES ASSUME OneSaver, FileInit PROVE FileIInv
  OBVIOUS
<1> USE FileAssumptions DEF FileInit, NoSaves, NoFile
<1>1. 0 \in 0 .. MaxVer /\ NoFile \in Content
  BY DEF Content
<1>2. FileTypeOK
  BY <1>1 DEF FileTypeOK
<1>3. OwnFile /\ ReadyToMove /\ CopyNotOlder /\ Readable
  BY DEF OwnFile, ReadyToMove, CopyNotOlder, Readable
<1>4. QED
  BY <1>2, <1>3 DEF FileIInv

-------------------------------------------------------------------------------
\* One step of each kind, from a state of the invariant.
LEMMA ChangeIInv == ASSUME OneSaver, FileIInv, Change PROVE FileIInv'
<1> USE FileAssumptions DEF FileIInv, Change, Noted, svr, files
<1>1. FileTypeOK'
  BY DEF FileTypeOK
<1>2. OwnFile' /\ ReadyToMove' /\ Readable'
  BY DEF OwnFile, ReadyToMove, Readable, Whole
<1>3. CopyNotOlder'
  BY DEF CopyNotOlder, FileTypeOK, Content
<1>4. QED
  BY <1>1, <1>2, <1>3

LEMMA BeginIInv == ASSUME OneSaver, FileIInv, Begin(Loop) PROVE FileIInv'
<1> USE FileAssumptions DEF FileIInv, Begin, Goto, rowVars, files, OneSaver
<1>1. FileTypeOK' /\ at[Loop] = "idle" /\ at'[Loop] = "copy"
  BY DEF FileTypeOK
<1>2. OwnFile' /\ ReadyToMove' /\ CopyNotOlder' /\ Readable'
  BY <1>1 DEF OwnFile, ReadyToMove, CopyNotOlder, Readable
<1>3. QED
  BY <1>1, <1>2

LEMMA CopyIInv == ASSUME OneSaver, FileIInv, Copy(Loop) PROVE FileIInv'
<1> USE FileAssumptions DEF FileIInv, Copy, Goto, files, OneSaver
<1>1. FileTypeOK' /\ at[Loop] = "copy" /\ at'[Loop] = "open" /\ copy'[Loop] = ver
  BY DEF FileTypeOK
<1>2. ver \in Nat /\ ver <= ver
  BY DEF FileTypeOK
<1>3. OwnFile' /\ ReadyToMove' /\ CopyNotOlder' /\ Readable'
  BY <1>1, <1>2 DEF OwnFile, ReadyToMove, CopyNotOlder, Readable
<1>4. QED
  BY <1>1, <1>3

\* Nobody else has the temporary file open when it is emptied.
LEMMA OpenIInv == ASSUME OneSaver, FileIInv, OpenSave(Loop) PROVE FileIInv'
<1> USE FileAssumptions DEF FileIInv, OpenSave, OpenTmp, Goto, rowVars, OneSaver
<1>1. at[Loop] = "open" /\ fd[Loop] = "none"
  BY DEF OwnFile
<1>2. {u \in Savers : fd[u] = "tmp"} = {}
  BY <1>1
<1>3. mixed' = [u \in Savers |-> IF u = Loop THEN FALSE ELSE mixed[u] \/ u \in {}]
  BY <1>2
<1>4. /\ at'[Loop] = "write" /\ fd'[Loop] = "tmp" /\ ~mixed'[Loop]
      /\ mixed' \in [Savers -> BOOLEAN]
  BY <1>3 DEF FileTypeOK
<1>5. tmp' \in Content
  BY DEF Content, Torn, FileTypeOK
<1>6. FileTypeOK'
  BY <1>4, <1>5 DEF FileTypeOK
<1>7. OwnFile' /\ ReadyToMove' /\ CopyNotOlder' /\ Readable'
  BY <1>1, <1>4 DEF OwnFile, ReadyToMove, CopyNotOlder, Readable
<1>8. QED
  BY <1>6, <1>7

LEMMA WriteIInv == ASSUME OneSaver, FileIInv, Write(Loop) PROVE FileIInv'
<1> USE FileAssumptions DEF FileIInv, Write, Goto, rowVars, OneSaver
<1>1. at[Loop] = "write" /\ fd[Loop] = "tmp" /\ ~mixed[Loop] /\ copy[Loop] \in 0 .. MaxVer
  BY DEF OwnFile, FileTypeOK
<1>2. tmp' = Whole(copy[Loop]) /\ file' = file
  BY <1>1
<1>3. FileTypeOK' /\ at'[Loop] = "replace" /\ fd'[Loop] = "none" /\ ~mixed'[Loop]
  BY <1>1, <1>2 DEF FileTypeOK, Content, Whole
<1>4. OwnFile' /\ ReadyToMove' /\ CopyNotOlder' /\ Readable'
  BY <1>1, <1>2, <1>3 DEF OwnFile, ReadyToMove, CopyNotOlder, Readable
<1>5. QED
  BY <1>3, <1>4

\* The move: what takes the file's place is whole and no older.
LEMMA MoveForward ==
  ASSUME OneSaver, FileIInv, Replace(Loop)
  PROVE  /\ file' = Whole(copy[Loop]) /\ tmp' = NoFile
         /\ fd' = [u \in Savers |-> "none"]
         /\ copy[Loop] \in 0 .. MaxVer /\ file.ver <= copy[Loop] /\ copy[Loop] <= ver
<1> USE DEF OneSaver, FileIInv, Replace
<1>1. at[Loop] = "replace" /\ fd[Loop] = "none" /\ tmp = Whole(copy[Loop])
  BY DEF OwnFile, ReadyToMove
<1>2. tmp # NoFile
  BY <1>1 DEF Whole, NoFile
<1>3. file' = tmp /\ tmp' = NoFile /\ fd' = [u \in Savers |-> Moved(fd[u])]
  BY <1>2
<1>4. fd' = [u \in Savers |-> "none"]
  BY <1>1, <1>3 DEF Moved
<1>5. copy[Loop] \in 0 .. MaxVer /\ file.ver <= copy[Loop] /\ copy[Loop] <= ver
  BY <1>1 DEF FileTypeOK, CopyNotOlder
<1>6. QED
  BY <1>1, <1>3, <1>4, <1>5

LEMMA ReplaceIInv == ASSUME OneSaver, FileIInv, Replace(Loop) PROVE FileIInv'
<1> USE FileAssumptions DEF OneSaver
<1>1. /\ FileTypeOK /\ ~mixed[Loop] /\ ver' = ver /\ dirty' = dirty /\ mixed' = mixed
      /\ at' = [at EXCEPT ![Loop] = "idle"] /\ copy' = [copy EXCEPT ![Loop] = 0]
  BY DEF FileIInv, OwnFile, Replace, Goto, rowVars
<1>2. at'[Loop] = "idle" /\ fd'[Loop] = "none"
  BY <1>1, MoveForward DEF FileTypeOK
<1>3. file' \in Content /\ tmp' \in Content /\ file'.ver = copy[Loop] /\ file'.is = "whole"
  BY MoveForward DEF Content, Whole, NoFile
<1>4. fd' \in [Savers -> {"none", "tmp", "file", "gone"}]
  BY MoveForward
<1>5. FileTypeOK'
  BY <1>1, <1>3, <1>4 DEF FileTypeOK
<1>6. OwnFile' /\ ReadyToMove' /\ Readable'
  BY <1>1, <1>2, <1>3 DEF OwnFile, ReadyToMove, Readable
<1>7. CopyNotOlder'
  BY <1>1, <1>2, <1>3, MoveForward DEF CopyNotOlder
<1>8. QED
  BY <1>5, <1>6, <1>7 DEF FileIInv

\* A failed write leaves the temporary file as it is, which the next one empties.
LEMMA FailIInv == ASSUME OneSaver, FileIInv, Fail(Loop) PROVE FileIInv'
<1> USE FileAssumptions DEF FileIInv, Fail, Goto, rowVars, files, OneSaver
<1>1. FileTypeOK' /\ at'[Loop] = "idle" /\ fd'[Loop] = "none" /\ ~mixed'[Loop]
  BY DEF FileTypeOK
<1>2. OwnFile' /\ ReadyToMove' /\ CopyNotOlder' /\ Readable'
  BY <1>1 DEF OwnFile, ReadyToMove, CopyNotOlder, Readable
<1>3. QED
  BY <1>1, <1>2

LEMMA KillIInv == ASSUME OneSaver, FileIInv, Kill PROVE FileIInv'
<1> USE FileAssumptions DEF FileIInv, Kill, Loaded, files, OneSaver
<1>1. file.ver \in 0 .. MaxVer /\ 0 \in 0 .. MaxVer /\ file.ver <= file.ver
  BY DEF FileTypeOK, Content
<1>2. FileTypeOK' /\ file' = file /\ ver' = file.ver /\ at'[Loop] = "idle" /\ fd'[Loop] = "none" /\ ~mixed'[Loop]
  BY <1>1 DEF FileTypeOK
<1>3. OwnFile' /\ ReadyToMove' /\ CopyNotOlder' /\ Readable'
  BY <1>1, <1>2 DEF OwnFile, ReadyToMove, CopyNotOlder, Readable
<1>4. QED
  BY <1>2, <1>3

LEMMA StutterIInv == ASSUME FileIInv, UNCHANGED fileVars PROVE FileIInv'
  BY DEF FileIInv, fileVars, rowVars, svr, files, FileTypeOK, OwnFile, ReadyToMove, CopyNotOlder, Readable

LEMMA NextIInv == OneSaver /\ FileIInv /\ [FileNext]_fileVars => FileIInv'
<1> SUFFICES ASSUME OneSaver, FileIInv, [FileNext]_fileVars PROVE FileIInv'
  OBVIOUS
<1>1. CASE FileNext
  <2>1. CASE Change
    BY <2>1, ChangeIInv
  <2>2. CASE Rest
    BY <2>2, StutterIInv DEF Rest
  <2>3. CASE Kill
    BY <2>3, KillIInv
  <2>4. CASE \E v \in Savers : Begin(v) \/ Saving(v) \/ Fail(v)
    <3>1. Begin(Loop) \/ Saving(Loop) \/ Fail(Loop)
      BY <2>4 DEF OneSaver
    <3>2. QED
      BY <3>1, BeginIInv, CopyIInv, OpenIInv, WriteIInv, ReplaceIInv, FailIInv DEF Saving
  <2>5. QED
    BY <1>1, <2>1, <2>2, <2>3, <2>4 DEF FileNext
<1>2. CASE UNCHANGED fileVars
  BY <1>2, StutterIInv
<1>3. QED
  BY <1>1, <1>2

LEMMA FileInvariance == OneSaver /\ FileSpec => []FileIInv
<1> SUFFICES ASSUME OneSaver PROVE FileSpec => []FileIInv
  OBVIOUS
<1>1. FileInit => FileIInv
  BY FileInitIInv
<1>2. FileIInv /\ [FileNext]_fileVars => FileIInv'
  BY NextIInv
<1>3. QED
  BY <1>1, <1>2, PTL DEF FileSpec

-------------------------------------------------------------------------------
\* The cache, its savers and its files are well typed.
THEOREM FileTypes == OneSaver /\ FileSpec => []FileTypeOK
<1>1. FileIInv => FileTypeOK
  BY DEF FileIInv
<1>2. QED
  BY <1>1, FileInvariance, PTL

\* With one saver the cache file can be read at any moment, whatever write
\* fails and wherever the process is killed: the "atomic" of fundamentals.py:100.
THEOREM OneSaverReadable == OneSaver /\ FileSpec => []Readable
<1>1. FileIInv => Readable
  BY DEF FileIInv
<1>2. QED
  BY <1>1, FileInvariance, PTL

\* Only a move touches the file.
LEMMA StepForward == OneSaver /\ FileIInv /\ [FileNext]_fileVars => file'.ver >= file.ver
<1> SUFFICES ASSUME OneSaver, FileIInv, [FileNext]_fileVars PROVE file'.ver >= file.ver
  OBVIOUS
<1>1. file.ver \in Nat
  BY FileAssumptions DEF FileIInv, FileTypeOK, Content
<1>2. CASE Replace(Loop)
  BY <1>1, <1>2, MoveForward DEF Whole
<1>3. CASE Write(Loop)
  BY <1>1, <1>3 DEF FileIInv, OwnFile, Write
<1>4. CASE UNCHANGED file
  BY <1>1, <1>4
<1>5. Replace(Loop) \/ Write(Loop) \/ UNCHANGED file
  <2>1. CASE \E v \in Savers : Begin(v) \/ Saving(v) \/ Fail(v)
    <3>1. Begin(Loop) \/ Saving(Loop) \/ Fail(Loop)
      BY <2>1 DEF OneSaver
    <3>2. QED
      BY <3>1 DEF Saving, Begin, Copy, OpenSave, OpenTmp, Fail, files
  <2>2. CASE Change \/ Rest \/ Kill \/ UNCHANGED fileVars
    BY <2>2 DEF Change, Rest, Kill, fileVars, files
  <2>3. QED
    BY <2>1, <2>2 DEF FileNext
<1>6. QED
  BY <1>2, <1>3, <1>4, <1>5

\* With one saver the file never goes back to an earlier state of the cache.
THEOREM OneSaverForward == OneSaver /\ FileSpec => NeverBackwards
<1> SUFFICES ASSUME OneSaver PROVE FileSpec => NeverBackwards
  OBVIOUS
<1>1. FileIInv /\ [FileNext]_fileVars => file'.ver >= file.ver
  BY StepForward
<1>2. QED
  BY <1>1, FileInvariance, PTL DEF FileSpec, NeverBackwards
===============================================================================
