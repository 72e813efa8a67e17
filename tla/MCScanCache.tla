----------------------------- MODULE MCScanCache -----------------------------
(***************************************************************************)
(* Small instances of ScanCache and of CacheFile: two polling clients that *)
(* ask for common symbols with a queue of one, and a saver loop whose      *)
(* saves may fail or be killed half way.                                   *)
(***************************************************************************)
EXTENDS ScanCache, CacheFile

CONSTANTS s1, s2, s3, c1, c2, w1, w2, none, loop

MCAsked == [c \in Clients |-> Symbols \cap IF c = c1 THEN {s1, s2} ELSE {s2, s3}]

VARIABLE focus
bothVars == <<focus, vars, fileVars>>
OnScan(A) == focus = "scan" /\ A /\ UNCHANGED <<focus, fileVars>>
OnFile(A) == focus = "file" /\ A /\ UNCHANGED <<focus, vars>>

BothInit == focus \in {"scan", "file"} /\ Init /\ FileInit
BothNext == OnScan(Next) \/ OnFile(FileNext)
BothSpec ==
  /\ BothInit /\ [][BothNext]_bothVars
  /\ \A c \in Clients : WF_bothVars(OnScan(Poll(c))) /\ WF_bothVars(OnScan(Enqueueing(c)))
  /\ \A w \in Workers : WF_bothVars(OnScan(Take(w))) /\ WF_bothVars(OnScan(Computing(w)))
  /\ WF_bothVars(OnFile(Begin(Loop))) /\ \A v \in Savers : WF_bothVars(OnFile(Saving(v)))
-------------------------------------------------------------------------------
\* What a client keeps polling for is computed in the end, and every change of the
\* fundamentals gets to their file unless a save fails or a kill comes first.
WorkIsDone ==
  /\ \A s \in Polled : (focus = "scan" /\ Wanted(s)) ~> ~Wanted(s)
  /\ \A v \in 1 .. MaxVer :
       (focus = "file" /\ ver = v /\ faults = 0 /\ kills = 0) ~> (file.ver >= v \/ faults > 0 \/ kills > 0)
===============================================================================
