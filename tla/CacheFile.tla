------------------------------ MODULE CacheFile ------------------------------
(***************************************************************************)
(* How a cache gets to its file: _save and _load of fundamentals.py, the   *)
(* protocol scanner.py and the screens repeat.  A saver copies the cache   *)
(* under the lock, writes the copy to a temporary file whose name every    *)
(* saver uses, and moves that over the cache file; the process may be      *)
(* killed anywhere, and the files stay.  The cache's contents are the      *)
(* number of the change that made them.                                    *)
(***************************************************************************)
EXTENDS Naturals

CONSTANTS
  Savers,        \* threads that may be in _save: the saver loop, a sweep's end
  Loop,          \* the one among them that saves whenever there is a change
  MaxVer, MaxFaults, MaxKills   \* bounds of the model

ASSUME FileAssumptions == Loop \in Savers /\ {MaxVer, MaxFaults, MaxKills} \subseteq Nat

VARIABLES
  ver,        \* the cache
  dirty,      \* _dirty
  at, copy,   \* saver -> where its _save stands, and what it copied
  fd,         \* saver -> the name its open file has by now
  mixed,      \* saver -> whether another has had that file open too
  tmp, file,  \* what the temporary file and the cache file hold
  faults, kills

rowVars  == <<ver, dirty>>
svr  == <<at, copy, fd, mixed>>
files == <<tmp, file>>
fileVars == <<rowVars, svr, files, faults, kills>>

NoFile   == [is |-> "none", ver |-> 0]
Torn     == [is |-> "torn", ver |-> 0]
Whole(v) == [is |-> "whole", ver |-> v]
NoSaves  ==
  /\ at = [v \in Savers |-> "idle"] /\ copy = [v \in Savers |-> 0]
  /\ fd = [v \in Savers |-> "none"] /\ mixed = [v \in Savers |-> FALSE]

FileInit == ver = 0 /\ dirty = FALSE /\ NoSaves /\ tmp = NoFile /\ file = NoFile /\ faults = 0 /\ kills = 0

-------------------------------------------------------------------------------
Goto(v, place) == at' = [at EXCEPT ![v] = place]

\* A fetch stores a row.  Variant: not noted while a save is under way.
NotedIdle == dirty' = (dirty \/ at[Loop] = "idle")
Noted == dirty' = TRUE
Change == ver < MaxVer /\ ver' = ver + 1 /\ Noted /\ UNCHANGED <<svr, files, faults, kills>>

\* The loop saves when something changed, a sweep whenever it ends.
Begin(v) ==
  /\ at[v] = "idle" /\ (v = Loop => dirty) /\ Goto(v, "copy")
  /\ UNCHANGED <<rowVars, copy, fd, mixed, files, faults, kills>>

\* The loop wakes up to nothing.
Rest == at[Loop] = "idle" /\ ~dirty /\ UNCHANGED fileVars

Copy(v) ==
  /\ at[v] = "copy" /\ Goto(v, "open")
  /\ copy' = [copy EXCEPT ![v] = ver] /\ dirty' = FALSE
  /\ UNCHANGED <<ver, fd, mixed, files, faults, kills>>

\* open(tmp, "w") empties the file, under the hands of whoever writes it.
\* Variant: the cache file itself is emptied and written.
OpenFile == file' = Torn /\ tmp' = Torn
OpenTmp == tmp' = Torn /\ UNCHANGED file
OpenSave(v) ==
  /\ at[v] = "open" /\ Goto(v, "write")
  /\ OpenTmp /\ fd' = [fd EXCEPT ![v] = "tmp"]
  /\ LET others == {u \in Savers : fd[u] = "tmp"} IN
       mixed' = [u \in Savers |-> IF u = v THEN others # {} ELSE mixed[u] \/ u \in others]
  /\ UNCHANGED <<rowVars, copy, faults, kills>>

\* The rest of the write.  Of a file two have written, anything may be left.
Write(v) ==
  /\ at[v] = "write" /\ Goto(v, "replace")
  /\ \E out \in {Whole(copy[v])} \cup IF mixed[v] THEN {Torn} ELSE {} :
       /\ tmp' = IF fd[v] = "tmp" THEN out ELSE tmp
       /\ file' = IF fd[v] = "file" THEN out ELSE file
  /\ fd' = [fd EXCEPT ![v] = "none"] /\ mixed' = [mixed EXCEPT ![v] = FALSE]
  /\ UNCHANGED <<rowVars, copy, faults, kills>>

\* os.replace moves the name, and with it the file another may have open; it
\* fails when the other has moved it already, and the failure is swallowed.
Moved(place) == IF place = "tmp" THEN "file" ELSE IF place = "file" THEN "gone" ELSE place
Replace(v) ==
  /\ at[v] = "replace" /\ Goto(v, "idle") /\ copy' = [copy EXCEPT ![v] = 0]
  /\ \/ tmp = NoFile /\ UNCHANGED <<files, fd>>
     \/ /\ tmp # NoFile /\ file' = tmp /\ tmp' = NoFile
        /\ fd' = [u \in Savers |-> Moved(fd[u])]
  /\ UNCHANGED <<rowVars, mixed, faults, kills>>

\* The disk is full, say: _save returns, the flag stays cleared.
Fail(v) ==
  /\ at[v] \in {"open", "write"} /\ faults < MaxFaults /\ faults' = faults + 1
  /\ Goto(v, "idle") /\ copy' = [copy EXCEPT ![v] = 0]
  /\ fd' = [fd EXCEPT ![v] = "none"] /\ mixed' = [mixed EXCEPT ![v] = FALSE]
  /\ UNCHANGED <<rowVars, files, kills>>

\* The process is killed and _load reads what there is.  Variant: it does not,
\* and the cache starts empty.
LoadedNot == ver' = 0
Loaded == ver' = file.ver
Kill ==
  /\ kills < MaxKills /\ kills' = kills + 1
  /\ Loaded /\ dirty' = FALSE
  /\ at' = [v \in Savers |-> "idle"] /\ copy' = [v \in Savers |-> 0]
  /\ fd' = [v \in Savers |-> "none"] /\ mixed' = [v \in Savers |-> FALSE]
  /\ UNCHANGED <<files, faults>>

Saving(v) == Copy(v) \/ OpenSave(v) \/ Write(v) \/ Replace(v)
FileNext == Change \/ Rest \/ Kill \/ \E v \in Savers : Begin(v) \/ Saving(v) \/ Fail(v)
FileSpec == FileInit /\ [][FileNext]_fileVars
\* The loop wakes up again and again, and a save under way goes on.
FileFairSpec == FileSpec /\ WF_fileVars(Begin(Loop)) /\ \A v \in Savers : WF_fileVars(Saving(v))

-------------------------------------------------------------------------------
Content == [is : {"none", "torn", "whole"}, ver : 0 .. MaxVer]
FileTypeOK ==
  /\ ver \in 0 .. MaxVer /\ dirty \in BOOLEAN /\ tmp \in Content /\ file \in Content
  /\ at \in [Savers -> {"idle", "copy", "open", "write", "replace"}]
  /\ copy \in [Savers -> 0 .. MaxVer] /\ mixed \in [Savers -> BOOLEAN]
  /\ fd \in [Savers -> {"none", "tmp", "file", "gone"}]

\* The cache file can be read at any moment: the write is atomic ("os.replace
\* ... # atomic"), a kill costs the latest rows and never the cache.
Readable == file.is # "torn"

\* The file never goes back to an earlier state of the cache.
NeverBackwards == [][file'.ver >= file.ver]_fileVars

\* Every change gets to the file, unless a save fails or a kill comes first.
CatchesUp ==
  \A v \in 1 .. MaxVer :
    (ver = v /\ faults = 0 /\ kills = 0) ~> (file.ver >= v \/ faults > 0 \/ kills > 0)
===============================================================================
