------------------------------- MODULE ScanList -------------------------------
(***************************************************************************)
(* The four recommendation lists (long-term, swing, institutional, SMC):   *)
(* a scan asks for candidates, analyses each with a few requests at a      *)
(* time, and merges the outcome into a store kept on the device.  The      *)
(* store outlives the screen, and so does a scan: leaving the tab does not *)
(* stop it, and the screen that comes back does not know of it.            *)
(***************************************************************************)
EXTENDS Client

CONSTANTS Symbols, Workers, MaxMounts

\* The lists and their stores: the long-term list skips what was analysed, unless the user
\* included it again, which its store keeps; the others have nothing of the kind.
ScanStore == [includes |-> TRUE]
SwingStore == [includes |-> FALSE]
InstitutionalStore == [includes |-> FALSE]
SmcStore == [includes |-> FALSE]
LongTerm == [skips |-> TRUE, store |-> ScanStore]
ShortTerm == [skips |-> FALSE, store |-> SwingStore]
Institutional == [skips |-> FALSE, store |-> InstitutionalStore]
Smc == [skips |-> FALSE, store |-> SmcStore]

NoCache == [asof |-> 0, recs |-> {}, scanned |-> {}]
Init ==
  /\ \E list \in {LongTerm, ShortTerm, Institutional, Smc}, disk \in {NoCache, [asof |-> 1, recs |-> {1}, scanned |-> {1}]} :
       ui = [list |-> list, disk |-> disk, cache |-> NoCache, include |-> {}, hydrated |-> FALSE,
             mount |-> 1, ready |-> FALSE, scanning |-> FALSE, shown |-> {}, error |-> FALSE,
             done |-> {},                \* history: analysed by a scan that ended
             twice |-> FALSE, overlap |-> FALSE]  \* a symbol was analysed again; two scans ran at once
  /\ calls = {[kind |-> "hydrate", mount |-> 1]} /\ steps = 0

\* A scan: of which mount, what is left, what is asked, what came (symbol, buy or not), what it shows.
Scan(m) == [kind |-> "scan", mount |-> m, phase |-> "candidates", todo |-> {}, out |-> {}, read |-> {}, live |-> {},
            prev |-> ui.cache, told |-> {}]    \* history: the list, and what was to be read again, when it began
Scans == Of({"scan"})
Mine(c) == c.mount = ui.mount
Started(u) ==
  [u EXCEPT !.scanning = TRUE, !.error = FALSE, !.overlap = @ \/ Scans # {}]
RunScan == ui.ready /\ ~ui.scanning /\ Act /\ ui' = Started(ui) /\ calls' = calls \cup {Scan(ui.mount)}

\* The store is read once; without a list the first scan starts by itself.
Hydrated(h) ==
  /\ Net
  /\ LET c == IF ui.hydrated THEN ui.cache ELSE ui.disk
         u == [ui EXCEPT !.hydrated = TRUE, !.cache = c, !.shown = IF Mine(h) THEN c.recs ELSE @, !.ready = @ \/ Mine(h)]
         first == Mine(h) /\ c.asof = 0
     IN /\ ui' = IF first THEN Started(u) ELSE u
        /\ calls' = (calls \ {h}) \cup If(first, {Scan(ui.mount)})
Leave ==
  /\ ui.mount < MaxMounts /\ Act
  /\ ui' = [ui EXCEPT !.mount = @ + 1, !.ready = FALSE, !.scanning = FALSE, !.error = FALSE, !.shown = ui.cache.recs]
  /\ calls' = calls \cup {[kind |-> "hydrate", mount |-> ui.mount + 1]}

\* A store operation tells the mounted screen, which shows the stored list.
Emitted(u) == [u EXCEPT !.shown = u.cache.recs]
SetDepth == ui.ready /\ Act /\ ui' = Emitted(ui) /\ UNCHANGED calls
ToggleInclude(s) ==
  /\ ui.list.store.includes /\ ui.hydrated /\ s \in ui.cache.scanned /\ Act /\ UNCHANGED calls
  /\ ui' = Emitted([ui EXCEPT !.include = IF s \in @ THEN @ \ {s} ELSE @ \cup {s}])

\* Which candidates a scan analyses.  Variant: all of them, each time.
ToAnalyseAll(found) == found
ToAnalyse(found) == IF ui.list.skips THEN found \ (ui.cache.scanned \ ui.include) ELSE found
Ended(u, c) == IF Mine(c) THEN [u EXCEPT !.scanning = FALSE] ELSE u
CandidatesArrive(c, found) ==
  /\ c.phase = "candidates" /\ Net
  /\ LET todo == ToAnalyse(found) IN
     IF todo = {}
     THEN calls' = calls \ {c} /\ ui' = [Ended(ui, c) EXCEPT !.error = IF Mine(c) THEN found = {} ELSE @]
     ELSE /\ calls' = (calls \ {c}) \cup {[c EXCEPT !.phase = "reads", !.todo = todo, !.live = ui.cache.recs, !.told = ui.include]}
          /\ UNCHANGED ui
CandidatesFail(c) ==
  /\ c.phase = "candidates" /\ Act /\ calls' = calls \ {c}
  /\ ui' = [Ended(ui, c) EXCEPT !.error = @ \/ Mine(c)]
\* A worker takes the next symbol.
Take(c) ==
  /\ c.phase = "reads" /\ c.todo # {} /\ Cardinality(c.out) < Workers /\ Net
  /\ LET s == CHOOSE s \in c.todo : \A t \in c.todo : s <= t IN
     /\ calls' = (calls \ {c}) \cup {[c EXCEPT !.todo = @ \ {s}, !.out = @ \cup {s}]}
     /\ ui' = [ui EXCEPT !.twice = @ \/ (ui.list.skips /\ s \in ui.cache.scanned \ c.told)]
ReadArrives(c, s, buy) ==
  /\ s \in c.out /\ Net
  /\ LET live == IF buy THEN c.live \cup {s} ELSE c.live \ {s} IN
     /\ calls' = (calls \ {c}) \cup {[c EXCEPT !.out = @ \ {s}, !.read = @ \cup {<<s, buy>>}, !.live = live]}
     /\ ui' = IF Mine(c) THEN [ui EXCEPT !.shown = live] ELSE ui
ReadFails(c, s) ==       \* skipped: neither listed nor counted as analysed
  /\ s \in c.out /\ Act /\ calls' = (calls \ {c}) \cup {[c EXCEPT !.out = @ \ {s}]} /\ UNCHANGED ui

\* What a scan's outcome is merged into.  Variant: the list as it was when the scan began.
OntoOld(c) == c.prev
Onto(c) == ui.cache
Merged(c) ==
  LET p == Onto(c)  all == {r[1] : r \in c.read} IN
  [asof |-> 1, recs |-> (p.recs \ all) \cup {r[1] : r \in {q \in c.read : q[2]}}, scanned |-> p.scanned \cup all]
Finish(c) ==
  /\ c.phase = "reads" /\ c.todo = {} /\ c.out = {} /\ Net /\ calls' = calls \ {c}
  /\ LET m == Merged(c)  all == {r[1] : r \in c.read} IN
     ui' = Ended(Emitted([ui EXCEPT !.cache = m, !.disk = m, !.include = @ \ all, !.done = @ \cup all]), c)

Work ==
  \/ \E h \in Of({"hydrate"}) : Hydrated(h)
  \/ \E c \in Scans :
       \/ CandidatesArrive(c, Symbols) \/ CandidatesArrive(c, {}) \/ Take(c) \/ Finish(c)
       \/ \E s \in Symbols, buy \in BOOLEAN : ReadArrives(c, s, buy)
Next ==
  \/ Work \/ RunScan \/ Leave \/ SetDepth
  \/ \E s \in Symbols : ToggleInclude(s)
  \/ \E c \in Scans : CandidatesFail(c) \/ \E s \in Symbols : ReadFails(c, s)
Spec == Init /\ [][Next]_client
Fairness == WF_client(Work)
FairSpec == Spec /\ Fairness

-------------------------------------------------------------------------------
\* No scan undoes another: what any scan that ended has analysed is in the list's
\* record of it, and what is listed was analysed (scanStore.ts:118-144).
NothingLost == ui.done \subseteq ui.cache.scanned /\ ui.cache.recs \subseteq ui.cache.scanned
\* The long-term list analyses a symbol again only when told to, or when two scans
\* overlap (RecommendationsScreen.tsx:465-470).
AskedOnce == ui.twice => ui.overlap
\* A screen that is not scanning shows the list of the store (RecommendationsScreen.tsx:532-553).
ShownIsAsked == ui.ready /\ ~ui.scanning => ui.shown = ui.cache.recs
\* A screen that says it scans has a scan under way (RecommendationsScreen.tsx:434-530).
LoadingIsAsked == ui.scanning => \E c \in Scans : Mine(c)
\* Every scan ends.
PollsEnd == []<>~ui.scanning
===============================================================================
