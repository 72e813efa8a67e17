------------------------------- MODULE Backtest -------------------------------
(***************************************************************************)
(* The backtester: the console that builds a configuration, keeps it and   *)
(* its own strategies on the device, launches a run and polls it; and the  *)
(* server that simulates in the background, a few runs at a time, and      *)
(* remembers the last few in memory and the last one in a file.            *)
(***************************************************************************)
EXTENDS Client, Filters, SequencesExt

CONSTANTS
  Symbols, Bots, Names,
  MaxRunning, MaxJobs, MaxMisses,   \* as in the code
  MaxSaved                          \* both kept lists
Lists == {"saved", "mine"}
BacktestAssumptions == MaxRunning \in Nat /\ MaxJobs \in Nat /\ MaxRunning <= MaxJobs /\ MaxSaved \in Nat /\ IsFiniteSet(Names)

None == [id |-> 0, name |-> "none"]
Custom == "custom"
NoBase == "none"

-------------------------------------------------------------------------------
\* A configuration: universe, strategy, risk, costs.  The form holds more than it
\* sends: the symbols behind an index, the rules behind a ready-made strategy.
Form == [mode |-> "index", syms |-> {}, key |-> CHOOSE b \in Bots : TRUE, rules |-> TRUE, base |-> NoBase, stop |-> FALSE, own |-> FALSE]
CustomDef(f) == [key |-> Custom, rules |-> f.rules, base |-> f.base]
Strategy(f) == IF f.key = Custom THEN CustomDef(f) ELSE [key |-> f.key, rules |-> FALSE, base |-> NoBase]
BuildCfg(f) ==
  [mode |-> f.mode, syms |-> IF f.mode = "index" THEN {} ELSE f.syms, strategy |-> Strategy(f), stop |-> f.stop, own |-> f.own]
LoadCustomDef(f, d) == [f EXCEPT !.key = Custom, !.rules = d.rules, !.base = d.base]
\* What a configuration leaves out stays as it was: costs of its own, an empty list.
ApplyCfg(f, c) ==
  LET g == IF c.strategy.key = Custom THEN LoadCustomDef(f, c.strategy) ELSE [f EXCEPT !.key = c.strategy.key] IN
  [g EXCEPT !.mode = IF c.mode = "index" \/ c.syms # {} THEN c.mode ELSE @,
            !.syms = IF c.syms # {} THEN c.syms ELSE @, !.stop = c.stop, !.own = @ \/ c.own]
LeftOut(f, c) == (f.own /\ ~c.own) \/ (c.mode = "symbols" /\ c.syms = {})

\* The lists of configurations and of strategies: newest first, one of a name.
Cut(s) == SubSeq(s, 1, IF Len(s) < MaxSaved THEN Len(s) ELSE MaxSaved)
But(s, name) == Places(s, {i \in DOMAIN s : s[i].name # name})
Newest(s, name, v) == Cut(<<[name |-> name, v |-> v]>> \o But(s, name))
Named(s) == {s[i].name : i \in DOMAIN s}
Of1(s, name) == (CHOOSE e \in Range(s) : e.name = name).v

-------------------------------------------------------------------------------
\* The server (backtest_engine.py).  Jobs in the order of their start.
Job(id, cfg) == [id |-> id, cfg |-> cfg, status |-> "running"]
Running(jobs) == {i \in DOMAIN jobs : jobs[i].status = "running"}
Valid(cfg) == (cfg.strategy.key = Custom => cfg.strategy.rules \/ cfg.strategy.base # NoBase) /\ (cfg.mode = "symbols" => cfg.syms # {})
Accepts(jobs, cfg) == Valid(cfg) /\ Cardinality(Running(jobs)) < MaxRunning
\* The oldest that ended give way.
Ring(jobs) ==
  LET over == Len(jobs) - MaxJobs
      ended(i) == Cardinality({j \in 1..i : jobs[j].status # "running"})
      gone == {i \in DOMAIN jobs : jobs[i].status # "running" /\ ended(i) <= over}
  IN Places(jobs, DOMAIN jobs \ gone)
StartJob(u, cfg) == [u EXCEPT !.jobs = Ring(Append(@, Job(u.next, cfg))), !.next = @ + 1]
Snapshot(jobs, id) == IF \E j \in Range(jobs) : j.id = id THEN (CHOOSE j \in Range(jobs) : j.id = id).status ELSE "unknown"
\* A run ends; its result is then written to the file of the last run, through a
\* temporary file that runs ending at the same time share.
JobEnds(i, st) ==
  /\ i \in Running(ui.jobs) /\ Net
  /\ ui' = [ui EXCEPT !.jobs[i].status = st]
  /\ calls' = calls \cup If(st = "done", {[kind |-> "file", id |-> ui.jobs[i].id]})
FileWritten(c) ==
  /\ Net /\ calls' = calls \ {c}
  /\ \E f \in {c.id} \cup If(Cardinality(Of({"file"})) > 1, {0}) : ui' = [ui EXCEPT !.file = f]
OthersRun == Accepts(ui.jobs, BuildCfg(Form)) /\ Act /\ ui' = StartJob(ui, BuildCfg(Form)) /\ UNCHANGED calls
Restart == Act /\ ui' = [ui EXCEPT !.jobs = <<>>] /\ calls' = calls \ Of({"file"})

-------------------------------------------------------------------------------
\* The console.
Opening(u) == {[kind |-> "cfg", v |-> u.disk.cfg], [kind |-> "last"]} \cup {[kind |-> "list", of |-> l, was |-> u.disk[l], there |-> l \in u.disk.there] : l \in Lists}
Opened(u) ==
  [u EXCEPT !.form = Form, !.loaded = None, !.running = FALSE, !.shown = 0, !.previous = FALSE, !.error = FALSE,
            !.misses = 0, !.list = [l \in Lists |-> <<>>], !.read = {}, !.ahead = {}, !.run = 0]
Earlier(names, v) == Cut(SetToSeq({[name |-> n, v |-> v] : n \in names}))
Init ==
  \E n \in {{}, Names}, f \in {0, 1} :      \* kept by an earlier visit
    /\ ui = [form |-> Form, loaded |-> None, running |-> FALSE, shown |-> 0, previous |-> FALSE, error |-> FALSE, misses |-> 0,
             list |-> [l \in Lists |-> <<>>], read |-> {}, ahead |-> {}, run |-> 0,
             disk |-> [cfg |-> None, there |-> IF n = {} THEN {} ELSE Lists, saved |-> Earlier(n, [BuildCfg(Form) EXCEPT !.stop = TRUE]),
                       mine |-> Earlier(n, CustomDef([Form EXCEPT !.rules = FALSE]))],
             jobs |-> <<>>, next |-> 2, file |-> f]
    /\ calls = Opening(ui) /\ steps = 0
\* The page is left and opened again: nothing comes of its polls, and a launch under
\* way may have reached the server.
Leave ==
  /\ Act
  /\ \E u \in {ui} \cup {StartJob(ui, c.cfg) : c \in {d \in Of({"launch"}) : Accepts(ui.jobs, d.cfg)}} :
       ui' = Opened(u) /\ calls' = Of({"file"}) \cup Opening(u)

\* The reads of opening, in any order with what the user does meanwhile.
CfgRead(c) ==
  /\ Net /\ calls' = calls \ {c}
  /\ ui' = IF c.v = None THEN ui ELSE [ui EXCEPT !.form = ApplyCfg(@, c.v), !.loaded = None]
ListRead(c) == Net /\ calls' = calls \ {c} /\ ui' = [ui EXCEPT !.list[c.of] = IF c.there THEN c.was ELSE @, !.read = @ \cup {c.of}]
LastAnswers ==
  /\ [kind |-> "last"] \in calls /\ Net /\ calls' = calls \ {[kind |-> "last"]}
  /\ ui' = IF ui.file = 0 THEN ui ELSE [ui EXCEPT !.shown = ui.file, !.previous = TRUE]
LastFails == [kind |-> "last"] \in calls /\ Act /\ calls' = calls \ {[kind |-> "last"]} /\ UNCHANGED ui

\* The folds of the console.
Edit(f) == f # ui.form /\ Act /\ ui' = [ui EXCEPT !.form = f, !.loaded = None] /\ UNCHANGED calls
EditUniverse ==
  \/ \E m \in {"index", "symbols"} : Edit([ui.form EXCEPT !.mode = m])
  \/ ui.form.mode = "symbols" /\ \E s \in Symbols : Edit([ui.form EXCEPT !.syms = IF s \in @ THEN @ \ {s} ELSE @ \cup {s}])
PickStrategy ==
  \/ \E k \in Bots \cup {Custom} : Edit([ui.form EXCEPT !.key = k])
  \/ \E n \in Named(ui.list["mine"]) : Edit(LoadCustomDef(ui.form, Of1(ui.list["mine"], n)))
EditRules ==
  /\ ui.form.key = Custom
  /\ \/ Edit([ui.form EXCEPT !.rules = ~@])
     \/ \E b \in Bots \cup {NoBase} : Edit([ui.form EXCEPT !.base = b])
EditRisk == Edit([ui.form EXCEPT !.stop = ~@])
EditCosts == Edit([ui.form EXCEPT !.own = ~@])
\* A list is written as it is on the screen, whether or not it was read.
Store(l, s) ==
  Act /\ UNCHANGED calls /\ ui' = [ui EXCEPT !.list[l] = s, !.disk[l] = s, !.disk.there = @ \cup {l}, !.ahead = @ \cup ({l} \ ui.read)]
SaveStrategy(n) == ui.form.key = Custom /\ Store("mine", Newest(ui.list["mine"], n, CustomDef(ui.form)))
DeleteStrategy(n) == ui.form.key = Custom /\ n \in Named(ui.list["mine"]) /\ Store("mine", But(ui.list["mine"], n))
SaveCurrent(n) == Store("saved", Newest(ui.list["saved"], n, BuildCfg(ui.form)))
LoadSaved(n) ==
  /\ n \in Named(ui.list["saved"]) /\ Act /\ UNCHANGED calls
  /\ LET c == Of1(ui.list["saved"], n) IN
     ui' = [ui EXCEPT !.form = ApplyCfg(@, c), !.loaded = IF LeftOut(ui.form, c) THEN None ELSE c]

\* A run: launched, then polled.
Run ==
  /\ ~ui.running /\ Act
  /\ ui' = [ui EXCEPT !.disk.cfg = BuildCfg(ui.form), !.error = FALSE, !.running = TRUE, !.run = 0]
  /\ calls' = calls \cup {[kind |-> "launch", cfg |-> BuildCfg(ui.form)]}
Stopped(u) == [u EXCEPT !.error = TRUE, !.running = FALSE]
Launched(c) ==
  /\ Net
  /\ IF Accepts(ui.jobs, c.cfg)
     THEN /\ ui' = [StartJob(ui, c.cfg) EXCEPT !.run = ui.next, !.misses = 0]
          /\ calls' = (calls \ {c}) \cup {[kind |-> "poll"]}
     ELSE ui' = Stopped(ui) /\ calls' = calls \ {c}
\* An answer that is lost may be that of a run that began.
LaunchFails(c) ==
  /\ Act /\ calls' = calls \ {c}
  /\ \E u \in {ui} \cup If(Accepts(ui.jobs, c.cfg), {StartJob(ui, c.cfg)}) : ui' = Stopped(u)
Polled(c) ==
  LET st == Snapshot(ui.jobs, ui.run) IN
  /\ Net /\ calls' = (calls \ {c}) \cup If(st = "running", {[kind |-> "timer"]})
  /\ ui' = CASE st = "running" -> [ui EXCEPT !.misses = 0]
             [] st = "done" -> [ui EXCEPT !.shown = ui.run, !.previous = FALSE, !.running = FALSE]
             [] OTHER -> Stopped(ui)
Miss(u) == IF u.misses = MaxMisses THEN [ui |-> Stopped(u), again |-> FALSE] ELSE [ui |-> [u EXCEPT !.misses = @ + 1], again |-> TRUE]
PollFails(c) ==
  LET r == Miss(ui) IN
  Net /\ ui' = r.ui /\ calls' = (calls \ {c}) \cup If(r.again, {[kind |-> "timer"]})
PollAgain(c) == Net /\ ui' = ui /\ calls' = (calls \ {c}) \cup {[kind |-> "poll"]}

\* What is on the page below the console.
Parts(u) ==
  If(u.running, {"progress"}) \cup If(u.error, {"failed"})
  \cup If(u.shown # 0, {"result"} \cup If(u.previous, {"previous"}))
  \cup If(u.shown = 0 /\ ~u.running /\ ~u.error, {"invitation"})

Simulate == \E i \in DOMAIN ui.jobs : JobEnds(i, "done")
Reads == LastAnswers \/ (\E c \in Of({"cfg"}) : CfgRead(c)) \/ \E c \in Of({"list"}) : ListRead(c)
Answers ==
  \/ \E c \in Of({"launch"}) : Launched(c)
  \/ \E c \in Of({"poll"}) : Polled(c) \/ PollFails(c)
Timers == \E c \in Of({"timer"}) : PollAgain(c)
User ==
  \/ EditUniverse \/ PickStrategy \/ EditRules \/ EditRisk \/ EditCosts \/ Run \/ Leave
  \/ \E n \in Names : SaveStrategy(n) \/ DeleteStrategy(n) \/ SaveCurrent(n) \/ LoadSaved(n)
Next ==
  \/ Simulate \/ Reads \/ Answers \/ Timers \/ User \/ OthersRun \/ Restart \/ LastFails
  \/ \E i \in DOMAIN ui.jobs : JobEnds(i, "error")
  \/ \E c \in Of({"file"}) : FileWritten(c)
  \/ \E c \in Of({"launch"}) : LaunchFails(c)
Spec == Init /\ [][Next]_client
FairSpec == Spec /\ WF_client(Simulate) /\ WF_client(Answers) /\ WF_client(Timers)
-------------------------------------------------------------------------------
\* A result that is not labelled as a previous run's is the last one launched here,
\* once that has ended (BacktestScreen.tsx:346-382, 743-750).
ShownIsAsked == Parts(ui) = {"result"} => ui.shown = ui.run
\* A console that says it runs has a run launched, polled or about to be.
LoadingIsAsked == "progress" \in Parts(ui) <=> Of({"launch", "poll", "timer"}) # {}
\* A saved configuration that was loaded is the one that will run, but for what it
\* leaves out: costs changed on the screen stay, and an empty list of symbols does
\* not displace what is there (BacktestScreen.tsx:286-308).
LoadedIsBuilt == ui.loaded # None => BuildCfg(ui.form) = ui.loaded
\* What was saved is on the device as it is on the screen, unless it was saved before
\* its list had been read, which then is lost (BacktestScreen.tsx:310-329, 384-391).
KeptIsShown == \A l \in ui.read \ ui.ahead : ui.disk[l] = ui.list[l]
\* At most MaxRunning simulations at once, and no running one is forgotten for the
\* ring's sake (backtest_engine.py:923-944).
JobsBounded == Cardinality(Running(ui.jobs)) <= MaxRunning /\ (Len(ui.jobs) > MaxJobs => \A j \in Range(ui.jobs) : j.status = "running")
\* A run comes to an end on the screen.
PollsEnd == []<>~ui.running
===============================================================================
