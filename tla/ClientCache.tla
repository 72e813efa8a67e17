------------------------------ MODULE ClientCache ------------------------------
(***************************************************************************)
(* The read cache of the client (swr.ts): memory and disk copies of        *)
(* answers, one request per key, a stale copy served while a newer one is  *)
(* fetched.  One key; callers that force and callers that do not.          *)
(***************************************************************************)
EXTENDS Client

CONSTANTS Callers, MaxVersion

Ages == {"fresh", "stale", "dead"}
Absent == [v |-> 0, age |-> "dead"]
Init ==
  /\ \E d \in 0..1, a \in Ages :        \* what an earlier session left on disk
       ui = [version |-> 1, mem |-> Absent, disk |-> [v |-> d, age |-> a], hydrated |-> FALSE,
             got |-> [c \in Callers |-> 0]]
  /\ calls = {} /\ steps = 0

Usable(e) == e.v > 0 /\ e.age # "dead"
\* A request: not yet with the server, or with the version it answered.
Unsent == [kind |-> "get", v |-> 0]
Waits(c) == [kind |-> "wait", by |-> c]
Reads(c, e) == [kind |-> "read", by |-> c, entry |-> e]
\* run: a request under way is shared.  Variant: everyone sends his own.
SharedNot == {Unsent}
Shared == If(Of({"get"}) = {}, {Unsent})

Give(u, c, v) == [u EXCEPT !.got[c] = v]
\* swr, once the disk was read.
Serve(u, c, rest) ==
  IF Usable(u.mem)
  THEN ui' = Give(u, c, u.mem.v) /\ calls' = rest \cup If(u.mem.age = "stale", Shared)
  ELSE ui' = u /\ calls' = rest \cup Shared \cup {Waits(c)}
Idle(c) == \A w \in Of({"wait", "read"}) : w.by # c
Force(c) ==
  /\ Idle(c) /\ Act /\ calls' = calls \cup Shared \cup {Waits(c)} /\ UNCHANGED ui
Call(c) ==
  /\ Idle(c) /\ Act
  /\ IF ui.hydrated \/ ui.mem.v > 0 THEN Serve(ui, c, calls)
     ELSE ui' = [ui EXCEPT !.hydrated = TRUE] /\ calls' = calls \cup {Reads(c, ui.disk)}
\* The disk copy is taken if none came in meanwhile.  Variant: it always is.
HydratedAlways(u, e) == IF Usable(e) THEN [u EXCEPT !.mem = e] ELSE u
Hydrated(u, e) == IF Usable(e) /\ u.mem.v = 0 THEN [u EXCEPT !.mem = e] ELSE u
DiskAnswers(r) == Net /\ Serve(Hydrated(ui, r.entry), r.by, calls \ {r})
DiskFails(r) == Net /\ Serve(ui, r.by, calls \ {r})

\* The server reads its present version; the answer may be slow.
Handle(g) ==
  /\ g.v = 0 /\ Net /\ UNCHANGED ui /\ calls' = (calls \ {g}) \cup {[g EXCEPT !.v = ui.version]}
Answer(g) ==
  /\ g.v > 0 /\ Net /\ calls' = (calls \ {g}) \ Of({"wait"})
  /\ LET e == [v |-> g.v, age |-> "fresh"] IN
     ui' = [ui EXCEPT !.mem = e, !.disk = e, !.got = [c \in Callers |-> IF Waits(c) \in calls THEN g.v ELSE @[c]]]
Fail(g) == Net /\ calls' = (calls \ {g}) \ Of({"wait"}) /\ UNCHANGED ui

ServerMoves == ui.version < MaxVersion /\ Net /\ ui' = [ui EXCEPT !.version = @ + 1] /\ UNCHANGED calls
Older(e) == [e EXCEPT !.age = IF @ = "fresh" THEN "stale" ELSE "dead"]
TimePasses == Act /\ ui' = [ui EXCEPT !.mem = Older(@), !.disk = Older(@)] /\ UNCHANGED calls
Relaunch ==
  /\ Act /\ calls' = {}
  /\ ui' = [ui EXCEPT !.mem = Absent, !.hydrated = FALSE, !.got = [c \in Callers |-> 0]]

Next ==
  \/ \E c \in Callers : Force(c) \/ Call(c)
  \/ \E r \in Of({"read"}) : DiskAnswers(r) \/ DiskFails(r)
  \/ \E g \in Of({"get"}) : Handle(g) \/ Answer(g) \/ Fail(g)
  \/ ServerMoves \/ TimePasses \/ Relaunch
Spec == Init /\ [][Next]_client

-------------------------------------------------------------------------------
\* In a session the copy in memory is only ever replaced by one no older
\* (swr.ts:82-93, 128-146), however answers and reads of the disk overlap.
Forward == steps' = steps => ui'.mem.v >= ui.mem.v
\* A caller who waits has a request to wait for: none is forgotten (swr.ts:128-146).
LoadingIsAsked == Of({"wait"}) # {} => Of({"get"}) # {}
===============================================================================
