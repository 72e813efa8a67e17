------------------------------- MODULE Registry -------------------------------
(***************************************************************************)
(* Three lists the server keeps whole in its key-value table: the owner's  *)
(* alerts, the API keys, the devices that want pushes.  An operation on    *)
(* the first two reads the list in one statement and writes all of it back *)
(* in another, while others run and a check delivers what fired; the       *)
(* third changes under a lock.  Here ui is that table and calls are the    *)
(* requests (and the alert loop) under way; a restart ends them.           *)
(***************************************************************************)
EXTENDS Client, Filters, SequencesExt

CONSTANTS
  Devices,         \* the tokens of devices
  Bound            \* the devices kept at most

RegistryAssumptions == Bound \in Nat \ {0}

Alert == [active |-> TRUE, fired |-> FALSE]
Key == [active |-> TRUE, calls |-> 0]
Ids(u) == 1..u.minted
Start(n, k, t) ==
  [alerts |-> [x \in 1..n |-> Alert], keys |-> [x \in 1..k |-> Key], tokens |-> t, minted |-> 1,
   told |-> <<0>>, armed |-> <<n>>,  \* history: how often an alert told, and was armed
   used |-> <<0>>,                    \* history: how often a key was let in
   gone |-> {}, revoked |-> {},            \* history: what was deleted and revoked
   raced |-> {},                           \* history: changed by a write of a list read before the last write, or told twice at once, or cut short
   joined |-> ToSet(t), bad |-> {}]        \* history: who registered and did not leave; who was dropped as bad, or for others
Init ==
  /\ \E n, k \in 0..1, t \in {<<>>} \cup {<<d>> : d \in Devices} : ui = Start(n, k, t)
  /\ calls = {} /\ steps = 0

\* An operation reads its list, and later writes what it made of it.  Whatever else the list
\* says by then is undone.
Read(kind, id, list) == calls' = calls \cup {[kind |-> kind, n |-> steps, id |-> id, read |-> list, list |-> list]}
Without(f, id) == [x \in DOMAIN f \ {id} |-> f[x]]
With(f, id, v) == [x \in DOMAIN f \cup {id} |-> IF x = id THEN v ELSE f[x]]
Other(f, g) == {x \in DOMAIN f \cup DOMAIN g : x \notin DOMAIN f \cap DOMAIN g \/ f[x] # g[x]}
Undone(c, now, own) == IF now = c.read THEN {} ELSE Other(now, c.list) \ own
Mint(u) == [u EXCEPT !.minted = @ + 1, !.told = Append(@, 0), !.armed = Append(@, 0), !.used = Append(@, 0)]
SaveAlerts(u, c, list, own) == [u EXCEPT !.alerts = list, !.raced = @ \cup Undone([c EXCEPT !.list = list], u.alerts, own)]
SaveKeys(u, c, list, own) == [u EXCEPT !.keys = list, !.raced = @ \cup Undone([c EXCEPT !.list = list], u.keys, own)]

\* ---- alerts
Create == Act /\ Read("create", ui.minted + 1, ui.alerts) /\ ui' = Mint(ui)
Created(c) ==
  /\ Net /\ calls' = calls \ {c}
  /\ ui' = [SaveAlerts(ui, c, With(c.list, c.id, Alert), {c.id}) EXCEPT !.armed[c.id] = 1]
Delete(id) == Act /\ Read("delete", id, ui.alerts) /\ UNCHANGED ui
Deleted(c) ==
  /\ Net /\ calls' = calls \ {c}
  /\ ui' = [SaveAlerts(ui, c, Without(c.list, c.id), {c.id}) EXCEPT !.gone = @ \cup ({c.id} \cap DOMAIN c.list)]
SetActive(id, on) == Act /\ Read(IF on THEN "arm" ELSE "disarm", id, ui.alerts) /\ UNCHANGED ui
\* Arming anew clears the last trigger.
Armed(c) ==
  LET on == c.kind = "arm"
      list == [x \in DOMAIN c.list |-> IF x # c.id THEN c.list[x] ELSE [active |-> on, fired |-> c.list[x].fired /\ ~on]]
  IN /\ Net /\ calls' = calls \ {c}
     /\ ui' = [SaveAlerts(ui, c, list, If(c.id \in DOMAIN ui.alerts, {c.id})) EXCEPT !.armed[c.id] = @ + (IF on THEN 1 ELSE 0)]

\* All alerts are on one symbol.  A check asks for quotes of what is watched, reads the list again, stamps what the quotes meet
\* and delivers each, one after the other, before it writes.
Watched(u) == {x \in DOMAIN u.alerts : u.alerts[x].active /\ ~u.alerts[x].fired}
Check == Act /\ Watched(ui) # {} /\ calls' = calls \cup {[kind |-> "check", n |-> steps]} /\ UNCHANGED ui
Hitting(id) == \E c \in Of({"fire"}) : id \in c.id
CheckReads(c, hit) ==
  /\ hit \subseteq Watched(ui) /\ Net
  /\ ui' = [ui EXCEPT !.raced = @ \cup {x \in hit : Hitting(x)}]
  /\ calls' = (calls \ {c}) \cup
       If(hit # {}, {[kind |-> "fire", n |-> c.n, id |-> hit, read |-> ui.alerts, todo |-> hit, sending |-> FALSE, to |-> {},
                      list |-> [x \in DOMAIN ui.alerts |-> IF x \in hit THEN [ui.alerts[x] EXCEPT !.fired = TRUE] ELSE ui.alerts[x]]]})
\* Delivery: to whom is read at its begin, and who was found bad is dropped at its end.
Drop(u, bad) == [u EXCEPT !.tokens = Places(@, {i \in DOMAIN @ : @[i] \notin bad}), !.bad = @ \cup bad]
Tell(c) ==
  /\ c.todo # {} /\ ~c.sending /\ Net /\ UNCHANGED ui
  /\ calls' = (calls \ {c}) \cup {[c EXCEPT !.sending = TRUE, !.to = ToSet(ui.tokens)]}
Told(c, id, bad) ==
  /\ c.sending /\ Net /\ calls' = (calls \ {c}) \cup {[c EXCEPT !.sending = FALSE, !.to = {}, !.todo = @ \ {id}]}
  /\ ui' = [Drop(ui, bad) EXCEPT !.told[id] = @ + 1]
Fired(c) == c.todo = {} /\ Net /\ calls' = calls \ {c} /\ ui' = SaveAlerts(ui, c, c.list, c.id \cap DOMAIN ui.alerts)

\* ---- keys
Issue == Act /\ Read("issue", ui.minted + 1, ui.keys) /\ ui' = Mint(ui)
Issued(c) == Net /\ calls' = calls \ {c} /\ ui' = SaveKeys(ui, c, With(c.list, c.id, Key), {c.id})
\* A key that is not there or not active is refused at once; a use is counted.
Verify(id) == Act /\ ui.keys[id].active /\ Read("verify", id, ui.keys) /\ UNCHANGED ui
Verified(c) ==
  /\ Net /\ calls' = calls \ {c}
  /\ ui' = [SaveKeys(ui, c, [c.list EXCEPT ![c.id].calls = @ + 1], {}) EXCEPT !.used[c.id] = @ + 1]
Revoke(id) == Act /\ Read("revoke", id, ui.keys) /\ UNCHANGED ui
Revoked(c) ==
  LET hit == {c.id} \cap DOMAIN c.list IN
  /\ Net /\ calls' = calls \ {c}
  /\ ui' = [SaveKeys(ui, c, [x \in DOMAIN c.list |-> IF x \in hit THEN [c.list[x] EXCEPT !.active = FALSE] ELSE c.list[x]], {c.id})
            EXCEPT !.revoked = @ \cup hit]

\* ---- devices
Register(d) ==
  LET rows == Append(Places(ui.tokens, {i \in DOMAIN ui.tokens : ui.tokens[i] # d}), d)
      kept == IF Len(rows) > Bound THEN Tail(rows) ELSE rows
  IN Act /\ UNCHANGED calls
     /\ ui' = [ui EXCEPT !.tokens = kept, !.joined = @ \cup {d}, !.bad = (@ \cup ToSet(rows)) \ ToSet(kept)]
Unregister(d) == Act /\ ui' = [Drop(ui, {d}) EXCEPT !.joined = @ \ {d}] /\ UNCHANGED calls
Broadcast == Act /\ ui.tokens # <<>> /\ calls' = calls \cup {[kind |-> "send", n |-> steps, to |-> ToSet(ui.tokens)]} /\ UNCHANGED ui
Sent(c, bad) == Net /\ calls' = calls \ {c} /\ ui' = Drop(ui, bad)

Restart == Act /\ calls # {} /\ calls' = {} /\ ui' = [ui EXCEPT !.raced = @ \cup UNION {c.id : c \in Of({"fire"})}]

Alerts ==
  \/ Create \/ Check \/ \E id \in DOMAIN ui.alerts : Delete(id) \/ SetActive(id, TRUE) \/ SetActive(id, FALSE)
  \/ \E c \in Of({"create"}) : Created(c)
  \/ \E c \in Of({"delete"}) : Deleted(c)
  \/ \E c \in Of({"arm", "disarm"}) : Armed(c)
  \/ \E c \in Of({"check"}), hit \in SUBSET Watched(ui) : CheckReads(c, hit)
  \/ \E c \in Of({"fire"}) : Tell(c) \/ Fired(c) \/ \E id \in c.todo, bad \in SUBSET c.to : Told(c, id, bad)
Keys ==
  \/ Issue \/ \E id \in DOMAIN ui.keys : Verify(id) \/ Revoke(id)
  \/ \E c \in Of({"issue"}) : Issued(c)
  \/ \E c \in Of({"verify"}) : Verified(c)
  \/ \E c \in Of({"revoke"}) : Revoked(c)
Pushes ==
  \/ Broadcast \/ \E d \in Devices : Register(d) \/ Unregister(d)
  \/ \E c \in Of({"send"}) : \E bad \in SUBSET c.to : Sent(c, bad)
Next == Alerts \/ Keys \/ Pushes \/ Restart
Spec == Init /\ [][Next]_client

-------------------------------------------------------------------------------
\* A stamp is only ever written for an alert that was delivered, and one arming delivers once,
\* unless two requests overlapped on the alert or a restart cut the check short (alerts.py:110-133).
ToldOnce ==
  /\ \A id \in DOMAIN ui.alerts : ui.alerts[id].fired => ui.told[id] > 0
  /\ \A id \in Ids(ui) : ui.told[id] > ui.armed[id] => id \in ui.raced
\* What was deleted or revoked stays so, unless a request that had read the list before wrote it
\* after; a key is never counted more often than it was used (alerts.py:90-94, apikeys.py:54-78).
RemovedStaysRemoved ==
  /\ ui.gone \cap DOMAIN ui.alerts \subseteq ui.raced
  /\ \A id \in ui.revoked \cap DOMAIN ui.keys : ui.keys[id].active => id \in ui.raced
  /\ \A id \in DOMAIN ui.keys : ui.keys[id].calls <= ui.used[id]
\* The devices on the list are those that registered and did not leave, each once and within the
\* bound, but for those found bad or pushed out (push.py:48-95).
DevicesAreThoseJoined ==
  /\ ToSet(ui.tokens) \subseteq ui.joined /\ ui.joined \subseteq ToSet(ui.tokens) \cup ui.bad
  /\ IsInjective(ui.tokens) /\ Len(ui.tokens) <= Bound
===============================================================================
