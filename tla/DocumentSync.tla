---------------------------- MODULE DocumentSync ----------------------------
(***************************************************************************)
(* The cloud copy of a user's documents (mobile/src/session.ts) and the    *)
(* route that keeps it (server.py, users.py): devices of one account, each *)
(* with its own copy of a document and the stamp of the last exchange, a   *)
(* debounced push after a write, and a pull at sign-in and on demand.  The *)
(* documents are independent of each other, so one is modelled.  What the  *)
(* account page shows of the sync (its state and time) decides nothing.    *)
(***************************************************************************)
EXTENDS Integers, FiniteSets

CONSTANTS
  Devices,
  PushSlots, PullSlots,   \* bound the pushes and the pulls a device has under way at once
  MaxEdits, MaxNow, MaxPulls,   \* bounds: edits, seconds, pulls,
  MaxFaults                     \* lost messages, sign-outs, deletions and restarts

ASSUME SyncAssumptions ==
  PushSlots \cap PullSlots = {} /\ {MaxEdits, MaxNow, MaxPulls, MaxFaults} \subseteq Nat /\ MaxNow > 0

NoDoc == 0          \* no document; the n-th edit made anywhere is the value n
Stamps == 0..MaxNow
Slots  == PushSlots \cup PullSlots

VARIABLES
  now,
  server,    \* the stored document: value and stamp
  doc,       \* device -> its copy
  stamp,     \* device -> taureye.sync.ts.<key>
  signed,    \* device -> an e-mail is set
  timer,     \* device -> a push is scheduled
  call,      \* device, slot -> a push or a pull under way
  edits, pulls, faults,
  owed,      \* history: the devices whose last edit, made while signed in, is neither
             \* on the server nor replaced by a copy from it
  stored,    \* history: the values the server has ever held
  muddled    \* history: a copy was put over another of the same or a later second,
             \* or a device had two calls under way at once

local == <<doc, stamp, signed, timer>>
vars  == <<now, server, local, call, edits, pulls, faults, owed, stored, muddled>>

\* kind "push" or "pull"; at is where the code waits; v, ts are what is being
\* sent, rv, rts what the server answered; a call without client was abandoned.
Nothing == [kind |-> "none", at |-> "none", v |-> NoDoc, ts |-> 0, rv |-> NoDoc, rts |-> 0, client |-> FALSE]
Free(d, s) == call[d][s] = Nothing
Goto(d, s, rec) == call' = [call EXCEPT ![d] = [@ EXCEPT ![s] = rec]]
Overlap(d) == muddled' = (muddled \/ \E s \in Slots : call[d][s].client)
At(d, s, kind, at) == call[d][s].kind = kind /\ call[d][s].at = at
Here(d, s, at) == call[d][s].at = at /\ call[d][s].client

SyncInit ==
  /\ now = 1 /\ server = [v |-> NoDoc, ts |-> 0]
  /\ doc = [d \in Devices |-> NoDoc] /\ stamp = [d \in Devices |-> 0]
  /\ signed = [d \in Devices |-> FALSE] /\ timer = [d \in Devices |-> FALSE]
  /\ call = [d \in Devices |-> [s \in Slots |-> Nothing]]
  /\ edits = 0 /\ pulls = 0 /\ faults = 0 /\ owed = {} /\ stored = {NoDoc} /\ muddled = FALSE

\* The clock is only looked at when a stamp is taken: that is where it moves on.
Second(t) == t \in now..MaxNow /\ now' = t
Fault     == faults < MaxFaults /\ faults' = faults + 1
Settled(d) == owed' = owed \ {d}

-------------------------------------------------------------------------------
\* schedulePush: a write of the key (setItem is wrapped once a device has signed
\* in) restarts the timer, unless nobody is signed in.
\* Variant: writing does not schedule.
ScheduledNot(d) == timer[d]
Scheduled(d) == timer[d] \/ signed[d]

\* A screen writes the document.
Edit(d) ==
  /\ edits < MaxEdits /\ edits' = edits + 1
  /\ doc' = [doc EXCEPT ![d] = edits + 1]
  /\ timer' = [timer EXCEPT ![d] = Scheduled(d)]
  /\ owed' = IF signed[d] THEN owed \cup {d} ELSE owed \ {d}
  /\ UNCHANGED <<now, server, stamp, signed, call, pulls, faults, stored, muddled>>

\* The timer fires: the copy is read and sent with the second of the sending.
Sendable(d) == doc[d] # NoDoc
PushFire(d, s) ==
  /\ timer[d] /\ s \in PushSlots /\ Free(d, s)
  /\ timer' = [timer EXCEPT ![d] = FALSE]
  /\ \/ ~Sendable(d) /\ UNCHANGED <<now, call>>
     \/ \E t \in Stamps :
          /\ Sendable(d) /\ Second(t)
          /\ Goto(d, s, [Nothing EXCEPT !.kind = "push", !.at = "sent", !.v = doc[d], !.ts = t, !.client = TRUE])
  /\ Overlap(d)
  /\ UNCHANGED <<server, doc, stamp, signed, edits, pulls, faults, owed, stored>>

-------------------------------------------------------------------------------
\* The route: the stored stamp is compared in one locked step, the document put
\* in another.
Stale(c) == server.v # NoDoc /\ server.ts > c.ts

DataCompare(d, s) ==
  LET c == call[d][s] IN
  /\ c.at = "sent"
  /\ Goto(d, s, IF Stale(c) THEN [c EXCEPT !.at = "refused", !.rv = server.v, !.rts = server.ts]
                            ELSE [c EXCEPT !.at = "put"])
  /\ UNCHANGED <<now, server, local, edits, pulls, faults, owed, stored, muddled>>

DataPut(d, s) ==
  LET c == call[d][s] IN
  /\ c.at = "put"
  /\ server' = [v |-> c.v, ts |-> c.ts] /\ stored' = stored \cup {c.v}
  /\ owed' = {x \in owed : doc[x] # c.v}
  /\ muddled' = (muddled \/ server.ts > c.ts \/ (server.ts = c.ts /\ server.v # c.v))
  /\ Goto(d, s, [c EXCEPT !.at = "stored"])
  /\ UNCHANGED <<now, local, edits, pulls, faults>>

DataGet(d, s) ==
  LET c == call[d][s] IN
  /\ c.at = "asked"
  /\ Goto(d, s, [c EXCEPT !.at = "answered", !.rv = server.v, !.rts = server.ts])
  /\ UNCHANGED <<now, server, local, edits, pulls, faults, owed, stored, muddled>>

-------------------------------------------------------------------------------
\* What the device does with the answers.
Stamp(d, t) == stamp' = [stamp EXCEPT ![d] = t]

\* Stored, by a push or by the seeding half of a pull: the stamp is taken over.
Accepted(d, s) ==
  /\ Here(d, s, "stored") /\ Stamp(d, call[d][s].ts) /\ Goto(d, s, Nothing)
  /\ UNCHANGED <<now, server, doc, signed, timer, edits, pulls, faults, owed, stored, muddled>>

\* Refused: a push takes the newer copy, then its stamp; a pull lets it be.
\* Variant: the stamp alone is taken over.
TakenCopyKept(d, s) == doc[d]
TakenCopy(d, s) == call[d][s].rv
Refused(d, s) ==
  /\ Here(d, s, "refused")
  /\ \/ /\ call[d][s].kind = "push"
        /\ doc' = [doc EXCEPT ![d] = TakenCopy(d, s)] /\ timer' = [timer EXCEPT ![d] = Scheduled(d)]
        /\ Settled(d) /\ Goto(d, s, [call[d][s] EXCEPT !.at = "taken"])
     \/ call[d][s].kind = "pull" /\ Goto(d, s, Nothing) /\ UNCHANGED <<doc, timer, owed>>
  /\ UNCHANGED <<now, server, stamp, signed, edits, pulls, faults, stored, muddled>>

Taken(d, s) ==
  /\ Here(d, s, "taken") /\ Stamp(d, call[d][s].rts) /\ Goto(d, s, Nothing)
  /\ UNCHANGED <<now, server, doc, signed, timer, edits, pulls, faults, owed, stored, muddled>>

\* syncNow: the remote copy is asked for, the local stamp and copy are read.
PullRecord(d) == [Nothing EXCEPT !.kind = "pull", !.at = "asked", !.v = doc[d], !.ts = stamp[d], !.client = TRUE]
Pull(d, s) ==
  /\ s \in PullSlots /\ Free(d, s) /\ pulls < MaxPulls /\ pulls' = pulls + 1
  /\ Goto(d, s, PullRecord(d))
SyncNow(d, s) ==
  /\ signed[d] /\ Pull(d, s) /\ Overlap(d)
  /\ UNCHANGED <<now, server, local, edits, faults, owed, stored>>

\* The copy with the newer stamp wins: the remote one is written over the local
\* one, or the local one seeds the server, or neither.
\* Variant: a device without a copy seeds as well.
SeedsBlank(c) == c.rv = NoDoc \/ c.ts > c.rts
RemoteWins(c) == c.rv # NoDoc /\ c.rts > c.ts
Seeds(c) == c.v # NoDoc /\ (c.rv = NoDoc \/ c.ts > c.rts)

PullTakes(d, s) ==
  /\ Here(d, s, "answered") /\ RemoteWins(call[d][s])
  /\ doc' = [doc EXCEPT ![d] = TakenCopy(d, s)] /\ timer' = [timer EXCEPT ![d] = Scheduled(d)]
  /\ Settled(d) /\ Goto(d, s, [call[d][s] EXCEPT !.at = "taken"])
  /\ UNCHANGED <<now, server, stamp, signed, edits, pulls, faults, stored, muddled>>
PullSeeds(d, s) ==
  LET c == call[d][s] IN
  /\ Here(d, s, "answered") /\ ~RemoteWins(c)
  /\ \/ ~Seeds(c) /\ Goto(d, s, Nothing) /\ UNCHANGED now
     \/ Seeds(c) /\ c.ts # 0 /\ Goto(d, s, [c EXCEPT !.at = "sent"]) /\ UNCHANGED now
     \/ /\ Seeds(c) /\ c.ts = 0
        /\ \E t \in Stamps : Second(t) /\ Goto(d, s, [c EXCEPT !.at = "sent", !.ts = t])
  /\ UNCHANGED <<server, local, edits, pulls, faults, owed, stored, muddled>>

-------------------------------------------------------------------------------
\* Faults.  A request or its answer is lost: a push gives up until the next
\* write, a pull that gets no copy goes on as if the server had none, and a
\* seed that fails is let be.
Lose(d, s) ==
  LET c == call[d][s] IN
  /\ c.client /\ c.at \in {"sent", "put", "stored", "refused", "asked"}
  /\ Fault
  /\ \/ c.at = "put"   \* the server goes on without a client
        /\ Goto(d, s, [c EXCEPT !.client = FALSE])
     \/ c.at \in {"sent", "stored", "refused"} /\ Goto(d, s, Nothing)
     \/ c.at = "asked" /\ Goto(d, s, [c EXCEPT !.at = "answered", !.rv = NoDoc, !.rts = 0])
  /\ UNCHANGED <<now, server, local, edits, pulls, owed, stored, muddled>>

\* What is left of a call nobody waits for.
Abandoned(d, s) ==
  /\ call[d][s].kind # "none" /\ ~call[d][s].client /\ call[d][s].at \in {"refused", "stored"}
  /\ Goto(d, s, Nothing)
  /\ UNCHANGED <<now, server, local, edits, pulls, faults, owed, stored, muddled>>

-------------------------------------------------------------------------------
\* onSignedIn, or refreshSession finding the session valid: pull at once.
OnSignedIn(d, s) ==
  /\ ~signed[d] /\ signed' = [signed EXCEPT ![d] = TRUE] /\ Pull(d, s) /\ Overlap(d)
  /\ UNCHANGED <<now, server, doc, stamp, timer, edits, faults, owed, stored>>

\* The requests of a device whose session is gone are refused before the route.
Dropped(c) ==
  IF c.at \in {"put", "stored"} THEN [c EXCEPT !.client = FALSE] ELSE Nothing

\* signOut: the timers go on, and what they send fails.
SignOut(d) ==
  /\ signed[d] /\ Fault
  /\ signed' = [signed EXCEPT ![d] = FALSE]
  /\ UNCHANGED <<now, server, doc, stamp, timer, call, edits, pulls, owed, stored, muddled>>

\* deleteAccount: every stored document of the account is purged, and the device is
\* signed out unless the answer is lost.  Its stamps and copies stay, and so do the
\* sessions of the other devices: a session names its account and is not looked up
\* (users.py:185-189), a member's account is made again by the next request
\* (server.py:1270-1274).  A put under way lands after the purge.
Purged == [v |-> NoDoc, ts |-> 0]
DeleteAccount(d) ==
  /\ signed[d] /\ Fault
  /\ server' = Purged
  /\ \/ signed' = [signed EXCEPT ![d] = FALSE]
     \/ UNCHANGED signed
  /\ UNCHANGED <<now, doc, stamp, timer, call, edits, pulls, owed, stored, muddled>>
PushUnsigned(d, s) ==
  /\ At(d, s, "push", "sent") /\ ~signed[d] /\ Goto(d, s, Nothing)
  /\ UNCHANGED <<now, server, local, edits, pulls, faults, owed, stored, muddled>>

\* The app is closed: timers and calls are gone, the storage stays.
Restart(d) ==
  /\ Fault
  /\ signed' = [signed EXCEPT ![d] = FALSE] /\ timer' = [timer EXCEPT ![d] = FALSE]
  /\ call' = [call EXCEPT ![d] = [s \in Slots |-> Dropped(call[d][s])]]
  /\ UNCHANGED <<now, server, doc, stamp, edits, pulls, owed, stored, muddled>>

-------------------------------------------------------------------------------
Step(d, s) ==
  \/ PushFire(d, s) \/ DataCompare(d, s) \/ DataPut(d, s) \/ DataGet(d, s)
  \/ Accepted(d, s) \/ Refused(d, s) \/ Taken(d, s) \/ PullTakes(d, s) \/ PullSeeds(d, s)
  \/ Abandoned(d, s)
SyncNext ==
  \/ \E d \in Devices : Edit(d) \/ SignOut(d) \/ DeleteAccount(d) \/ Restart(d)
  \/ \E d \in Devices, s \in Slots :
       Step(d, s) \/ SyncNow(d, s) \/ OnSignedIn(d, s) \/ Lose(d, s) \/ PushUnsigned(d, s)

\* Timers fire and answers arrive or are lost: the steps of a call under way
\* and of a due timer are not put off for ever.  Users owe nothing.
Fairness == \A d \in Devices, s \in Slots : WF_vars(Step(d, s))
SyncSpec == SyncInit /\ [][SyncNext]_vars /\ Fairness

-------------------------------------------------------------------------------
Calls == [kind : {"none", "push", "pull"}, v : 0..MaxEdits, ts : Stamps, rv : 0..MaxEdits, rts : Stamps,
          at : {"none", "sent", "put", "stored", "refused", "asked", "answered", "taken"}, client : BOOLEAN]
TypeOK ==
  /\ now \in Stamps /\ server \in [v : 0..MaxEdits, ts : Stamps]
  /\ doc \in [Devices -> 0..MaxEdits] /\ stamp \in [Devices -> Stamps]
  /\ signed \in [Devices -> BOOLEAN] /\ timer \in [Devices -> BOOLEAN]
  /\ call \in [Devices -> [Slots -> Calls]]
  /\ edits \in 0..MaxEdits /\ pulls \in 0..MaxPulls /\ faults \in 0..MaxFaults
  /\ owed \subseteq Devices /\ stored \subseteq 0..MaxEdits /\ muddled \in BOOLEAN

Quiet(d) == ~timer[d] /\ \A s \in Slots : Free(d, s)

\* A device with nothing under way, whose copy has been on the server and whose
\* stamp is the server's, holds the server's copy: equal stamps mean equal
\* documents, which is what syncNow relies on when it lets both be
\* (session.ts:129-138).  Excluded are the cases where the
\* code breaks it: two pushes in one second, a put after a comparison that no longer
\* holds (server.py:1472), a device with two calls at once, lost requests, a deleted account.
StampTellsCopy ==
  muddled \/ faults > 0
  \/ \A d \in Devices : Quiet(d) /\ doc[d] \in stored /\ stamp[d] = server.ts => doc[d] = server.v

\* A copy on the server goes away with its account and in no other way (server.py:1472),
\* and a device that has never synced takes the copy it is answered, over whatever it
\* holds ("a fresh device inherits the account", session.ts:7), unless the app is closed.
\* One whose question is lost goes on as if there were none, and may seed over the copy.
NeverEmptied ==
  [][/\ server.v # NoDoc /\ server'.v = NoDoc => \E d \in Devices : DeleteAccount(d)
     /\ \A d \in Devices, s \in Slots :
          /\ Here(d, s, "answered") /\ call[d][s].rv # NoDoc /\ call[d][s].ts = 0
          /\ call'[d][s] # call[d][s]
          => PullTakes(d, s) \/ Restart(d)]_vars

\* What a device writes while signed in reaches the server or gives way to a
\* copy that came from it, as long as no request is lost and the device stays
\* (session.ts:9, "every local write to a synced key is debounced and PUSHED").
EditReachesServer ==
  \A d \in Devices : d \in owed ~> (d \notin owed \/ faults > 0)

\* A pull never throws away an edit the server has not seen, made before the
\* pull on a device that has synced before: "an offline-edited device pushes its
\* changes" (session.ts:8).
PullKeepsOfflineEdits ==
  [][\A d \in Devices, s \in Slots :
       PullTakes(d, s) /\ stamp[d] # 0 /\ call[d][s].v = doc[d] => doc[d] \in stored]_vars
=============================================================================
