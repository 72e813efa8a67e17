---------------------------------- MODULE Chat ----------------------------------
(***************************************************************************)
(* The community: rooms and direct messages over one table of messages on  *)
(* the server, read by polling with a cursor.  The thread on screen polls  *)
(* at an interval and again whenever what it shows changed, and a request  *)
(* under way is not called off: answers overlap each other, the user's own *)
(* messages, and the thread's end.                                         *)
(***************************************************************************)
EXTENDS Client, Filters, SequencesExt, FiniteSetsExt

CONSTANTS
  Rooms, Dm,       \* conversations: the rooms, and the one a direct message opens
  Limit,           \* messages in an answer
  MaxMsgs,         \* bound: messages on the server
  MaxPolls         \* bound: polls under way when the interval adds one
ChatAssumptions == Limit \in Nat /\ Rooms # {}

Convs == Rooms \cup {Dm}
NoConv == 0
\* The server's table: a message's id is its place.  What a poll gets: the first after its cursor.
Messages(u, conv, since) ==
  LET after == {id \in DOMAIN u.log : u.log[id].conv = conv /\ id > since}
      first == {id \in after : Cardinality({x \in after : x < id}) < Limit}
  IN Places([id \in DOMAIN u.log |-> id], first)
Post(u, conv, mine) == [u EXCEPT !.log = Append(@, [conv |-> conv, mine |-> mine])]
Unread(u, conv) == Cardinality({id \in DOMAIN u.log : u.log[id].conv = conv /\ ~u.log[id].mine /\ id > u.reads[conv]})

Init ==
  /\ \E me \in BOOLEAN, n \in 0..1 :
       ui = [me |-> me, view |-> IF me THEN "list" ELSE "setup", conv |-> NoConv, mount |-> 0,
             log |-> [k \in 1..n |-> [conv |-> CHOOSE r \in Rooms : TRUE, mine |-> FALSE]],
             reads |-> [c \in Convs |-> 0],
             msgs |-> <<>>, loaded |-> FALSE, since |-> 0, sending |-> FALSE,
             rows |-> <<>>,                        \* the list's rows: a conversation and its badge
             lost |-> {},                          \* history: passed over by an own message, or wiped by a late first answer
             seen |-> {},                          \* history: the messages that were on show
             overlapped |-> FALSE, replaced |-> FALSE, late |-> {}]  \* history: requests of the thread overlapped; a thread was replaced; answered after leaving
  /\ calls = {} /\ steps = 0

\* ---- the account of the device: a blank id lets the server mint one
Join == ui.view = "setup" /\ Act /\ calls' = calls \cup {[kind |-> "join", n |-> steps]} /\ UNCHANGED ui
Joined(c) == Net /\ calls' = calls \ {c} /\ ui' = [ui EXCEPT !.me = TRUE, !.view = IF @ = "setup" THEN "list" ELSE @]
JoinFails(c) == Net /\ calls' = calls \ {c} /\ UNCHANGED ui

\* ---- the list, and the search for a peer
LoadOverview == ui.view \in {"list", "new"} /\ Of({"overview"}) = {} /\ Net /\ calls' = calls \cup {[kind |-> "overview"]} /\ UNCHANGED ui
Listed(u) == [k \in Rooms \cup {u.log[id].conv : id \in DOMAIN u.log} |-> Unread(u, k)]
OverviewArrives(c) == Net /\ calls' = calls \ {c} /\ ui' = IF ui.view \in {"list", "new"} THEN [ui EXCEPT !.rows = Listed(ui)] ELSE ui
OverviewFails(c) == Net /\ calls' = calls \ {c} /\ ui' = IF ui.view \in {"list", "new"} THEN [ui EXCEPT !.rows = <<>>] ELSE ui
NewDm == ui.view = "list" /\ Act /\ ui' = [ui EXCEPT !.view = "new"] /\ UNCHANGED calls
CloseDm == ui.view = "new" /\ Act /\ ui' = [ui EXCEPT !.view = "list"] /\ UNCHANGED calls
Pick == ui.view = "new" /\ Act /\ calls' = calls \cup {[kind |-> "dm", n |-> steps]} /\ UNCHANGED ui

\* ---- a thread
Polls == Of({"poll"})
Poll(u) ==
  [kind |-> "poll", k |-> CHOOSE k \in 1..(Cardinality(Polls) + 1) : \A c \in Polls : c.k # k,
   mount |-> u.mount, conv |-> u.conv, since |-> u.since, first |-> ~u.loaded, served |-> FALSE, fresh |-> <<>>]
\* A thread that opens where none is mounts; over another one it is the same thread, with what that had.
Opened(u, conv) ==
  IF u.view = "thread" THEN [u EXCEPT !.conv = conv, !.replaced = @ \/ u.conv # conv]
  ELSE [u EXCEPT !.view = "thread", !.conv = conv, !.mount = @ + 1, !.msgs = <<>>, !.loaded = FALSE, !.since = 0, !.sending = FALSE,
                 !.lost = {}, !.overlapped = FALSE, !.replaced = FALSE]
\* What is shown changed: the effect runs anew, with a poll at once.
Running(u, cs) == \E c \in cs : c.kind \in {"poll", "send"} /\ c.mount = u.mount
Renewed(u, cs) ==
  /\ ui' = [u EXCEPT !.overlapped = @ \/ Running(u, cs),
                     !.seen = @ \cup Range(u.msgs)]
  /\ calls' = cs \cup {Poll(u)}
OpenThread(conv) == ui.view = "list" /\ conv \in DOMAIN ui.rows /\ Act /\ Renewed(Opened(ui, conv), calls)
OpenDm(c) == Net /\ ui.conv # Dm /\ Renewed(Opened(ui, Dm), calls \ {c})
OpenDmAgain(c) == Net /\ ui.conv = Dm /\ calls' = calls \ {c} /\ UNCHANGED ui
OpenDmRefused(c) == Net /\ calls' = calls \ {c} /\ ui' = [ui EXCEPT !.view = IF @ = "new" THEN "list" ELSE @]
OpenDmFails(c) == Net /\ calls' = calls \ {c} /\ UNCHANGED ui
Back == ui.view = "thread" /\ Act /\ ui' = [ui EXCEPT !.view = "list", !.conv = NoConv, !.rows = <<>>] /\ UNCHANGED calls
Tick ==
  /\ ui.view = "thread" /\ Cardinality(Polls) < MaxPolls /\ Act
  /\ ui' = [ui EXCEPT !.overlapped = @ \/ Running(ui, calls)] /\ calls' = calls \cup {Poll(ui)}

Served(c) ==
  /\ ~c.served /\ Net /\ UNCHANGED ui
  /\ calls' = (calls \ {c}) \cup {[c EXCEPT !.served = TRUE, !.fresh = Messages(ui, c.conv, c.since)]}
Mounted(c) == ui.view = "thread" /\ c.mount = ui.mount
\* The first answer, when it is empty or fails, clears the wait and all that came in the meantime.
Cleared(u) == [u EXCEPT !.loaded = TRUE, !.msgs = <<>>, !.lost = @ \cup Range(u.msgs)]
Nothing(c) ==
  LET rest == calls \ {c} IN
  IF Mounted(c) /\ c.first THEN Renewed(Cleared(ui), rest) ELSE ui' = ui /\ calls' = rest
MarkRead(c) == [kind |-> "read", conv |-> c.conv, last |-> Last(c.fresh)]
PollArrives(c) ==
  /\ c.served /\ Net
  /\ IF c.fresh = <<>> THEN Nothing(c)
     ELSE IF Mounted(c)
     THEN Renewed([ui EXCEPT !.msgs = @ \o c.fresh, !.loaded = TRUE, !.since = Last(c.fresh), !.lost = @ \ Range(c.fresh)],
                  (calls \ {c}) \cup {MarkRead(c)})
     ELSE ui' = [ui EXCEPT !.late = @ \cup {c.conv}] /\ calls' = (calls \ {c}) \cup {MarkRead(c)}
PollFails(c) == Net /\ Nothing(c)
ReadArrives(c) == Net /\ calls' = calls \ {c} /\ ui' = [ui EXCEPT !.reads[c.conv] = IF c.last > @ THEN c.last ELSE @]
ReadLost(c) == Net /\ calls' = calls \ {c} /\ UNCHANGED ui

\* ---- messages of others, and one's own, which moves the cursor past itself
OthersPost(conv) == Len(ui.log) < MaxMsgs /\ Act /\ ui' = Post(ui, conv, FALSE) /\ UNCHANGED calls
DoSend ==
  /\ ui.view = "thread" /\ ~ui.sending /\ Len(ui.log) < MaxMsgs /\ Act
  /\ ui' = [ui EXCEPT !.sending = TRUE, !.overlapped = @ \/ Running(ui, calls)]
  /\ calls' = calls \cup {[kind |-> "send", mount |-> ui.mount, conv |-> ui.conv, stored |-> 0]}
Stored(c) ==
  /\ c.stored = 0 /\ Len(ui.log) < MaxMsgs /\ Net
  /\ ui' = Post(ui, c.conv, TRUE)
  /\ calls' = (calls \ {c}) \cup {[c EXCEPT !.stored = Len(ui.log) + 1]}
Passed(u, id) == {x \in DOMAIN u.log : u.log[x].conv = u.conv /\ x > u.since /\ x < id} \ Range(u.msgs)
Sent(u, id) ==
  [u EXCEPT !.msgs = Append(@, id), !.loaded = TRUE, !.sending = FALSE, !.since = Max({@, id}), !.lost = @ \cup Passed(u, id)]
SendArrives(c) ==
  /\ c.stored # 0 /\ Net
  /\ IF Mounted(c) THEN Renewed(Sent(ui, c.stored), calls \ {c}) ELSE ui' = ui /\ calls' = calls \ {c}
SendFails(c) ==
  /\ Net /\ calls' = calls \ {c}
  /\ ui' = IF Mounted(c) THEN [ui EXCEPT !.sending = FALSE] ELSE ui

Next ==
  \/ Join \/ \E c \in Of({"join"}) : Joined(c) \/ JoinFails(c)
  \/ LoadOverview \/ NewDm \/ CloseDm \/ Pick \/ Back \/ Tick \/ DoSend
  \/ \E c \in Of({"overview"}) : OverviewArrives(c) \/ OverviewFails(c)
  \/ \E c \in Of({"dm"}) : OpenDm(c) \/ OpenDmAgain(c) \/ OpenDmRefused(c) \/ OpenDmFails(c)
  \/ \E c \in Polls : Served(c) \/ PollArrives(c) \/ PollFails(c)
  \/ \E c \in Of({"read"}) : ReadArrives(c) \/ ReadLost(c)
  \/ \E c \in Of({"send"}) : Stored(c) \/ SendArrives(c) \/ SendFails(c)
  \/ \E r \in Convs : OpenThread(r) \/ OthersPost(r)
Spec == Init /\ [][Next]_client

-------------------------------------------------------------------------------
\* What is below the cursor of a thread is on show in it, in whatever order its polls answer,
\* but for what an own message passed over or a late first answer wiped
\* (ChatScreen.tsx:216-230, 242-256).
BelowTheCursorIsShown ==
  ui.view = "thread" /\ ~ui.replaced =>
    \A id \in DOMAIN ui.log : ui.log[id].conv = ui.conv /\ id <= ui.since => id \in Range(ui.msgs) \cup ui.lost
\* A thread shows its conversation, each message once and in order, unless its requests overlapped,
\* or a direct message opened late over another thread (ChatScreen.tsx:76-78, 104-108).
ThreadIsItsConversation ==
  ui.view = "thread" /\ ~ui.replaced =>
    /\ \A k \in DOMAIN ui.msgs : ui.log[ui.msgs[k]].conv = ui.conv
    /\ ~ui.overlapped => \A j, k \in DOMAIN ui.msgs : j < k => ui.msgs[j] < ui.msgs[k]
\* What is marked as read was on show, unless its answer came when the thread had been left.
ReadWasShown == \A c \in Convs : ui.reads[c] \in ui.seen \cup {0} \/ c \in ui.late
\* A thread that still waits has a request under way that ends its wait.
WaitsForAnAnswer == ui.view = "thread" /\ ~ui.loaded => \E c \in Polls : Mounted(c) /\ c.first
===============================================================================
