------------------------------ MODULE TrackRecord ------------------------------
(***************************************************************************)
(* What the track record promises its reader, without threads, statements  *)
(* or a mark pass: calls are published one open call at a time per engine  *)
(* and symbol, each is resolved at most once, and nothing is ever taken    *)
(* out of the book or changed in it.                                       *)
(***************************************************************************)
EXTENDS Naturals, Sequences

CONSTANTS
  Keys,      \* what a call is about: an engine and a symbol
  Outcomes,  \* how a call can end
  Open       \* the mark of a call that has not ended

VARIABLE book   \* the calls published so far, each with its outcome or Open

Init == book = <<>>

Publish(k) ==
  /\ \A i \in DOMAIN book : book[i].key = k => book[i].outcome # Open
  /\ book' = Append(book, [key |-> k, outcome |-> Open])

Resolve(i, o) ==
  /\ book[i].outcome = Open
  /\ book' = [book EXCEPT ![i].outcome = o]

Next == \/ \E k \in Keys : Publish(k)
        \/ \E i \in DOMAIN book, o \in Outcomes : Resolve(i, o)

Spec == Init /\ [][Next]_book
===============================================================================
