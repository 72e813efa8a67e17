------------------------------ MODULE OptionDesk ------------------------------
(***************************************************************************)
(* The option chain and the payoff builder (screens/DerivativesScreen.tsx).*)
(* The chain of an underlying is asked for without an expiry first; its    *)
(* answer sets the expiry, and the chain is asked for again with it.       *)
(***************************************************************************)
EXTENDS Client

CONSTANTS Underlyings, ExpiriesOf(_), None, MaxLegs

Nearest(s) == CHOOSE e \in ExpiriesOf(s) : \A f \in ExpiriesOf(s) : e <= f
Chain(st, s, e) == [st |-> st, of |-> s, expiry |-> e]
Waiting == Chain("loading", None, None)
Request(s, e) == [of |-> s, expiry |-> e]
Init ==
  /\ \E s \in Underlyings :
       /\ ui = [sym |-> s, expiry |-> None, chain |-> Waiting, legs |-> <<>>,
                overtaken |-> FALSE, removed |-> FALSE]   \* history: an answer came late; a leg was removed
       /\ calls = {Request(s, None)}
  /\ steps = 0

\* The effect on the underlying and the expiry: another one is loaded.
Load(u) == ui' = [u EXCEPT !.chain = Waiting] /\ calls' = calls \cup {Request(u.sym, u.expiry)}
Go(s) == s # ui.sym /\ Act /\ Load([ui EXCEPT !.sym = s, !.expiry = None])
PickExpiry(e) ==
  /\ ui.chain.st = "data" /\ e # ui.expiry /\ Act /\ Load([ui EXCEPT !.expiry = e])

\* The answer is not checked against what is asked for now.
Late(c) == c.of # ui.sym \/ (c.expiry # None /\ c.expiry # ui.expiry)
Answer(c) ==
  /\ Net
  /\ LET e == IF c.expiry = None THEN Nearest(c.of) ELSE c.expiry
         u == [ui EXCEPT !.chain = Chain("data", c.of, e), !.overtaken = @ \/ Late(c)]
     IN IF c.expiry = None /\ ui.expiry # e
        THEN /\ ui' = [u EXCEPT !.expiry = e, !.chain = Waiting]
             /\ calls' = (calls \ {c}) \cup {Request(ui.sym, e)}
        ELSE ui' = u /\ calls' = calls \ {c}
Fail(c) == Net /\ ui' = [ui EXCEPT !.chain = Chain("none", None, None), !.overtaken = @ \/ Late(c)] /\ calls' = calls \ {c}

\* The legs: named by contract and by how many there were.
Leg(kind, n) == [kind |-> kind, n |-> n, side |-> "buy"]
Id(l) == <<l.kind, l.n>>
AddLeg(kind) ==
  /\ ui.chain.st = "data" /\ Len(ui.legs) < MaxLegs /\ Act
  /\ ui' = [ui EXCEPT !.legs = Append(@, Leg(kind, Len(@)))] /\ UNCHANGED calls
Flipped(l) == [l EXCEPT !.side = IF @ = "buy" THEN "sell" ELSE "buy"]
ToggleSide(i) ==
  /\ Act /\ UNCHANGED calls
  /\ ui' = [ui EXCEPT !.legs = [j \in DOMAIN @ |-> IF Id(@[j]) = Id(@[i]) THEN Flipped(@[j]) ELSE @[j]]]
RemoveLeg(i) ==
  /\ Act /\ UNCHANGED calls
  /\ ui' = [ui EXCEPT !.legs = SelectSeq(@, LAMBDA l : Id(l) # Id(@[i])), !.removed = TRUE]

Next ==
  \/ \E s \in Underlyings : Go(s)
  \/ \E e \in UNION {ExpiriesOf(s) : s \in Underlyings} :
       ui.chain.st = "data" /\ e \in ExpiriesOf(ui.chain.of) /\ PickExpiry(e)
  \/ \E c \in calls : Answer(c) \/ Fail(c)
  \/ \E k \in {"CE", "PE"} : AddLeg(k)
  \/ \E i \in DOMAIN ui.legs : ToggleSide(i) \/ RemoveLeg(i)
Spec == Init /\ [][Next]_client

-------------------------------------------------------------------------------
\* The chain shown is that of the underlying and the expiry chosen, unless an
\* answer came late (DerivativesScreen.tsx:39-53).
ShownIsAsked ==
  ui.chain.st = "data" => ui.overtaken \/ ui.chain = Chain("data", ui.sym, ui.expiry)
LoadingIsAsked == ui.chain.st = "loading" => calls # {}
\* Each leg can be flipped and taken away by itself, until one was taken away
\* (DerivativesScreen.tsx:63-71).
LegsAreApart == ui.removed \/ \A i, j \in DOMAIN ui.legs : Id(ui.legs[i]) = Id(ui.legs[j]) => i = j
==============================================================================
