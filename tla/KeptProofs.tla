------------------------------ MODULE KeptProofs ------------------------------
(***************************************************************************)
(* Proofs about what is kept, for any symbols, prices, groups and bounds:  *)
(* the trades of the replay of one engine, and the client's lists,         *)
(* holdings and paper accounts.  One of the client's runs in a behaviour   *)
(* of MCBooks and has an inductive invariant of its own; for each X there  *)
(* are lemmas XInit, XStep and XAlways, and one that says what the         *)
(* invariant is for.  What the other parts of MCBooks keep to is in        *)
(* PagesProofs and BooksProofs.                                            *)
(***************************************************************************)
EXTENDS MCBooks, SumsProofs

-------------------------------------------------------------------------------
\* The replay of one engine.  Its loop's own record of the past is one number, busy_until.  The
\* argument is that it says enough: every trade that has ended ended by then, and some trade
\* ended exactly then (PastIsBusy), while the trade being walked entered right after the loop's
\* bar (WalkStands).
Trade == [entry : Bars, status : {"open", "won", "lost", "closed"}, exit : 1 .. NBars + 1]

(* The trade walk_forward is called for entered after a signal on the      *)
(* loop's bar, and has no outcome.                                         *)
WalkStands ==
  walk # 0 => /\ Walked \in DOMAIN trades /\ i < NBars /\ signal[i] /\ i > busy
              /\ i < walk
              /\ trades[Walked].entry = i + 1 /\ trades[Walked].exit = NBars + 1

(* busy_until says where the past ended.                                   *)
Past(n) == walk = 0 \/ n # Walked
PastIsBusy ==
  /\ \A n \in DOMAIN trades : Past(n) => trades[n].entry <= i /\ trades[n].exit <= busy
  /\ busy > 0 => \E n \in DOMAIN trades : Past(n) /\ trades[n].exit = busy

IInv == TypeOK /\ WalkStands /\ PastIsBusy /\ ReplaySound

-------------------------------------------------------------------------------
(* Bars in order of their dates: _index_at finds the bar of a date.        *)
LEMMA IndexOfBar ==
  ASSUME ReplayAssumptions, time \in Times, NEW j \in Bars, NEW k \in Bars, k <= j
  PROVE  IndexAt(time[j], k) = j
<1> DEFINE later == {m \in k .. NBars : time[m] >= time[j]}
           first(m) == \A x \in later : m <= x
<1>1. /\ NBars \in Nat /\ time \in [Bars -> Int]
      /\ \A x, y \in Bars : x < y => time[x] < time[y]
  BY DEF ReplayAssumptions
<1>2. j \in later
  BY <1>1 DEF Bars
<1>3. first(j)
  <2> SUFFICES ASSUME NEW x \in k .. NBars, time[x] >= time[j], x < j PROVE FALSE
    BY <1>1 DEF Bars
  <2>1. x \in Bars
    BY <1>1 DEF Bars
  <2>2. time[x] \in Int /\ time[j] \in Int /\ time[x] < time[j]
    BY <1>1, <2>1
  <2>3. QED
    BY <2>2
<1>4. \A m \in later : first(m) => m = j
  BY <1>1, <1>2, <1>3 DEF Bars
<1>5. IndexAt(time[j], k) = CHOOSE m \in later : first(m)
  BY <1>2 DEF IndexAt
<1> HIDE DEF later, first
<1>6. QED
  BY <1>2, <1>3, <1>4, <1>5

(* Facts about the types that every step needs.                            *)
LEMMA TypeFacts ==
  ASSUME ReplayAssumptions, TypeOK
  PROVE  /\ NBars \in Nat \ {0} /\ i \in Nat /\ i >= 1 /\ i <= NBars
         /\ busy \in Nat /\ walk \in Nat
         /\ trades \in Seq(Trade) /\ Len(trades) \in Nat /\ DOMAIN trades = 1 .. Len(trades)
         /\ \A n \in DOMAIN trades :
              /\ trades[n] \in Trade
              /\ trades[n].entry \in Nat /\ trades[n].exit \in Nat
              /\ trades[n].entry >= 1 /\ trades[n].entry <= NBars
              /\ trades[n].exit >= 1 /\ trades[n].exit <= NBars + 1
<1>1. NBars \in Nat \ {0} /\ trades \in Seq(Trade)
  BY DEF ReplayAssumptions, TypeOK, Trade
<1>2. i \in Nat /\ i >= 1 /\ i <= NBars /\ busy \in Nat /\ walk \in Nat
  BY <1>1 DEF TypeOK, Bars
<1>3. Len(trades) \in Nat /\ DOMAIN trades = 1 .. Len(trades) /\ \A n \in DOMAIN trades : trades[n] \in Trade
  BY <1>1
<1>4. \A t \in Trade : /\ t.entry \in Nat /\ t.exit \in Nat
                       /\ t.entry >= 1 /\ t.entry <= NBars /\ t.exit >= 1 /\ t.exit <= NBars + 1
  BY <1>1 DEF Trade, Bars
<1>5. QED
  BY <1>1, <1>2, <1>3, <1>4

LEMMA InitIInv == ASSUME ReplayAssumptions, Init PROVE IInv
<1>1. NBars \in Nat \ {0}
  BY DEF ReplayAssumptions
<1>2. TypeOK
  BY <1>1 DEF Init, TypeOK, Bars
<1>3. WalkStands /\ PastIsBusy /\ ReplaySound
  BY DEF Init, WalkStands, PastIsBusy, ReplaySound, Disjoint, FirstTouchPessimistic, EverySignalAccounted
<1>4. QED
  BY <1>2, <1>3 DEF IInv

(* A bar without a trade: a signal on it fell while a trade was on.        *)
LEMMA PassIInv == ASSUME ReplayAssumptions, IInv, Pass PROVE IInv'
<1>1. /\ TypeOK /\ WalkStands /\ PastIsBusy /\ ReplaySound
      /\ walk = 0 /\ i < NBars /\ (~signal[i] \/ i <= busy)
      /\ i' = i + 1
      /\ UNCHANGED <<candles, time, signal, plan, busy, walk, trades>>
  BY DEF IInv, Pass, Looping, given
<1>2. TypeOK'
  BY <1>1, TypeFacts DEF TypeOK, Bars
<1>3. WalkStands' /\ PastIsBusy'
  BY <1>1, TypeFacts DEF WalkStands, PastIsBusy, Past, Walked
<1>4. Disjoint' /\ FirstTouchPessimistic'
  BY <1>1 DEF ReplaySound, Disjoint, FirstTouchPessimistic, FirstTouch, Reached, Ends, Stopped, Won, Plan,
              Late, Walked
<1>5. EverySignalAccounted'
  <2>1. \A n \in DOMAIN trades : trades[n].entry # i + 1
    BY <1>1, TypeFacts DEF PastIsBusy, Past
  <2>2. i <= busy => \E n \in DOMAIN trades : trades[n].entry <= i /\ i <= trades[n].exit
    BY <1>1, TypeFacts DEF PastIsBusy, Past
  <2>3. ~Entered(i) /\ (signal[i] => Covered(i))
    BY <1>1, <2>1, <2>2 DEF Entered, Covered
  <2>4. \A b \in Bars : b < i' => b < i \/ b = i
    BY <1>1, TypeFacts DEF Bars
  <2>5. QED
    BY <1>1, <2>3, <2>4 DEF ReplaySound, EverySignalAccounted, Entered, Covered
<1>6. QED
  BY <1>2, <1>3, <1>4, <1>5 DEF IInv, ReplaySound

(* A signal beyond busy_until enters a trade after all that have ended.    *)
LEMMA EnterIInv == ASSUME ReplayAssumptions, IInv, Enter PROVE IInv'
<1> DEFINE new == [entry |-> i + 1, status |-> "open", exit |-> NBars + 1]
<1>1. /\ TypeOK /\ WalkStands /\ PastIsBusy /\ ReplaySound
      /\ walk = 0 /\ i < NBars /\ signal[i] /\ i > busy
      /\ trades' = Append(trades, new) /\ walk' = i + 1
      /\ UNCHANGED <<candles, time, signal, plan, i, busy>>
  BY DEF IInv, Enter, Looping, given
<1>2. new \in Trade /\ new.entry = i + 1 /\ new.status = "open" /\ new.exit = NBars + 1
  BY <1>1, TypeFacts DEF Trade, Bars
<1> HIDE DEF new
<1>0. PICK n0 \in Nat : n0 = Len(trades) + 1
  BY <1>1, TypeFacts
<1>3. /\ trades' \in Seq(Trade) /\ Len(trades') = n0
      /\ DOMAIN trades' = DOMAIN trades \cup {n0} /\ n0 \notin DOMAIN trades
      /\ \A n \in DOMAIN trades : n < n0 /\ trades'[n] = trades[n]
      /\ trades'[n0] = new
  <2>1. trades \in Seq(Trade) /\ Len(trades) \in Nat /\ DOMAIN trades = 1 .. Len(trades)
    BY <1>1, TypeFacts
  <2>2. QED
    BY <1>0, <1>1, <1>2, <2>1
<1>4. Walked' = n0
  BY <1>3 DEF Walked
<1>5. TypeOK'
  BY <1>1, <1>3, TypeFacts DEF TypeOK, Trade, Bars
<1>6. WalkStands'
  BY <1>1, <1>2, <1>3, <1>4, TypeFacts DEF WalkStands
<1>7. PastIsBusy'
  <2>1. \A n \in DOMAIN trades' : Past(n)' => n \in DOMAIN trades /\ Past(n)
    BY <1>1, <1>3, <1>4, TypeFacts DEF Past
  <2>2. \A n \in DOMAIN trades : Past(n)'
    BY <1>3, <1>4 DEF Past
  <2>3. QED
    BY <1>1, <1>3, <2>1, <2>2 DEF PastIsBusy
<1>8. Disjoint'
  <2> SUFFICES ASSUME NEW m \in DOMAIN trades', NEW n \in DOMAIN trades', m < n
               PROVE  trades'[m].exit < trades'[n].entry
    BY DEF Disjoint
  <2>1. n0 \in Nat /\ m \in Nat /\ n \in Nat
    BY <1>3, <1>1, TypeFacts
  <2>2. m \in DOMAIN trades
    BY <1>3, <2>1
  <2>3. CASE n \in DOMAIN trades
    BY <1>1, <1>3, <2>2, <2>3 DEF ReplaySound, Disjoint
  <2>4. CASE n = n0
    BY <1>1, <1>2, <1>3, <2>2, <2>4, TypeFacts DEF PastIsBusy, Past
  <2>5. QED
    BY <1>3, <2>3, <2>4
<1>9. FirstTouchPessimistic'
  <2>1. ASSUME NEW n \in DOMAIN trades PROVE FirstTouch(trades[n], Reached(n))'
    <3>1. FirstTouch(trades[n], Reached(n)) /\ trades'[n] = trades[n]
      BY <1>1, <1>3 DEF ReplaySound, FirstTouchPessimistic
    <3>2. Reached(n)' = Reached(n)
      BY <1>1, <1>3, <1>4 DEF Reached
    <3>3. QED
      BY <1>1, <3>1, <3>2 DEF FirstTouch, Ends, Stopped, Won, Late, Plan
  <2>2. FirstTouch(trades[n0], Reached(n0))'
    <3>1. Reached(n0)' = i
      BY <1>1, <1>4, TypeFacts DEF Reached
    <3>2. QED
      BY <1>1, <1>2, <1>3, <3>1, TypeFacts DEF FirstTouch, Bars
  <2>3. QED
    BY <1>3, <2>1, <2>2 DEF FirstTouchPessimistic
<1>10. EverySignalAccounted'
  <2> SUFFICES ASSUME NEW b \in Bars, b < i
               PROVE  (Entered(b)' <=> Entered(b)) /\ (Covered(b)' <=> Covered(b))
    BY <1>1 DEF ReplaySound, EverySignalAccounted
  <2>1. trades'[n0].entry > b + 1 /\ trades'[n0].entry \in Nat /\ b \in Nat
    BY <1>1, <1>2, <1>3, TypeFacts DEF Bars
  <2>2. Entered(b)' <=> Entered(b)
    BY <1>3, <2>1 DEF Entered
  <2>3. Covered(b)' <=> Covered(b)
    BY <1>3, <2>1 DEF Covered
  <2>4. QED
    BY <2>2, <2>3
<1>11. QED
  BY <1>5, <1>6, <1>7, <1>8, <1>9, <1>10 DEF IInv, ReplaySound

(* The loop goes on after a walk: the signal it came from is accounted for. *)
LEMMA CallAccounted ==
  ASSUME ReplayAssumptions, IInv, walk # 0, i' = i + 1, UNCHANGED signal,
         DOMAIN trades' = DOMAIN trades,
         \A n \in DOMAIN trades : /\ trades'[n].entry = trades[n].entry
                                  /\ n # Walked => trades'[n] = trades[n]
  PROVE  EverySignalAccounted'
<1>1. /\ TypeOK /\ Walked \in DOMAIN trades /\ signal[i] /\ i > busy
      /\ trades[Walked].entry = i + 1
      /\ \A n \in DOMAIN trades : n # Walked => trades[n].entry <= i /\ trades[n].exit <= busy
  BY DEF IInv, WalkStands, PastIsBusy, Past
<1> SUFFICES ASSUME NEW b \in Bars, b < i'
             PROVE  (signal[b] => (Entered(b)' <=> ~Covered(b)')) /\ (Entered(b)' => signal[b])
  BY DEF EverySignalAccounted
<1>2. CASE b < i
  <2>1. ~(trades[Walked].entry <= b) /\ ~(trades'[Walked].entry <= b)
    BY <1>1, <1>2, TypeFacts DEF Bars
  <2>2. Entered(b)' <=> Entered(b)
    BY DEF Entered
  <2>3. Covered(b)' <=> Covered(b)
    BY <2>1 DEF Covered
  <2>4. QED
    BY <1>2, <2>2, <2>3 DEF IInv, ReplaySound, EverySignalAccounted
<1>3. CASE b = i
  <2>1. Entered(b)'
    BY <1>1, <1>3 DEF Entered
  <2>2. ASSUME NEW n \in DOMAIN trades, trades'[n].entry <= b, b <= trades'[n].exit PROVE FALSE
    <3>1. n # Walked
      BY <1>1, <1>3, <2>2, TypeFacts
    <3>2. QED
      BY <1>1, <1>3, <2>2, <3>1, TypeFacts
  <2>3. ~Covered(b)'
    BY <2>2 DEF Covered
  <2>4. QED
    BY <1>1, <1>3, <2>1, <2>3
<1>4. QED
  BY <1>1, <1>2, <1>3, TypeFacts DEF Bars

(* A bar that neither touches a level nor is late is walked over.          *)
LEMMA WalkOnIInv == ASSUME ReplayAssumptions, IInv, WalkOn PROVE IInv'
<1>1. /\ TypeOK /\ WalkStands /\ PastIsBusy /\ ReplaySound
      /\ walk \in Bars /\ Seen = "open" /\ walk' = walk + 1
      /\ UNCHANGED <<candles, time, signal, plan, i, busy, trades>>
  BY DEF IInv, WalkOn, given
<1>2. walk # 0 /\ walk' # 0 /\ walk \in Nat
  BY <1>1, TypeFacts DEF Bars
<1>3. TypeOK'
  BY <1>1, TypeFacts DEF TypeOK, Bars
<1>4. WalkStands' /\ PastIsBusy'
  BY <1>1, <1>2, TypeFacts DEF WalkStands, PastIsBusy, Past, Walked
<1>5. Disjoint' /\ EverySignalAccounted'
  BY <1>1 DEF ReplaySound, Disjoint, EverySignalAccounted, Entered, Covered
<1>6. ASSUME NEW n \in DOMAIN trades PROVE FirstTouch(trades[n], Reached(n))'
  <2>1. FirstTouch(trades[n], Reached(n))
    BY <1>1 DEF ReplaySound, FirstTouchPessimistic
  <2>2. CASE n # Walked
    <3>1. Reached(n)' = NBars /\ Reached(n) = NBars
      BY <1>1, <2>2 DEF Reached, Walked
    <3>2. QED
      BY <1>1, <2>1, <3>1 DEF FirstTouch, Ends, Stopped, Won, Late, Plan
  <2>3. CASE n = Walked
    <3>1. Reached(n)' = walk /\ Reached(n) = walk - 1
      BY <1>1, <1>2, <2>3 DEF Reached, Walked
    <3>2. ~Ends(trades[n], walk)
      BY <1>1, <2>3 DEF Seen, Verdict, Ends
    <3>3. \A j \in trades[n].entry .. walk : j < trades[n].exit => ~Ends(trades[n], j)
      <4>1. \A j \in trades[n].entry .. walk : j = walk \/ j \in trades[n].entry .. walk - 1
        BY <1>1, <1>2, TypeFacts
      <4>2. QED
        BY <2>1, <3>1, <3>2, <4>1 DEF FirstTouch
    <3>4. QED
      BY <1>1, <2>1, <3>1, <3>3 DEF FirstTouch, Ends, Stopped, Won, Late, Plan
  <2>4. QED
    BY <2>2, <2>3
<1>7. FirstTouchPessimistic'
  BY <1>1, <1>6 DEF FirstTouchPessimistic
<1>8. QED
  BY <1>3, <1>4, <1>5, <1>7 DEF IInv, ReplaySound

(* The walk ends on a bar: the trade has its outcome, and the source is    *)
(* busy until that very bar.                                               *)
LEMMA WalkEndIInv == ASSUME ReplayAssumptions, IInv, WalkEnd PROVE IInv'
<1>1. /\ TypeOK /\ WalkStands /\ PastIsBusy /\ ReplaySound
      /\ walk \in Bars /\ Seen # "open"
      /\ trades' = [trades EXCEPT ![Walked] = [@ EXCEPT !.status = Seen, !.exit = walk]]
      /\ busy' = IndexAt(time[walk], i) /\ i' = i + 1 /\ walk' = 0
      /\ UNCHANGED <<candles, time, signal, plan>>
  BY DEF IInv, WalkEnd, given
<1>2. walk # 0 /\ walk \in Nat /\ walk <= NBars /\ walk < NBars + 1
  BY <1>1, TypeFacts DEF Bars
<1>3. PICK w \in DOMAIN trades : w = Walked
  BY <1>1, <1>2 DEF WalkStands
<1>4. /\ i < NBars /\ signal[i] /\ i > busy /\ i < walk
      /\ trades[w].entry = i + 1 /\ trades[w].exit = NBars + 1
  BY <1>1, <1>2, <1>3 DEF WalkStands
<1> DEFINE new == [trades[w] EXCEPT !.status = Seen, !.exit = walk]
<1>5. Seen \in {"won", "lost", "closed"}
  BY <1>1 DEF Seen, Verdict
<1>6. new \in Trade /\ new.entry = i + 1 /\ new.status = Seen /\ new.exit = walk
  <2>1. trades[w] \in Trade /\ Seen \in {"open", "won", "lost", "closed"} /\ walk \in 1 .. NBars + 1
    BY <1>1, <1>2, <1>5, TypeFacts DEF Bars
  <2>2. QED
    BY <1>4, <2>1 DEF Trade
<1>7. trades' = [trades EXCEPT ![w] = new]
  BY <1>1, <1>3
<1> HIDE DEF new
<1>8. /\ trades' \in Seq(Trade) /\ Len(trades') = Len(trades) /\ DOMAIN trades' = DOMAIN trades
      /\ trades'[w] = new /\ \A n \in DOMAIN trades : n # w => trades'[n] = trades[n]
  <2>1. /\ trades \in Seq(Trade) /\ Len(trades) \in Nat /\ w \in 1 .. Len(trades)
        /\ DOMAIN trades = 1 .. Len(trades)
    BY <1>1, TypeFacts
  <2>2. trades' \in Seq(Trade) /\ Len(trades') = Len(trades)
    BY <1>6, <1>7, <2>1, ExceptSeq
  <2>3. QED
    BY <1>7, <2>1, <2>2
<1>9. busy' = walk
  <2>1. i \in Bars /\ i <= walk /\ time \in Times
    BY <1>1, <1>2, <1>4, TypeFacts DEF TypeOK
  <2>2. QED
    BY <1>1, <2>1, IndexOfBar
<1>10. TypeOK'
  <2>1. i' \in Bars /\ busy' \in 0 .. NBars + 1 /\ walk' \in 0 .. NBars + 1
    BY <1>1, <1>2, <1>4, <1>9, TypeFacts DEF Bars
  <2>2. QED
    BY <1>1, <1>8, <2>1 DEF TypeOK, Trade
<1>11. WalkStands'
  BY <1>1 DEF WalkStands
<1>12. PastIsBusy'
  <2>1. \A n \in DOMAIN trades : n # w => trades[n].entry <= i /\ trades[n].exit <= busy
    BY <1>1, <1>2, <1>3 DEF PastIsBusy, Past
  <2>2. ASSUME NEW n \in DOMAIN trades PROVE trades'[n].entry <= i + 1 /\ trades'[n].exit <= walk
    <3>1. CASE n = w
      <4>1. trades'[n].entry = i + 1 /\ trades'[n].exit = walk
        BY <1>6, <1>8, <3>1
      <4>2. QED
        BY <1>1, <1>2, <4>1, TypeFacts
    <3>2. CASE n # w
      <4>1. trades'[n] = trades[n] /\ trades[n].entry <= i /\ trades[n].exit <= busy
        BY <1>8, <2>1, <3>2
      <4>2. /\ trades[n].entry \in Nat /\ trades[n].exit \in Nat /\ i \in Nat /\ busy \in Nat /\ walk \in Nat
            /\ busy < i /\ i < walk
        BY <1>1, <1>2, <1>4, TypeFacts
      <4>3. QED
        BY <4>1, <4>2
    <3>3. QED
      BY <3>1, <3>2
  <2>3. QED
    BY <1>1, <1>6, <1>8, <1>9, <2>2 DEF PastIsBusy, Past
<1>13. Disjoint'
  <2> SUFFICES ASSUME NEW m \in DOMAIN trades, NEW n \in DOMAIN trades, m < n
               PROVE  trades'[m].exit < trades'[n].entry
    BY <1>8 DEF Disjoint
  <2>1. m # w
    BY <1>3, <1>1, TypeFacts DEF Walked
  <2>2. trades[m].exit < trades[n].entry
    BY <1>1 DEF ReplaySound, Disjoint
  <2>3. QED
    BY <1>4, <1>6, <1>8, <2>1, <2>2
<1>14. EverySignalAccounted'
  BY <1>1, <1>2, <1>3, <1>4, <1>6, <1>8, CallAccounted
<1>15. ASSUME NEW n \in DOMAIN trades PROVE FirstTouch(trades[n], Reached(n))'
  <2>0. Reached(n)' = NBars
    BY <1>1 DEF Reached
  <2>1. FirstTouch(trades[n], Reached(n))
    BY <1>1 DEF ReplaySound, FirstTouchPessimistic
  <2>2. CASE n # w
    <3>1. Reached(n) = NBars
      BY <1>3, <2>2 DEF Reached
    <3>2. QED
      BY <1>1, <1>8, <2>0, <2>1, <2>2, <3>1 DEF FirstTouch, Ends, Stopped, Won, Late, Plan
  <2>3. CASE n = w
    <3>1. Reached(n) = walk - 1
      BY <1>2, <1>3, <2>3 DEF Reached
    <3>2. \A j \in new.entry .. NBars : j < walk => ~Ends(trades[w], j)
      <4>1. \A j \in new.entry .. NBars : j < walk => j \in trades[w].entry .. walk - 1 /\ j < trades[w].exit
        BY <1>1, <1>2, <1>4, <1>6, TypeFacts
      <4>2. QED
        BY <2>1, <2>3, <3>1, <4>1 DEF FirstTouch
    <3>3. /\ Ends(trades[w], walk)
          /\ Seen = "lost" <=> Stopped(walk, trades[w].entry)
          /\ Seen = "won" => Won(walk, trades[w].entry)
          /\ Seen = "closed" => ~Won(walk, trades[w].entry)
      BY <1>1, <1>3, <1>5 DEF Seen, Verdict, Ends
    <3>4. new.entry = trades[w].entry /\ new.exit = walk /\ new.status = Seen /\ new.status # "open"
      BY <1>1, <1>4, <1>6
    <3>5. QED
      BY <1>1, <1>8, <2>0, <2>3, <3>2, <3>3, <3>4 DEF FirstTouch, Ends, Stopped, Won, Late, Plan
  <2>4. QED
    BY <2>2, <2>3
<1>16. FirstTouchPessimistic'
  BY <1>8, <1>15 DEF FirstTouchPessimistic
<1>17. QED
  BY <1>10, <1>11, <1>12, <1>13, <1>14, <1>16 DEF IInv, ReplaySound

(* The history ends before the trade does: nothing enters any more.        *)
LEMMA RunOutIInv == ASSUME ReplayAssumptions, IInv, RunOut PROVE IInv'
<1>1. /\ TypeOK /\ WalkStands /\ PastIsBusy /\ ReplaySound
      /\ walk = NBars + 1 /\ busy' = NBars + 1 /\ i' = i + 1 /\ walk' = 0
      /\ UNCHANGED <<candles, time, signal, plan, trades>>
  BY DEF IInv, RunOut, given
<1>2. walk # 0
  BY <1>1, TypeFacts
<1>3. /\ Walked \in DOMAIN trades /\ i < NBars /\ trades[Walked].entry = i + 1
      /\ trades[Walked].exit = NBars + 1
  BY <1>1, <1>2 DEF WalkStands
<1>4. TypeOK'
  <2>1. i' \in Bars /\ busy' \in 0 .. NBars + 1 /\ walk' \in 0 .. NBars + 1
    BY <1>1, <1>3, TypeFacts DEF Bars
  <2>2. QED
    BY <1>1, <2>1 DEF TypeOK
<1>5. WalkStands'
  BY <1>1 DEF WalkStands
<1>6. PastIsBusy'
  <2>1. \A n \in DOMAIN trades : n # Walked => trades[n].entry <= i
    BY <1>1 DEF PastIsBusy, Past
  <2>2. \A n \in DOMAIN trades : trades[n].entry <= i + 1 /\ trades[n].exit <= NBars + 1
    BY <1>1, <1>3, <2>1, TypeFacts
  <2>3. QED
    BY <1>1, <1>3, <2>2 DEF PastIsBusy, Past
<1>7. Disjoint' /\ EverySignalAccounted'
  BY <1>1, <1>2, CallAccounted DEF ReplaySound, Disjoint
<1>8. ASSUME NEW n \in DOMAIN trades PROVE FirstTouch(trades[n], Reached(n))'
  <2>1. FirstTouch(trades[n], Reached(n))
    BY <1>1 DEF ReplaySound, FirstTouchPessimistic
  <2>2. Reached(n) = NBars /\ Reached(n)' = NBars
    BY <1>1, TypeFacts DEF Reached
  <2>3. QED
    BY <1>1, <2>1, <2>2 DEF FirstTouch, Ends, Stopped, Won, Late, Plan
<1>9. FirstTouchPessimistic'
  BY <1>1, <1>8 DEF FirstTouchPessimistic
<1>10. QED
  BY <1>4, <1>5, <1>6, <1>7, <1>9 DEF IInv, ReplaySound

-------------------------------------------------------------------------------
(* Every step of the loop preserves the invariant.                         *)
LEMMA StepIInv == ASSUME ReplayAssumptions, IInv, [Next]_vars PROVE IInv'
<1>1. CASE UNCHANGED vars
  BY <1>1 DEF vars, given, IInv, TypeOK, WalkStands, PastIsBusy, Past, ReplaySound, Disjoint,
              FirstTouchPessimistic, FirstTouch, Reached, Ends, Stopped, Won, Late, Plan, Walked,
              EverySignalAccounted, Entered, Covered
<1>2. QED
  BY <1>1, PassIInv, EnterIInv, WalkOnIInv, WalkEndIInv, RunOutIInv DEF Next

LEMMA Invariance == ASSUME ReplayAssumptions PROVE Spec => []IInv
<1>1. Init => IInv
  BY InitIInv
<1>2. IInv /\ [Next]_vars => IInv'
  BY StepIInv
<1>3. QED
  BY <1>1, <1>2, PTL DEF Spec

(* The loop's bar and busy_until stay within the history, and a trade has  *)
(* its entry on a bar of it.                                               *)
THEOREM ReplayTypes == ASSUME ReplayAssumptions PROVE Spec => []TypeOK
<1>1. IInv => TypeOK
  BY DEF IInv
<1>2. QED
  BY <1>1, Invariance, PTL

(* However long the history and wherever the engine calls a trade: a trade *)
(* is settled by its first touch, stop before target; two trades of the    *)
(* engine in the symbol never overlap, though the loop goes on from the    *)
(* next bar and only busy_until holds it back; and every signal either     *)
(* entered a trade or fell while one was on.                               *)
THEOREM ReplayIsSound == ASSUME ReplayAssumptions PROVE Spec => []ReplaySound
<1>1. IInv => ReplaySound
  BY DEF IInv
<1>2. QED
  BY <1>1, Invariance, PTL

-------------------------------------------------------------------------------
(* A new trade is published while none is open: one that has not ended     *)
(* when the history does keeps the source busy for good.                   *)
LEMMA NoneOpen ==
  ASSUME ReplayAssumptions, IInv, walk = 0, i < NBars, i > busy, NEW n \in DOMAIN trades
  PROVE  trades[n].status # "open"
<1>1. trades[n].exit <= busy /\ FirstTouch(trades[n], Reached(n))
  BY DEF IInv, PastIsBusy, Past, ReplaySound, FirstTouchPessimistic
<1>2. trades[n].exit \in Bars
  BY <1>1, TypeFacts DEF IInv, Bars
<1>3. QED
  BY <1>1, <1>2 DEF FirstTouch

(* The trade being walked has no outcome yet.                              *)
LEMMA WalkedIsOpen ==
  ASSUME ReplayAssumptions, IInv, walk # 0
  PROVE  /\ Walked \in DOMAIN trades
         /\ trades[Walked].status = "open" /\ trades[Walked].exit = NBars + 1
<1>1. Walked \in DOMAIN trades /\ trades[Walked].exit = NBars + 1
  BY DEF IInv, WalkStands
<1>2. FirstTouch(trades[Walked], Reached(Walked)) /\ NBars + 1 \notin Bars
  BY <1>1, TypeFacts DEF IInv, ReplaySound, FirstTouchPessimistic, Bars
<1>3. QED
  BY <1>1, <1>2 DEF FirstTouch

(* A sequence that continues s by one element is Append of it to s.        *)
LEMMA ContinuedByOne ==
  ASSUME NEW T, NEW s \in Seq(T), NEW e \in T, NEW u,
         u = [k \in 1 .. Len(s) + 1 |-> IF k = Len(s) + 1 THEN e ELSE s[k]]
  PROVE  u = Append(s, e)
<1>1. /\ u \in Seq(T) /\ Len(u) = Len(s) + 1
      /\ Append(s, e) \in Seq(T) /\ Len(Append(s, e)) = Len(s) + 1
  OBVIOUS
<1>2. \A k \in 1 .. Len(s) + 1 : u[k] = Append(s, e)[k]
  OBVIOUS
<1>3. QED
  BY <1>1, <1>2, SeqEqual

(* The replayed history keeps the promise the live record makes: a call is *)
(* published while no other is open, is resolved at most once, and none is *)
(* taken out or rewritten; the bars the loop passes and the walk over them *)
(* are no steps of the record.                                             *)
THEOREM ReplayImplementsTrackRecord == ASSUME ReplayAssumptions PROVE Spec => ImplementsTrackRecord
<1> DEFINE Entry(t) == [key |-> "pair", outcome |-> <<t.status, t.exit>>]
           book == [n \in DOMAIN trades |-> Entry(trades[n])]
           open == <<"open", NBars + 1>>
<1>1. Init => Book!Init
  BY DEF Init, Book!Init
<1>2. ASSUME IInv, [Next]_vars PROVE [Book!Next]_book
  <2>1. CASE trades' = trades
    BY <2>1
  <2>2. CASE Enter
    <3> DEFINE new == [entry |-> i + 1, status |-> "open", exit |-> NBars + 1]
               e == [key |-> "pair", outcome |-> open]
    <3>1. /\ trades \in Seq(Trade) /\ Len(trades) \in Nat /\ DOMAIN trades = 1 .. Len(trades)
          /\ trades' = Append(trades, new) /\ new \in Trade
      BY <1>2, <2>2, TypeFacts DEF IInv, Enter, Looping, Trade, Bars
    <3>2. /\ DOMAIN trades' = 1 .. Len(trades) + 1
          /\ \A n \in 1 .. Len(trades) : trades'[n] = trades[n]
          /\ trades'[Len(trades) + 1] = new
      BY <3>1
    <3>3. Entry(new) = e
      OBVIOUS
    <3>4. book' = [n \in 1 .. Len(book) + 1 |-> IF n = Len(book) + 1 THEN e ELSE book[n]]
      <4>1. Len(book) = Len(trades)
        BY <3>1
      <4>2. \A n \in 1 .. Len(trades) + 1 :
              Entry(trades'[n]) = IF n = Len(trades) + 1 THEN e ELSE book[n]
        <5>1. \A n \in 1 .. Len(trades) : book[n] = Entry(trades[n])
          BY <3>1
        <5> HIDE DEF Entry, book, new, e
        <5>2. QED
          BY <3>1, <3>2, <3>3, <5>1
      <4>3. QED
        BY <3>1, <3>2, <4>1, <4>2
    <3>5. book' = Append(book, e)
      <4> DEFINE T == {Entry(trades[n]) : n \in DOMAIN trades} \cup {e}
      <4>1. book \in Seq(T) /\ e \in T
        BY <3>1
      <4> HIDE DEF T, book, e
      <4>2. QED
        BY <3>4, <4>1, ContinuedByOne
    <3>6. \A n \in DOMAIN book : book[n].outcome # open
      BY <1>2, <2>2, NoneOpen DEF Enter, Looping
    <3>7. Book!Publish("pair")
      BY <3>5, <3>6 DEF Book!Publish
    <3>8. QED
      BY <3>7 DEF Book!Next
  <2>3. CASE WalkEnd
    <3>1. PICK w \in DOMAIN trades : w = Walked
      BY <1>2, <2>3, WalkedIsOpen, TypeFacts DEF WalkEnd, Bars, IInv
    <3>2. trades[w].status = "open" /\ trades[w].exit = NBars + 1
      BY <1>2, <2>3, <3>1, WalkedIsOpen, TypeFacts DEF WalkEnd, Bars, IInv
    <3>3. PICK o \in {"won", "lost", "closed"}, j \in Bars :
            trades' = [trades EXCEPT ![w] = [@ EXCEPT !.status = o, !.exit = j]]
      BY <2>3, <3>1 DEF WalkEnd, Seen, Verdict
    <3>4. book[w].outcome = open
      BY <3>2
    <3>5. /\ DOMAIN trades' = DOMAIN trades
          /\ \A n \in DOMAIN trades : n # w => trades'[n] = trades[n]
          /\ trades'[w].status = o /\ trades'[w].exit = j
      <4>1. trades[w] \in Trade
        BY <1>2, TypeFacts DEF IInv
      <4>2. QED
        BY <3>3, <4>1 DEF Trade
    <3>6. book' = [book EXCEPT ![w].outcome = <<o, j>>]
      BY <3>5
    <3>7. Book!Resolve(w, <<o, j>>)
      BY <3>4, <3>6 DEF Book!Resolve
    <3>8. QED
      BY <3>7 DEF Book!Next
  <2>4. QED
    BY <1>2, <2>1, <2>2, <2>3 DEF Next, Pass, WalkOn, RunOut, vars
<1>3. QED
  BY <1>1, <1>2, Invariance, PTL DEF Spec, ImplementsTrackRecord, Book!Spec

-------------------------------------------------------------------------------
\* The lists.  They have distinct ids, one of them is active, and they hold what they were asked
\* to; and no symbol removed on the page is among the calls that opening the page folds in.
Named == [id : Nat, syms : SUBSET Tickers]
Pairs(L) == UNION {{<<L[p].id, s>> : s \in L[p].syms} : p \in DOMAIN L}
ListsFields(u) ==
  /\ DOMAIN u = {"page", "lists", "active", "made", "track", "entries", "quotes", "copy", "trackCopy", "want", "gone", "stale"}
  /\ u.lists \in Seq(Named) /\ u.made \in Nat /\ u.stale \in BOOLEAN
  /\ u.copy \subseteq Tickers /\ (\A c \in u.track : c.sym \in Tickers) /\ DOMAIN u.entries = Tickers
ListsIds(u) ==
  /\ \A p \in DOMAIN u.lists : u.lists[p].id <= u.made
  /\ \A p, q \in DOMAIN u.lists : u.lists[p].id = u.lists[q].id => p = q
  /\ \E p \in DOMAIN u.lists : u.lists[p].id = u.active
ListsHold(u) ==
  ~u.stale =>
    /\ Pairs(u.lists) = u.want /\ u.gone \cap Pairs(u.lists) = {}
    /\ \A g \in u.gone, c \in u.track : c.sym # g[2]
ListsOk(u) == ListsFields(u) /\ ListsIds(u) /\ ListsHold(u)
ListsInv == ListsOk(ui) /\ (ui.page = "table" => ui.trackCopy = ui.track)

\* What changing the symbols of one list makes of them all.
Changed(L, k, S) == [L EXCEPT ![k].syms = S]
LEMMA PairsWith ==
  ASSUME NEW L \in Seq(Named), \A p, q \in DOMAIN L : L[p].id = L[q].id => p = q,
         NEW k \in DOMAIN L, NEW S \in SUBSET Tickers, NEW M, M = Changed(L, k, S)
  PROVE  /\ M \in Seq(Named) /\ DOMAIN M = DOMAIN L /\ M[k].syms = S
         /\ \A p \in DOMAIN L : M[p].id = L[p].id
         /\ \A x : x \in Pairs(M) <=> (x \in Pairs(L) /\ x[1] # L[k].id) \/ \E s \in S : x = <<L[k].id, s>>
<1>1. DOMAIN L = 1..Len(L) /\ Len(L) \in Nat /\ \A p \in DOMAIN L : L[p] \in Named
  BY LenProperties
<1>2. DOMAIN M = DOMAIN L /\ M[k] = [L[k] EXCEPT !.syms = S] /\ \A p \in DOMAIN L : p # k => M[p] = L[p]
  BY DEF Changed
<1>3. M[k] \in Named /\ M[k].id = L[k].id /\ M[k].syms = S
  BY <1>1, <1>2 DEF Named
<1>4. M \in Seq(Named)
  <2>1. M = [L EXCEPT ![k] = M[k]]
    BY <1>2 DEF Changed
  <2>2. QED
    BY <1>1, <1>3, <2>1, ExceptSeq
<1>5. \A p \in DOMAIN L : M[p].id = L[p].id
  BY <1>2, <1>3
<1>6. ASSUME NEW x
      PROVE  x \in Pairs(M) <=> (x \in Pairs(L) /\ x[1] # L[k].id) \/ \E s \in S : x = <<L[k].id, s>>
  <2>1. x \in Pairs(M) <=> \E p \in DOMAIN L : \E s \in M[p].syms : x = <<M[p].id, s>>
    BY <1>2 DEF Pairs
  <2>2. x \in Pairs(L) <=> \E p \in DOMAIN L : \E s \in L[p].syms : x = <<L[p].id, s>>
    BY DEF Pairs
  <2>3. ASSUME NEW p \in DOMAIN L, NEW s \in M[p].syms, x = <<M[p].id, s>>
        PROVE  (x \in Pairs(L) /\ x[1] # L[k].id) \/ \E t \in S : x = <<L[k].id, t>>
    <3>1. CASE p = k
      BY <2>3, <3>1, <1>3
    <3>2. CASE p # k
      <4>1. M[p] = L[p] /\ x = <<L[p].id, s>> /\ L[p].id # L[k].id
        BY <2>3, <3>2, <1>2
      <4>2. x[1] = L[p].id /\ x \in Pairs(L)
        BY <2>2, <2>3, <4>1
      <4>3. QED
        BY <4>1, <4>2
    <3>3. QED
      BY <3>1, <3>2
  <2>4. ASSUME x \in Pairs(L), x[1] # L[k].id PROVE x \in Pairs(M)
    <3>1. PICK p \in DOMAIN L : \E s \in L[p].syms : x = <<L[p].id, s>>
      BY <2>2, <2>4
    <3>2. x[1] = L[p].id
      BY <3>1
    <3>3. p # k
      BY <2>4, <3>2
    <3>4. QED
      BY <2>1, <3>1, <3>3, <1>2
  <2>5. ASSUME NEW t \in S, x = <<L[k].id, t>> PROVE x \in Pairs(M)
    BY <2>1, <2>5, <1>3
  <2>6. QED
    BY <2>1, <2>3, <2>4, <2>5
<1>7. QED
  BY <1>2, <1>3, <1>4, <1>5, <1>6

\* The active list.
LEMMA ActiveIs ==
  ASSUME NEW u, ListsIds(u)
  PROVE  Lists!ActiveOf(u) \in DOMAIN u.lists /\ u.lists[Lists!ActiveOf(u)].id = u.active
BY DEF ListsIds, Lists!ActiveOf

LEMMA ListsInit == Lists!Init => ListsInv
<1> SUFFICES ASSUME Lists!Init PROVE ListsInv
  OBVIOUS
<1> DEFINE u(s) == [page |-> "table", lists |-> <<[id |-> 1, syms |-> s]>>, active |-> 1, made |-> 1,
                    track |-> {}, entries |-> [x \in Tickers |-> Lists!NoPrice], quotes |-> {}, copy |-> {}, trackCopy |-> {},
                    want |-> {<<1, x>> : x \in s}, gone |-> {}, stale |-> FALSE]
<1>1. PICK s \in SUBSET Tickers : ui = Lists!OpenTable(u(s))
  BY DEF Lists!Init
<1> DEFINE L == <<[id |-> 1, syms |-> s]>>
<1>2. [id |-> 1, syms |-> s] \in Named /\ Len(L) = 1 /\ L[1] = [id |-> 1, syms |-> s]
  BY DEF Named
<1>3. L \in Seq(Named) /\ DOMAIN L = {1}
  BY <1>2
<1>4. Lists!ActiveOf(u(s)) = 1 /\ Lists!Held(u(s)) = s
  BY <1>2, <1>3 DEF Lists!ActiveOf, Lists!Held
<1>5. /\ DOMAIN ui = {"page", "lists", "active", "made", "track", "entries", "quotes", "copy", "trackCopy", "want", "gone", "stale"}
      /\ ui.lists = L /\ ui.active = 1 /\ ui.made = 1 /\ ui.track = {} /\ ui.trackCopy = {} /\ ui.copy = s
      /\ DOMAIN ui.entries = Tickers /\ ui.want = {<<1, x>> : x \in s} /\ ui.gone = {} /\ ui.stale \in BOOLEAN /\ ~ui.stale
  BY <1>1, <1>4 DEF Lists!OpenTable
<1>6. Pairs(ui.lists) = ui.want
  BY <1>2, <1>3, <1>5 DEF Pairs
<1>7. DOMAIN ui.lists = {1} /\ ui.lists[1].id = 1
  BY <1>2, <1>3, <1>5
<1> HIDE DEF L
<1>8. ListsFields(ui) /\ ListsIds(ui)
  <2>1. ListsFields(ui)
    <3>1. ui.lists \in Seq(Named)
      BY <1>3, <1>5
    <3>2. ui.copy \subseteq Tickers /\ \A c \in ui.track : c.sym \in Tickers
      BY <1>5
    <3>3. ui.made \in Nat /\ ui.stale \in BOOLEAN /\ DOMAIN ui.entries = Tickers
      BY <1>5
    <3>4. DOMAIN ui = {"page", "lists", "active", "made", "track", "entries", "quotes", "copy", "trackCopy", "want", "gone", "stale"}
      BY <1>5
    <3>5. QED
      BY <3>1, <3>2, <3>3, <3>4 DEF ListsFields
  <2>2. ListsIds(ui)
    BY <1>5, <1>7 DEF ListsIds
  <2>3. QED
    BY <2>1, <2>2
<1>9. QED
  BY <1>5, <1>6, <1>8 DEF ListsInv, ListsOk, ListsHold

\* Prices seen change nothing but the entries, and no entry that there is.
LEMMA StampedKeeps ==
  ASSUME NEW u, ListsOk(u), NEW q
  PROVE  /\ ListsOk(Lists!Stamped(u, q))
         /\ Lists!Stamped(u, q).page = u.page /\ Lists!Stamped(u, q).trackCopy = u.trackCopy /\ Lists!Stamped(u, q).track = u.track
         /\ \A s \in Tickers : u.entries[s] # Lists!NoPrice => Lists!Stamped(u, q).entries[s] = u.entries[s]
         /\ \A s \in Tickers : s \notin Lists!Held(u) => Lists!Stamped(u, q).entries[s] = u.entries[s]
<1> DEFINE v == Lists!Stamped(u, q)
<1>1. /\ DOMAIN v = DOMAIN u /\ v.lists = u.lists /\ v.made = u.made /\ v.stale = u.stale /\ v.copy = u.copy /\ v.track = u.track
      /\ v.active = u.active /\ v.want = u.want /\ v.gone = u.gone /\ v.page = u.page /\ v.trackCopy = u.trackCopy
  BY DEF Lists!Stamped, ListsOk, ListsFields
<1>2. v.entries = [s \in Tickers |-> IF s \in Lists!Held(u) /\ \E r \in q : r[1] = s
                                    THEN Lists!WithEntry(u.entries, s, (CHOOSE r \in q : r[1] = s)[2]) ELSE u.entries[s]]
  BY DEF Lists!Stamped, ListsOk, ListsFields
<1> HIDE DEF v
<1>3. ListsOk(v)
  <2>1. DOMAIN v.entries = Tickers
    BY <1>2
  <2>2. QED
    BY <1>1, <2>1 DEF ListsOk, ListsFields, ListsIds, ListsHold
<1>4. \A s \in Tickers : (u.entries[s] # Lists!NoPrice \/ s \notin Lists!Held(u)) => v.entries[s] = u.entries[s]
  BY <1>2 DEF Lists!WithEntry
<1>5. QED
  BY <1>1, <1>3, <1>4 DEF v

\* The active list takes other symbols, and what was asked of it changes with them.
LEMMA ListsRewrite ==
  ASSUME NEW u, ListsOk(u), NEW S \in SUBSET Tickers, NEW v, ListsFields(v),
         v.made = u.made, v.active = u.active, v.track \subseteq u.track, u.stale => v.stale,
         v.lists = Changed(u.lists, Lists!ActiveOf(u), S),
         ~v.stale =>
           /\ v.want = {x \in u.want : x[1] # u.active} \cup {<<u.active, s>> : s \in S}
           /\ \A s \in S : <<u.active, s>> \notin v.gone
           /\ \A g \in v.gone : g \in u.gone \/ (g \notin Pairs(v.lists) /\ \A c \in v.track : c.sym # g[2])
  PROVE  ListsOk(v)
<1> DEFINE k == Lists!ActiveOf(u)
           L == u.lists
           M == v.lists
<1>1. k \in DOMAIN L /\ L[k].id = u.active
  BY ActiveIs DEF ListsOk
<1>2. /\ DOMAIN M = DOMAIN L /\ \A p \in DOMAIN L : M[p].id = L[p].id
      /\ \A x : x \in Pairs(M) <=> (x \in Pairs(L) /\ x[1] # L[k].id) \/ \E s \in S : x = <<L[k].id, s>>
  <2>1. L \in Seq(Named) /\ (\A p, q \in DOMAIN L : L[p].id = L[q].id => p = q) /\ M = Changed(L, k, S)
    BY DEF ListsOk, ListsFields, ListsIds
  <2> HIDE DEF k, L, M
  <2>2. QED
    BY <1>1, <2>1, PairsWith
<1>3. ListsIds(v)
  BY <1>2 DEF ListsOk, ListsIds
<1>4. ASSUME ~v.stale PROVE ListsHold(v)
  <2>1. Pairs(L) = u.want /\ u.gone \cap Pairs(L) = {} /\ \A g \in u.gone, c \in u.track : c.sym # g[2]
    BY <1>4 DEF ListsOk, ListsHold
  <2>2. Pairs(M) = v.want
    <3> SUFFICES ASSUME NEW x PROVE x \in Pairs(M) <=> x \in v.want
      OBVIOUS
    <3> HIDE DEF M, L, k
    <3>1. x \in v.want <=> (x \in u.want /\ x[1] # u.active) \/ \E s \in S : x = <<u.active, s>>
      BY <1>4
    <3>2. QED
      BY <1>1, <1>2, <2>1, <3>1
  <2>3. ASSUME NEW g \in v.gone PROVE g \notin Pairs(M) /\ \A c \in v.track : c.sym # g[2]
    <3>1. CASE g \in u.gone
      BY <1>1, <1>2, <1>4, <2>1, <3>1
    <3>2. CASE g \notin u.gone
      BY <1>4, <3>2
    <3>3. QED
      BY <3>1, <3>2
  <2>4. QED
    BY <2>2, <2>3 DEF ListsHold
<1>5. QED
  BY <1>3, <1>4 DEF ListsOk, ListsHold

\* What the active list holds, among the pairs.
LEMMA ActivePairs ==
  ASSUME NEW u, ListsOk(u)
  PROVE  /\ Lists!Held(u) \in SUBSET Tickers /\ Lists!Id(u) = u.active
         /\ \A s \in Lists!Held(u) : <<u.active, s>> \in Pairs(u.lists)
         /\ \A x \in Pairs(u.lists) : x[1] = u.active => \E s \in Lists!Held(u) : x = <<u.active, s>>
<1> DEFINE k == Lists!ActiveOf(u)
<1>1. k \in DOMAIN u.lists /\ u.lists[k].id = u.active /\ u.lists[k] \in Named /\ Lists!Held(u) = u.lists[k].syms
  BY ActiveIs DEF ListsOk, ListsFields, Lists!Held
<1>2. ASSUME NEW x \in Pairs(u.lists), x[1] = u.active PROVE \E s \in Lists!Held(u) : x = <<u.active, s>>
  <2>1. PICK p \in DOMAIN u.lists : \E s \in u.lists[p].syms : x = <<u.lists[p].id, s>>
    BY DEF Pairs
  <2>2. p = k
    BY <1>1, <1>2, <2>1 DEF ListsOk, ListsIds
  <2>3. QED
    BY <1>1, <2>1, <2>2
<1>3. QED
  BY <1>1, <1>2 DEF Named, Pairs, Lists!Id

\* The page stores a record that is sound; an entry stays unless it was cleared with its symbol.
LEMMA ListsStore ==
  ASSUME ListsInv, NEW u, ListsOk(u), u.page = "watch", Lists!Store(u),
         \A s \in Tickers : u.entries[s] = ui.entries[s] \/ (u.entries[s] = Lists!NoPrice /\ s \notin Lists!Held(u))
  PROVE  ListsInv' /\ Lists!EntryStays
<1>1. PICK q : ui' = Lists!Stamped(u, q)
  BY DEF Lists!Store
<1>2. ListsOk(ui') /\ ui'.page = "watch"
  BY <1>1, StampedKeeps
<1>3. ListsInv'
  BY <1>2 DEF ListsInv, ListsOk, ListsFields, ListsIds, ListsHold
<1>4. ASSUME NEW s \in Tickers, ui.entries[s] # Lists!NoPrice, ui'.entries[s] # Lists!NoPrice PROVE ui'.entries[s] = ui.entries[s]
  BY <1>1, <1>4, StampedKeeps
<1>5. QED
  BY <1>3, <1>4 DEF Lists!EntryStays

LEMMA ListsOpen == ASSUME ListsInv, Lists!OpenWatchlist PROVE ListsInv' /\ Lists!EntryStays
<1> DEFINE add == {c.sym : c \in ui.track}
           v == Lists!Opened(ui)
           k == Lists!ActiveOf(ui)
<1>1. /\ ListsFields(v) /\ v.page = "watch" /\ v.lists = Changed(ui.lists, k, ui.lists[k].syms \cup add)
      /\ v.made = ui.made /\ v.active = ui.active /\ v.track = ui.track /\ v.stale = ui.stale /\ v.gone = ui.gone
      /\ v.want = ui.want \cup {<<ui.lists[k].id, x>> : x \in add}
  <2>1. /\ DOMAIN v = DOMAIN ui /\ v.page = "watch" /\ v.made = ui.made /\ v.active = ui.active /\ v.track = ui.track /\ v.stale = ui.stale
        /\ v.lists = Changed(ui.lists, k, ui.lists[k].syms \cup add) /\ v.gone = ui.gone /\ v.copy = ui.copy
        /\ v.want = ui.want \cup {<<ui.lists[k].id, x>> : x \in add} /\ DOMAIN v.entries = Tickers
    BY DEF ListsInv, ListsOk, ListsFields, Lists!Opened, Lists!SyncTrackList, Changed
  <2>2. k \in DOMAIN ui.lists /\ ui.lists \in Seq(Named) /\ add \subseteq Tickers
        /\ \A p, q \in DOMAIN ui.lists : ui.lists[p].id = ui.lists[q].id => p = q
    BY ActiveIs DEF ListsInv, ListsOk, ListsFields, ListsIds
  <2>3. ui.lists[k] \in Named
    BY <2>2
  <2>4. ui.lists[k].syms \cup add \in SUBSET Tickers
    BY <2>2, <2>3 DEF Named
  <2> HIDE DEF k, add
  <2>5. v.lists \in Seq(Named)
    BY <2>1, <2>2, <2>4, PairsWith
  <2>6. QED
    BY <2>1, <2>5 DEF ListsInv, ListsOk, ListsFields
<1>2. ui' = v
  BY DEF Lists!OpenWatchlist
<1> DEFINE S == ui.lists[k].syms \cup add
<1>3. k \in DOMAIN ui.lists /\ ui.lists[k].id = ui.active /\ ui.lists[k] \in Named /\ add \subseteq Tickers
  BY ActiveIs DEF ListsInv, ListsOk, ListsFields
<1>4. S \in SUBSET Tickers
  BY <1>3 DEF Named
<1>5. ASSUME ~ui.stale
      PROVE  /\ v.want = {x \in ui.want : x[1] # ui.active} \cup {<<ui.active, s>> : s \in S}
             /\ \A s \in S : <<ui.active, s>> \notin ui.gone
  <2>1. Pairs(ui.lists) = ui.want /\ ui.gone \cap Pairs(ui.lists) = {} /\ \A g \in ui.gone, c \in ui.track : c.sym # g[2]
    BY <1>5 DEF ListsInv, ListsOk, ListsHold
  <2>2. ui.lists[k].syms = Lists!Held(ui) /\ ListsOk(ui)
    BY DEF Lists!Held, ListsInv
  <2>4. v.want = {x \in ui.want : x[1] # ui.active} \cup {<<ui.active, s>> : s \in S}
    <3>1. v.want = ui.want \cup {<<ui.active, x>> : x \in add}
      BY <1>1, <1>3
    <3> HIDE DEF v, add
    <3>2. QED
      BY <3>1, <2>1, <2>2, ActivePairs
  <2>5. ASSUME NEW s \in S PROVE <<ui.active, s>> \notin ui.gone
    <3>1. CASE s \in ui.lists[k].syms
      BY <2>1, <2>2, <3>1, ActivePairs
    <3>2. CASE s \in add
      <4>1. PICK c \in ui.track : s = c.sym
        BY <3>2
      <4>2. <<ui.active, s>>[2] = c.sym
        BY <4>1
      <4>3. QED
        BY <2>1, <4>2
    <3>3. QED
      BY <3>1, <3>2
  <2>6. QED
    BY <2>4, <2>5
<1>6. ListsOk(v)
  <2> HIDE DEF v, S
  <2>1. v.lists = Changed(ui.lists, Lists!ActiveOf(ui), S) /\ v.track \subseteq ui.track
    BY <1>1 DEF S
  <2>2. ListsOk(ui)
    BY DEF ListsInv
  <2>3. QED
    BY <1>1, <1>4, <1>5, <2>1, <2>2, ListsRewrite
<1>7. \A s \in Tickers : ui.entries[s] # Lists!NoPrice => v.entries[s] = ui.entries[s]
  BY DEF Lists!Opened, Lists!SyncTrackList, ListsInv, ListsOk, ListsFields
<1> HIDE DEF v
<1>8. QED
  BY <1>1, <1>2, <1>6, <1>7 DEF ListsInv, ListsOk, ListsFields, ListsIds, ListsHold, Lists!EntryStays

LEMMA ListsCreate == ASSUME ListsInv, Lists!CreateWatchlist PROVE ListsInv' /\ Lists!EntryStays
<1> DEFINE new == [id |-> ui.made + 1, syms |-> {}]
           v == [ui EXCEPT !.lists = Append(@, new), !.active = ui.made + 1, !.made = @ + 1]
           L == ui.lists
           M == v.lists
<1>1. Lists!Store(v) /\ ui.page = "watch"
  BY DEF Lists!CreateWatchlist, Lists!Store
<1>2. /\ DOMAIN v = DOMAIN ui /\ v.page = ui.page /\ v.made = ui.made + 1 /\ v.active = ui.made + 1 /\ M = Append(L, new) /\ v.track = ui.track
      /\ v.stale = ui.stale /\ v.copy = ui.copy /\ v.want = ui.want /\ v.gone = ui.gone /\ v.entries = ui.entries
  BY DEF ListsInv, ListsOk, ListsFields
<1>3. L \in Seq(Named) /\ ui.made \in Nat /\ new \in Named /\ new.id = ui.made + 1 /\ new.syms = {}
  BY DEF ListsInv, ListsOk, ListsFields, Named
<1>4. M \in Seq(Named) /\ Len(M) = Len(L) + 1 /\ M[Len(L) + 1] = new /\ \A p \in 1..Len(L) : M[p] = L[p]
  <2> HIDE DEF v, L, M, new
  <2>1. QED
    BY <1>2, <1>3, AppendProperties
<1>5. Len(L) \in Nat /\ DOMAIN L = 1..Len(L) /\ DOMAIN M = 1..(Len(L) + 1)
  <2>1. Len(L) \in Nat /\ DOMAIN L = 1..Len(L) /\ Len(M) \in Nat /\ DOMAIN M = 1..Len(M)
    BY <1>3, <1>4, LenProperties
  <2>2. QED
    BY <1>4, <2>1
<1> HIDE DEF v, L, M, new
<1>6. ListsIds(v)
  <2>1. \A p \in DOMAIN L : L[p].id <= ui.made /\ L[p].id \in Nat
    <3>1. \A p \in DOMAIN L : L[p] \in Named
      BY <1>3, <1>5, LenProperties
    <3>2. QED
      BY <3>1 DEF ListsInv, ListsOk, ListsIds, L, Named
  <2>2. \A p, q \in DOMAIN L : L[p].id = L[q].id => p = q
    BY DEF ListsInv, ListsOk, ListsIds, L
  <2>3. \A p \in DOMAIN M : p # Len(L) + 1 => p \in DOMAIN L /\ M[p] = L[p]
    BY <1>4, <1>5
  <2>4. \A p \in DOMAIN M : M[p].id <= v.made
    BY <1>2, <1>3, <1>4, <2>1, <2>3
  <2>5. ASSUME NEW p \in DOMAIN M, NEW q \in DOMAIN M, M[p].id = M[q].id PROVE p = q
    BY <1>3, <1>4, <2>1, <2>2, <2>3, <2>5
  <2>6. Len(L) + 1 \in DOMAIN M /\ M[Len(L) + 1].id = v.active
    BY <1>2, <1>3, <1>4, <1>5
  <2>7. QED
    BY <2>4, <2>5, <2>6 DEF ListsIds, M
<1>7. Pairs(M) = Pairs(L)
  <2>1. \A p \in DOMAIN M : p # Len(L) + 1 => p \in DOMAIN L /\ M[p] = L[p]
    BY <1>4, <1>5
  <2>2. \A p \in DOMAIN L : p \in DOMAIN M /\ M[p] = L[p]
    BY <1>4, <1>5
  <2>3. ASSUME NEW x PROVE x \in Pairs(M) <=> x \in Pairs(L)
    <3>1. \A r : x \in Pairs(r) <=> \E p \in DOMAIN r : \E s \in r[p].syms : x = <<r[p].id, s>>
      BY DEF Pairs
    <3>2. ASSUME x \in Pairs(M) PROVE x \in Pairs(L)
      <4>1. PICK p \in DOMAIN M : \E s \in M[p].syms : x = <<M[p].id, s>>
        BY <3>1, <3>2
      <4>2. p \in DOMAIN L /\ M[p] = L[p]
        BY <1>3, <1>4, <2>1, <4>1
      <4>3. QED
        BY <3>1, <4>1, <4>2
    <3>3. ASSUME x \in Pairs(L) PROVE x \in Pairs(M)
      <4>1. PICK p \in DOMAIN L : \E s \in L[p].syms : x = <<L[p].id, s>>
        BY <3>1, <3>3
      <4>2. p \in DOMAIN M /\ M[p] = L[p]
        BY <2>2, <4>1
      <4>3. QED
        BY <3>1, <4>1, <4>2
    <3>4. QED
      BY <3>2, <3>3
  <2>4. QED
    BY <2>3
<1>8. ListsOk(v)
  <2>1. ListsFields(v)
    BY <1>2, <1>3, <1>4 DEF ListsInv, ListsOk, ListsFields, M
  <2>2. ListsHold(v)
    <3>1. ListsHold(ui)
      BY DEF ListsInv, ListsOk
    <3>2. v.stale = ui.stale /\ v.want = ui.want /\ v.gone = ui.gone /\ v.track = ui.track /\ Pairs(v.lists) = Pairs(ui.lists)
      BY <1>2, <1>7 DEF L, M
    <3>3. QED
      BY <3>1, <3>2 DEF ListsHold
  <2>3. QED
    BY <1>6, <2>1, <2>2 DEF ListsOk
<1>9. QED
  BY <1>1, <1>2, <1>8, ListsStore

LEMMA ListsShaped ==
  ASSUME NEW u, ListsOk(u), NEW S \in SUBSET Tickers, NEW v, DOMAIN v = DOMAIN u,
         v.made = u.made, v.track \subseteq u.track, v.stale \in BOOLEAN, v.copy \subseteq Tickers, DOMAIN v.entries = Tickers,
         v.lists = Changed(u.lists, Lists!ActiveOf(u), S)
  PROVE  ListsFields(v)
<1>1. u.lists \in Seq(Named) /\ (\A p, q \in DOMAIN u.lists : u.lists[p].id = u.lists[q].id => p = q) /\ Lists!ActiveOf(u) \in DOMAIN u.lists
  BY ActiveIs DEF ListsOk, ListsFields, ListsIds
<1>2. v.lists \in Seq(Named)
  BY <1>1, PairsWith
<1>3. QED
  BY <1>2 DEF ListsOk, ListsFields

\* A symbol more in the active list, asked for; and one less.
LEMMA ListsTaken ==
  ASSUME NEW u, ListsOk(u), NEW s \in Tickers, NEW v, DOMAIN v = DOMAIN u,
         v.made = u.made, v.active = u.active, v.track = u.track, v.stale \in BOOLEAN, u.stale => v.stale,
         v.copy \subseteq Tickers, DOMAIN v.entries = Tickers,
         v.lists = Changed(u.lists, Lists!ActiveOf(u), Lists!Held(u) \cup {s}),
         v.want = u.want \cup {<<u.active, s>>}, v.gone = u.gone \ {<<u.active, s>>}
  PROVE  ListsOk(v)
<1> DEFINE S == Lists!Held(u) \cup {s}
<1>1. S \in SUBSET Tickers /\ v.lists = Changed(u.lists, Lists!ActiveOf(u), S)
  BY ActivePairs
<1>2. ListsFields(v)
  BY <1>1, ListsShaped
<1>3. ASSUME ~v.stale
      PROVE  /\ v.want = {x \in u.want : x[1] # u.active} \cup {<<u.active, t>> : t \in S}
             /\ \A t \in S : <<u.active, t>> \notin v.gone
             /\ \A g \in v.gone : g \in u.gone
  <2>1. Pairs(u.lists) = u.want /\ u.gone \cap Pairs(u.lists) = {}
    BY <1>3 DEF ListsOk, ListsHold
  <2>2. ASSUME NEW x PROVE x \in v.want <=> (x \in u.want /\ x[1] # u.active) \/ \E t \in S : x = <<u.active, t>>
    BY <2>1, ActivePairs
  <2>3. QED
    BY <2>1, <2>2, ActivePairs
<1> HIDE DEF S
<1>4. QED
  BY <1>1, <1>2, <1>3, ListsRewrite

LEMMA ListsDropped ==
  ASSUME NEW u, ListsOk(u), NEW s \in Tickers, NEW v, DOMAIN v = DOMAIN u,
         v.made = u.made, v.active = u.active, v.track \subseteq u.track, v.stale \in BOOLEAN, u.stale => v.stale,
         v.copy \subseteq Tickers, DOMAIN v.entries = Tickers,
         v.lists = Changed(u.lists, Lists!ActiveOf(u), Lists!Held(u) \ {s}),
         v.want = u.want \ {<<u.active, s>>},
         v.gone = u.gone \/ (v.gone = u.gone \cup {<<u.active, s>>} /\ \A c \in v.track : c.sym # s)
  PROVE  ListsOk(v)
<1> DEFINE S == Lists!Held(u) \ {s}
<1>1. S \in SUBSET Tickers /\ v.lists = Changed(u.lists, Lists!ActiveOf(u), S)
  BY ActivePairs
<1>2. ListsFields(v)
  BY <1>1, ListsShaped
<1>3. ASSUME ~v.stale
      PROVE  /\ v.want = {x \in u.want : x[1] # u.active} \cup {<<u.active, t>> : t \in S}
             /\ \A t \in S : <<u.active, t>> \notin v.gone
             /\ \A g \in v.gone : g \in u.gone \/ (g \notin Pairs(v.lists) /\ \A c \in v.track : c.sym # g[2])
  <2>1. Pairs(u.lists) = u.want /\ u.gone \cap Pairs(u.lists) = {}
    BY <1>3 DEF ListsOk, ListsHold
  <2>2. ASSUME NEW x PROVE x \in v.want <=> (x \in u.want /\ x[1] # u.active) \/ \E t \in S : x = <<u.active, t>>
    <3>1. x[1] # u.active => x # <<u.active, s>>
      OBVIOUS
    <3>2. QED
      BY <2>1, <3>1, ActivePairs
  <2>3. \A t \in S : <<u.active, t>> \notin v.gone
    BY <2>1, ActivePairs
  <2>4. ASSUME NEW g \in v.gone, g \notin u.gone PROVE g \notin Pairs(v.lists) /\ \A c \in v.track : c.sym # g[2]
    <3>1. g = <<u.active, s>> /\ g[1] = u.active /\ g[2] = s /\ \A c \in v.track : c.sym # s
      BY <2>4
    <3>2. \A t \in S : g # <<u.active, t>>
      BY <3>1
    <3>3. \A x : x \in Pairs(v.lists) => x[1] # u.active \/ \E t \in S : x = <<u.active, t>>
      <4>1. u.lists \in Seq(Named) /\ (\A p, q \in DOMAIN u.lists : u.lists[p].id = u.lists[q].id => p = q)
            /\ Lists!ActiveOf(u) \in DOMAIN u.lists /\ u.lists[Lists!ActiveOf(u)].id = u.active
        BY ActiveIs DEF ListsOk, ListsFields, ListsIds
      <4> DEFINE k == Lists!ActiveOf(u)
                 L == u.lists
                 M == v.lists
      <4> HIDE DEF S, k, L, M
      <4>2. \A x : x \in Pairs(M) => x[1] # L[k].id \/ \E t \in S : x = <<L[k].id, t>>
        <5>1. S \in SUBSET Tickers /\ M = Changed(L, k, S) /\ k \in DOMAIN L /\ L \in Seq(Named)
          BY <1>1, <4>1 DEF k, L, M
        <5>2. \A p, q \in DOMAIN L : L[p].id = L[q].id => p = q
          BY <4>1 DEF L
        <5>3. QED
          BY <5>1, <5>2, PairsWith
      <4>3. L[k].id = u.active
        BY <4>1 DEF k, L
      <4>4. \A x : x \in Pairs(M) => x[1] # u.active \/ \E t \in S : x = <<u.active, t>>
        BY <4>2, <4>3
      <4>5. QED
        BY <4>4 DEF M
    <3>4. QED
      BY <3>1, <3>2, <3>3
  <2>5. QED
    BY <2>2, <2>3, <2>4
<1> HIDE DEF S
<1>4. QED
  BY <1>1, <1>2, <1>3, ListsRewrite
\* The page adds a symbol to the active list, and removes one with its call.
LEMMA ListsAdd == ASSUME ListsInv, NEW s \in Tickers, Lists!AddSymbolToWatchlist(s) PROVE ListsInv' /\ Lists!EntryStays
<1> DEFINE S == Lists!Held(ui) \cup {s}
           v == [ui EXCEPT !.lists[Lists!ActiveOf(ui)].syms = @ \cup {s}, !.want = @ \cup {<<Lists!Id(ui), s>>}, !.gone = @ \ {<<Lists!Id(ui), s>>}]
<1>1. Lists!Store(v) /\ ui.page = "watch"
  BY DEF Lists!AddSymbolToWatchlist, Lists!Store
<1>2. ListsOk(ui) /\ S \in SUBSET Tickers
  BY ActivePairs DEF ListsInv
<1>3. v.lists = Changed(ui.lists, Lists!ActiveOf(ui), S) /\ v.want = ui.want \cup {<<ui.active, s>>} /\ v.gone = ui.gone \ {<<ui.active, s>>}
      /\ v.made = ui.made /\ v.active = ui.active /\ v.track = ui.track /\ v.stale = ui.stale /\ v.copy = ui.copy /\ v.entries = ui.entries
      /\ v.page = ui.page /\ DOMAIN v = DOMAIN ui
  BY <1>2, ActivePairs DEF ListsOk, ListsFields, Changed, Lists!Held
<1> HIDE DEF v
<1>4. ListsOk(v)
  <2>1. v.stale \in BOOLEAN /\ v.copy \subseteq Tickers /\ DOMAIN v.entries = Tickers /\ ui.stale = v.stale
    BY <1>2, <1>3 DEF ListsOk, ListsFields
  <2>2. QED
    BY <1>2, <1>3, <2>1, ListsTaken
<1>5. QED
  BY <1>1, <1>3, <1>4, ListsStore

LEMMA ListsRemove == ASSUME ListsInv, NEW s \in Tickers, Lists!RemoveSymbolFromWatchlist(s), ui.page = "watch" PROVE ListsInv' /\ Lists!EntryStays
<1> DEFINE S == Lists!Held(ui) \ {s}
           v == [ui EXCEPT !.lists[Lists!ActiveOf(ui)].syms = @ \ {s}, !.entries[s] = Lists!NoPrice, !.track = Lists!Untracked(@, s),
                           !.want = @ \ {<<Lists!Id(ui), s>>}, !.gone = @ \cup {<<Lists!Id(ui), s>>}]
<1>1. Lists!Store(v)
  BY DEF Lists!RemoveSymbolFromWatchlist
<1>2. ListsOk(ui) /\ S \in SUBSET Tickers
  BY ActivePairs DEF ListsInv
<1>3. v.lists = Changed(ui.lists, Lists!ActiveOf(ui), S) /\ v.want = ui.want \ {<<ui.active, s>>} /\ v.gone = ui.gone \cup {<<ui.active, s>>}
      /\ v.made = ui.made /\ v.active = ui.active /\ v.track = Lists!Untracked(ui.track, s) /\ v.stale = ui.stale /\ v.copy = ui.copy
      /\ DOMAIN v.entries = DOMAIN ui.entries /\ v.page = ui.page /\ DOMAIN v = DOMAIN ui
      /\ \A x \in Tickers : v.entries[x] = IF x = s THEN Lists!NoPrice ELSE ui.entries[x]
  BY <1>2, ActivePairs DEF ListsOk, ListsFields, Changed, Lists!Held
<1> HIDE DEF v
<1>4. ListsOk(v)
  <2>1. v.stale \in BOOLEAN /\ v.copy \subseteq Tickers /\ DOMAIN v.entries = Tickers /\ ui.stale = v.stale
    BY <1>2, <1>3 DEF ListsOk, ListsFields
  <2>2. v.track \subseteq ui.track /\ \A c \in v.track : c.sym # s
    BY <1>3 DEF Lists!Untracked
  <2>3. QED
    BY <1>2, <1>3, <2>1, <2>2, ListsDropped
<1>5. s \notin Lists!Held(v)
  <2> DEFINE k == Lists!ActiveOf(ui)
             L == ui.lists
             M == v.lists
  <2>1. L \in Seq(Named) /\ k \in DOMAIN L /\ M = Changed(L, k, S) /\ L[k].id = ui.active /\ v.active = ui.active
    BY <1>2, <1>3, ActiveIs DEF ListsOk, ListsFields
  <2>2. \A p, q \in DOMAIN L : L[p].id = L[q].id => p = q
    BY <1>2 DEF ListsOk, ListsIds
  <2>3. Lists!ActiveOf(v) \in DOMAIN M /\ M[Lists!ActiveOf(v)].id = v.active
    BY <1>4, ActiveIs DEF ListsOk
  <2> HIDE DEF k, L, M, S
  <2>4. DOMAIN M = DOMAIN L /\ M[k].syms = S /\ \A p \in DOMAIN L : M[p].id = L[p].id
    BY <1>2, <2>1, <2>2, PairsWith
  <2>5. Lists!ActiveOf(v) = k
    BY <2>1, <2>2, <2>3, <2>4
  <2>6. QED
    BY <2>4, <2>5 DEF Lists!Held, M, S
<1>6. QED
  BY <1>1, <1>3, <1>4, <1>5, ListsStore

\* The list that is deleted is gone with all it held, and another is active.
LEMMA ListsDelete == ASSUME ListsInv, Lists!DeleteWatchlist PROVE ListsInv' /\ Lists!EntryStays
<1> DEFINE d == Lists!Id(ui)
           L == ui.lists
           K == {p \in DOMAIN L : L[p].id # d}
           rest == Places(L, K)
           u == [ui EXCEPT !.want = {p \in @ : p[1] # d}, !.gone = {p \in @ : p[1] # d}]
<1>1. /\ ListsOk(ui) /\ L \in Seq(Named) /\ DOMAIN L = 1..Len(L) /\ Len(L) \in Nat /\ d = ui.active
      /\ \A p, q \in DOMAIN L : L[p].id = L[q].id => p = q
      /\ \E p \in DOMAIN L : L[p].id = d
  <2>1. L \in Seq(Named) /\ d = ui.active /\ ListsOk(ui)
    BY ActivePairs DEF ListsInv, ListsOk, ListsFields
  <2>2. QED
    BY <2>1, LenProperties DEF ListsOk, ListsIds
<1>2. ui.page = "watch"
  BY DEF Lists!DeleteWatchlist, Lists!Store
<1>3. CASE Len(L) = 1
  <2> DEFINE v == [u EXCEPT !.lists[1].syms = {}]
  <2>1. Lists!Store(v)
    BY <1>3 DEF Lists!DeleteWatchlist
  <2>2. L[1].id = d /\ Lists!ActiveOf(ui) = 1
    BY <1>1, <1>3, ActiveIs DEF ListsOk
  <2>3. /\ DOMAIN v = DOMAIN ui /\ v.page = ui.page /\ v.made = ui.made /\ v.active = ui.active /\ v.track = ui.track /\ v.stale = ui.stale
        /\ v.copy = ui.copy /\ v.entries = ui.entries /\ v.lists = Changed(L, Lists!ActiveOf(ui), {})
        /\ v.want = {p \in ui.want : p[1] # d} /\ v.gone = {p \in ui.gone : p[1] # d}
    BY <1>1, <2>2 DEF ListsOk, ListsFields, Changed
  <2> HIDE DEF v
  <2>4. ListsFields(v)
    <3>1. v.stale \in BOOLEAN /\ v.copy \subseteq Tickers /\ DOMAIN v.entries = Tickers /\ {} \in SUBSET Tickers /\ v.track \subseteq ui.track
      BY <1>1, <2>3 DEF ListsOk, ListsFields
    <3>2. QED
      BY <1>1, <2>3, <3>1, ListsShaped
  <2>5. v.want = {x \in ui.want : x[1] # ui.active} \cup {<<ui.active, s>> : s \in {}} /\ \A g \in v.gone : g \in ui.gone
    BY <1>1, <2>3
  <2>6. ListsOk(v)
    <3>1. v.track \subseteq ui.track /\ (ui.stale => v.stale) /\ {} \in SUBSET Tickers /\ \A s \in {} : <<ui.active, s>> \notin v.gone
      BY <2>3
    <3>2. QED
      BY <1>1, <2>3, <2>4, <2>5, <3>1, ListsRewrite
  <2>7. QED
    BY <1>2, <2>1, <2>3, <2>6, ListsStore
<1>4. CASE Len(L) # 1
  <2> DEFINE v == [u EXCEPT !.lists = rest, !.active = Lists!NextActive(rest, @)]
  <2>1. Lists!Store(v)
    BY <1>4 DEF Lists!DeleteWatchlist, Lists!Places, Places
  <2>2. /\ DOMAIN v = DOMAIN ui /\ v.page = ui.page /\ v.made = ui.made /\ v.track = ui.track /\ v.stale = ui.stale
        /\ v.copy = ui.copy /\ v.entries = ui.entries /\ v.lists = rest /\ v.active = Lists!NextActive(rest, ui.active)
        /\ v.want = {p \in ui.want : p[1] # d} /\ v.gone = {p \in ui.gone : p[1] # d}
    BY <1>1 DEF ListsOk, ListsFields
  <2>3. /\ rest \in Seq(Named)
        /\ \A p \in DOMAIN rest : \E q \in DOMAIN L : q \in K /\ rest[p] = L[q]
        /\ \A q \in DOMAIN L : q \in K => \E p \in DOMAIN rest : rest[p] = L[q]
        /\ \A p, q \in DOMAIN rest : rest[p] = rest[q] => p = q
    <3>1. \A p, q \in DOMAIN L : L[p] = L[q] => p = q
      BY <1>1
    <3> HIDE DEF L, K
    <3>2. QED
      BY <1>1, <3>1, PlacesIn
  <2> HIDE DEF v, rest
  <2>4. \E p \in DOMAIN rest : rest[p].id # d
    <3>1. PICK q \in DOMAIN L : L[q].id # d
      <4> HIDE DEF L, d
      <4>1. Len(L) \in Nat /\ Len(L) # 1 /\ DOMAIN L = 1..Len(L) /\ DOMAIN L # {}
        BY <1>1, <1>4
      <4>2. 1 \in DOMAIN L /\ 2 \in DOMAIN L
        BY <4>1
      <4>3. L[1].id # L[2].id
        BY <1>1, <4>2
      <4>4. QED
        BY <4>2, <4>3
    <3>2. QED
      BY <2>3, <3>1
  <2>5. DOMAIN rest = 1..Len(rest) /\ 1 \in DOMAIN rest
    <3>1. DOMAIN rest = 1..Len(rest) /\ Len(rest) \in Nat
      BY <2>3, LenProperties
    <3>2. QED
      BY <2>4, <3>1
  <2>6. ListsIds(v)
    <3>1. \A p \in DOMAIN rest : rest[p].id <= ui.made /\ rest[p].id # d
      <4>1. \A q \in DOMAIN L : L[q].id <= ui.made
        BY <1>1 DEF ListsOk, ListsIds
      <4>2. \A q \in K : L[q].id # d
        OBVIOUS
      <4> HIDE DEF L, K, d
      <4>3. QED
        BY <2>3, <4>1, <4>2
    <3>2. ASSUME NEW p \in DOMAIN rest, NEW q \in DOMAIN rest, rest[p].id = rest[q].id PROVE p = q
      <4> HIDE DEF L, K
      <4>1. PICK p1 \in DOMAIN L : rest[p] = L[p1]
        BY <2>3
      <4>2. PICK q1 \in DOMAIN L : rest[q] = L[q1]
        BY <2>3
      <4>3. p1 = q1
        BY <1>1, <3>2, <4>1, <4>2
      <4>4. QED
        BY <2>3, <4>1, <4>2, <4>3
    <3>3. \E p \in DOMAIN rest : rest[p].id = v.active
      BY <2>2, <2>5 DEF Lists!NextActive
    <3>4. QED
      BY <2>2, <3>1, <3>2, <3>3 DEF ListsIds
  <2>7. ListsFields(v)
    BY <1>1, <2>2, <2>3 DEF ListsOk, ListsFields
  <2>8. ASSUME NEW x PROVE x \in Pairs(rest) <=> x \in Pairs(L) /\ x[1] # d
    <3>1. \A r : x \in Pairs(r) <=> \E p \in DOMAIN r : \E s \in r[p].syms : x = <<r[p].id, s>>
      BY DEF Pairs
    <3>2. ASSUME NEW p \in DOMAIN rest, NEW s \in rest[p].syms, x = <<rest[p].id, s>> PROVE x \in Pairs(L) /\ x[1] # d
      <4>1. PICK q \in DOMAIN L : q \in K /\ rest[p] = L[q]
        BY <2>3
      <4>2. x = <<L[q].id, s>> /\ s \in L[q].syms /\ L[q].id # d
        BY <3>2, <4>1
      <4>3. QED
        BY <3>1, <4>2
    <3>3. ASSUME NEW q \in DOMAIN L, NEW s \in L[q].syms, x = <<L[q].id, s>>, x[1] # d PROVE x \in Pairs(rest)
      <4>1. L[q].id # d
        BY <3>3
      <4>2. PICK p \in DOMAIN rest : rest[p] = L[q]
        BY <2>3, <4>1
      <4>3. QED
        BY <3>1, <3>3, <4>2
    <3>4. QED
      BY <3>1, <3>2, <3>3
  <2>9. ListsHold(v)
    <3>1. ListsHold(ui) /\ ui.stale = v.stale
      BY <1>1, <2>2 DEF ListsOk
    <3>2. ASSUME Pairs(L) = ui.want PROVE Pairs(rest) = v.want
      BY <2>2, <2>8, <3>2
    <3> HIDE DEF L
    <3>3. QED
      BY <2>2, <2>8, <3>1, <3>2 DEF ListsHold, L
  <2>10. ListsOk(v)
    BY <2>6, <2>7, <2>9 DEF ListsOk
  <2>11. QED
    BY <1>2, <2>1, <2>2, <2>10, ListsStore
<1>5. QED
  BY <1>3, <1>4

\* A record whose lists and history are those there are.
LEMMA ListsSame ==
  ASSUME NEW u, ListsOk(u), NEW v, DOMAIN v = DOMAIN u, v.lists = u.lists, v.made = u.made, v.stale = u.stale, v.want = u.want,
         \E p \in DOMAIN u.lists : u.lists[p].id = v.active, v.gone \subseteq u.gone,
         v.copy \subseteq Tickers, DOMAIN v.entries = Tickers, \A c \in v.track : c.sym \in Tickers,
         \A g \in v.gone, c \in v.track : c \notin u.track => c.sym # g[2]
  PROVE  ListsOk(v)
<1>1. ListsFields(v)
  BY DEF ListsOk, ListsFields
<1>2. ListsIds(v)
  BY DEF ListsOk, ListsIds
<1>3. ASSUME ~v.stale PROVE ListsHold(v)
  <2>1. Pairs(v.lists) = v.want /\ v.gone \cap Pairs(v.lists) = {}
    BY <1>3 DEF ListsOk, ListsHold
  <2>2. \A g \in v.gone, c \in v.track : c.sym # g[2]
    BY <1>3 DEF ListsOk, ListsHold
  <2>3. QED
    BY <2>1, <2>2 DEF ListsHold
<1>4. QED
  BY <1>1, <1>2, <1>3 DEF ListsOk, ListsHold

LEMMA ListsSetActive == ASSUME ListsInv, NEW n, Lists!SetActive(n) PROVE ListsInv' /\ Lists!EntryStays
<1> DEFINE v == [ui EXCEPT !.active = ui.lists[n].id]
<1>1. Lists!Store(v) /\ ui.page = "watch" /\ n \in DOMAIN ui.lists
  BY DEF Lists!SetActive, Lists!Store
<1>2. /\ DOMAIN v = DOMAIN ui /\ v.lists = ui.lists /\ v.made = ui.made /\ v.stale = ui.stale /\ v.want = ui.want /\ v.active = ui.lists[n].id
      /\ v.gone = ui.gone /\ v.copy = ui.copy /\ v.entries = ui.entries /\ v.track = ui.track /\ v.page = ui.page
  BY DEF ListsInv, ListsOk, ListsFields
<1> HIDE DEF v
<1>3. ListsOk(v)
  <2>1. ListsOk(ui) /\ v.copy \subseteq Tickers /\ DOMAIN v.entries = Tickers /\ \A c \in v.track : c.sym \in Tickers
    BY <1>2 DEF ListsInv, ListsOk, ListsFields
  <2>2. QED
    BY <1>1, <1>2, <2>1, ListsSame
<1>4. QED
  BY <1>1, <1>2, <1>3, ListsStore

LEMMA ListsLeave == ASSUME ListsInv, Lists!Leave PROVE ListsInv' /\ Lists!EntryStays
<1>1. /\ DOMAIN ui' = DOMAIN ui /\ ui'.lists = ui.lists /\ ui'.made = ui.made /\ ui'.stale = ui.stale /\ ui'.want = ui.want
      /\ ui'.active = ui.active /\ ui'.gone = ui.gone /\ ui'.copy = Lists!Held(ui) /\ ui'.entries = ui.entries
      /\ ui'.track = ui.track /\ ui'.trackCopy = ui.track
  BY DEF Lists!Leave, Lists!OpenTable, ListsInv, ListsOk, ListsFields
<1>2. ListsOk(ui) /\ Lists!Held(ui) \subseteq Tickers /\ DOMAIN ui.entries = Tickers /\ \A c \in ui.track : c.sym \in Tickers
  BY ActivePairs DEF ListsInv, ListsOk, ListsFields
<1>3. \E p \in DOMAIN ui.lists : ui.lists[p].id = ui.active
  BY <1>2 DEF ListsOk, ListsIds
<1> DEFINE v == ui'
<1>4. ListsOk(v)
  <2>1. v.copy \subseteq Tickers /\ DOMAIN v.entries = Tickers /\ \A c \in v.track : c.sym \in Tickers
    BY <1>1, <1>2
  <2> HIDE DEF v
  <2>2. QED
    BY <1>1, <1>2, <1>3, <2>1, ListsSame DEF v
<1>5. QED
  BY <1>1, <1>4 DEF ListsInv, ListsOk, ListsFields, ListsIds, ListsHold, Lists!EntryStays

\* The row buttons of a table.
LEMMA ListsRowAdds == ASSUME ListsInv, NEW s \in Tickers, Lists!AddSymbol(s) PROVE ListsInv' /\ Lists!EntryStays
<1> DEFINE S == ui.copy \cup {s}
           v == ui'
<1>1. /\ DOMAIN v = DOMAIN ui /\ v.lists = Changed(ui.lists, Lists!ActiveOf(ui), S) /\ v.made = ui.made /\ v.active = ui.active
      /\ v.track = ui.track /\ v.trackCopy = ui.trackCopy /\ v.page = ui.page /\ v.entries = ui.entries /\ v.copy = S
      /\ v.want = ui.want \cup {<<ui.active, s>>} /\ v.gone = ui.gone \ {<<ui.active, s>>}
      /\ v.stale = (ui.stale \/ ui.copy # Lists!Held(ui)) /\ ui.page = "table"
  <2>1. Lists!Id(ui) = ui.active /\ DOMAIN ui = {"page", "lists", "active", "made", "track", "entries", "quotes", "copy", "trackCopy", "want", "gone", "stale"}
    BY ActivePairs DEF ListsInv, ListsOk, ListsFields
  <2>2. QED
    BY <2>1 DEF Lists!AddSymbol, Lists!Written, Changed
<1>2. ListsOk(ui) /\ S \in SUBSET Tickers /\ ui.stale \in BOOLEAN
  BY DEF ListsInv, ListsOk, ListsFields
<1> HIDE DEF v
<1>3. ListsFields(v)
  <2>1. v.stale \in BOOLEAN /\ v.copy \subseteq Tickers /\ DOMAIN v.entries = Tickers
    BY <1>1, <1>2 DEF ListsOk, ListsFields
  <2> HIDE DEF S
  <2>2. QED
    BY <1>1, <1>2, <2>1, ListsShaped
<1>4. ASSUME ~v.stale
      PROVE  /\ v.want = {x \in ui.want : x[1] # ui.active} \cup {<<ui.active, t>> : t \in S}
             /\ \A t \in S : <<ui.active, t>> \notin v.gone
             /\ \A g \in v.gone : g \in ui.gone
  <2>1. Pairs(ui.lists) = ui.want /\ ui.gone \cap Pairs(ui.lists) = {} /\ ui.copy = Lists!Held(ui)
    BY <1>1, <1>4 DEF ListsInv, ListsOk, ListsHold
  <2>2. ASSUME NEW x PROVE x \in v.want <=> (x \in ui.want /\ x[1] # ui.active) \/ \E t \in S : x = <<ui.active, t>>
    BY <1>1, <1>2, <2>1, ActivePairs
  <2>3. QED
    BY <1>1, <1>2, <2>1, <2>2, ActivePairs
<1> HIDE DEF S
<1>5. ListsOk(v)
  BY <1>1, <1>2, <1>3, <1>4, ListsRewrite
<1>6. QED
  BY <1>1, <1>5 DEF ListsInv, v, ListsOk, ListsFields, ListsIds, ListsHold, Lists!EntryStays

LEMMA ListsRowRemoves == ASSUME ListsInv, NEW s \in Tickers, Lists!RemoveSymbol(s) PROVE ListsInv' /\ Lists!EntryStays
<1> DEFINE S == ui.copy \ {s}
           v == ui'
<1>1. /\ DOMAIN v = DOMAIN ui /\ v.lists = Changed(ui.lists, Lists!ActiveOf(ui), S) /\ v.made = ui.made /\ v.active = ui.active
      /\ v.track = ui.track /\ v.trackCopy = ui.trackCopy /\ v.page = ui.page /\ v.entries = ui.entries /\ v.copy = S
      /\ v.want = ui.want \ {<<ui.active, s>>} /\ v.gone = ui.gone
      /\ v.stale = (ui.stale \/ ui.copy # Lists!Held(ui)) /\ ui.page = "table"
  <2>1. Lists!Id(ui) = ui.active /\ DOMAIN ui = {"page", "lists", "active", "made", "track", "entries", "quotes", "copy", "trackCopy", "want", "gone", "stale"}
    BY ActivePairs DEF ListsInv, ListsOk, ListsFields
  <2>2. QED
    BY <2>1 DEF Lists!RemoveSymbol, Lists!Written, Changed
<1>2. ListsOk(ui) /\ S \in SUBSET Tickers /\ ui.stale \in BOOLEAN
  BY DEF ListsInv, ListsOk, ListsFields
<1> HIDE DEF v
<1>3. ListsFields(v)
  <2>1. v.stale \in BOOLEAN /\ v.copy \subseteq Tickers /\ DOMAIN v.entries = Tickers
    BY <1>1, <1>2 DEF ListsOk, ListsFields
  <2> HIDE DEF S
  <2>2. QED
    BY <1>1, <1>2, <2>1, ListsShaped
<1>4. ASSUME ~v.stale
      PROVE  /\ v.want = {x \in ui.want : x[1] # ui.active} \cup {<<ui.active, t>> : t \in S}
             /\ \A t \in S : <<ui.active, t>> \notin v.gone
             /\ \A g \in v.gone : g \in ui.gone
  <2>1. Pairs(ui.lists) = ui.want /\ ui.gone \cap Pairs(ui.lists) = {} /\ ui.copy = Lists!Held(ui)
    BY <1>1, <1>4 DEF ListsInv, ListsOk, ListsHold
  <2>2. ASSUME NEW x PROVE x \in v.want <=> (x \in ui.want /\ x[1] # ui.active) \/ \E t \in S : x = <<ui.active, t>>
    <3>1. x[1] # ui.active => x # <<ui.active, s>>
      OBVIOUS
    <3>2. QED
      BY <1>1, <1>2, <2>1, <3>1, ActivePairs
  <2>3. QED
    BY <1>1, <1>2, <2>1, <2>2, ActivePairs
<1> HIDE DEF S
<1>5. ListsOk(v)
  BY <1>1, <1>2, <1>3, <1>4, ListsRewrite
<1>6. QED
  BY <1>1, <1>5 DEF ListsInv, v, ListsOk, ListsFields, ListsIds, ListsHold, Lists!EntryStays

LEMMA ListsReport == ASSUME ListsInv, NEW s \in Tickers, Lists!AddFromReport(s) PROVE ListsInv' /\ Lists!EntryStays
<1> DEFINE v == ui'
<1>1. /\ DOMAIN v = DOMAIN ui /\ v.lists = Changed(ui.lists, Lists!ActiveOf(ui), Lists!Held(ui) \cup {s}) /\ v.made = ui.made /\ v.active = ui.active
      /\ v.track = ui.track /\ v.trackCopy = ui.trackCopy /\ v.page = ui.page /\ v.entries = ui.entries /\ v.copy = ui.copy
      /\ v.want = ui.want \cup {<<ui.active, s>>} /\ v.gone = ui.gone \ {<<ui.active, s>>} /\ v.stale = ui.stale
  <2>1. Lists!Id(ui) = ui.active /\ DOMAIN ui = {"page", "lists", "active", "made", "track", "entries", "quotes", "copy", "trackCopy", "want", "gone", "stale"}
    BY ActivePairs DEF ListsInv, ListsOk, ListsFields
  <2>2. QED
    BY <2>1 DEF Lists!AddFromReport, Changed, Lists!Held
<1>2. ListsOk(ui) /\ ui.stale \in BOOLEAN /\ ui.copy \subseteq Tickers /\ DOMAIN ui.entries = Tickers
  BY DEF ListsInv, ListsOk, ListsFields
<1>3. ListsOk(v)
  <2>1. v.stale \in BOOLEAN /\ v.copy \subseteq Tickers /\ DOMAIN v.entries = Tickers /\ (ui.stale => v.stale)
    BY <1>1, <1>2
  <2> HIDE DEF v
  <2>2. QED
    BY <1>1, <1>2, <2>1, ListsTaken
<1>4. QED
  BY <1>1, <1>3 DEF ListsInv, ListsOk, ListsFields, ListsIds, ListsHold, Lists!EntryStays

\* A call recorded, or taken back.
LEMMA ListsTrack ==
  ASSUME ListsInv, \/ \E s \in Tickers : \E d, p : Lists!AddTrack(s, d, p)
                   \/ \E c : Lists!RemoveTrack(c)
  PROVE  ListsInv' /\ Lists!EntryStays
<1> DEFINE v == ui'
<1>1. /\ DOMAIN v = DOMAIN ui /\ v.lists = ui.lists /\ v.made = ui.made /\ v.stale = ui.stale /\ v.want = ui.want
      /\ v.active = ui.active /\ v.copy = ui.copy /\ v.entries = ui.entries /\ v.track = v.trackCopy /\ ui.page = "table"
  <2>1. DOMAIN ui = {"page", "lists", "active", "made", "track", "entries", "quotes", "copy", "trackCopy", "want", "gone", "stale"}
    BY DEF ListsInv, ListsOk, ListsFields
  <2>2. ASSUME NEW s \in Tickers, NEW d, NEW p, Lists!AddTrack(s, d, p)
        PROVE  \E list, gone : ui' = [ui EXCEPT !.track = list, !.trackCopy = list, !.gone = gone] /\ ui.page = "table"
    BY <2>2 DEF Lists!AddTrack
  <2>3. CASE \E list, gone : ui' = [ui EXCEPT !.track = list, !.trackCopy = list, !.gone = gone] /\ ui.page = "table"
    BY <2>1, <2>3
  <2>4. ASSUME NEW c, Lists!RemoveTrack(c) PROVE <1>1
    BY <2>1, <2>4 DEF Lists!RemoveTrack, Lists!Tracked
  <2>5. QED
    BY <2>2, <2>3, <2>4
<1>2. v.gone \subseteq ui.gone /\ \A c \in v.track : c \in ui.trackCopy \/ (c.sym \in Tickers /\ \A g \in v.gone : g[2] # c.sym)
  <2>1. ASSUME NEW s \in Tickers, NEW d, NEW p, Lists!AddTrack(s, d, p)
        PROVE  v.gone \subseteq ui.gone /\ \A c \in v.track : c \in ui.trackCopy \/ (c.sym \in Tickers /\ \A g \in v.gone : g[2] # c.sym)
    <3>1. v.track = {c \in ui.trackCopy : c.sym # s} \cup {Lists!Call(s, d, p)} /\ v.gone = {g \in ui.gone : g[2] # s}
      BY <2>1 DEF Lists!AddTrack, ListsInv, ListsOk, ListsFields
    <3>2. Lists!Call(s, d, p).sym = s
      BY DEF Lists!Call
    <3> HIDE DEF v
    <3>3. QED
      BY <3>1, <3>2
  <2>2. ASSUME NEW c, Lists!RemoveTrack(c) PROVE v.gone = ui.gone /\ v.track \subseteq ui.trackCopy
    BY <2>2 DEF Lists!RemoveTrack, Lists!Tracked, ListsInv, ListsOk, ListsFields
  <2> HIDE DEF v
  <2>3. QED
    BY <2>1, <2>2
<1>3. ListsOk(ui) /\ ui.copy \subseteq Tickers /\ DOMAIN ui.entries = Tickers /\ (\A c \in ui.track : c.sym \in Tickers) /\ ui.trackCopy = ui.track
  BY <1>1 DEF ListsInv, ListsOk, ListsFields
<1>4. \E p \in DOMAIN ui.lists : ui.lists[p].id = ui.active
  BY <1>3 DEF ListsOk, ListsIds
<1>5. ListsOk(v)
  <2>1. v.copy \subseteq Tickers /\ DOMAIN v.entries = Tickers /\ (\A c \in v.track : c.sym \in Tickers) /\ v.gone \subseteq ui.gone
        /\ \A g \in v.gone, c \in v.track : c \notin ui.track => c.sym # g[2]
    BY <1>1, <1>2, <1>3
  <2> HIDE DEF v
  <2>2. QED
    BY <1>1, <1>3, <1>4, <2>1, ListsSame
<1>6. QED
  BY <1>1, <1>5 DEF ListsInv, ListsOk, ListsFields, ListsIds, ListsHold, Lists!EntryStays

\* Prices come, or not; nothing else changes.
LEMMA ListsQuotes ==
  ASSUME ListsInv, \E c, p : Lists!QuotesArrive(c, p) PROVE ListsInv' /\ Lists!EntryStays
<1>1. PICK q : ui' = Lists!Stamped(ui, q)
  BY DEF Lists!QuotesArrive
<1>2. ListsOk(ui') /\ (ui'.page = "table" => ui'.trackCopy = ui'.track)
  BY <1>1, StampedKeeps DEF ListsInv
<1>3. \A s \in Tickers : ui.entries[s] # Lists!NoPrice => ui'.entries[s] = ui.entries[s]
  BY <1>1, StampedKeeps DEF ListsInv
<1>4. QED
  BY <1>2, <1>3 DEF ListsInv, ListsOk, ListsFields, ListsIds, ListsHold, Lists!EntryStays

LEMMA ListsUnchanged == ASSUME ListsInv, UNCHANGED ui PROVE ListsInv' /\ Lists!EntryStays
BY DEF ListsInv, ListsOk, ListsFields, ListsIds, ListsHold, Lists!EntryStays

LEMMA ListsStep == ASSUME ListsInv, Lists!Next PROVE ListsInv' /\ Lists!EntryStays
<1>1. CASE Lists!OpenWatchlist \/ Lists!Leave
  BY <1>1, ListsOpen, ListsLeave
<1>2. CASE Lists!CreateWatchlist \/ Lists!DeleteWatchlist
  BY <1>2, ListsCreate, ListsDelete
<1>3. CASE Lists!Poll \/ \E c \in Lists!Of({"quotes"}) : Lists!QuotesFail(c)
  <2>1. UNCHANGED ui
    BY <1>3 DEF Lists!Poll, Lists!QuotesFail
  <2>2. QED
    BY <2>1, ListsUnchanged
<1>4. CASE \E c \in Lists!Of({"quotes"}), p \in Prices : Lists!QuotesArrive(c, p)
  BY <1>4, ListsQuotes
<1>5. CASE \E n \in 1..MaxLists : Lists!SetActive(n)
  BY <1>5, ListsSetActive
<1>6. ASSUME NEW s \in Tickers, \/ Lists!AddSymbolToWatchlist(s) \/ (ui.page = "watch" /\ Lists!RemoveSymbolFromWatchlist(s))
                               \/ Lists!AddSymbol(s) \/ Lists!RemoveSymbol(s) \/ Lists!AddFromReport(s)
      PROVE  ListsInv' /\ Lists!EntryStays
  BY <1>6, ListsAdd, ListsRemove, ListsRowAdds, ListsRowRemoves, ListsReport
<1>7. ASSUME NEW s \in Tickers, NEW d, NEW p, Lists!AddTrack(s, d, p) PROVE ListsInv' /\ Lists!EntryStays
  BY <1>7, ListsTrack
<1>8. ASSUME NEW c, Lists!RemoveTrack(c) PROVE ListsInv' /\ Lists!EntryStays
  BY <1>8, ListsTrack
<1>9. QED
  BY <1>1, <1>2, <1>3, <1>4, <1>5, <1>6, <1>7, <1>8 DEF Lists!Next

LEMMA ListsSound == ListsInv => Lists!NothingLost /\ Lists!ActiveExists /\ Lists!RemovedStays
<1>1. Lists!Content(ui) = Pairs(ui.lists)
  BY DEF Lists!Content, Pairs
<1>2. ListsInv => ui.lists # <<>>
  BY DEF ListsInv, ListsOk, ListsIds
<1>3. QED
  BY <1>1, <1>2 DEF ListsInv, ListsOk, ListsHold, ListsIds, Lists!NothingLost, Lists!ActiveExists, Lists!RemovedStays

\* Each behaviour has one of the parts, and the others stand still.
LEMMA ListsAlways == BooksSpec => [](focus = "lists" => ListsInv)
<1>1. BooksInit => (focus = "lists" => ListsInv)
  BY ListsInit DEF BooksInit
<1>2. (focus = "lists" => ListsInv) /\ [BooksNext]_booksVars => (focus = "lists" => ListsInv)'
  <2> SUFFICES ASSUME focus = "lists" => ListsInv, [BooksNext]_booksVars, focus' = "lists" PROVE ListsInv'
    OBVIOUS
  <2>1. focus = "lists" /\ (Lists!Next \/ UNCHANGED ui)
    BY DEF BooksNext, booksVars, client
  <2>2. QED
    BY <2>1, ListsStep, ListsUnchanged
<1>3. QED
  BY <1>1, <1>2, PTL DEF BooksSpec

\* A symbol that was removed from a list stays removed, and the price at which a symbol came to
\* the list stays what it was, whatever the number of lists and of steps.
THEOREM WatchlistsKeepTheirWord == BooksSpec => ListsKeepTheirWord
<1>1. (focus = "lists" => ListsInv) /\ (focus = "lists" => ListsInv)' /\ [BooksNext]_booksVars
        => [focus = "lists" => Lists!EntryStays /\ Lists!RemovedStays']_booksVars
  <2> SUFFICES ASSUME focus = "lists" => ListsInv, (focus = "lists" => ListsInv)', [BooksNext]_booksVars, focus = "lists"
               PROVE  Lists!EntryStays /\ Lists!RemovedStays'
    OBVIOUS
  <2>1. focus' = "lists" /\ (Lists!Next \/ UNCHANGED ui)
    BY DEF BooksNext, booksVars, client
  <2>2. Lists!EntryStays
    BY <2>1, ListsStep, ListsUnchanged
  <2>3. ListsInv' => Lists!RemovedStays'
    BY ListsSound, PTL
  <2>4. QED
    BY <2>1, <2>2, <2>3
<1>2. QED
  BY <1>1, ListsAlways, PTL DEF BooksSpec, ListsKeepTheirWord

-------------------------------------------------------------------------------
\* The holdings.  Whatever the lists were merged from, each of them, that of a request under way
\* too, has a symbol once in a group; and until one was merged into an older list, the list on
\* the page is the one stored, its groups are those there are, and it adds up.
Holding == [sym : Tickers, group : Folio!Groups, qty : Int, cost : Int]
Holds(L) == L \subseteq Holding /\ \A h, k \in L : h.sym = k.sym /\ h.group = k.group => h = k
Adds(u) ==
  /\ u.list = u.stored /\ (\A h \in u.stored : h.group \in {Folio!Default} \cup u.custom)
  /\ u.active \in {Folio!Default, Folio!All} \cup u.custom
  /\ \A s \in Tickers : Folio!Quantity(u.stored, s) = u.want[s]
FolioFields == {"stored", "list", "custom", "active", "mount", "syncing", "want", "behind"}
FolioOk(u) ==
  /\ DOMAIN u = FolioFields
  /\ Holds(u.stored) /\ Holds(u.list) /\ u.custom \subseteq Custom /\ u.behind \in BOOLEAN
  /\ u.active \in Folio!Groups \cup {Folio!All} /\ u.want \in [Tickers -> Int]
  /\ ~u.behind => Adds(u)
FolioInv == FolioOk(ui) /\ \A c \in calls : Holds(c.list)

LEMMA FolioGroups == ASSUME Folio!PortfolioAssumptions PROVE IsFiniteSet(Folio!Groups)
<1>1. IsFiniteSet(Custom) /\ Folio!Groups = Custom \cup {Folio!Default}
  BY DEF Folio!PortfolioAssumptions, Folio!Groups, Folio!IsFiniteSet, IsFiniteSet
<1>2. QED
  BY <1>1, FS_AddElement

LEMMA FolioCard == ASSUME NEW S PROVE Folio!Cardinality(S) = Cardinality(S)
BY DEF Folio!Cardinality, Cardinality, Folio!IsFiniteSet, IsFiniteSet

LEMMA FolioTotal == ASSUME NEW f PROVE Folio!Total(f) = Total(f)
BY DEF Folio!Total, Total

\* What a group holds of a symbol.
LEMMA FolioIn ==
  ASSUME NEW L, Holds(L), NEW s, NEW g
  PROVE  /\ \A h \in L : h.sym = s /\ h.group = g => Folio!At(L, s, g) = {h} /\ Folio!QuantityIn(L, s, g) = h.qty
         /\ (\A h \in L : h.sym # s \/ h.group # g) => Folio!At(L, s, g) = {} /\ Folio!QuantityIn(L, s, g) = 0
         /\ Folio!QuantityIn(L, s, g) \in Int
<1>1. ASSUME NEW h \in L, h.sym = s, h.group = g
      PROVE  Folio!At(L, s, g) = {h} /\ Folio!QuantityIn(L, s, g) = h.qty /\ h.qty \in Int
  <2>1. h \in Folio!At(L, s, g) /\ \A k \in Folio!At(L, s, g) : k = h
    BY <1>1 DEF Folio!At, Holds
  <2>2. Folio!At(L, s, g) = {h}
    BY <2>1
  <2>3. h.qty \in Int
    BY DEF Holds, Holding
  <2>4. Folio!The({h}) = h
    BY DEF Folio!The
  <2>5. QED
    BY <2>2, <2>3, <2>4 DEF Folio!QuantityIn
<1>2. ASSUME \A h \in L : h.sym # s \/ h.group # g PROVE Folio!At(L, s, g) = {} /\ Folio!QuantityIn(L, s, g) = 0
  <2>1. Folio!At(L, s, g) = {}
    BY <1>2 DEF Folio!At
  <2>2. QED
    BY <2>1 DEF Folio!QuantityIn
<1>3. QED
  BY <1>1, <1>2

\* Two lists that differ in one group at most.
LEMMA QuantityMoves ==
  ASSUME Folio!PortfolioAssumptions, NEW L, Holds(L), NEW M, Holds(M), NEW s, NEW g \in Folio!Groups,
         \A e \in Folio!Groups : e # g => Folio!At(M, s, e) = Folio!At(L, s, e)
  PROVE  Folio!Quantity(M, s) = Folio!Quantity(L, s) - Folio!QuantityIn(L, s, g) + Folio!QuantityIn(M, s, g)
<1> DEFINE f == [e \in Folio!Groups |-> Folio!QuantityIn(L, s, e)]
           k == [e \in Folio!Groups |-> Folio!QuantityIn(M, s, e)]
<1>1. DOMAIN f = Folio!Groups /\ DOMAIN k = Folio!Groups /\ IsFiniteSet(Folio!Groups)
  BY FolioGroups
<1>2. \A e \in Folio!Groups : f[e] \in Int /\ k[e] \in Int
  BY FolioIn
<1>3. \A e \in Folio!Groups : e # g => k[e] = f[e]
  BY DEF Folio!QuantityIn
<1>4. Folio!Quantity(L, s) = Total(f) /\ Folio!Quantity(M, s) = Total(k)
  BY FolioTotal DEF Folio!Quantity
<1>5. f[g] = Folio!QuantityIn(L, s, g) /\ k[g] = Folio!QuantityIn(M, s, g)
  OBVIOUS
<1> HIDE DEF f, k
<1>6. Total(k) = Total(f) - f[g] + k[g]
  BY <1>1, <1>2, <1>3, TotalChanged
<1>7. QED
  BY <1>4, <1>5, <1>6

LEMMA QuantitySame ==
  ASSUME NEW L, NEW M, NEW s, \A e \in Folio!Groups : Folio!At(M, s, e) = Folio!At(L, s, e)
  PROVE  Folio!Quantity(M, s) = Folio!Quantity(L, s)
<1>1. \A e \in Folio!Groups : Folio!QuantityIn(M, s, e) = Folio!QuantityIn(L, s, e)
  BY DEF Folio!QuantityIn
<1>2. [e \in Folio!Groups |-> Folio!QuantityIn(M, s, e)] = [e \in Folio!Groups |-> Folio!QuantityIn(L, s, e)]
  BY <1>1
<1>3. QED
  BY <1>2 DEF Folio!Quantity

\* A symbol held in one group only.
LEMMA QuantityOne ==
  ASSUME Folio!PortfolioAssumptions, NEW L, Holds(L), NEW h \in L, \A k \in L : k.sym = h.sym => k = h
  PROVE  Folio!Quantity(L, h.sym) = h.qty
<1>1. Holds({}) /\ h.group \in Folio!Groups /\ h.qty \in Int
  BY DEF Holds, Holding
<1>2. Folio!Quantity({}, h.sym) = 0
  <2> DEFINE f == [e \in Folio!Groups |-> Folio!QuantityIn({}, h.sym, e)]
  <2>1. DOMAIN f = Folio!Groups /\ \A e \in Folio!Groups : f[e] = 0
    BY <1>1, FolioIn
  <2>2. Folio!Quantity({}, h.sym) = Total(f)
    BY FolioTotal DEF Folio!Quantity
  <2> HIDE DEF f
  <2>3. QED
    BY <2>1, <2>2, FolioGroups, TotalZero
<1>3. ASSUME NEW e \in Folio!Groups, e # h.group PROVE Folio!At(L, h.sym, e) = Folio!At({}, h.sym, e)
  BY <1>3 DEF Folio!At
<1>4. Folio!QuantityIn(L, h.sym, h.group) = h.qty /\ Folio!QuantityIn({}, h.sym, h.group) = 0
  BY <1>1, FolioIn
<1> DEFINE s == h.sym
           g == h.group
<1>5. /\ g \in Folio!Groups /\ \A e \in Folio!Groups : e # g => Folio!At(L, s, e) = Folio!At({}, s, e)
      /\ Folio!QuantityIn(L, s, g) = h.qty /\ Folio!QuantityIn({}, s, g) = 0 /\ Folio!Quantity({}, s) = 0
  BY <1>1, <1>2, <1>3, <1>4
<1> HIDE DEF s, g
<1>6. Folio!Quantity(L, s) = 0 - 0 + h.qty
  BY <1>1, <1>5, QuantityMoves
<1>7. QED
  BY <1>1, <1>6 DEF s

\* A row of a group is replaced, or goes.
Put(L, s, g, R) == (L \ Folio!At(L, s, g)) \cup R
LEMMA FolioPut ==
  ASSUME Folio!PortfolioAssumptions, NEW L, Holds(L), NEW s \in Tickers, NEW g \in Folio!Groups,
         NEW R \in SUBSET Holding, \A r \in R : r.sym = s /\ r.group = g, \A r, q \in R : r = q, NEW M, M = Put(L, s, g, R)
  PROVE  /\ Holds(M)
         /\ \A k \in Tickers : k # s => Folio!Quantity(M, k) = Folio!Quantity(L, k)
         /\ R = {} => Folio!Quantity(M, s) = Folio!Quantity(L, s) - Folio!QuantityIn(L, s, g)
         /\ \A r \in R : Folio!Quantity(M, s) = Folio!Quantity(L, s) - Folio!QuantityIn(L, s, g) + r.qty
         /\ \A e : e # g => Folio!QuantityIn(M, s, e) = Folio!QuantityIn(L, s, e)
<1>1. ASSUME NEW x PROVE x \in M <=> (x \in L /\ ~(x.sym = s /\ x.group = g)) \/ x \in R
  BY DEF Put, Folio!At
<1>2. Holds(M)
  <2>1. M \subseteq Holding
    BY <1>1 DEF Holds
  <2>2. ASSUME NEW h \in M, NEW k \in M, h.sym = k.sym, h.group = k.group PROVE h = k
    BY <1>1, <2>2 DEF Holds
  <2>3. QED
    BY <2>1, <2>2 DEF Holds
<1>3. ASSUME NEW k, NEW e, k # s \/ e # g PROVE Folio!At(M, k, e) = Folio!At(L, k, e)
  <2> SUFFICES ASSUME NEW x PROVE x \in Folio!At(M, k, e) <=> x \in Folio!At(L, k, e)
    OBVIOUS
  <2>1. x \in M /\ x.sym = k /\ x.group = e <=> x \in L /\ x.sym = k /\ x.group = e
    BY <1>1, <1>3
  <2>2. QED
    BY <2>1 DEF Folio!At
<1>4. ASSUME NEW k \in Tickers, k # s PROVE Folio!Quantity(M, k) = Folio!Quantity(L, k)
  BY <1>3, <1>4, QuantitySame
<1>5. Folio!Quantity(M, s) = Folio!Quantity(L, s) - Folio!QuantityIn(L, s, g) + Folio!QuantityIn(M, s, g)
  BY <1>2, <1>3, QuantityMoves
<1>6. ASSUME R = {} PROVE Folio!Quantity(M, s) = Folio!Quantity(L, s) - Folio!QuantityIn(L, s, g)
  <2>1. Folio!QuantityIn(M, s, g) = 0
    BY <1>1, <1>2, <1>6, FolioIn
  <2>2. Folio!Quantity(L, s) \in Int
    <3> DEFINE f == [e \in Folio!Groups |-> Folio!QuantityIn(L, s, e)]
    <3>1. DOMAIN f = Folio!Groups /\ (\A e \in Folio!Groups : f[e] \in Int) /\ Folio!Quantity(L, s) = Total(f)
      BY FolioIn, FolioTotal DEF Folio!Quantity
    <3> HIDE DEF f
    <3>2. QED
      BY <3>1, FolioGroups, TotalInt
  <2>3. Folio!QuantityIn(L, s, g) \in Int
    BY FolioIn
  <2>4. QED
    BY <1>5, <2>1, <2>2, <2>3
<1>7. ASSUME NEW r \in R PROVE Folio!QuantityIn(M, s, g) = r.qty
  <2>1. r \in M /\ r.sym = s /\ r.group = g
    BY <1>1, <1>7
  <2>2. QED
    BY <1>2, <2>1, FolioIn
<1>8. ASSUME NEW e, e # g PROVE Folio!QuantityIn(M, s, e) = Folio!QuantityIn(L, s, e)
  BY <1>3, <1>8 DEF Folio!QuantityIn
<1>9. ASSUME NEW r \in R PROVE Folio!Quantity(M, s) = Folio!Quantity(L, s) - Folio!QuantityIn(L, s, g) + r.qty
  BY <1>5, <1>7
<1>10. QED
  BY <1>2, <1>4, <1>6, <1>8, <1>9

\* A list is stored and shown; what it adds up to is asked of it.
LEMMA FolioSaved ==
  ASSUME FolioOk(ui), NEW M, Holds(M), NEW v, DOMAIN v = FolioFields,
         v.stored = M, v.list = M, v.custom = ui.custom, v.active = ui.active, v.behind = ui.behind, v.want \in [Tickers -> Int],
         ~ui.behind => /\ \A h \in M : h.group \in {Folio!Default} \cup ui.custom
                       /\ \A s \in Tickers : Folio!Quantity(M, s) = v.want[s]
  PROVE  FolioOk(v)
BY DEF FolioOk, Adds, FolioFields

\* No list under way is lost or changed.
LEMMA FolioKeeps == ASSUME FolioInv, UNCHANGED calls, FolioOk(ui)' PROVE FolioInv'
BY DEF FolioInv

LEMMA FolioGone == ASSUME FolioInv, NEW c, calls' = calls \ {c}, FolioOk(ui)' PROVE FolioInv'
BY DEF FolioInv

LEMMA FolioRow == ASSUME NEW s \in Tickers, NEW g \in Folio!Groups, NEW n \in Int, NEW p \in Int
                  PROVE  Folio!Row(s, g, n, p) \in Holding /\ Folio!Row(s, g, n, p).sym = s /\ Folio!Row(s, g, n, p).group = g
                         /\ Folio!Row(s, g, n, p).qty = n
BY DEF Folio!Row, Holding

LEMMA FolioInit == ASSUME Folio!PortfolioAssumptions, Folio!Init PROVE FolioInv
<1>1. PICK L \in {{}} \cup {{Folio!Row(s, Folio!Default, 1, 1)} : s \in Tickers} :
       ui = [stored |-> L, list |-> L, custom |-> {}, active |-> Folio!All, mount |-> 1, syncing |-> FALSE,
             want |-> [s \in Tickers |-> IF \E h \in L : h.sym = s THEN 1 ELSE 0], behind |-> FALSE]
  BY DEF Folio!Init
<1>2. Folio!Default \in Folio!Groups
  BY DEF Folio!Groups
<1>3. Holds(L) /\ \A h \in L : h.group = Folio!Default /\ h.qty = 1 /\ \A k \in L : k = h
  <2>1. CASE L = {}
    BY <2>1 DEF Holds
  <2>2. ASSUME NEW s \in Tickers, L = {Folio!Row(s, Folio!Default, 1, 1)} PROVE <1>3
    BY <1>2, <2>2, FolioRow DEF Holds
  <2>3. QED
    BY <2>1, <2>2
<1>4. ui.want = [s \in Tickers |-> IF \E h \in L : h.sym = s THEN 1 ELSE 0]
  BY <1>1
<1>5. ASSUME NEW s \in Tickers PROVE Folio!Quantity(L, s) = ui.want[s]
  <2>1. ASSUME NEW h \in L, h.sym = s PROVE Folio!Quantity(L, s) = 1
    BY <1>3, <2>1, QuantityOne
  <2>2. CASE \A h \in L : h.sym # s
    <3> DEFINE f == [e \in Folio!Groups |-> Folio!QuantityIn(L, s, e)]
    <3>1. DOMAIN f = Folio!Groups /\ (\A e \in Folio!Groups : f[e] = 0) /\ Folio!Quantity(L, s) = Total(f)
      BY <1>3, <2>2, FolioIn, FolioTotal DEF Folio!Quantity
    <3> HIDE DEF f
    <3>2. QED
      BY <1>4, <2>2, <3>1, FolioGroups, TotalZero
  <2>3. QED
    BY <1>4, <2>1, <2>2
<1>6. /\ DOMAIN ui = FolioFields /\ ui.stored = L /\ ui.list = L /\ ui.custom = {} /\ ui.active = Folio!All /\ ~ui.behind
      /\ ui.behind \in BOOLEAN /\ ui.want \in [Tickers -> Int]
  BY <1>1 DEF FolioFields
<1>7. FolioOk(ui)
  BY <1>3, <1>5, <1>6 DEF FolioOk, FolioFields, Adds
<1>8. QED
  BY <1>7 DEF FolioInv, Folio!Init

\* One row put in place of what a group held of the symbol, and what was asked follows.
LEMMA FolioPutSaved ==
  ASSUME Folio!PortfolioAssumptions, FolioOk(ui), NEW s \in Tickers, NEW g \in Folio!Groups,
         NEW R \in SUBSET Holding, \A r \in R : r.sym = s /\ r.group = g, \A r, q \in R : r = q,
         NEW v, v = Folio!Saved(Put(ui.list, s, g, R)), NEW n \in Int,
         ~ui.behind => g \in {Folio!Default} \cup ui.custom,
         R = {} => n = 0 - Folio!QuantityIn(ui.list, s, g),
         \A r \in R : r.qty = Folio!QuantityIn(ui.list, s, g) + n
  PROVE  FolioOk([v EXCEPT !.want[s] = @ + n])
<1> DEFINE M == Put(ui.list, s, g, R)
           w == [v EXCEPT !.want[s] = @ + n]
<1>1. Holds(ui.list) /\ DOMAIN ui = FolioFields /\ ui.want \in [Tickers -> Int]
  BY DEF FolioOk, FolioFields
<1>2. /\ DOMAIN v = FolioFields /\ v.stored = M /\ v.list = M /\ v.custom = ui.custom /\ v.active = ui.active /\ v.behind = ui.behind
      /\ v.want = ui.want
  BY <1>1 DEF Folio!Saved, FolioFields
<1>3. /\ DOMAIN w = FolioFields /\ w.stored = M /\ w.list = M /\ w.custom = ui.custom /\ w.active = ui.active /\ w.behind = ui.behind
      /\ w.want = [ui.want EXCEPT ![s] = @ + n] /\ w.want \in [Tickers -> Int]
  BY <1>1, <1>2 DEF FolioFields
<1>4. /\ Holds(M)
      /\ \A k \in Tickers : k # s => Folio!Quantity(M, k) = Folio!Quantity(ui.list, k)
      /\ R = {} => Folio!Quantity(M, s) = Folio!Quantity(ui.list, s) - Folio!QuantityIn(ui.list, s, g)
      /\ \A r \in R : Folio!Quantity(M, s) = Folio!Quantity(ui.list, s) - Folio!QuantityIn(ui.list, s, g) + r.qty
  <2>1. M = Put(ui.list, s, g, R)
    OBVIOUS
  <2> HIDE DEF M, w
  <2>2. QED
    BY <1>1, <2>1, FolioPut
<1>5. ASSUME ~ui.behind
      PROVE  (\A h \in M : h.group \in {Folio!Default} \cup ui.custom) /\ \A k \in Tickers : Folio!Quantity(M, k) = w.want[k]
  <2>1. Adds(ui)
    BY <1>5 DEF FolioOk
  <2>2. \A h \in M : h.group \in {Folio!Default} \cup ui.custom
    BY <1>5, <2>1 DEF Adds, Put
  <2>3. ASSUME NEW k \in Tickers PROVE Folio!Quantity(M, k) = w.want[k]
    <3>1. Folio!Quantity(ui.list, k) = ui.want[k] /\ ui.want[k] \in Int
      BY <1>1, <2>1 DEF Adds
    <3>2. Folio!QuantityIn(ui.list, s, g) \in Int
      BY <1>1, FolioIn
    <3>3. CASE k # s
      BY <1>1, <1>3, <1>4, <3>1, <3>3
    <3>4. CASE k = s
      <4>1. w.want[k] = ui.want[k] + n
        BY <1>1, <1>3, <3>4
      <4>2. CASE R = {}
        BY <1>4, <3>1, <3>2, <3>4, <4>1, <4>2
      <4>3. ASSUME NEW r \in R PROVE Folio!Quantity(M, k) = w.want[k]
        BY <1>4, <3>1, <3>2, <3>4, <4>1, <4>3
      <4>4. QED
        BY <4>2, <4>3
    <3>5. QED
      BY <3>3, <3>4
  <2>4. QED
    BY <2>2, <2>3
<1> HIDE DEF M, w
<1>6. FolioOk(w)
  BY <1>3, <1>4, <1>5, FolioSaved
<1>7. QED
  BY <1>6 DEF w

LEMMA FolioAdd ==
  ASSUME Folio!PortfolioAssumptions, FolioInv, NEW s \in Tickers, NEW n \in Int, NEW p \in Int, Folio!AddHolding(s, n, p)
  PROVE  FolioInv'
<1> DEFINE g == IF ui.active = Folio!All THEN Folio!Default ELSE ui.active
           here == Folio!At(ui.list, s, g)
           new == IF here = {} THEN Folio!Row(s, g, n, n * p) ELSE Folio!Blended(Folio!The(here), s, g, n, p)
           v == Folio!Saved(Put(ui.list, s, g, {new}))
<1>1. g \in Folio!Groups /\ Holds(ui.list) /\ n * p \in Int /\ (~ui.behind => g \in {Folio!Default} \cup ui.custom)
  BY DEF FolioInv, FolioOk, Adds, Folio!Groups
<1>2. ui' = [v EXCEPT !.want[s] = @ + n] /\ UNCHANGED calls
  BY DEF Folio!AddHolding, Folio!User, Put
<1>3. new \in Holding /\ new.sym = s /\ new.group = g /\ new.qty = Folio!QuantityIn(ui.list, s, g) + n
  <2>1. CASE \A h \in ui.list : h.sym # s \/ h.group # g
    <3>1. here = {} /\ Folio!QuantityIn(ui.list, s, g) = 0
      BY <1>1, <2>1, FolioIn
    <3>2. new = Folio!Row(s, g, n, n * p)
      BY <3>1
    <3> HIDE DEF new, here, g
    <3>3. QED
      BY <1>1, <3>1, <3>2, FolioRow
  <2>2. ASSUME NEW h \in ui.list, h.sym = s, h.group = g PROVE <1>3
    <3>1. here = {h} /\ Folio!QuantityIn(ui.list, s, g) = h.qty
      BY <1>1, <2>2, FolioIn
    <3>2. Folio!The({h}) = h
      BY DEF Folio!The
    <3>3. new = Folio!Row(s, g, h.qty + n, h.cost + n * p)
      BY <3>1, <3>2 DEF Folio!Blended
    <3>4. h.qty + n \in Int /\ h.cost + n * p \in Int
      BY <1>1 DEF Holds, Holding
    <3> HIDE DEF new, here, g
    <3>5. QED
      BY <1>1, <3>1, <3>3, <3>4, FolioRow
  <2>3. QED
    BY <2>1, <2>2
<1> DEFINE R == {new}
<1>4. R \in SUBSET Holding /\ (\A r \in R : r.sym = s /\ r.group = g /\ r.qty = Folio!QuantityIn(ui.list, s, g) + n)
      /\ (\A r, q \in R : r = q) /\ R # {} /\ v = Folio!Saved(Put(ui.list, s, g, R))
  BY <1>3
<1> HIDE DEF R, v, new, here, g
<1>5. FolioOk([v EXCEPT !.want[s] = @ + n])
  BY <1>1, <1>4, FolioPutSaved DEF FolioInv
<1>6. QED
  BY <1>2, <1>5, FolioKeeps DEF FolioOk, Adds

LEMMA FolioRemove ==
  ASSUME Folio!PortfolioAssumptions, FolioInv, NEW h \in ui.list, Folio!RemoveHolding(h) PROVE FolioInv'
<1> DEFINE s == h.sym
           g == h.group
           R == {}
           v == Folio!Saved(Put(ui.list, s, g, R))
           n == 0 - h.qty
<1>1. h \in Holding /\ Holds(ui.list) /\ DOMAIN ui = FolioFields /\ (~ui.behind => g \in {Folio!Default} \cup ui.custom)
  BY DEF FolioInv, FolioOk, Adds, Holds, FolioFields
<1>2. s \in Tickers /\ g \in Folio!Groups /\ n \in Int /\ h.qty \in Int
  BY <1>1 DEF Holding
<1>3. Folio!At(ui.list, s, g) = {h} /\ Folio!QuantityIn(ui.list, s, g) = h.qty
  BY <1>1, FolioIn
<1>4. v = Folio!Saved(ui.list \ {h})
  BY <1>3 DEF Put
<1>5. ui' = [v EXCEPT !.want[s] = @ + n] /\ UNCHANGED calls
  <2>1. ui' = [v EXCEPT !.want[s] = @ - h.qty] /\ UNCHANGED calls
    BY <1>4 DEF Folio!RemoveHolding, Folio!User
  <2>2. v.want = ui.want /\ ui.want[s] \in Int /\ DOMAIN v = FolioFields
    BY <1>1, <1>2 DEF Folio!Saved, FolioInv, FolioOk, FolioFields
  <2>3. v.want[s] - h.qty = v.want[s] + n
    BY <1>2, <2>2
  <2> HIDE DEF v, n, s
  <2>4. QED
    BY <2>1, <2>3
<1>6. R \in SUBSET Holding /\ (\A r \in R : r.sym = s /\ r.group = g /\ r.qty = Folio!QuantityIn(ui.list, s, g) + n) /\ (\A r, q \in R : r = q)
      /\ v = Folio!Saved(Put(ui.list, s, g, R)) /\ n = 0 - Folio!QuantityIn(ui.list, s, g)
  BY <1>3
<1> HIDE DEF v, n, s, g, R
<1>7. FolioOk([v EXCEPT !.want[s] = @ + n])
  BY <1>1, <1>2, <1>6, FolioPutSaved DEF FolioInv
<1>8. QED
  BY <1>5, <1>7, FolioKeeps DEF FolioOk, Adds

LEMMA FolioMove ==
  ASSUME Folio!PortfolioAssumptions, FolioInv, NEW h \in ui.list, NEW to \in Folio!Groups, Folio!MoveHolding(h, to) PROVE FolioInv'
<1> DEFINE s == h.sym
           g == h.group
           L == ui.list
           N == Put(L, s, g, {})
           there == Folio!At(L, s, to)
           new == IF there = {} THEN [h EXCEPT !.group = to]
                  ELSE [Folio!The(there) EXCEPT !.qty = @ + h.qty, !.cost = @ + h.cost]
           M == Put(N, s, to, {new})
           v == Folio!Saved(M)
<1>1. h \in Holding /\ Holds(L) /\ DOMAIN ui = FolioFields /\ ui.want \in [Tickers -> Int]
  BY DEF FolioInv, FolioOk, Holds, FolioFields
<1>2. s \in Tickers /\ g \in Folio!Groups /\ h.qty \in Int /\ h.cost \in Int /\ to # g
  BY <1>1 DEF Holding, Folio!MoveHolding
<1>3. Folio!At(L, s, g) = {h} /\ Folio!QuantityIn(L, s, g) = h.qty /\ Folio!QuantityIn(L, s, to) \in Int
  BY <1>1, FolioIn
<1>4. Folio!At(N, s, to) = there /\ M = (L \ ({h} \cup there)) \cup {new}
  <2>1. ASSUME NEW x PROVE x \in Folio!At(N, s, to) <=> x \in there
    BY <1>2 DEF Put, Folio!At
  <2>2. N = L \ {h}
    BY <1>3 DEF Put
  <2>3. QED
    BY <2>1, <2>2 DEF Put
<1>5. ui' = v /\ UNCHANGED calls
  BY <1>4 DEF Folio!MoveHolding, Folio!User
<1>6. new \in Holding /\ new.sym = s /\ new.group = to /\ new.qty = Folio!QuantityIn(L, s, to) + h.qty
  <2>1. CASE \A k \in L : k.sym # s \/ k.group # to
    <3>1. there = {} /\ Folio!QuantityIn(L, s, to) = 0
      BY <1>1, <2>1, FolioIn
    <3>2. new = [h EXCEPT !.group = to]
      BY <3>1
    <3>3. QED
      BY <1>1, <1>2, <3>1, <3>2 DEF Holding
  <2>2. ASSUME NEW k \in L, k.sym = s, k.group = to PROVE <1>6
    <3>1. there = {k} /\ Folio!QuantityIn(L, s, to) = k.qty
      BY <1>1, <2>2, FolioIn
    <3>2. Folio!The({k}) = k
      BY DEF Folio!The
    <3>3. new = [k EXCEPT !.qty = @ + h.qty, !.cost = @ + h.cost] /\ k \in Holding
      BY <1>1, <3>1, <3>2 DEF Holds
    <3>4. k.qty \in Int /\ k.cost \in Int /\ DOMAIN k = {"sym", "group", "qty", "cost"}
      BY <3>3 DEF Holding
    <3>5. k.qty + h.qty \in Int /\ k.cost + h.cost \in Int
      BY <1>2, <3>4
    <3>6. new = [sym |-> k.sym, group |-> k.group, qty |-> k.qty + h.qty, cost |-> k.cost + h.cost]
      BY <3>3 DEF Holding
    <3> HIDE DEF new, there, L, s, g
    <3>7. QED
      BY <1>2, <2>2, <3>1, <3>5, <3>6 DEF Holding
  <2>3. QED
    BY <2>1, <2>2
<1> HIDE DEF new
<1>7. /\ Holds(N) /\ (\A k \in Tickers : k # s => Folio!Quantity(N, k) = Folio!Quantity(L, k))
      /\ Folio!Quantity(N, s) = Folio!Quantity(L, s) - h.qty /\ Folio!QuantityIn(N, s, to) = Folio!QuantityIn(L, s, to)
  <2> DEFINE R == {}
  <2>1. N = Put(L, s, g, R) /\ R \in SUBSET Holding /\ (\A r \in R : r.sym = s /\ r.group = g) /\ (\A r, q \in R : r = q) /\ R = {}
    OBVIOUS
  <2> HIDE DEF N, R, L, s, g
  <2>2. Holds(N) /\ (\A k \in Tickers : k # s => Folio!Quantity(N, k) = Folio!Quantity(L, k))
        /\ (R = {} => Folio!Quantity(N, s) = Folio!Quantity(L, s) - Folio!QuantityIn(L, s, g))
        /\ \A e : e # g => Folio!QuantityIn(N, s, e) = Folio!QuantityIn(L, s, e)
    BY <1>1, <1>2, <2>1, FolioPut
  <2>3. QED
    BY <1>2, <1>3, <2>1, <2>2
<1>8. /\ Holds(M) /\ (\A k \in Tickers : k # s => Folio!Quantity(M, k) = Folio!Quantity(N, k))
      /\ Folio!Quantity(M, s) = Folio!Quantity(N, s) - Folio!QuantityIn(N, s, to) + new.qty
  <2> DEFINE R == {new}
  <2>1. M = Put(N, s, to, R) /\ R \in SUBSET Holding /\ (\A r \in R : r.sym = s /\ r.group = to) /\ (\A r, q \in R : r = q) /\ new \in R
    BY <1>6
  <2> HIDE DEF M, N, R, L, s, g
  <2>2. QED
    BY <1>2, <1>7, <2>1, FolioPut
<1>9. /\ DOMAIN v = FolioFields /\ v.stored = M /\ v.list = M /\ v.custom = ui.custom /\ v.active = ui.active /\ v.behind = ui.behind
      /\ v.want = ui.want
  BY <1>1 DEF Folio!Saved, FolioFields
<1>10. ASSUME ~ui.behind
       PROVE  (\A x \in M : x.group \in {Folio!Default} \cup ui.custom) /\ \A k \in Tickers : Folio!Quantity(M, k) = v.want[k]
  <2>1. Adds(ui) /\ L = ui.stored
    BY <1>10 DEF FolioInv, FolioOk, Adds
  <2>2. to \in {Folio!Default} \cup ui.custom
    BY <2>1 DEF Folio!MoveHolding, Folio!AllGroups, Adds
  <2>3. \A x \in M : x.group \in {Folio!Default} \cup ui.custom
    BY <1>6, <2>1, <2>2 DEF Adds, Put
  <2>4. ASSUME NEW k \in Tickers PROVE Folio!Quantity(M, k) = v.want[k]
    <3>1. Folio!Quantity(L, k) = ui.want[k] /\ ui.want[k] \in Int
      BY <1>1, <2>1 DEF Adds
    <3> HIDE DEF M, N, L, v
    <3>2. CASE k # s
      BY <1>7, <1>8, <1>9, <3>1, <3>2
    <3>3. CASE k = s
      BY <1>2, <1>3, <1>6, <1>7, <1>8, <1>9, <3>1, <3>3
    <3>4. QED
      BY <3>2, <3>3
  <2>5. QED
    BY <2>3, <2>4
<1> HIDE DEF M, v
<1>11. FolioOk(v)
  BY <1>1, <1>8, <1>9, <1>10, FolioSaved DEF FolioInv
<1>12. QED
  BY <1>5, <1>11, FolioKeeps DEF FolioOk, Adds

\* The groups, and what is shown of them: no row is touched.
LEMMA FolioPick ==
  ASSUME FolioInv, \/ \E g \in Folio!Groups \cup {Folio!All} : Folio!PickGroup(g)
                   \/ \E g \in Custom : Folio!CreateGroup(g) \/ Folio!DeleteGroup(g)
  PROVE  FolioInv'
<1>0. DOMAIN ui = FolioFields /\ Custom \subseteq Folio!Groups
  BY DEF FolioInv, FolioOk, FolioFields, Folio!Groups
<1>1. UNCHANGED calls
  BY DEF Folio!PickGroup, Folio!CreateGroup, Folio!DeleteGroup, Folio!User
<1>2. ASSUME NEW g \in Folio!Groups \cup {Folio!All}, Folio!PickGroup(g) PROVE FolioOk(ui')
  <2>1. ui' = [ui EXCEPT !.active = g] /\ g \in Folio!AllGroups(ui) \cup {Folio!All}
    BY <1>2 DEF Folio!PickGroup, Folio!User
  <2>2. ~ui.behind => g \in {Folio!Default, Folio!All} \cup ui.custom
    BY <2>1 DEF FolioInv, FolioOk, Adds, Folio!AllGroups
  <2>3. /\ DOMAIN ui' = FolioFields /\ ui'.stored = ui.stored /\ ui'.list = ui.list /\ ui'.custom = ui.custom /\ ui'.active = g
        /\ ui'.behind = ui.behind /\ ui'.want = ui.want
    BY <1>0, <2>1 DEF FolioFields
  <2>4. QED
    BY <2>2, <2>3 DEF FolioInv, FolioOk, Adds, FolioFields
<1>3. ASSUME NEW g \in Custom, Folio!CreateGroup(g) PROVE FolioOk(ui')
  <2>1. ui' = [ui EXCEPT !.custom = @ \cup {g}, !.active = g]
    BY <1>3 DEF Folio!CreateGroup, Folio!User
  <2>2. /\ DOMAIN ui' = FolioFields /\ ui'.stored = ui.stored /\ ui'.list = ui.list /\ ui'.custom = ui.custom \cup {g} /\ ui'.active = g
        /\ ui'.behind = ui.behind /\ ui'.want = ui.want
    BY <1>0, <2>1 DEF FolioFields
  <2>3. QED
    BY <1>0, <2>2 DEF FolioInv, FolioOk, Adds, FolioFields
<1>4. ASSUME NEW g \in Custom, Folio!DeleteGroup(g) PROVE FolioOk(ui')
  <2>1. ui' = [ui EXCEPT !.custom = @ \ {g}, !.active = Folio!All] /\ ui.active = g /\ Folio!Shown(ui) = {}
    BY <1>4 DEF Folio!DeleteGroup, Folio!User, Folio!Without
  <2>2. \A h \in ui.list : h.group # g
    BY <2>1 DEF Folio!Shown
  <2>3. /\ DOMAIN ui' = FolioFields /\ ui'.stored = ui.stored /\ ui'.list = ui.list /\ ui'.custom = ui.custom \ {g}
        /\ ui'.active = Folio!All /\ ui'.behind = ui.behind /\ ui'.want = ui.want
    BY <1>0, <2>1 DEF FolioFields
  <2>4. QED
    BY <1>0, <2>2, <2>3 DEF FolioInv, FolioOk, Adds, FolioFields
<1>5. QED
  BY <1>1, <1>2, <1>3, <1>4, FolioKeeps DEF FolioOk, Adds

\* What the broker says of one symbol.
LEMMA FolioRows ==
  ASSUME Folio!PortfolioAssumptions, NEW L, Holds(L), NEW s
  PROVE  /\ IsFiniteSet(Folio!RowsOf(L, s)) /\ Folio!RowsOf(L, s) \subseteq L /\ \A h \in Folio!RowsOf(L, s) : h.sym = s
         /\ ~Folio!Split(L, s) /\ Folio!RowsOf(L, s) # {} =>
              Folio!The(Folio!RowsOf(L, s)) \in L /\ Folio!RowsOf(L, s) = {Folio!The(Folio!RowsOf(L, s))}
<1> DEFINE rows == Folio!RowsOf(L, s)
<1>1. rows \subseteq L /\ \A h \in rows : h.sym = s
  BY DEF Folio!RowsOf
<1>2. IsFiniteSet(rows)
  <2> DEFINE f == [h \in rows |-> h.group]
  <2>1. f \in [rows -> Folio!Groups] /\ \A h, k \in rows : f[h] = f[k] => h = k
    BY <1>1 DEF Holds, Holding
  <2>2. f \in Injection(rows, Folio!Groups)
    BY <2>1 DEF Injection, IsInjective
  <2> HIDE DEF f, rows
  <2>3. QED
    BY <2>2, FolioGroups, FS_Injection
<1>3. ASSUME ~Folio!Split(L, s), rows # {} PROVE Folio!The(rows) \in L /\ rows = {Folio!The(rows)}
  <2>1. ~(Cardinality(rows) > 1)
    BY <1>3, FolioCard DEF Folio!Split
  <2> HIDE DEF rows
  <2>2. Cardinality(rows) \in Nat /\ Cardinality(rows) # 0
    BY <1>2, <1>3, FS_CardinalityType, FS_EmptySet
  <2>3. Cardinality(rows) = 1
    BY <2>1, <2>2
  <2>4. PICK h : rows = {h}
    BY <1>2, <2>3, FS_Singleton
  <2>5. Folio!The({h}) = h
    BY DEF Folio!The
  <2>6. QED
    BY <1>1, <2>4, <2>5
<1>4. QED
  BY <1>1, <1>2, <1>3

LEMMA FolioImported ==
  ASSUME Folio!PortfolioAssumptions, NEW L, Holds(L), NEW s \in Tickers, NEW n \in Int
  PROVE  /\ Holds(Folio!Imported(L, s, n)) /\ \A x \in Folio!Imported(L, s, n) : x.sym = s /\ (x.group = Folio!Default \/ \E h \in L : x.group = h.group)
         /\ n = 0 \/ Folio!Split(L, s) => Folio!Imported(L, s, n) = Folio!RowsOf(L, s)
         /\ ~(n = 0 \/ Folio!Split(L, s)) => \E x \in Holding : Folio!Imported(L, s, n) = {x} /\ x.sym = s /\ x.qty = n
<1> DEFINE rows == Folio!RowsOf(L, s)
           t == Folio!The(rows)
           N == Folio!Imported(L, s, n)
<1>1. rows \subseteq L /\ (\A h \in rows : h.sym = s) /\ Holds(rows)
  BY FolioRows DEF Holds
<1>2. CASE n = 0 \/ Folio!Split(L, s)
  BY <1>1, <1>2 DEF Folio!Imported
<1>3. CASE ~(n = 0 \/ Folio!Split(L, s)) /\ rows = {}
  <2>1. N = {Folio!Row(s, Folio!Default, n, n)} /\ Folio!Default \in Folio!Groups
    BY <1>3 DEF Folio!Imported, Folio!Groups
  <2> HIDE DEF N
  <2>2. QED
    BY <1>3, <2>1, FolioRow DEF Holds, N
<1>4. CASE ~(n = 0 \/ Folio!Split(L, s)) /\ rows # {}
  <2>1. t \in L /\ rows = {t}
    BY <1>4, FolioRows
  <2>2. N = (rows \ {t}) \cup {Folio!Row(s, t.group, n, n)}
    BY <1>4 DEF Folio!Imported
  <2>3. N = {Folio!Row(s, t.group, n, n)} /\ t.group \in Folio!Groups
    BY <2>1, <2>2 DEF Holds, Holding
  <2> HIDE DEF N, t
  <2>4. QED
    BY <1>4, <2>1, <2>3, FolioRow DEF Holds, N
<1>5. QED
  BY <1>2, <1>3, <1>4

\* Two sets with the same members are one.
LEMMA SameMembers == ASSUME NEW A, NEW B, \A x : x \in A <=> x \in B PROVE A = B
OBVIOUS

LEMMA FolioMerged ==
  ASSUME Folio!PortfolioAssumptions, NEW L, Holds(L), NEW b \in [Tickers -> Int], NEW N, N = Folio!ImportHoldings(L, b)
  PROVE  /\ Holds(N) /\ \A x \in N : x.group = Folio!Default \/ \E h \in L : x.group = h.group
         /\ \A s \in Tickers : Folio!Quantity(N, s) = IF b[s] = 0 \/ Folio!Split(L, s) THEN Folio!Quantity(L, s) ELSE b[s]
<1>1. ASSUME NEW x PROVE x \in N <=> \E s \in Tickers : x \in Folio!Imported(L, s, b[s])
  BY DEF Folio!ImportHoldings
<1>2. \A s \in Tickers : b[s] \in Int
  OBVIOUS
<1>3. ASSUME NEW s \in Tickers, NEW x PROVE x \in N /\ x.sym = s <=> x \in Folio!Imported(L, s, b[s])
  BY <1>1, <1>2, FolioImported
<1>4. Holds(N)
  <2>1. ASSUME NEW x \in N PROVE x \in Holding /\ x.sym \in Tickers /\ x \in Folio!Imported(L, x.sym, b[x.sym])
    <3>1. PICK s \in Tickers : x \in Folio!Imported(L, s, b[s])
      BY <1>1
    <3>2. x.sym = s /\ x \in Holding
      BY <1>2, <3>1, FolioImported DEF Holds
    <3>3. QED
      BY <3>1, <3>2
  <2>2. ASSUME NEW h \in N, NEW k \in N, h.sym = k.sym, h.group = k.group PROVE h = k
    <3>1. h \in Folio!Imported(L, h.sym, b[h.sym]) /\ k \in Folio!Imported(L, h.sym, b[h.sym]) /\ h.sym \in Tickers
      BY <2>1, <2>2
    <3>2. Holds(Folio!Imported(L, h.sym, b[h.sym]))
      BY <1>2, <3>1, FolioImported
    <3>3. QED
      BY <2>2, <3>1, <3>2 DEF Holds
  <2>3. QED
    BY <2>1, <2>2 DEF Holds
<1>5. \A x \in N : x.group = Folio!Default \/ \E h \in L : x.group = h.group
  BY <1>1, <1>2, FolioImported
<1>6. ASSUME NEW s \in Tickers, b[s] = 0 \/ Folio!Split(L, s) PROVE Folio!Quantity(N, s) = Folio!Quantity(L, s)
  <2>1. Folio!Imported(L, s, b[s]) = Folio!RowsOf(L, s)
    BY <1>2, <1>6, FolioImported
  <2>2. ASSUME NEW e, NEW x PROVE x \in Folio!At(N, s, e) <=> x \in Folio!At(L, s, e)
    BY <1>3, <2>1 DEF Folio!At, Folio!RowsOf
  <2>3. ASSUME NEW e \in Folio!Groups PROVE Folio!At(N, s, e) = Folio!At(L, s, e)
    <3>1. \A x : x \in Folio!At(N, s, e) <=> x \in Folio!At(L, s, e)
      BY <2>2
    <3>2. QED
      BY <3>1, SameMembers
  <2>4. QED
    BY <2>3, QuantitySame
<1>7. ASSUME NEW s \in Tickers, ~(b[s] = 0 \/ Folio!Split(L, s)) PROVE Folio!Quantity(N, s) = b[s]
  <2>1. PICK x \in Holding : Folio!Imported(L, s, b[s]) = {x} /\ x.sym = s /\ x.qty = b[s]
    BY <1>2, <1>7, FolioImported
  <2>2. x \in N /\ \A k \in N : k.sym = x.sym => k = x
    BY <1>3, <2>1
  <2>3. QED
    BY <1>4, <2>1, <2>2, QuantityOne
<1>8. QED
  BY <1>4, <1>5, <1>6, <1>7

LEMMA FolioArrive ==
  ASSUME Folio!PortfolioAssumptions, FolioInv, NEW c \in calls, NEW b \in [Tickers -> Int], Folio!HoldingsArrive(c, b) PROVE FolioInv'
<1> DEFINE N == Folio!ImportHoldings(c.list, b)
           want == [s \in Tickers |-> IF b[s] = 0 \/ Folio!Cardinality(Folio!RowsOf(ui.stored, s)) > 1 THEN ui.want[s] ELSE b[s]]
           behind == ui.behind \/ c.list # ui.stored \/ ~Folio!Mine(c)
<1>0. DOMAIN ui = FolioFields /\ ui.want \in [Tickers -> Int] /\ ui.behind \in BOOLEAN /\ ui.custom \subseteq Custom
      /\ ui.active \in Folio!Groups \cup {Folio!All} /\ Holds(ui.list)
  BY DEF FolioInv, FolioOk, FolioFields
<1>1. calls' = calls \ {c}
  BY DEF Folio!HoldingsArrive
<1>2. /\ DOMAIN ui' = FolioFields /\ ui'.stored = N /\ ui'.behind = behind /\ ui'.custom = ui.custom /\ ui'.active = ui.active
      /\ ui'.want = want /\ ui'.list = IF Folio!Mine(c) THEN N ELSE ui.list
  BY <1>0 DEF Folio!HoldingsArrive, FolioFields
<1>3. /\ Holds(N) /\ (\A x \in N : x.group = Folio!Default \/ \E h \in c.list : x.group = h.group)
      /\ \A s \in Tickers : Folio!Quantity(N, s) = IF b[s] = 0 \/ Folio!Split(c.list, s) THEN Folio!Quantity(c.list, s) ELSE b[s]
  <2>1. Holds(c.list)
    BY DEF FolioInv
  <2>2. QED
    BY <2>1, FolioMerged
<1>4. want \in [Tickers -> Int]
  BY <1>0
<1>5. ASSUME ~behind PROVE Adds(ui')
  <2>1. Adds(ui) /\ c.list = ui.stored /\ Folio!Mine(c)
    BY <1>5 DEF FolioInv, FolioOk
  <2>2. \A x \in N : x.group \in {Folio!Default} \cup ui.custom
    BY <1>3, <2>1 DEF Adds
  <2>3. ASSUME NEW s \in Tickers PROVE Folio!Quantity(N, s) = want[s]
    BY <1>3, <2>1 DEF Adds, Folio!Split
  <2> HIDE DEF N, want, behind
  <2>4. QED
    BY <1>2, <2>1, <2>2, <2>3 DEF Adds
<1>6. FolioOk(ui')
  <2> HIDE DEF N, want, behind
  <2>1. behind \in BOOLEAN
    BY DEF behind
  <2>2. QED
    BY <1>0, <1>2, <1>3, <1>4, <1>5, <2>1 DEF FolioOk, FolioFields
<1>7. QED
  BY <1>1, <1>6, FolioGone DEF FolioOk, Adds

LEMMA FolioAsk ==
  ASSUME FolioInv, Folio!BrokerSync \/ Folio!Reopen \/ \E c \in calls : Folio!SyncFails(c) PROVE FolioInv'
<1>0. DOMAIN ui = FolioFields
  BY DEF FolioInv, FolioOk, FolioFields
<1>1. CASE Folio!BrokerSync
  <2>1. /\ DOMAIN ui' = FolioFields /\ ui'.stored = ui.stored /\ ui'.list = ui.list /\ ui'.custom = ui.custom /\ ui'.active = ui.active
        /\ ui'.behind = ui.behind /\ ui'.want = ui.want
    BY <1>0, <1>1 DEF Folio!BrokerSync, FolioFields
  <2>2. \A c \in calls' : c \in calls \/ c.list = ui.list
    BY <1>1 DEF Folio!BrokerSync
  <2>3. QED
    BY <2>1, <2>2 DEF FolioInv, FolioOk, Adds, FolioFields
<1>2. CASE Folio!Reopen
  <2>1. /\ DOMAIN ui' = FolioFields /\ ui'.stored = ui.stored /\ ui'.list = ui.stored /\ ui'.custom = ui.custom /\ ui'.active = ui.active
        /\ ui'.behind = ui.behind /\ ui'.want = ui.want /\ calls' = calls
    BY <1>0, <1>2 DEF Folio!Reopen, FolioFields
  <2>2. QED
    BY <2>1 DEF FolioInv, FolioOk, Adds, FolioFields
<1>3. ASSUME NEW c \in calls, Folio!SyncFails(c) PROVE FolioInv'
  <2>1. /\ DOMAIN ui' = FolioFields /\ ui'.stored = ui.stored /\ ui'.list = ui.list /\ ui'.custom = ui.custom /\ ui'.active = ui.active
        /\ ui'.behind = ui.behind /\ ui'.want = ui.want /\ calls' = calls \ {c}
    BY <1>0, <1>3 DEF Folio!SyncFails, FolioFields
  <2>2. QED
    BY <2>1 DEF FolioInv, FolioOk, Adds, FolioFields
<1>4. QED
  BY <1>1, <1>2, <1>3

LEMMA FolioStep == ASSUME Folio!PortfolioAssumptions, FolioInv, Folio!Next PROVE FolioInv'
<1>1. ASSUME NEW s \in Tickers, NEW p \in {1, 2}, Folio!AddHolding(s, 1, p) PROVE FolioInv'
  <2>1. 1 \in Int /\ p \in Int
    OBVIOUS
  <2>2. QED
    BY <1>1, <2>1, FolioAdd
<1>2. ASSUME NEW h \in ui.list, \/ Folio!RemoveHolding(h) \/ \E g \in Folio!Groups : Folio!MoveHolding(h, g) PROVE FolioInv'
  BY <1>2, FolioRemove, FolioMove
<1>3. ASSUME NEW c \in calls, NEW b \in [Tickers -> {0, 2}], Folio!HoldingsArrive(c, b) PROVE FolioInv'
  <2>1. b \in [Tickers -> Int]
    OBVIOUS
  <2>2. QED
    BY <1>3, <2>1, FolioArrive
<1>4. QED
  BY <1>1, <1>2, <1>3, FolioPick, FolioAsk DEF Folio!Next, Folio!Of

LEMMA FolioUnchanged == ASSUME FolioInv, UNCHANGED <<ui, calls>> PROVE FolioInv'
BY DEF FolioInv, FolioOk, Adds

LEMMA FolioSound == FolioInv => Folio!NothingLost /\ Folio!PickedExists
BY DEF FolioInv, FolioOk, Adds, Holds, Folio!NothingLost, Folio!PickedExists, Folio!AllGroups

LEMMA FolioAlways == BooksSpec => [](focus = "folio" => FolioInv)
<1>0. Folio!PortfolioAssumptions
  BY BooksAssumptions
<1>1. BooksInit => (focus = "folio" => FolioInv)
  BY <1>0, FolioInit DEF BooksInit
<1>2. (focus = "folio" => FolioInv) /\ [BooksNext]_booksVars => (focus = "folio" => FolioInv)'
  <2> SUFFICES ASSUME focus = "folio" => FolioInv, [BooksNext]_booksVars, focus' = "folio" PROVE FolioInv'
    OBVIOUS
  <2>1. focus = "folio" /\ (Folio!Next \/ UNCHANGED <<ui, calls>>)
    BY DEF BooksNext, booksVars, client
  <2>2. QED
    BY <1>0, <2>1, FolioStep, FolioUnchanged
<1>3. QED
  BY <1>1, <1>2, PTL DEF BooksSpec

-------------------------------------------------------------------------------
\* The tracker's log.  Whatever list is written last, it and every list a request under way was
\* given has an id once and an open trade of a symbol once.
PaperFields == {"list", "shown", "open", "made", "mount", "sim", "acct", "busy", "asked", "settled", "orders", "behind", "trimmed"}
Logged == [id : Nat, sym : Tickers, st : {"open", "won", "lost"}]
LogOk(L, made) ==
  /\ L \in Seq(Logged) /\ (\A p \in DOMAIN L : L[p].id <= made) /\ (\A p, q \in DOMAIN L : L[p].id = L[q].id => p = q)
  /\ \A p, q \in DOMAIN L : L[p].st = "open" /\ L[q].st = "open" /\ L[p].sym = L[q].sym => p = q
Settles(L, S) == \A p \in DOMAIN L : \A r \in S : r[1] = L[p].id => r[2] = L[p].st
LogKept(u) == ~u.behind /\ ~u.trimmed => Paper!Ids(u.list) = u.asked /\ Settles(u.list, u.settled)
TrackOk(u) ==
  /\ DOMAIN u = PaperFields /\ u.made \in Nat /\ u.behind \in BOOLEAN /\ u.trimmed \in BOOLEAN
  /\ LogOk(u.list, u.made) /\ (\A r \in u.settled : r[1] \in Nat /\ r[1] <= u.made /\ r[2] \in {"won", "lost"}) /\ LogKept(u)
TrackInv == TrackOk(ui) /\ \A c \in calls : LogOk(c.list, ui.made)

LEMMA PaperTotal == ASSUME NEW f PROVE Paper!Total(f) = Total(f)
BY DEF Paper!Total, Total

LEMMA PaperPlaces == ASSUME NEW L, NEW K PROVE Paper!Places(L, K) = Places(L, K)
BY DEF Paper!Places, Places

LEMMA LogIds == ASSUME NEW L, NEW m, LogOk(L, m) PROVE \A p \in DOMAIN L : L[p] \in Logged /\ L[p].id \in Nat /\ L[p].id <= m
<1>1. L \in Seq(Logged) /\ \A p \in DOMAIN L : L[p].id <= m
  BY DEF LogOk
<1>2. \A p \in DOMAIN L : L[p] \in Logged
  BY <1>1, LenProperties
<1>3. QED
  BY <1>1, <1>2 DEF Logged

LEMMA TrackInit == ASSUME Paper!Init PROVE TrackInv
<1>1. /\ DOMAIN ui = PaperFields /\ ui.list = <<>> /\ ui.made = 0 /\ ui.behind = FALSE /\ ui.trimmed = FALSE
      /\ ui.settled = {} /\ ui.asked = {} /\ calls = {}
  BY DEF Paper!Init, PaperFields
<1>2. ui.list \in Seq(Logged) /\ DOMAIN ui.list = {}
  BY <1>1
<1>3. Paper!Ids(ui.list) = {}
  BY <1>2 DEF Paper!Ids
<1>4. LogOk(ui.list, ui.made) /\ LogKept(ui) /\ ui.behind \in BOOLEAN /\ ui.trimmed \in BOOLEAN
  BY <1>1, <1>2, <1>3 DEF LogOk, LogKept, Settles
<1>5. QED
  BY <1>1, <1>4 DEF TrackInv, TrackOk

\* Prices close trades and open none.
LEMMA TrackJudged ==
  ASSUME NEW L, NEW m, LogOk(L, m), NEW f \in [Tickers -> {"won", "lost", "none"}], NEW N, N = Paper!Reconcile(L, f)
  PROVE  /\ LogOk(N, m) /\ DOMAIN N = DOMAIN L
         /\ \A p \in DOMAIN L : /\ N[p].id = L[p].id /\ (L[p].st # "open" => N[p] = L[p])
                                /\ (N[p] # L[p] => N[p].st \in {"won", "lost"})
<1>1. L \in Seq(Logged) /\ DOMAIN L = 1..Len(L) /\ Len(L) \in Nat /\ \A p \in DOMAIN L : L[p] \in Logged
  BY LenProperties DEF LogOk
<1>2. DOMAIN N = DOMAIN L
  BY DEF Paper!Reconcile
<1>3. ASSUME NEW p \in DOMAIN L
      PROVE  /\ N[p] \in Logged /\ N[p].id = L[p].id /\ N[p].sym = L[p].sym /\ (L[p].st # "open" => N[p] = L[p])
             /\ (N[p] # L[p] => N[p].st \in {"won", "lost"})
  <2>1. N[p] = L[p] \/ (N[p] = [L[p] EXCEPT !.st = f[L[p].sym]] /\ L[p].st = "open" /\ f[L[p].sym] \in {"won", "lost"})
    BY DEF Paper!Reconcile, Paper!Judged
  <2>2. L[p] \in Logged
    BY <1>1
  <2>3. QED
    BY <2>1, <2>2 DEF Logged
<1>4. N \in Seq(Logged)
  <2>1. N = [p \in 1..Len(L) |-> N[p]]
    BY <1>1 DEF Paper!Reconcile
  <2>2. N \in [1..Len(L) -> Logged]
    BY <1>1, <1>3, <2>1
  <2>3. QED
    BY <1>1, <2>2
<1>5. QED
  BY <1>2, <1>3, <1>4 DEF LogOk

LEMMA TrackPrices ==
  ASSUME TrackInv, NEW c \in calls, NEW f \in [Tickers -> {"won", "lost", "none"}], Paper!PricesArrive(c, f) PROVE TrackInv'
<1> DEFINE N == Paper!Reconcile(c.list, f)
           hit == {p \in DOMAIN N : N[p] # c.list[p]}
<1>1. /\ LogOk(c.list, ui.made) /\ LogOk(N, ui.made) /\ DOMAIN N = DOMAIN c.list
      /\ \A p \in DOMAIN c.list : /\ N[p].id = c.list[p].id /\ (c.list[p].st # "open" => N[p] = c.list[p])
                                  /\ (N[p] # c.list[p] => N[p].st \in {"won", "lost"})
  <2>1. LogOk(c.list, ui.made)
    BY DEF TrackInv
  <2>2. QED
    BY <2>1, TrackJudged
<1>2. calls' = calls \ {c}
  BY DEF Paper!PricesArrive
<1>0. DOMAIN ui = PaperFields
  BY DEF TrackInv, TrackOk
<1>3. /\ DOMAIN ui' = PaperFields /\ ui'.made = ui.made /\ ui'.trimmed = ui.trimmed /\ ui'.asked = ui.asked
      /\ ui'.behind = (ui.behind \/ ui.list # c.list)
      /\ \/ N # c.list /\ ui'.list = N /\ ui'.settled = ui.settled \cup {<<N[p].id, N[p].st>> : p \in hit}
         \/ N = c.list /\ ui'.list = ui.list /\ ui'.settled = ui.settled
  <2>1. ui'.shown = ui'.shown
    OBVIOUS
  <2>2. QED
    BY <1>0 DEF Paper!PricesArrive, PaperFields
<1>4. \A p \in DOMAIN N : N[p].id \in Nat /\ N[p].id <= ui.made
  BY <1>1, LogIds
<1>5. ASSUME ~ui'.behind, ~ui'.trimmed, ui'.list = N, ui'.settled = ui.settled \cup {<<N[p].id, N[p].st>> : p \in hit}
      PROVE  Paper!Ids(N) = ui.asked /\ Settles(N, ui'.settled)
  <2>1. c.list = ui.list /\ Paper!Ids(ui.list) = ui.asked /\ Settles(ui.list, ui.settled)
    BY <1>3, <1>5 DEF TrackInv, TrackOk, LogKept
  <2>2. Paper!Ids(N) = Paper!Ids(c.list)
    BY <1>1 DEF Paper!Ids
  <2>3. ASSUME NEW p \in DOMAIN N, NEW r \in ui'.settled, r[1] = N[p].id PROVE r[2] = N[p].st
    <3>1. CASE r \in ui.settled
      <4>1. r[2] = c.list[p].st /\ r[2] \in {"won", "lost"}
        BY <1>1, <2>1, <2>3, <3>1 DEF Settles, TrackInv, TrackOk
      <4>2. QED
        BY <1>1, <4>1
    <3>2. ASSUME NEW q \in hit, r = <<N[q].id, N[q].st>> PROVE r[2] = N[p].st
      <4>1. q = p
        BY <1>1, <2>3, <3>2 DEF LogOk
      <4>2. QED
        BY <3>2, <4>1
    <3>3. QED
      BY <1>5, <3>1, <3>2
  <2>4. QED
    BY <2>1, <2>2, <2>3 DEF Settles
<1>6. \A r \in ui'.settled : r[1] \in Nat /\ r[1] <= ui.made /\ r[2] \in {"won", "lost"}
  <2>1. ASSUME NEW p \in hit PROVE N[p].id \in Nat /\ N[p].id <= ui.made /\ N[p].st \in {"won", "lost"}
    BY <1>1, <1>4
  <2>2. \A r \in ui.settled : r[1] \in Nat /\ r[1] <= ui.made /\ r[2] \in {"won", "lost"}
    BY DEF TrackInv, TrackOk
  <2> HIDE DEF hit, N
  <2>3. QED
    BY <1>3, <2>1, <2>2
<1> HIDE DEF hit, N
<1>7. TrackOk(ui')
  <2>1. ui'.behind \in BOOLEAN /\ ui'.trimmed \in BOOLEAN /\ ui'.made \in Nat /\ LogOk(ui'.list, ui'.made)
    BY <1>1, <1>3 DEF TrackInv, TrackOk
  <2>2. LogKept(ui')
    BY <1>3, <1>5 DEF TrackInv, TrackOk, LogKept
  <2>3. QED
    BY <1>3, <1>6, <2>1, <2>2 DEF TrackOk
<1>8. QED
  BY <1>2, <1>3, <1>7 DEF TrackInv, TrackOk, LogOk, LogKept, Settles, Paper!Ids

\* The page opens or closes.
LEMMA TrackPage == ASSUME TrackInv, Paper!OpenTracker \/ Paper!LeaveTracker PROVE TrackInv'
<1>0. DOMAIN ui = PaperFields
  BY DEF TrackInv, TrackOk
<1>1. /\ DOMAIN ui' = PaperFields /\ ui'.list = ui.list /\ ui'.made = ui.made /\ ui'.behind = ui.behind /\ ui'.trimmed = ui.trimmed
      /\ ui'.asked = ui.asked /\ ui'.settled = ui.settled /\ \A c \in calls' : c \in calls \/ c.list = ui.list
  <2>1. CASE Paper!OpenTracker
    BY <1>0, <2>1 DEF Paper!OpenTracker, PaperFields
  <2>2. CASE Paper!LeaveTracker
    BY <1>0, <2>2 DEF Paper!LeaveTracker, PaperFields
  <2>3. QED
    BY <2>1, <2>2
<1>2. QED
  BY <1>1 DEF TrackInv, TrackOk, LogOk, LogKept, Settles, Paper!Ids

\* A part of the log is as sound as the log.
LEMMA TrackPart ==
  ASSUME NEW L, NEW m, LogOk(L, m), NEW K
  PROVE  /\ LogOk(Places(L, K), m)
         /\ \A p \in DOMAIN Places(L, K) : \E q \in DOMAIN L : q \in K /\ Places(L, K)[p] = L[q]
         /\ \A q \in DOMAIN L : q \in K => \E p \in DOMAIN Places(L, K) : Places(L, K)[p] = L[q]
<1> DEFINE N == Places(L, K)
<1>1. L \in Seq(Logged) /\ \A p, q \in DOMAIN L : L[p] = L[q] => p = q
  BY DEF LogOk
<1>2. /\ N \in Seq(Logged)
      /\ \A p \in DOMAIN N : \E q \in DOMAIN L : q \in K /\ N[p] = L[q]
      /\ \A q \in DOMAIN L : q \in K => \E p \in DOMAIN N : N[p] = L[q]
      /\ \A p, q \in DOMAIN N : N[p] = N[q] => p = q
  BY <1>1, PlacesIn
<1> HIDE DEF N
<1>3. LogOk(N, m)
  <2>1. ASSUME NEW p \in DOMAIN N, NEW q \in DOMAIN N,
               N[p].id = N[q].id \/ (N[p].st = "open" /\ N[q].st = "open" /\ N[p].sym = N[q].sym)
        PROVE  p = q
    <3>1. PICK a \in DOMAIN L : N[p] = L[a]
      BY <1>2
    <3>2. PICK b \in DOMAIN L : N[q] = L[b]
      BY <1>2
    <3>3. a = b
      BY <2>1, <3>1, <3>2 DEF LogOk
    <3>4. QED
      BY <1>2, <3>1, <3>2, <3>3
  <2>2. \A p \in DOMAIN N : N[p].id <= m
    BY <1>2 DEF LogOk
  <2>3. QED
    BY <1>2, <2>1, <2>2 DEF LogOk
<1>4. QED
  BY <1>2, <1>3 DEF N

LEMMA TrackRemoved ==
  ASSUME TrackInv, NEW N, LogOk(N, ui.made), \A p \in DOMAIN N : \E q \in DOMAIN ui.list : N[p] = ui.list[q],
         ui' = Paper!Removed(N), UNCHANGED calls
  PROVE  TrackInv'
<1>0. DOMAIN ui = PaperFields
  BY DEF TrackInv, TrackOk
<1>1. /\ DOMAIN ui' = PaperFields /\ ui'.list = N /\ ui'.made = ui.made /\ ui'.behind = ui.behind /\ ui'.trimmed = ui.trimmed
      /\ ui'.asked = Paper!Ids(N) /\ ui'.settled = ui.settled
  BY <1>0 DEF Paper!Removed, PaperFields
<1>2. LogKept(ui')
  BY <1>1 DEF TrackInv, TrackOk, LogKept, Settles
<1>3. TrackOk(ui')
  BY <1>1, <1>2 DEF TrackInv, TrackOk
<1>4. QED
  BY <1>1, <1>3 DEF TrackInv, TrackOk, LogOk, LogKept, Settles, Paper!Ids

LEMMA TrackRemove ==
  ASSUME TrackInv, Paper!ClearPaperTrades \/ \E d \in Paper!Ids(ui.shown) : Paper!RemovePaperTrade(d) PROVE TrackInv'
<1>0. LogOk(ui.list, ui.made)
  BY DEF TrackInv, TrackOk
<1>1. CASE Paper!ClearPaperTrades
  <2>1. ui' = Paper!Removed(<<>>) /\ UNCHANGED calls
    BY <1>1 DEF Paper!ClearPaperTrades
  <2>2. LogOk(<<>>, ui.made) /\ DOMAIN <<>> = {}
    BY DEF LogOk
  <2>3. QED
    BY <2>1, <2>2, TrackRemoved
<1>2. ASSUME NEW d \in Paper!Ids(ui.shown), Paper!RemovePaperTrade(d) PROVE TrackInv'
  <2> DEFINE J == {p \in DOMAIN ui.list : ui.list[p].id # d}
             N == Places(ui.list, J)
  <2>1. ui' = Paper!Removed(N) /\ UNCHANGED calls
    BY <1>2, PaperPlaces DEF Paper!RemovePaperTrade
  <2> HIDE DEF J
  <2>2. LogOk(N, ui.made) /\ \A p \in DOMAIN N : \E q \in DOMAIN ui.list : N[p] = ui.list[q]
    BY <1>0, TrackPart
  <2> HIDE DEF N
  <2>3. QED
    BY <2>1, <2>2, TrackRemoved
<1>3. QED
  BY <1>1, <1>2

\* A trade put first, and the log cut to its bound.
Before(t, L) == <<t>> \o L
LEMMA TrackFirst ==
  ASSUME Cap \in Nat, NEW L, NEW m \in Nat, LogOk(L, m), NEW t \in Logged, t.id = m + 1,
         \A p \in DOMAIN L : ~(L[p].st = "open" /\ L[p].sym = t.sym), NEW N, N = Before(t, L)
  PROVE  /\ LogOk(N, m + 1) /\ LogOk(Paper!Capped(N), m + 1) /\ (Len(N) <= Cap => Paper!Capped(N) = N)
         /\ Len(N) \in Nat /\ (\E p \in DOMAIN N : N[p] = t)
         /\ (\A p \in DOMAIN N : N[p] = t \/ \E q \in DOMAIN L : N[p] = L[q]) /\ \A q \in DOMAIN L : \E p \in DOMAIN N : N[p] = L[q]
<1>1. L \in Seq(Logged) /\ <<t>> \in Seq(Logged) /\ Len(<<t>>) = 1 /\ DOMAIN L = 1..Len(L) /\ Len(L) \in Nat
  BY LenProperties DEF LogOk
<1>2. N \in Seq(Logged) /\ Len(N) = 1 + Len(L) /\ \A p \in 1..(1 + Len(L)) : N[p] = IF p <= 1 THEN t ELSE L[p - 1]
  <2>1. /\ <<t>> \o L \in Seq(Logged) /\ Len(<<t>> \o L) = Len(<<t>>) + Len(L)
        /\ \A p \in 1..(Len(<<t>>) + Len(L)) : (<<t>> \o L)[p] = IF p <= Len(<<t>>) THEN <<t>>[p] ELSE L[p - Len(<<t>>)]
    BY <1>1, ConcatProperties
  <2>a. N = <<t>> \o L
    BY DEF Before
  <2>2. \A p \in 1..(1 + Len(L)) : p <= 1 => <<t>>[p] = t
    BY <1>1
  <2>3. QED
    BY <1>1, <2>1, <2>2, <2>a
<1>3. DOMAIN N = 1..(1 + Len(L)) /\ N[1] = t /\ (\A p \in DOMAIN L : p + 1 \in DOMAIN N /\ N[p + 1] = L[p])
      /\ \A p \in DOMAIN N : p = 1 \/ (p - 1 \in DOMAIN L /\ N[p] = L[p - 1])
  <2>1. DOMAIN N = 1..(1 + Len(L))
    BY <1>2, LenProperties
  <2>2. QED
    BY <1>1, <1>2, <2>1
<1>4. LogOk(N, m + 1)
  <2>1. \A p \in DOMAIN L : L[p].id \in Nat /\ L[p].id <= m
    BY LogIds
  <2>2. \A p \in DOMAIN N : N[p].id <= m + 1
    BY <1>3, <2>1
  <2>3. ASSUME NEW p \in DOMAIN N, NEW q \in DOMAIN N, N[p].id = N[q].id \/ (N[p].st = "open" /\ N[q].st = "open" /\ N[p].sym = N[q].sym)
        PROVE  p = q
    <3>1. CASE p = 1 /\ q # 1
      BY <1>3, <2>1, <2>3, <3>1
    <3>2. CASE q = 1 /\ p # 1
      BY <1>3, <2>1, <2>3, <3>2
    <3>3. CASE p # 1 /\ q # 1
      <4>1. p - 1 \in DOMAIN L /\ q - 1 \in DOMAIN L /\ N[p] = L[p - 1] /\ N[q] = L[q - 1]
        BY <1>3, <3>3
      <4>2. p - 1 = q - 1
        BY <2>3, <4>1 DEF LogOk
      <4>3. QED
        BY <1>3, <4>2
    <3>4. QED
      BY <3>1, <3>2, <3>3
  <2>4. N \in Seq(Logged)
    BY <1>2
  <2>5. \A p, q \in DOMAIN N : N[p].id = N[q].id => p = q
    BY <2>3
  <2>6. \A p, q \in DOMAIN N : N[p].st = "open" /\ N[q].st = "open" /\ N[p].sym = N[q].sym => p = q
    BY <2>3
  <2>7. QED
    BY <2>2, <2>5, <2>6, <2>4 DEF LogOk
<1> DEFINE k == IF Len(N) < Cap THEN Len(N) ELSE Cap
           C == Paper!Capped(N)
<1>5. k \in 0..Len(N) /\ C = SubSeq(N, 1, k) /\ Len(N) \in Nat /\ (Len(N) <= Cap => k = Len(N))
  BY <1>1, <1>2 DEF Paper!Capped
<1>6. C \in Seq(Logged) /\ Len(C) = k /\ \A p \in 1..k : C[p] = N[p] /\ p \in DOMAIN N
  <2>1. k \in Int /\ 1 \in Int /\ \A p \in 1..k : N[p] \in Logged /\ p \in DOMAIN N
    BY <1>1, <1>2, <1>3, <1>5, ElementOfSeq
  <2> HIDE DEF k, C
  <2>2. /\ C \in Seq(Logged) /\ Len(C) = IF 1 <= k THEN k - 1 + 1 ELSE 0
        /\ \A p \in 1..(k - 1 + 1) : C[p] = N[1 + p - 1]
    BY <1>5, <2>1, SubSeqProperties
  <2>3. k \in Nat /\ k - 1 + 1 = k /\ \A p \in 1..k : 1 + p - 1 = p
    BY <1>5
  <2>4. QED
    BY <2>1, <2>2, <2>3
<1>7. LogOk(C, m + 1)
  <2>1. DOMAIN C = 1..k /\ \A p \in DOMAIN C : C[p] = N[p] /\ p \in DOMAIN N
    BY <1>6, LenProperties
  <2> HIDE DEF C, k
  <2>2. QED
    BY <1>4, <1>6, <2>1 DEF LogOk
<1>8. ASSUME Len(N) <= Cap PROVE C = N
  BY <1>2, <1>5, <1>8, SubSeqFull
<1>9. /\ (\E p \in DOMAIN N : N[p] = t)
      /\ (\A p \in DOMAIN N : N[p] = t \/ \E q \in DOMAIN L : N[p] = L[q]) /\ \A q \in DOMAIN L : \E p \in DOMAIN N : N[p] = L[q]
  <2>1. 1 \in DOMAIN N
    BY <1>1, <1>3
  <2>2. QED
    BY <1>3, <2>1
<1>10. QED
  BY <1>4, <1>5, <1>7, <1>8, <1>9

LEMMA TrackAdd == ASSUME Paper!PaperAssumptions, TrackInv, NEW s \in Tickers, Paper!AddPaperTrade(s) PROVE TrackInv'
<1> DEFINE L == ui.list
           held == Paper!OpenOf(L, s)
           K == Places(L, DOMAIN L \ held)
           t == [id |-> ui.made + 1, sym |-> s, st |-> "open"]
           N == Before(t, K)
<1>0. DOMAIN ui = PaperFields /\ ui.made \in Nat /\ Cap \in Nat /\ LogOk(L, ui.made)
  BY DEF TrackInv, TrackOk, Paper!PaperAssumptions
<1>1. /\ LogOk(K, ui.made)
      /\ \A p \in DOMAIN K : \E q \in DOMAIN L : q \notin held /\ K[p] = L[q]
      /\ \A q \in DOMAIN L : q \notin held => \E p \in DOMAIN K : K[p] = L[q]
  <2> DEFINE J == DOMAIN L \ held
  <2>0. K = Places(L, J) /\ \A q \in DOMAIN L : q \in J <=> q \notin held
    OBVIOUS
  <2> HIDE DEF J, L, K, held
  <2>1. /\ LogOk(K, ui.made)
        /\ \A p \in DOMAIN K : \E q \in DOMAIN L : q \in J /\ K[p] = L[q]
        /\ \A q \in DOMAIN L : q \in J => \E p \in DOMAIN K : K[p] = L[q]
    BY <1>0, <2>0, TrackPart
  <2>2. QED
    BY <2>0, <2>1
<1>2. t \in Logged /\ t.id = ui.made + 1 /\ t.sym = s /\ t.st = "open"
  BY <1>0 DEF Logged
<1>3. UNCHANGED calls /\ DOMAIN ui' = PaperFields /\ ui'.list = Paper!Capped(N) /\ ui'.made = ui.made + 1 /\ ui'.behind = ui.behind
      /\ ui'.trimmed = (ui.trimmed \/ Len(N) > Cap) /\ ui'.settled = ui.settled
      /\ ui'.asked = (ui.asked \ {L[p].id : p \in held}) \cup {t.id}
  BY <1>0, PaperPlaces DEF Paper!AddPaperTrade, Paper!GivingWay, PaperFields, Before
<1>4. \A p \in DOMAIN K : ~(K[p].st = "open" /\ K[p].sym = s)
  BY <1>1 DEF Paper!OpenOf
<1> HIDE DEF t, K
<1>5. /\ LogOk(N, ui.made + 1) /\ LogOk(Paper!Capped(N), ui.made + 1) /\ (Len(N) <= Cap => Paper!Capped(N) = N) /\ Len(N) \in Nat
      /\ (\E p \in DOMAIN N : N[p] = t)
      /\ (\A p \in DOMAIN N : N[p] = t \/ \E q \in DOMAIN K : N[p] = K[q]) /\ \A q \in DOMAIN K : \E p \in DOMAIN N : N[p] = K[q]
  <2>1. N = Before(t, K) /\ (\A p \in DOMAIN K : ~(K[p].st = "open" /\ K[p].sym = t.sym)) /\ ui.made \in Nat /\ LogOk(K, ui.made)
        /\ t \in Logged /\ t.id = ui.made + 1
    BY <1>0, <1>1, <1>2, <1>4
  <2> HIDE DEF L, N
  <2>2. QED
    BY <1>0, <2>1, TrackFirst
<1> HIDE DEF N
<1>6. ASSUME ~ui'.behind, ~ui'.trimmed PROVE Paper!Ids(ui'.list) = ui'.asked /\ Settles(ui'.list, ui'.settled)
  <2>0. ~ui.behind /\ ~ui.trimmed /\ Len(N) <= Cap
    <3>1. Len(N) \in Nat /\ Cap \in Nat /\ ~(ui.trimmed \/ Len(N) > Cap)
      BY <1>0, <1>3, <1>5, <1>6
    <3>2. QED
      BY <1>3, <1>6, <3>1
  <2>1. ui'.list = N /\ Paper!Ids(L) = ui.asked /\ Settles(L, ui.settled)
    BY <1>3, <1>5, <2>0 DEF TrackInv, TrackOk, LogKept
  <2>2. ASSUME NEW x PROVE x \in Paper!Ids(N) <=> x = t.id \/ \E q \in DOMAIN L : q \notin held /\ x = L[q].id
    <3>1. x \in Paper!Ids(N) <=> \E p \in DOMAIN N : x = N[p].id
      BY DEF Paper!Ids
    <3>2. (\E p \in DOMAIN N : x = N[p].id) <=> x = t.id \/ \E p \in DOMAIN K : x = K[p].id
      BY <1>5
    <3>3. QED
      BY <1>1, <3>1, <3>2
  <2>3. ASSUME NEW x PROVE x \in ui'.asked <=> x = t.id \/ (x \in ui.asked /\ ~\E q \in held : x = L[q].id)
    BY <1>3
  <2>4. ASSUME NEW x PROVE x \in ui.asked <=> \E q \in DOMAIN L : x = L[q].id
    BY <2>1 DEF Paper!Ids
  <2>5. held \subseteq DOMAIN L /\ \A p, q \in DOMAIN L : L[p].id = L[q].id => p = q
    BY <1>0 DEF LogOk, Paper!OpenOf
  <2>6. ASSUME NEW x PROVE x \in Paper!Ids(N) <=> x \in ui'.asked
    BY <2>2, <2>3, <2>4, <2>5
  <2>7. ASSUME NEW p \in DOMAIN N, NEW r \in ui.settled, r[1] = N[p].id PROVE r[2] = N[p].st
    <3>1. N[p] = t \/ \E q \in DOMAIN L : N[p] = L[q]
      BY <1>1, <1>5
    <3>2. r[1] \in Nat /\ r[1] <= ui.made
      BY DEF TrackInv, TrackOk
    <3>3. r[1] # t.id
      BY <1>0, <1>2, <3>2
    <3>4. QED
      BY <2>1, <2>7, <3>1, <3>3 DEF Settles
  <2>8. QED
    BY <1>3, <2>1, <2>6, <2>7 DEF Settles
<1>7. TrackOk(ui')
  <2>1. ui'.behind \in BOOLEAN /\ ui'.trimmed \in BOOLEAN /\ ui'.made \in Nat /\ LogOk(ui'.list, ui'.made)
    BY <1>0, <1>3, <1>5 DEF TrackInv, TrackOk
  <2>2. \A r \in ui'.settled : r[1] \in Nat /\ r[1] <= ui'.made /\ r[2] \in {"won", "lost"}
    <3>1. \A r \in ui.settled : r[1] \in Nat /\ r[1] <= ui.made /\ r[2] \in {"won", "lost"}
      BY DEF TrackInv, TrackOk
    <3>2. QED
      BY <1>0, <1>3, <3>1
  <2>3. QED
    BY <1>3, <1>6, <2>1, <2>2 DEF TrackOk, LogKept
<1>8. ASSUME NEW c \in calls PROVE LogOk(c.list, ui.made + 1)
  <2>1. LogOk(c.list, ui.made)
    BY DEF TrackInv
  <2>2. \A p \in DOMAIN c.list : c.list[p].id \in Nat
    <3>1. c.list \in Seq(Logged)
      BY <2>1 DEF LogOk
    <3>2. \A p \in DOMAIN c.list : c.list[p] \in Logged
      BY <3>1, LenProperties
    <3>3. QED
      BY <3>2 DEF Logged
  <2>3. QED
    BY <1>0, <2>1, <2>2 DEF LogOk
<1>9. \A c \in calls' : LogOk(c.list, ui'.made)
  BY <1>3, <1>8
<1>10. QED
  BY <1>7, <1>9 DEF TrackInv, TrackOk, LogOk, LogKept, Settles, Paper!Ids

LEMMA TrackStep == ASSUME Paper!PaperAssumptions, TrackInv, Paper!Tracker PROVE TrackInv'
BY TrackPage, TrackRemove, TrackAdd, TrackPrices DEF Paper!Tracker, Paper!Of

LEMMA TrackUnchanged == ASSUME TrackInv, UNCHANGED <<ui, calls>> PROVE TrackInv'
BY DEF TrackInv, TrackOk, LogOk, LogKept, Settles, Paper!Ids

LEMMA TrackSound == TrackInv => Paper!OneOpen /\ Paper!NothingLost
BY DEF TrackInv, TrackOk, LogOk, LogKept, Settles, Paper!OneOpen, Paper!NothingLost, Paper!OpenOf

-------------------------------------------------------------------------------
\* The simulator.  Every account there is (the one kept, the one on the page, the one each order was
\* pressed with) has its cash and its costs add up, until a log of trades ran over its bound.
Fills == [sym : Tickers, realized : Int]
Held == [qty : Nat, cost : Int]
AcctOk(a) ==
  /\ DOMAIN a = {"cash", "pos", "trades"} /\ a.cash \in Nat /\ a.pos \in [Tickers -> Held]
  /\ a.trades \in Seq(Fills) /\ Len(a.trades) <= Cap
Balanced(a) == a.cash + Paper!CostOf(a) = OpeningCash + Paper!RealizedOf(a)
SimOk(u) ==
  /\ DOMAIN u = PaperFields /\ u.behind \in BOOLEAN /\ u.trimmed \in BOOLEAN /\ u.orders \in Nat
  /\ AcctOk(u.acct) /\ AcctOk(u.sim) /\ (~u.trimmed => Balanced(u.acct) /\ Balanced(u.sim))
  /\ ~u.behind => u.sim = u.acct /\ (~u.trimmed => Len(u.acct.trades) = u.orders)
OrderOk(c, trimmed) == AcctOk(c.from) /\ c.sym \in Tickers /\ c.n \in Nat /\ (~trimmed => Balanced(c.from))
SimInv == SimOk(ui) /\ \A c \in calls : OrderOk(c, ui.trimmed)

LEMMA SimListed == ASSUME Paper!PaperAssumptions PROVE IsFiniteSet(Tickers) /\ OpeningCash \in Nat /\ Cap \in Nat /\ Prices \subseteq Nat
BY DEF Paper!PaperAssumptions, Paper!IsFiniteSet, IsFiniteSet

Costs0(a) == [s \in Tickers |-> a.pos[s].cost]
Gains(a) == [k \in DOMAIN a.trades |-> a.trades[k].realized]
LEMMA SimTotals == ASSUME NEW a PROVE Paper!CostOf(a) = Total(Costs0(a)) /\ Paper!RealizedOf(a) = Total(Gains(a))
BY PaperTotal DEF Paper!CostOf, Paper!RealizedOf, Costs0, Gains

LEMMA SimFigures ==
  ASSUME Paper!PaperAssumptions, NEW a, AcctOk(a)
  PROVE  /\ IsFiniteSet(DOMAIN Costs0(a)) /\ DOMAIN Costs0(a) = Tickers /\ (\A s \in Tickers : Costs0(a)[s] = a.pos[s].cost /\ Costs0(a)[s] \in Int)
         /\ IsFiniteSet(DOMAIN Gains(a)) /\ DOMAIN Gains(a) = 1..Len(a.trades) /\ Len(a.trades) \in Nat
         /\ (\A k \in 1..Len(a.trades) : Gains(a)[k] = a.trades[k].realized /\ Gains(a)[k] \in Int)
         /\ Paper!CostOf(a) \in Int /\ Paper!RealizedOf(a) \in Int
<1>1. DOMAIN Costs0(a) = Tickers /\ \A s \in Tickers : Costs0(a)[s] = a.pos[s].cost /\ Costs0(a)[s] \in Int
  BY DEF AcctOk, Costs0, Held
<1>2. Len(a.trades) \in Nat /\ DOMAIN a.trades = 1..Len(a.trades) /\ \A k \in 1..Len(a.trades) : a.trades[k] \in Fills
  BY LenProperties, ElementOfSeq DEF AcctOk
<1>3. DOMAIN Gains(a) = 1..Len(a.trades) /\ \A k \in 1..Len(a.trades) : Gains(a)[k] = a.trades[k].realized /\ Gains(a)[k] \in Int
  <2>1. DOMAIN Gains(a) = DOMAIN a.trades /\ \A k \in DOMAIN a.trades : Gains(a)[k] = a.trades[k].realized
    BY DEF Gains
  <2>2. \A x \in Fills : x.realized \in Int
    BY DEF Fills
  <2>3. ASSUME NEW k \in 1..Len(a.trades) PROVE Gains(a)[k] = a.trades[k].realized /\ Gains(a)[k] \in Int
    <3>1. a.trades[k] \in Fills /\ k \in DOMAIN a.trades
      BY <1>2
    <3>2. QED
      BY <2>1, <2>2, <3>1
  <2>4. QED
    BY <1>2, <2>1, <2>3
<1>4. IsFiniteSet(DOMAIN Costs0(a)) /\ IsFiniteSet(DOMAIN Gains(a))
  <2>1. 1 \in Int /\ Len(a.trades) \in Int
    BY <1>2
  <2>2. IsFiniteSet(1..Len(a.trades))
    BY <2>1, FS_Interval
  <2>3. QED
    BY <1>1, <1>3, <2>2, SimListed
<1>5. Paper!CostOf(a) \in Int /\ Paper!RealizedOf(a) \in Int
  <2>1. Total(Costs0(a)) \in Int
    BY <1>1, <1>4, TotalInt
  <2>2. \A k \in DOMAIN Gains(a) : Gains(a)[k] \in Int
    BY <1>3
  <2>3. Total(Gains(a)) \in Int
    BY <1>4, <2>2, TotalInt
  <2>4. QED
    BY <2>1, <2>3, SimTotals
<1>6. QED
  BY <1>1, <1>2, <1>3, <1>4, <1>5

LEMMA SimFresh == ASSUME Paper!PaperAssumptions PROVE AcctOk(Paper!Fresh) /\ Balanced(Paper!Fresh) /\ Len(Paper!Fresh.trades) = 0
<1>1. /\ DOMAIN Paper!Fresh = {"cash", "pos", "trades"} /\ Paper!Fresh.cash = OpeningCash /\ Paper!Fresh.trades = <<>>
      /\ Paper!Fresh.pos \in [Tickers -> Held] /\ \A s \in Tickers : Paper!Fresh.pos[s].cost = 0
  BY DEF Paper!Fresh, Paper!NoPos, Held
<1>2. AcctOk(Paper!Fresh) /\ Len(Paper!Fresh.trades) = 0
  BY <1>1, SimListed DEF AcctOk
<1>3. Total(Costs0(Paper!Fresh)) = 0
  <2>1. IsFiniteSet(DOMAIN Costs0(Paper!Fresh)) /\ \A s \in DOMAIN Costs0(Paper!Fresh) : Costs0(Paper!Fresh)[s] = 0
    BY <1>1, <1>2, SimFigures
  <2>2. QED
    BY <2>1, TotalZero
<1>4. Total(Gains(Paper!Fresh)) = 0
  <2>1. DOMAIN Gains(Paper!Fresh) = {}
    BY <1>2, SimFigures
  <2>2. QED
    BY <2>1, TotalNone
<1>5. Balanced(Paper!Fresh)
  BY <1>1, <1>3, <1>4, SimTotals, SimListed DEF Balanced
<1>6. QED
  BY <1>2, <1>5

\* A fill: one position and the cash change, one trade more is in the log.
LEMMA SimLogged ==
  ASSUME Paper!PaperAssumptions, NEW a, AcctOk(a), NEW t \in Fills, NEW b, b.trades = Paper!Log(a, t)
  PROVE  /\ b.trades \in Seq(Fills) /\ Len(b.trades) <= Cap
         /\ Len(a.trades) # Cap => /\ Len(b.trades) = Len(a.trades) + 1 /\ DOMAIN b.trades = 1..(Len(a.trades) + 1)
                                   /\ b.trades[Len(a.trades) + 1] = t /\ \A k \in 1..Len(a.trades) : b.trades[k] = a.trades[k]
<1> DEFINE S == Append(a.trades, t)
<1>0. Len(a.trades) \in Nat /\ Len(a.trades) <= Cap /\ Cap \in Nat /\ a.trades \in Seq(Fills)
  BY SimFigures, SimListed DEF AcctOk
<1>1. /\ S \in Seq(Fills) /\ Len(S) = Len(a.trades) + 1 /\ S[Len(a.trades) + 1] = t
      /\ \A k \in 1..Len(a.trades) : S[k] = a.trades[k]
  BY <1>0, AppendProperties
<1>2. b.trades = SubSeq(S, IF Len(S) > Cap THEN 2 ELSE 1, Len(S))
  BY DEF Paper!Log
<1>x. \A k \in 1..Len(S) : S[k] \in Fills
  BY <1>1, ElementOfSeq
<1> HIDE DEF S
<1>3. CASE Len(a.trades) = Cap
  <2>1. b.trades = SubSeq(S, 2, Len(S)) /\ Len(S) = Cap + 1
    BY <1>0, <1>1, <1>2, <1>3
  <2>2. 2 \in Int /\ Len(S) \in Int /\ \A k \in 2..Len(S) : S[k] \in Fills
    BY <1>0, <1>1, <1>x
  <2>3. SubSeq(S, 2, Len(S)) \in Seq(Fills) /\ Len(SubSeq(S, 2, Len(S))) = IF 2 <= Len(S) THEN Len(S) - 2 + 1 ELSE 0
    BY <2>2, SubSeqProperties
  <2>4. QED
    BY <1>0, <1>3, <2>1, <2>3
<1>4. CASE Len(a.trades) # Cap
  <2>0. Len(S) <= Cap /\ ~(Len(S) > Cap)
    <3>1. Len(S) = Len(a.trades) + 1
      BY <1>1
    <3>2. QED
      BY <1>0, <1>4, <3>1
  <2>1. b.trades = SubSeq(S, 1, Len(S)) /\ Len(S) <= Cap
    BY <1>2, <2>0
  <2>2. 1 \in Int /\ Len(S) \in Int /\ \A k \in 1..Len(S) : S[k] \in Fills
    BY <1>0, <1>1, <1>x
  <2>3. /\ SubSeq(S, 1, Len(S)) \in Seq(Fills) /\ Len(SubSeq(S, 1, Len(S))) = IF 1 <= Len(S) THEN Len(S) - 1 + 1 ELSE 0
        /\ \A k \in 1..(Len(S) - 1 + 1) : SubSeq(S, 1, Len(S))[k] = S[1 + k - 1]
    BY <2>2, SubSeqProperties
  <2>4. b.trades \in Seq(Fills) /\ Len(b.trades) = Len(S) /\ \A k \in 1..Len(S) : b.trades[k] = S[k]
    BY <1>0, <1>1, <2>1, <2>3
  <2>5. DOMAIN b.trades = 1..(Len(a.trades) + 1)
    BY <1>1, <2>4, LenProperties
  <2>6. QED
    BY <1>0, <1>1, <1>4, <2>1, <2>4, <2>5
<1>5. QED
  BY <1>3, <1>4

LEMMA SimAddsUp ==
  ASSUME NEW x \in Int, NEW y \in Int, NEW z \in Int, NEW v \in Int, NEW w \in Int, NEW g \in Int, NEW d \in Int, NEW k \in Int,
         x + y = k + z, v + w = x + d + g
  PROVE  v + (y - d + w) = k + (z + g)
OBVIOUS

FillOf(a, b, s, t) ==
  /\ DOMAIN b = {"cash", "pos", "trades"} /\ b.cash \in Nat /\ b.trades = Paper!Log(a, t)
  /\ b.pos \in [Tickers -> Held] /\ (\A x \in Tickers : x # s => b.pos[x] = a.pos[x])
  /\ b.cash + b.pos[s].cost = a.cash + a.pos[s].cost + t.realized
LEMMA SimFilled ==
  ASSUME Paper!PaperAssumptions, NEW a, AcctOk(a), NEW s \in Tickers, NEW t \in Fills, NEW b, FillOf(a, b, s, t)
  PROVE  AcctOk(b) /\ (Len(a.trades) # Cap => Len(b.trades) = Len(a.trades) + 1 /\ (Balanced(a) => Balanced(b)))
<1> DEFINE pos == b.pos[s]
           cash == b.cash
           gain == t.realized
<1>0. /\ pos \in Held /\ cash \in Nat /\ gain \in Int /\ t.realized = gain /\ DOMAIN b = {"cash", "pos", "trades"} /\ b.cash = cash
      /\ b.trades = Paper!Log(a, t) /\ b.pos \in [Tickers -> Held] /\ b.pos[s] = pos /\ (\A x \in Tickers : x # s => b.pos[x] = a.pos[x])
      /\ cash + pos.cost = a.cash + a.pos[s].cost + gain
  BY DEF FillOf, Fills
<1> HIDE DEF pos, cash, gain
<1> USE <1>0
<1>1. AcctOk(b)
  BY SimLogged DEF AcctOk
<1>2. ASSUME Len(a.trades) # Cap
      PROVE  /\ Len(b.trades) = Len(a.trades) + 1 /\ b.trades[Len(a.trades) + 1] = t /\ \A k \in 1..Len(a.trades) : b.trades[k] = a.trades[k]
  BY <1>2, SimLogged
<1>3. Paper!CostOf(b) = Paper!CostOf(a) - a.pos[s].cost + pos.cost
  <2> DEFINE f == Costs0(a)
             g == Costs0(b)
  <2>1. /\ IsFiniteSet(DOMAIN f) /\ (\A y \in DOMAIN f : f[y] \in Int) /\ s \in DOMAIN f
        /\ DOMAIN g = DOMAIN f /\ g[s] \in Int /\ (\A y \in DOMAIN f : y # s => g[y] = f[y]) /\ f[s] = a.pos[s].cost /\ g[s] = pos.cost
    <3>1. AcctOk(a) /\ AcctOk(b) /\ Paper!PaperAssumptions
      BY <1>1
    <3>2. IsFiniteSet(DOMAIN f) /\ DOMAIN f = Tickers /\ DOMAIN g = Tickers
      BY <3>1, SimFigures
    <3>3. /\ \A x \in Tickers : f[x] = a.pos[x].cost /\ f[x] \in Int
          /\ \A x \in Tickers : g[x] = b.pos[x].cost /\ g[x] \in Int
      BY <3>1, SimFigures
    <3> HIDE DEF f, g
    <3>4. QED
      BY <3>2, <3>3
  <2> HIDE DEF f, g
  <2>2. Total(g) = Total(f) - f[s] + g[s]
    BY <2>1, TotalChanged
  <2>3. QED
    BY <2>1, <2>2, SimTotals DEF f, g
<1>4. ASSUME Len(a.trades) # Cap PROVE Paper!RealizedOf(b) = Paper!RealizedOf(a) + gain
  <2> DEFINE f == Gains(b)
             g == Gains(a)
             n == Len(a.trades) + 1
  <2>1. /\ IsFiniteSet(DOMAIN f) /\ (\A y \in DOMAIN f : f[y] \in Int) /\ n \in DOMAIN f /\ f[n] = gain
        /\ DOMAIN f = 1..n /\ DOMAIN g = 1..(n - 1) /\ n \in Nat
        /\ \A y \in 1..(n - 1) : f[y] = b.trades[y].realized /\ g[y] = a.trades[y].realized /\ b.trades[y] = a.trades[y]
    <3>1. AcctOk(a) /\ AcctOk(b) /\ Paper!PaperAssumptions
      BY <1>1
    <3>2. IsFiniteSet(DOMAIN f) /\ DOMAIN f = 1..Len(b.trades) /\ DOMAIN g = 1..Len(a.trades) /\ Len(a.trades) \in Nat
      BY <3>1, SimFigures
    <3>3. /\ \A x \in 1..Len(b.trades) : f[x] = b.trades[x].realized /\ f[x] \in Int
          /\ \A x \in 1..Len(a.trades) : g[x] = a.trades[x].realized
      BY <3>1, SimFigures
    <3>4. Len(b.trades) = n /\ b.trades[n] = t /\ \A x \in 1..Len(a.trades) : b.trades[x] = a.trades[x]
      BY <1>2, <1>4
    <3>5. n = Len(a.trades) + 1
      OBVIOUS
    <3> HIDE DEF f, g, n
    <3>6. n \in Nat /\ n \in 1..n /\ n - 1 = Len(a.trades) /\ \A y \in 1..(n - 1) : y \in 1..n
      BY <3>2, <3>5
    <3>7. DOMAIN f = 1..n /\ DOMAIN g = 1..(n - 1)
      BY <3>2, <3>4, <3>6
    <3>8. f[n] = gain
      BY <1>0, <3>3, <3>4, <3>6
    <3>9. \A y \in 1..(n - 1) : f[y] = b.trades[y].realized /\ g[y] = a.trades[y].realized /\ b.trades[y] = a.trades[y]
      BY <3>3, <3>4, <3>6
    <3>10. \A y \in DOMAIN f : f[y] \in Int
      BY <3>2, <3>3
    <3>11. QED
      BY <3>2, <3>6, <3>7, <3>8, <3>9, <3>10
  <2>x. g = Gains(a) /\ f = Gains(b)
    OBVIOUS
  <2> HIDE DEF f, g, n
  <2>0. IsFiniteSet(DOMAIN f) /\ (\A y \in DOMAIN f : f[y] \in Int) /\ n \in DOMAIN f
    BY <2>1
  <2>2. DOMAIN g = DOMAIN f \ {n} /\ \A y \in DOMAIN g : g[y] = f[y]
    BY <2>1
  <2>3. Total(f) = f[n] + Total(g)
    <3>1. \A y \in DOMAIN f : f[y] \in Int
      BY <2>0
    <3>2. \A y \in DOMAIN g : g[y] = f[y]
      BY <2>2
    <3>3. IsFiniteSet(DOMAIN f) /\ n \in DOMAIN f /\ DOMAIN g = DOMAIN f \ {n}
      BY <2>0, <2>2
    <3>4. \A x \in DOMAIN f : \A h : DOMAIN h = DOMAIN f \ {x} /\ (\A y \in DOMAIN h : h[y] = f[y]) => Total(f) = f[x] + Total(h)
      BY <3>1, <3>3, TotalSums
    <3>5. DOMAIN g = DOMAIN f \ {n} /\ (\A y \in DOMAIN g : g[y] = f[y]) => Total(f) = f[n] + Total(g)
      BY <3>3, <3>4
    <3>6. QED
      BY <3>2, <3>3, <3>5
  <2>4. Total(g) = Paper!RealizedOf(a) /\ Total(f) = Paper!RealizedOf(b)
    BY <2>x, SimTotals
  <2>5. Paper!RealizedOf(a) \in Int
    BY SimFigures
  <2>6. QED
    BY <2>1, <2>3, <2>4, <2>5
<1>5. ASSUME Len(a.trades) # Cap, Balanced(a) PROVE Balanced(b)
  <2>1. /\ Paper!CostOf(a) \in Int /\ Paper!RealizedOf(a) \in Int /\ a.cash \in Int /\ a.pos[s].cost \in Int /\ pos.cost \in Int /\ OpeningCash \in Int
    <3>1. Paper!CostOf(a) \in Int /\ Paper!RealizedOf(a) \in Int
      BY SimFigures
    <3>2. a.cash \in Int /\ a.pos[s] \in Held
      BY DEF AcctOk
    <3>3. OpeningCash \in Int
      BY SimListed
    <3>4. QED
      BY <3>1, <3>2, <3>3 DEF Held
  <2>2. a.cash + Paper!CostOf(a) = OpeningCash + Paper!RealizedOf(a) /\ Paper!RealizedOf(b) = Paper!RealizedOf(a) + gain
    BY <1>4, <1>5 DEF Balanced
  <2>3. cash \in Int /\ gain \in Int /\ cash + pos.cost = a.cash + a.pos[s].cost + gain /\ b.cash = cash
    OBVIOUS
  <2>4. b.cash + Paper!CostOf(b) = OpeningCash + Paper!RealizedOf(b)
    <3>1. cash + (Paper!CostOf(a) - a.pos[s].cost + pos.cost) = OpeningCash + (Paper!RealizedOf(a) + gain)
      BY <2>1, <2>2, <2>3, SimAddsUp
    <3>2. QED
      BY <1>3, <2>2, <2>3, <3>1
  <2>5. QED
    BY <2>4 DEF Balanced
<1>6. QED
  BY <1>1, <1>2, <1>5

LEMMA SimBought ==
  ASSUME Paper!PaperAssumptions, NEW a, AcctOk(a), NEW s \in Tickers, NEW n \in Nat, NEW p \in Prices, Paper!Affords(a, n, p),
         NEW b, b = Paper!Buy(a, s, n, p)
  PROVE  AcctOk(b) /\ (Len(a.trades) # Cap => Len(b.trades) = Len(a.trades) + 1 /\ (Balanced(a) => Balanced(b)))
<1> DEFINE c == n * p
           pos == [qty |-> a.pos[s].qty + n, cost |-> a.pos[s].cost + c]
           cash == a.cash - c
           t == [sym |-> s, realized |-> 0]
<1>1. p \in Nat /\ c \in Nat /\ c <= a.cash /\ a.cash \in Nat /\ a.pos[s] \in Held /\ a.pos[s].qty \in Nat /\ a.pos[s].cost \in Int
  BY SimListed DEF AcctOk, Held, Paper!Affords
<1>2. DOMAIN a = {"cash", "pos", "trades"} /\ DOMAIN a.pos = Tickers /\ a.pos \in [Tickers -> Held]
  BY DEF AcctOk
<1>3. /\ DOMAIN b = {"cash", "pos", "trades"} /\ b.cash = cash /\ b.trades = Paper!Log(a, t)
      /\ DOMAIN b.pos = Tickers /\ b.pos[s] = pos /\ \A x \in Tickers : x # s => b.pos[x] = a.pos[x]
  BY <1>2 DEF Paper!Buy
<1>4. pos \in Held /\ cash \in Nat /\ t \in Fills /\ t.realized = 0 /\ pos.cost = a.pos[s].cost + c /\ 0 \in Int
  <2> HIDE DEF c
  <2>1. a.pos[s].qty + n \in Nat /\ a.pos[s].cost + c \in Int /\ cash \in Nat
    BY <1>1
  <2>2. QED
    BY <2>1 DEF Held, Fills
<1>5. b.pos \in [Tickers -> Held]
  <2> HIDE DEF pos
  <2>1. \A x \in Tickers : a.pos[x] \in Held
    BY <1>2
  <2>2. \A x \in Tickers : b.pos[x] \in Held
    BY <1>3, <1>4, <2>1
  <2>3. b.pos = [x \in Tickers |-> b.pos[x]]
    BY <1>3 DEF Paper!Buy
  <2>4. QED
    BY <2>2, <2>3
<1>6. cash + pos.cost = a.cash + a.pos[s].cost + 0
  <2>1. cash + (a.pos[s].cost + c) = a.cash + a.pos[s].cost + 0
    <3> HIDE DEF c
    <3>1. QED
      BY <1>1
  <2>2. QED
    BY <1>4, <2>1
<1> HIDE DEF pos, cash, t, c
<1>7. FillOf(a, b, s, t)
  BY <1>3, <1>4, <1>5, <1>6 DEF FillOf
<1>8. QED
  BY <1>4, <1>7, SimFilled

LEMMA SimSold ==
  ASSUME Paper!PaperAssumptions, NEW a, AcctOk(a), NEW s \in Tickers, NEW p \in Prices,
         NEW b, b = Paper!Sell(a, s, p)
  PROVE  AcctOk(b) /\ (Len(a.trades) # Cap => Len(b.trades) = Len(a.trades) + 1 /\ (Balanced(a) => Balanced(b)))
<1> DEFINE c == a.pos[s].qty * p
           cash == a.cash + c
           gain == c - a.pos[s].cost
           t == [sym |-> s, realized |-> gain]
<1>1. p \in Nat /\ c \in Nat /\ a.cash \in Nat /\ a.pos[s] \in Held /\ a.pos[s].qty \in Nat /\ a.pos[s].cost \in Int
  BY SimListed DEF AcctOk, Held
<1>2. DOMAIN a = {"cash", "pos", "trades"} /\ DOMAIN a.pos = Tickers /\ a.pos \in [Tickers -> Held]
  BY DEF AcctOk
<1>3. /\ DOMAIN b = {"cash", "pos", "trades"} /\ b.cash = cash /\ b.trades = Paper!Log(a, t)
      /\ DOMAIN b.pos = Tickers /\ b.pos[s] = Paper!NoPos /\ \A x \in Tickers : x # s => b.pos[x] = a.pos[x]
  BY <1>2 DEF Paper!Sell, Paper!Realized
<1>4. Paper!NoPos \in Held /\ Paper!NoPos.cost = 0 /\ cash \in Nat /\ gain \in Int /\ t \in Fills /\ t.realized = gain
  <2> HIDE DEF c
  <2>1. cash \in Nat /\ gain \in Int
    BY <1>1
  <2>2. QED
    BY <2>1 DEF Held, Fills, Paper!NoPos
<1>5. b.pos \in [Tickers -> Held]
  <2>1. \A x \in Tickers : a.pos[x] \in Held
    BY <1>2
  <2>2. \A x \in Tickers : b.pos[x] \in Held
    BY <1>3, <1>4, <2>1
  <2>3. b.pos = [x \in Tickers |-> b.pos[x]]
    BY <1>3 DEF Paper!Sell
  <2>4. QED
    BY <2>2, <2>3
<1>6. cash + Paper!NoPos.cost = a.cash + a.pos[s].cost + gain
  <2>1. cash + 0 = a.cash + a.pos[s].cost + gain
    <3> HIDE DEF c
    <3>1. QED
      BY <1>1
  <2>2. QED
    BY <1>4, <2>1
<1> HIDE DEF cash, t, gain, c
<1>7. FillOf(a, b, s, t)
  BY <1>3, <1>4, <1>5, <1>6 DEF FillOf
<1>8. QED
  BY <1>4, <1>7, SimFilled

LEMMA SimInit == ASSUME Paper!PaperAssumptions, Paper!Init PROVE SimInv
<1>1. /\ DOMAIN ui = PaperFields /\ ui.behind = FALSE /\ ui.trimmed = FALSE /\ ui.orders = 0
      /\ ui.sim = Paper!Fresh /\ ui.acct = Paper!Fresh /\ calls = {}
  BY DEF Paper!Init, PaperFields
<1>2. PICK F : F = Paper!Fresh /\ AcctOk(F) /\ Balanced(F) /\ Len(F.trades) = 0
  BY SimFresh
<1>3. SimOk(ui)
  <2>0. ui.behind \in BOOLEAN /\ ui.trimmed \in BOOLEAN
    BY <1>1
  <2>1. ui.orders \in Nat
    BY <1>1
  <2>a. ui.acct = F /\ ui.sim = F
    BY <1>1, <1>2
  <2>2. AcctOk(ui.acct) /\ AcctOk(ui.sim) /\ Balanced(ui.acct) /\ Balanced(ui.sim)
    BY <1>2, <2>a
  <2>3. ui.sim = ui.acct /\ Len(ui.acct.trades) = ui.orders
    BY <1>1, <1>2
  <2>4. QED
    BY <1>1, <2>0, <2>1, <2>2, <2>3 DEF SimOk
<1>4. QED
  BY <1>1, <1>3 DEF SimInv

\* An order's answer: the account it was pressed with, filled or not, is kept.
LEMMA SimPriced == ASSUME Paper!PaperAssumptions, SimInv, NEW c \in calls, NEW p \in Prices, Paper!OrderPriced(c, p) PROVE SimInv'
<1>0. /\ OrderOk(c, ui.trimmed) /\ DOMAIN ui = PaperFields /\ ui.behind \in BOOLEAN /\ ui.trimmed \in BOOLEAN /\ ui.orders \in Nat
      /\ AcctOk(ui.acct) /\ AcctOk(ui.sim) /\ (~ui.trimmed => Balanced(ui.acct) /\ Balanced(ui.sim))
      /\ ~ui.behind => ui.sim = ui.acct /\ (~ui.trimmed => Len(ui.acct.trades) = ui.orders)
  BY DEF SimInv, SimOk
<1>1. calls' = calls \ {c}
  BY DEF Paper!OrderPriced
<1>2. ASSUME NEW b, ui' = Paper!Filled(c, b), AcctOk(b),
             Len(c.from.trades) # Cap => Len(b.trades) = Len(c.from.trades) + 1 /\ (Balanced(c.from) => Balanced(b))
      PROVE SimInv'
  <2>1. /\ DOMAIN ui' = PaperFields /\ ui'.acct = b /\ ui'.orders = ui.orders + 1
        /\ ui'.behind = (ui.behind \/ ui.acct # c.from \/ c.mount # ui.mount)
        /\ ui'.trimmed = (ui.trimmed \/ Len(c.from.trades) = Cap)
        /\ ui'.sim = IF c.mount = ui.mount THEN b ELSE ui.sim
    BY <1>0, <1>2 DEF Paper!Filled, Paper!Freed, PaperFields
  <2>2. ui'.behind \in BOOLEAN /\ ui'.trimmed \in BOOLEAN
    BY <2>1
  <2>3. ui'.orders \in Nat /\ AcctOk(ui'.acct) /\ AcctOk(ui'.sim)
    BY <1>0, <1>2, <2>1
  <2>4. ASSUME ~ui'.trimmed PROVE ~ui.trimmed /\ Len(c.from.trades) # Cap /\ Balanced(b) /\ Len(b.trades) = Len(c.from.trades) + 1
    BY <1>0, <1>2, <2>1, <2>4 DEF OrderOk
  <2>5. ASSUME ~ui'.trimmed PROVE Balanced(ui'.acct) /\ Balanced(ui'.sim)
    BY <1>0, <2>1, <2>4, <2>5
  <2>6. ASSUME ~ui'.behind PROVE ui'.sim = ui'.acct /\ (~ui'.trimmed => Len(ui'.acct.trades) = ui'.orders)
    <3>1. ~ui.behind /\ ui.acct = c.from /\ c.mount = ui.mount
      BY <2>1, <2>6
    <3>2. ui'.sim = ui'.acct
      BY <2>1, <3>1
    <3>3. ASSUME ~ui'.trimmed PROVE Len(ui'.acct.trades) = ui'.orders
      BY <1>0, <2>1, <2>4, <3>1, <3>3
    <3>4. QED
      BY <3>2, <3>3
  <2>7. SimOk(ui')
    BY <2>1, <2>2, <2>3, <2>5, <2>6 DEF SimOk
  <2>8. \A d \in calls' : OrderOk(d, ui'.trimmed)
    <3>1. \A d \in calls : OrderOk(d, ui.trimmed)
      BY DEF SimInv
    <3>2. QED
      BY <1>1, <2>4, <3>1 DEF OrderOk
  <2>9. QED
    BY <2>7, <2>8 DEF SimInv, SimOk, OrderOk, AcctOk, Balanced
<1>3. CASE ui' = Paper!Filled(c, Paper!Sell(c.from, c.sym, p))
  BY <1>0, <1>2, <1>3, SimSold DEF OrderOk
<1>4. CASE Paper!Affords(c.from, c.n, p) /\ ui' = Paper!Filled(c, Paper!Buy(c.from, c.sym, c.n, p))
  BY <1>0, <1>2, <1>4, SimBought DEF OrderOk
<1>5. CASE ui' = Paper!Freed(IF c.mount = ui.mount THEN [ui EXCEPT !.sim = c.from, !.behind = @ \/ ui.acct # c.from] ELSE ui, c)
  <2>1. /\ DOMAIN ui' = PaperFields /\ ui'.acct = ui.acct /\ ui'.orders = ui.orders /\ ui'.trimmed = ui.trimmed
        /\ ui'.behind = (ui.behind \/ (c.mount = ui.mount /\ ui.acct # c.from))
        /\ ui'.sim = IF c.mount = ui.mount THEN c.from ELSE ui.sim
    BY <1>0, <1>5 DEF Paper!Freed, PaperFields
  <2>2. SimOk(ui')
    <3>1. ui'.behind \in BOOLEAN
      BY <2>1
    <3>2. AcctOk(ui'.sim) /\ (~ui'.trimmed => Balanced(ui'.sim))
      BY <1>0, <2>1 DEF OrderOk
    <3>3. ~ui'.behind => ui'.sim = ui'.acct
      BY <1>0, <2>1
    <3>4. QED
      BY <1>0, <2>1, <3>1, <3>2, <3>3 DEF SimOk
  <2>3. \A d \in calls' : OrderOk(d, ui'.trimmed)
    BY <1>1, <2>1 DEF SimInv
  <2>4. QED
    BY <2>2, <2>3 DEF SimInv, SimOk, OrderOk, AcctOk, Balanced
<1>6. QED
  BY <1>3, <1>4, <1>5 DEF Paper!OrderPriced

LEMMA SimPage ==
  ASSUME Paper!PaperAssumptions, SimInv, Paper!ResetSim \/ Paper!ReopenSim \/ \E c \in calls : Paper!OrderFails(c) PROVE SimInv'
<1>0. /\ DOMAIN ui = PaperFields /\ ui.behind \in BOOLEAN /\ ui.trimmed \in BOOLEAN /\ ui.orders \in Nat
      /\ AcctOk(ui.acct) /\ AcctOk(ui.sim) /\ (~ui.trimmed => Balanced(ui.acct) /\ Balanced(ui.sim))
      /\ (~ui.behind => ui.sim = ui.acct /\ (~ui.trimmed => Len(ui.acct.trades) = ui.orders))
      /\ \A d \in calls : OrderOk(d, ui.trimmed)
  BY DEF SimInv, SimOk
<1>1. CASE Paper!ResetSim
  <2>1. /\ DOMAIN ui' = PaperFields /\ ui'.acct = Paper!Fresh /\ ui'.sim = Paper!Fresh /\ ui'.orders = 0
        /\ ui'.behind = ui.behind /\ ui'.trimmed = ui.trimmed /\ calls' = calls
    BY <1>0, <1>1 DEF Paper!ResetSim, PaperFields
  <2>2. SimOk(ui') /\ \A d \in calls' : OrderOk(d, ui'.trimmed)
    BY <1>0, <2>1, SimFresh DEF SimOk
  <2>3. QED
    BY <2>2 DEF SimInv, SimOk, OrderOk, AcctOk, Balanced
<1>2. CASE Paper!ReopenSim
  <2>1. /\ DOMAIN ui' = PaperFields /\ ui'.acct = ui.acct /\ ui'.sim = ui.acct /\ ui'.orders = ui.orders
        /\ ui'.behind = ui.behind /\ ui'.trimmed = ui.trimmed /\ calls' = calls
    BY <1>0, <1>2 DEF Paper!ReopenSim, PaperFields
  <2>2. SimOk(ui') /\ \A d \in calls' : OrderOk(d, ui'.trimmed)
    BY <1>0, <2>1 DEF SimOk
  <2>3. QED
    BY <2>2 DEF SimInv, SimOk, OrderOk, AcctOk, Balanced
<1>3. ASSUME NEW c \in calls, Paper!OrderFails(c) PROVE SimInv'
  <2>1. /\ DOMAIN ui' = PaperFields /\ ui'.acct = ui.acct /\ ui'.sim = ui.sim /\ ui'.orders = ui.orders
        /\ ui'.behind = ui.behind /\ ui'.trimmed = ui.trimmed /\ calls' = calls \ {c}
    BY <1>0, <1>3 DEF Paper!OrderFails, Paper!Freed, PaperFields
  <2>2. SimOk(ui') /\ \A d \in calls' : OrderOk(d, ui'.trimmed)
    BY <1>0, <2>1 DEF SimOk
  <2>3. QED
    BY <2>2 DEF SimInv, SimOk, OrderOk, AcctOk, Balanced
<1>4. QED
  BY <1>1, <1>2, <1>3

LEMMA SimPress ==
  ASSUME Paper!PaperAssumptions, SimInv, NEW s \in Tickers, Paper!DoSell(s) \/ \E n \in {1, 2} : Paper!DoBuy(s, n) PROVE SimInv'
<1>1. PICK c : Paper!Press(c) /\ c.from = ui.sim /\ c.sym = s /\ c.n \in Nat
  <2>1. 0 \in Nat /\ 1 \in Nat /\ 2 \in Nat
    OBVIOUS
  <2>2. QED
    BY <2>1 DEF Paper!DoSell, Paper!DoBuy
<1>2. /\ DOMAIN ui = PaperFields /\ AcctOk(ui.sim) /\ (~ui.trimmed => Balanced(ui.sim)) /\ SimOk(ui)
      /\ \A d \in calls : OrderOk(d, ui.trimmed)
  BY DEF SimInv, SimOk
<1>3. /\ DOMAIN ui' = PaperFields /\ ui'.acct = ui.acct /\ ui'.sim = ui.sim /\ ui'.orders = ui.orders
      /\ ui'.behind = ui.behind /\ ui'.trimmed = ui.trimmed /\ calls' = calls \cup {c}
  BY <1>1, <1>2 DEF Paper!Press, PaperFields
<1>4. OrderOk(c, ui.trimmed)
  BY <1>1, <1>2 DEF OrderOk
<1>5. SimOk(ui') /\ \A d \in calls' : OrderOk(d, ui'.trimmed)
  <2>1. SimOk(ui')
    BY <1>2, <1>3 DEF SimOk
  <2>2. QED
    BY <1>2, <1>3, <1>4, <2>1
<1>6. QED
  BY <1>5 DEF SimInv, SimOk, OrderOk, AcctOk, Balanced

LEMMA SimStep == ASSUME Paper!PaperAssumptions, SimInv, Paper!Simulator PROVE SimInv'
BY SimPage, SimPress, SimPriced DEF Paper!Simulator, Paper!Of

LEMMA SimUnchanged == ASSUME SimInv, UNCHANGED <<ui, calls>> PROVE SimInv'
BY DEF SimInv, SimOk, OrderOk, AcctOk, Balanced, Paper!CostOf, Paper!RealizedOf

LEMMA SimSound == SimInv => Paper!BooksBalance /\ Paper!OrdersKept
BY DEF SimInv, SimOk, AcctOk, Balanced, Paper!BooksBalance, Paper!OrdersKept

LEMMA TrackAlways == BooksSpec => [](focus = "tracker" => TrackInv)
<1>0. Paper!PaperAssumptions
  BY BooksAssumptions
<1>1. BooksInit => (focus = "tracker" => TrackInv)
  BY TrackInit DEF BooksInit
<1>2. (focus = "tracker" => TrackInv) /\ [BooksNext]_booksVars => (focus = "tracker" => TrackInv)'
  BY <1>0, TrackStep, TrackUnchanged DEF BooksNext, booksVars, client
<1>3. QED
  BY <1>1, <1>2, PTL DEF BooksSpec

LEMMA SimAlways == BooksSpec => [](focus = "simulator" => SimInv)
<1>0. Paper!PaperAssumptions
  BY BooksAssumptions
<1>1. BooksInit => (focus = "simulator" => SimInv)
  BY <1>0, SimInit DEF BooksInit
<1>2. (focus = "simulator" => SimInv) /\ [BooksNext]_booksVars => (focus = "simulator" => SimInv)'
  BY <1>0, SimStep, SimUnchanged DEF BooksNext, booksVars, client
<1>3. QED
  BY <1>1, <1>2, PTL DEF BooksSpec
===============================================================================
