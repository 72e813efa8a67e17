---------------------------- MODULE ScreensProofs ----------------------------
(***************************************************************************)
(* Proofs about the client's screens that ask and show, for any companies, *)
(* universes, expiries, callers, sources, bots and bounds.  One screen is  *)
(* open in a behaviour, so each has an inductive invariant of its own: the *)
(* option desk, the panels, the stock page, the read cache, the screens    *)
(* that follow a sweep, the backtester, the dossier, the recommendation    *)
(* lists, the screener's table and its sheets.  For each screen X there    *)
(* are lemmas XInit, XStep and XHolds, and theorems put them together.     *)
(* What a device's copies of the synchronised documents keep to comes      *)
(* last, for any number of devices, edits, pulls and seconds.              *)
(***************************************************************************)
EXTENDS MCScreens, SumsProofs, DocumentSync, WellFoundedInduction, FiniteSetTheorems, TLAPS

\* The option desk.  What it promises is inductive once the fields are known.
DeskFields == DOMAIN ui = {"sym", "expiry", "chain", "legs", "overtaken", "removed"}
DeskInv == DeskFields /\ Desk!ShownIsAsked /\ Desk!LoadingIsAsked

LEMMA DeskInit == Desk!Init => DeskInv
BY DEF Desk!Init, DeskInv, DeskFields, Desk!ShownIsAsked, Desk!LoadingIsAsked, Desk!Waiting, Desk!Chain, Desk!Request

LEMMA DeskStep == ASSUME DeskInv, Desk!Next PROVE DeskInv'
<1> USE DEF DeskInv, DeskFields, Desk!ShownIsAsked, Desk!LoadingIsAsked, Desk!Waiting, Desk!Chain, Desk!Request, Desk!Act, Desk!Net
<1>1. ASSUME NEW s \in Companies, Desk!Go(s) PROVE DeskInv'
  BY <1>1 DEF Desk!Go, Desk!Load
<1>2. ASSUME NEW e, Desk!PickExpiry(e) PROVE DeskInv'
  BY <1>2 DEF Desk!PickExpiry, Desk!Load
<1>3. ASSUME NEW c \in calls, Desk!Answer(c) PROVE DeskInv'
  <2> DEFINE e == IF c.expiry = none THEN Desk!Nearest(c.of) ELSE c.expiry
             u == [ui EXCEPT !.chain = Desk!Chain("data", c.of, e), !.overtaken = @ \/ Desk!Late(c)]
  <2>1. CASE c.expiry = none /\ ui.expiry # e
    <3>1. ui' = [u EXCEPT !.expiry = e, !.chain = Desk!Waiting] /\ Desk!Request(ui.sym, e) \in calls'
      BY <1>3, <2>1 DEF Desk!Answer
    <3>2. DOMAIN ui' = DOMAIN ui /\ ui'.chain = Desk!Waiting
      BY <3>1
    <3>3. QED
      BY <3>1, <3>2
  <2>2. CASE ~(c.expiry = none /\ ui.expiry # e)
    <3>1. ui' = u
      BY <1>3, <2>2 DEF Desk!Answer
    <3>2. ~Desk!Late(c) => c.of = ui.sym /\ e = ui.expiry
      BY <2>2 DEF Desk!Late
    <3>3. QED
      BY <3>1, <3>2
  <2>3. QED
    BY <2>1, <2>2
<1>4. ASSUME NEW c \in calls, Desk!Fail(c) PROVE DeskInv'
  BY <1>4 DEF Desk!Fail, Desk!Late
<1>5. ASSUME NEW k, Desk!AddLeg(k) PROVE DeskInv'
  BY <1>5 DEF Desk!AddLeg
<1>6. ASSUME NEW i, Desk!ToggleSide(i) \/ Desk!RemoveLeg(i) PROVE DeskInv'
  BY <1>6 DEF Desk!ToggleSide, Desk!RemoveLeg
<1>7. QED
  BY <1>1, <1>2, <1>3, <1>4, <1>5, <1>6 DEF Desk!Next

\* Until one is taken away, the legs are numbered in the order they were added.
DeskLeg == [kind : {"CE", "PE"}, n : Nat, side : {"buy", "sell"}]
DeskNumbered(s) == s \in Seq(DeskLeg) /\ \A i \in DOMAIN s : s[i].n = i - 1
DeskLegs == ui.removed \/ DeskNumbered(ui.legs)
LEMMA DeskLegsInit == Desk!Init => DeskLegs
<1> SUFFICES ASSUME Desk!Init PROVE DeskLegs
  OBVIOUS
<1>1. ui.legs = <<>>
  BY DEF Desk!Init
<1>2. <<>> \in Seq(DeskLeg) /\ DOMAIN <<>> = {}
  BY EmptySeq
<1>3. QED
  BY <1>1, <1>2 DEF DeskLegs, DeskNumbered
LEMMA DeskLegsStep == ASSUME DeskFields, DeskLegs, Desk!Next PROVE DeskLegs'
<1>1. ASSUME DOMAIN ui' = DOMAIN ui, ui'.legs = ui.legs, ui'.removed = ui.removed PROVE DeskLegs'
  BY <1>1 DEF DeskLegs
<1>2. ASSUME NEW s \in Companies, Desk!Go(s) PROVE DeskLegs'
  BY <1>1, <1>2 DEF Desk!Go, Desk!Load, DeskFields
<1>3. ASSUME NEW e, Desk!PickExpiry(e) PROVE DeskLegs'
  BY <1>1, <1>3 DEF Desk!PickExpiry, Desk!Load, DeskFields
<1>4. ASSUME NEW c \in calls, Desk!Answer(c) \/ Desk!Fail(c) PROVE DeskLegs'
  <2> DEFINE o == ui.overtaken \/ Desk!Late(c)
             e == IF c.expiry = none THEN Desk!Nearest(c.of) ELSE c.expiry
             x == Desk!Chain("data", c.of, e)
             y == Desk!Chain("none", none, none)
  <2>1. \/ ui' = [[ui EXCEPT !.chain = x, !.overtaken = o] EXCEPT !.expiry = e, !.chain = Desk!Waiting]
        \/ ui' = [ui EXCEPT !.chain = x, !.overtaken = o] \/ ui' = [ui EXCEPT !.chain = y, !.overtaken = o]
    BY <1>4 DEF Desk!Answer, Desk!Fail
  <2> HIDE DEF o, e, x, y
  <2>2. QED
    BY <1>1, <2>1 DEF DeskFields
<1>5. ASSUME NEW k \in {"CE", "PE"}, Desk!AddLeg(k), DeskNumbered(ui.legs) PROVE DeskNumbered(ui'.legs)
  <2> DEFINE l == Desk!Leg(k, Len(ui.legs))
  <2>1. ui'.legs = Append(ui.legs, l)
    BY <1>5 DEF Desk!AddLeg, DeskFields
  <2>2. ui.legs \in Seq(DeskLeg) /\ Len(ui.legs) \in Nat /\ DOMAIN ui.legs = 1..Len(ui.legs)
    BY <1>5, LenProperties DEF DeskNumbered
  <2>3. l \in DeskLeg /\ l.n = Len(ui.legs)
    BY <2>2 DEF DeskLeg, Desk!Leg
  <2> DEFINE m == Append(ui.legs, l)
  <2> HIDE DEF l
  <2>4. /\ m \in Seq(DeskLeg) /\ Len(m) = Len(ui.legs) + 1 /\ DOMAIN m = 1..(Len(ui.legs) + 1)
        /\ m[Len(ui.legs) + 1] = l /\ \A i \in 1..Len(ui.legs) : m[i] = ui.legs[i]
    BY <2>2, <2>3, AppendProperties
  <2> HIDE DEF m
  <2>5. ASSUME NEW i \in DOMAIN m PROVE m[i].n = i - 1
    <3>1. CASE i = Len(ui.legs) + 1
      BY <2>2, <2>3, <2>4, <3>1
    <3>2. CASE i # Len(ui.legs) + 1
      <4>1. i \in 1..Len(ui.legs)
        BY <2>2, <2>4, <3>2
      <4>2. QED
        BY <1>5, <2>2, <2>4, <4>1 DEF DeskNumbered
    <3>3. QED
      BY <3>1, <3>2
  <2>6. QED
    BY <2>1, <2>4, <2>5 DEF m, DeskNumbered
<1>6. ASSUME NEW k \in {"CE", "PE"}, Desk!AddLeg(k) PROVE DeskLegs'
  <2>1. ui'.removed = ui.removed
    BY <1>6 DEF Desk!AddLeg, DeskFields
  <2>2. QED
    BY <1>5, <1>6, <2>1 DEF DeskLegs
<1>7. ASSUME NEW i \in DOMAIN ui.legs, Desk!ToggleSide(i) PROVE DeskLegs'
  <2> DEFINE m == [j \in DOMAIN ui.legs |-> IF Desk!Id(ui.legs[j]) = Desk!Id(ui.legs[i]) THEN Desk!Flipped(ui.legs[j]) ELSE ui.legs[j]]
  <2>1. ui'.legs = m /\ ui'.removed = ui.removed
    BY <1>7 DEF Desk!ToggleSide, DeskFields
  <2>2. ASSUME DeskNumbered(ui.legs) PROVE DeskNumbered(m)
    <3>1. ui.legs \in Seq(DeskLeg) /\ Len(ui.legs) \in Nat /\ DOMAIN ui.legs = 1..Len(ui.legs) /\ \A j \in 1..Len(ui.legs) : ui.legs[j] \in DeskLeg
      BY <2>2, LenProperties DEF DeskNumbered
    <3>2. \A l \in DeskLeg : Desk!Flipped(l) \in DeskLeg /\ Desk!Flipped(l).n = l.n
      BY DEF DeskLeg, Desk!Flipped
    <3>3. m \in [1..Len(ui.legs) -> DeskLeg] /\ \A j \in 1..Len(ui.legs) : m[j].n = ui.legs[j].n
      BY <3>1, <3>2
    <3> HIDE DEF m
    <3>4. m \in Seq(DeskLeg) /\ DOMAIN m = 1..Len(ui.legs)
      BY <3>1, <3>3
    <3>5. QED
      BY <2>2, <3>1, <3>3, <3>4 DEF DeskNumbered
  <2>3. QED
    BY <2>1, <2>2 DEF DeskLegs
<1>8. ASSUME NEW i \in DOMAIN ui.legs, Desk!RemoveLeg(i) PROVE DeskLegs'
  BY <1>8 DEF Desk!RemoveLeg, DeskFields, DeskLegs
<1>9. QED
  BY <1>2, <1>3, <1>4, <1>6, <1>7, <1>8 DEF Desk!Next
LEMMA DeskLegsHold == DeskLegs => Desk!LegsAreApart
<1> SUFFICES ASSUME DeskNumbered(ui.legs), NEW i \in DOMAIN ui.legs, NEW j \in DOMAIN ui.legs, Desk!Id(ui.legs[i]) = Desk!Id(ui.legs[j])
             PROVE  i = j
  BY DEF DeskLegs, Desk!LegsAreApart
<1>1. i \in Nat /\ j \in Nat
  BY LenProperties DEF DeskNumbered
<1>2. ui.legs[i].n = ui.legs[j].n
  BY DEF Desk!Id
<1>3. i - 1 = j - 1
  BY <1>2 DEF DeskNumbered
<1>4. QED
  BY <1>1, <1>3

-------------------------------------------------------------------------------
\* The panels.  What their table has in common: a panel that keeps its answers by subject has
\* no guard and shows something for each answer; the others clear what a new subject leaves.
LEMMA PanelKinds ==
  ASSUME NEW p \in DOMAIN Panel!Panel, NEW k, k = Panel!Panel[p]
  PROVE  /\ k.keyed \in BOOLEAN /\ k.guarded \in BOOLEAN
         /\ k.waiting # "data" /\ {k.empty, k.error, k.fail} \subseteq {"message", "nothing", "loading"}
         /\ IF k.keyed THEN ~k.guarded /\ "loading" \notin {k.empty, k.error, k.fail} ELSE k.clears
<1> USE DEF Panel!Guarded
<1>1. k \in {Panel!Checklist, Panel!Timeframes, Panel!StrategyScores, Panel!VerdictTimeframes, Panel!Verdict, Panel!DetailChart}
        \cup {Panel!StockPatterns, Panel!CorporateActions, Panel!CorporateDeals, Panel!PriceChart, Panel!Members, Panel!SymbolPivot}
        \cup {Panel!RiskReport, Panel!Holidays, Panel!Broadcasts, Panel!ServerAlerts, Panel!Community}
        \cup {Panel!IndexLevels, Panel!EntityPositions}
  BY DEF Panel!Panel
<1>2. CASE k \in {Panel!Checklist, Panel!Timeframes, Panel!StrategyScores, Panel!VerdictTimeframes, Panel!Verdict, Panel!DetailChart}
  <2>1. CASE k = Panel!Checklist
    BY <2>1 DEF Panel!Checklist
  <2>2. CASE k \in {Panel!StrategyScores, Panel!VerdictTimeframes}
    BY <2>2 DEF Panel!StrategyScores, Panel!VerdictTimeframes, Panel!Quiet
  <2>3. CASE k = Panel!Verdict
    BY <2>3 DEF Panel!Verdict, Panel!Once
  <2>4. CASE k = Panel!DetailChart
    BY <2>4 DEF Panel!DetailChart
  <2>5. CASE k = Panel!Timeframes
    BY <2>5 DEF Panel!Timeframes
  <2>6. QED
    BY <1>2, <2>1, <2>2, <2>3, <2>4, <2>5
<1>3. CASE k \in {Panel!StockPatterns, Panel!CorporateActions, Panel!CorporateDeals, Panel!PriceChart, Panel!Members, Panel!SymbolPivot}
  <2>1. CASE k = Panel!CorporateDeals
    BY <2>1 DEF Panel!CorporateDeals, Panel!Unguarded
  <2>2. CASE k = Panel!Members
    BY <2>2 DEF Panel!Members, Panel!Unguarded
  <2>3. CASE k = Panel!Unguarded
    BY <2>3 DEF Panel!Unguarded
  <2> HIDE DEF Panel!Guarded
  <2>4. QED
    BY <1>3, <2>1, <2>2, <2>3 DEF Panel!StockPatterns, Panel!CorporateActions, Panel!PriceChart, Panel!SymbolPivot
<1>4. CASE k \in {Panel!RiskReport, Panel!Holidays, Panel!Broadcasts, Panel!ServerAlerts, Panel!Community}
  <2>1. CASE k = Panel!Holidays
    BY <2>1 DEF Panel!Holidays, Panel!Once
  <2>2. CASE k = Panel!Community
    BY <2>2 DEF Panel!Community, Panel!Once
  <2>3. CASE k = Panel!RiskReport
    BY <2>3 DEF Panel!RiskReport, Panel!Once
  <2> HIDE DEF Panel!Guarded
  <2>4. Panel!Broadcasts = Panel!RiskReport /\ Panel!ServerAlerts = Panel!RiskReport
    BY DEF Panel!RiskReport, Panel!Broadcasts, Panel!ServerAlerts
  <2>5. QED
    BY <1>4, <2>1, <2>2, <2>3, <2>4
<1>5. CASE k \in {Panel!IndexLevels, Panel!EntityPositions}
  <2>1. CASE k = Panel!IndexLevels
    BY <2>1 DEF Panel!IndexLevels, Panel!Kept
  <2>2. CASE k = Panel!EntityPositions
    BY <2>2 DEF Panel!EntityPositions, Panel!Kept
  <2>3. QED
    BY <1>5, <2>1, <2>2
<1>6. QED
  BY <1>1, <1>2, <1>3, <1>4, <1>5

\* Requests are numbered, the newest is for the subject on show, and a guarded panel has no other.
PanelTypes ==
  /\ DOMAIN ui = {"panel", "subject", "of", "shown", "n", "memo", "mute", "overtaken"}
  /\ ui.panel \in DOMAIN Panel!Panel /\ ui.n \in Nat /\ ui.subject \in Companies
  /\ DOMAIN ui.memo = Companies
  /\ \A c \in calls : c.of \in Companies /\ c.n \in Nat
PanelNewest ==
  /\ \A c \in calls : c.n <= ui.n /\ (c.n = ui.n => c.of = ui.subject)
  /\ Panel!P.guarded => \A c \in calls : c.n = ui.n
PanelMemo == \A s \in Companies : ui.memo[s] # "loading"
PanelAsked ==
  ui.shown = "loading" =>
    \/ ui.mute \/ ui.overtaken
    \/ \E c \in calls : c.of = ui.subject /\ (~Panel!P.keyed => c.n = ui.n)
PanelInv == PanelTypes /\ PanelNewest /\ (Panel!P.keyed => PanelMemo) /\ Panel!ShownIsAsked /\ PanelAsked

LEMMA PanelInit == Panel!Init => PanelInv
<1> SUFFICES ASSUME NEW p \in DOMAIN Panel!Panel, NEW s \in Companies,
                    ui = [panel |-> p, subject |-> s, of |-> 0, shown |-> Panel!Panel[p].waiting, n |-> 1,
                          memo |-> [t \in Companies |-> "unasked"], mute |-> FALSE, overtaken |-> FALSE],
                    calls = {Panel!Asking(s, 1)}
             PROVE  PanelInv
  BY DEF Panel!Init
<1>1. Panel!P.waiting # "data"
  BY PanelKinds DEF Panel!P
<1>2. QED
  BY <1>1 DEF PanelInv, PanelTypes, PanelNewest, PanelMemo, PanelAsked, Panel!ShownIsAsked, Panel!Asking, Panel!P

\* A question without a memory: what is shown is cleared and the newest request is the one asked.
LEMMA PanelAsks ==
  ASSUME PanelInv, NEW s \in Companies, ~Panel!P.keyed, Panel!Ask(s)
  PROVE  PanelInv'
<1> DEFINE c0 == Panel!Asking(s, ui.n + 1)
<1> USE DEF PanelInv
<1>1. /\ calls' \subseteq calls \cup {c0} /\ c0 \in calls' /\ (Panel!P.guarded => calls' = {c0})
      /\ c0.of = s /\ c0.n = ui.n + 1
  BY DEF Panel!Ask, Panel!StillWanted, Panel!Asking
<1>2. /\ ui'.panel = ui.panel /\ ui'.subject = s /\ ui'.n = ui.n + 1 /\ ui'.memo = ui.memo
      /\ ui'.shown = Panel!P.waiting /\ DOMAIN ui' = DOMAIN ui /\ Panel!P' = Panel!P
  BY PanelKinds DEF PanelTypes, Panel!Ask, Panel!P
<1>3. PanelTypes'
  BY <1>1, <1>2 DEF PanelTypes
<1>4. PanelNewest'
  BY <1>1, <1>2 DEF PanelNewest, PanelTypes
<1>5. Panel!ShownIsAsked' /\ PanelAsked'
  BY <1>1, <1>2, PanelKinds DEF PanelTypes, Panel!ShownIsAsked, PanelAsked, Panel!P
<1>6. QED
  BY <1>2, <1>3, <1>4, <1>5

LEMMA PanelStep == ASSUME PanelInv, Panel!Next PROVE PanelInv'
<1> USE DEF PanelInv
<1>k. /\ Panel!P.keyed \in BOOLEAN /\ Panel!P.guarded \in BOOLEAN
      /\ Panel!P.keyed => ~Panel!P.guarded
  BY PanelKinds DEF PanelTypes, Panel!P
<1>1. ASSUME NEW s \in Companies, Panel!Choose(s) PROVE PanelInv'
  <2>1. CASE ~Panel!P.keyed
    BY <1>1, <2>1, PanelAsks DEF Panel!Choose
  <2>2. CASE Panel!P.keyed
    <3> DEFINE c0 == Panel!Asking(s, ui.n + 1)
    <3>1. /\ calls \subseteq calls' /\ calls' \subseteq calls \cup {c0} /\ (ui.memo[s] = "unasked" => c0 \in calls')
          /\ c0.of = s /\ c0.n = ui.n + 1
      BY <1>1, <2>2 DEF Panel!Choose, Panel!Asking, Panel!If
    <3>2. /\ ui'.panel = ui.panel /\ ui'.subject = s /\ ui'.of = s /\ ui'.n = ui.n + 1 /\ ui'.memo = ui.memo
          /\ ui'.shown = IF ui.memo[s] = "unasked" THEN "loading" ELSE ui.memo[s]
          /\ DOMAIN ui' = DOMAIN ui /\ Panel!P' = Panel!P
      BY <1>1, <2>2 DEF PanelTypes, Panel!Choose, Panel!P
    <3>3. PanelTypes' /\ PanelNewest' /\ PanelMemo'
      BY <1>k, <2>2, <3>1, <3>2 DEF PanelTypes, PanelNewest, PanelMemo
    <3>4. Panel!ShownIsAsked' /\ PanelAsked'
      BY <2>2, <3>1, <3>2 DEF PanelTypes, PanelMemo, Panel!ShownIsAsked, PanelAsked
    <3>5. QED
      BY <3>3, <3>4
  <2>3. QED
    BY <1>k, <2>1, <2>2
<1>2. ASSUME Panel!Again PROVE PanelInv'
  <2>1. CASE ~Panel!P.keyed
    BY <1>2, <2>1, PanelAsks DEF Panel!Again, PanelTypes
  <2>2. CASE Panel!P.keyed
    <3> DEFINE c0 == Panel!Asking(ui.subject, ui.n + 1)
    <3>1. calls' = calls \cup {c0} /\ c0.of = ui.subject /\ c0.n = ui.n + 1
      BY <1>2, <2>2 DEF Panel!Again, Panel!Asking
    <3>2. /\ ui'.panel = ui.panel /\ ui'.subject = ui.subject /\ ui'.of = ui.of /\ ui'.n = ui.n + 1 /\ ui'.memo = ui.memo
          /\ ui'.shown = ui.shown /\ ui'.mute = ui.mute /\ ui'.overtaken = ui.overtaken
          /\ DOMAIN ui' = DOMAIN ui /\ Panel!P' = Panel!P
      BY <1>2, <2>2 DEF PanelTypes, Panel!Again, Panel!P
    <3>3. PanelTypes' /\ PanelNewest' /\ PanelMemo'
      BY <1>k, <2>2, <3>1, <3>2 DEF PanelTypes, PanelNewest, PanelMemo
    <3>4. Panel!ShownIsAsked' /\ PanelAsked'
      BY <2>2, <3>1, <3>2 DEF PanelTypes, PanelMemo, Panel!ShownIsAsked, PanelAsked
    <3>5. QED
      BY <3>3, <3>4
  <2>3. QED
    BY <1>k, <2>1, <2>2
<1>3. ASSUME NEW c \in calls, NEW r \in {"data", "empty", "error", "fail"}, Panel!Answer(c, r) PROVE PanelInv'
  <2> DEFINE o == Panel!Outcome(r)
  <2>1. o \in {"data", "message", "nothing", "loading"} /\ (Panel!P.keyed => o # "loading")
    BY PanelKinds DEF PanelTypes, Panel!P, Panel!Outcome
  <2>2. calls' = calls \ {c} /\ c.of \in Companies /\ c.n \in Nat
    BY <1>3 DEF Panel!Answer, PanelTypes
  <2>3. CASE Panel!P.keyed
    <3> DEFINE kept == IF r = "fail" /\ ui.memo[c.of] = "data" THEN "data" ELSE o
    <3>1. /\ ui'.panel = ui.panel /\ ui'.subject = ui.subject /\ ui'.n = ui.n
          /\ ui'.mute = ui.mute /\ ui'.overtaken = ui.overtaken /\ ui'.memo = [ui.memo EXCEPT ![c.of] = kept]
          /\ ui'.shown = (IF c.of = ui.subject THEN kept ELSE ui.shown)
          /\ ui'.of = (IF c.of = ui.subject THEN c.of ELSE ui.of)
          /\ DOMAIN ui' = DOMAIN ui /\ Panel!P' = Panel!P
      BY <1>3, <2>3 DEF PanelTypes, Panel!Answer, Panel!P
    <3>2. kept # "loading"
      BY <2>1, <2>3
    <3> HIDE DEF kept, o
    <3>3. PanelTypes' /\ PanelNewest' /\ PanelMemo'
      BY <2>2, <2>3, <3>1, <3>2 DEF PanelTypes, PanelNewest, PanelMemo
    <3>4. Panel!ShownIsAsked' /\ PanelAsked'
      BY <2>2, <2>3, <3>1, <3>2 DEF PanelTypes, Panel!ShownIsAsked, PanelAsked
    <3>5. QED
      BY <3>3, <3>4
  <2>4. CASE ~Panel!P.keyed
    <3>1. /\ ui'.panel = ui.panel /\ ui'.subject = ui.subject /\ ui'.n = ui.n /\ ui'.memo = ui.memo
          /\ ui'.of = c.of /\ ui'.shown = o /\ (ui'.mute <=> o = "loading")
          /\ (ui'.overtaken <=> ui.overtaken \/ c.n # ui.n)
          /\ DOMAIN ui' = DOMAIN ui /\ Panel!P' = Panel!P
      BY <1>3, <2>4 DEF PanelTypes, Panel!Answer, Panel!P
    <3> HIDE DEF o
    <3>2. PanelTypes' /\ PanelNewest'
      BY <2>2, <3>1 DEF PanelTypes, PanelNewest
    <3>3. Panel!ShownIsAsked' /\ PanelAsked'
      BY <1>3, <2>2, <3>1 DEF PanelNewest, Panel!ShownIsAsked, PanelAsked
    <3>4. QED
      BY <2>4, <3>1, <3>2, <3>3
  <2>5. QED
    BY <1>k, <2>3, <2>4
<1>4. QED
  BY <1>1, <1>2, <1>3 DEF Panel!Next, Panel!Answers

LEMMA PanelHolds == PanelInv => Panel!ShownIsAsked /\ Panel!LoadingIsAsked
BY DEF PanelInv, PanelAsked, Panel!LoadingIsAsked

-------------------------------------------------------------------------------
\* The page of one stock.  A request that carries the page's token is for its stock.
StockTypes ==
  /\ DOMAIN ui = {"active", "token", "tab", "price", "priceOf", "label", "spine", "facts", "pat", "patOf", "recent", "overtaken"}
  /\ ui.token \in Nat /\ ui.pat \in {"none", "loading", "data"}
  /\ ui.price \in {"none", "broker", "quote", "row"}
  /\ \A c \in calls : c.token \in Nat /\ c.token <= ui.token
StockNewest == \A c \in calls : c.token = ui.token => c.of = ui.active
StockOwn ==
  /\ ui.price # "none" => ui.priceOf = ui.active
  /\ \A f \in ui.facts : f.of = ui.active
StockPatterns ==
  /\ \A c \in calls : c.kind = "patterns" => c.of = ui.active \/ ui.overtaken
  /\ ui.pat = "data" => ui.patOf = ui.active \/ ui.overtaken
  /\ ui.tab = "patterns" => ui.pat # "none"
  /\ ui.pat = "loading" => \E c \in calls : c.kind = "patterns" /\ c.of = ui.active
StockSpine == ui.spine => \E c \in calls : c.kind = "scan" /\ c.token = ui.token
StockInv == StockTypes /\ StockNewest /\ StockOwn /\ StockPatterns /\ StockSpine

LEMMA StockInit == Stock!Init => StockInv
BY DEF Stock!Init, StockInv, StockTypes, StockNewest, StockOwn, StockPatterns, StockSpine

StockSame(u) ==
  /\ DOMAIN u = DOMAIN ui /\ u.active = ui.active /\ u.token = ui.token /\ u.tab = ui.tab
  /\ u.pat = ui.pat /\ u.patOf = ui.patOf /\ u.overtaken = ui.overtaken

\* An answer: what it changes is the page's own, and nothing but itself is taken from the requests.
LEMMA StockTakes ==
  ASSUME StockInv, NEW c \in calls, c.kind # "patterns", NEW u, NEW more, Stock!Take(c, u, more),
         Stock!Fresh(c) =>
           /\ StockSame(u)
           /\ u.price # "none" => u.priceOf = ui.active
           /\ u.price \in {"none", "broker", "quote", "row"}
           /\ \A f \in u.facts : f.of = ui.active
           /\ u.spine => ui.spine /\ c.kind # "scan",
         \A d \in more : d.token = c.token /\ d.of = c.of /\ d.kind = "broker"
  PROVE  StockInv'
<1> USE DEF StockInv
<1>1. CASE Stock!Fresh(c)
  <2>1. ui' = u /\ calls' = (calls \ {c}) \cup more /\ c.token = ui.token /\ c.of = ui.active
    BY <1>1 DEF Stock!Take, Stock!Fresh, StockNewest
  <2>2. StockTypes' /\ StockNewest' /\ StockOwn'
    <3>1. StockTypes'
      BY <1>1, <2>1 DEF StockTypes, StockSame
    <3>2. StockNewest' /\ StockOwn'
      BY <1>1, <2>1 DEF StockNewest, StockOwn, StockSame
    <3>3. QED
      BY <3>1, <3>2
  <2>3. StockPatterns'
    BY <1>1, <2>1 DEF StockPatterns, StockSame
  <2>4. StockSpine'
    BY <1>1, <2>1 DEF StockSpine, StockSame
  <2>5. QED
    BY <2>2, <2>3, <2>4
<1>2. CASE ~Stock!Fresh(c)
  BY <1>2 DEF Stock!Take, Stock!Fresh, StockTypes, StockNewest, StockOwn, StockPatterns, StockSpine
<1>3. QED
  BY <1>1, <1>2

LEMMA StockFact ==
  ASSUME StockInv, NEW c \in calls, c.kind \in {"engines", "fund"}, NEW what, NEW ok \in BOOLEAN,
         Stock!Take(c, [ui EXCEPT !.facts = @ \cup Stock!If(ok, {Stock!Fact(what, c.of)})], {})
  PROVE  StockInv'
<1> DEFINE f == Stock!Fact(what, c.of)
           u == [ui EXCEPT !.facts = @ \cup Stock!If(ok, {f})]
<1> USE DEF StockInv
<1>1. Stock!Fresh(c) => f.of = ui.active
  BY DEF Stock!Fresh, Stock!Fact, StockNewest
<1> HIDE DEF f
<1>2. /\ StockSame(u) /\ u.price = ui.price /\ u.priceOf = ui.priceOf /\ u.spine = ui.spine
      /\ u.facts = ui.facts \cup Stock!If(ok, {f})
  BY DEF StockTypes, StockSame
<1>3. Stock!Take(c, u, {})
  BY DEF f
<1> HIDE DEF u
<1>4. \A g \in u.facts : Stock!Fresh(c) => g.of = ui.active
  BY <1>1, <1>2 DEF StockOwn, Stock!If
<1>5. u.price \in {"none", "broker", "quote", "row"} /\ (u.price # "none" => u.priceOf = ui.active)
  BY <1>2 DEF StockOwn, StockTypes
<1>6. /\ c.kind # "patterns"
      /\ Stock!Fresh(c) =>
           /\ StockSame(u)
           /\ u.price # "none" => u.priceOf = ui.active
           /\ u.price \in {"none", "broker", "quote", "row"}
           /\ \A g \in u.facts : g.of = ui.active
           /\ u.spine => ui.spine /\ c.kind # "scan"
  BY <1>2, <1>4, <1>5
<1>7. \A d \in {} : d.token = c.token /\ d.of = c.of /\ d.kind = "broker"
  OBVIOUS
<1> HIDE DEF StockInv
<1>8. QED
  BY <1>3, <1>6, <1>7, StockTakes

LEMMA StockStep == ASSUME StockInv, Stock!Next PROVE StockInv'
<1> USE DEF StockInv
<1>1. ASSUME NEW s \in Companies, Stock!Run(s) PROVE StockInv'
  <2> DEFINE asked == {Stock!Request(k, s, ui.token + 1) : k \in Stock!Kinds}
  <2>1. calls' = calls \cup asked
    BY <1>1 DEF Stock!Run
  <2>2. \A c \in asked : c.of = s /\ c.token = ui.token + 1 /\ c.kind # "patterns"
    BY DEF Stock!Request, Stock!Kinds
  <2>3. Stock!Request("scan", s, ui.token + 1) \in asked /\ Stock!Request("scan", s, ui.token + 1).kind = "scan"
    BY DEF Stock!Request, Stock!Kinds
  <2> DEFINE late == \E c \in Stock!Of({"patterns"}) : c.of # s
  <2>4. late <=> \E c \in calls : c.kind = "patterns" /\ c.of # s
    BY DEF Stock!Of
  <2>a. ui' = [ui EXCEPT !.active = s, !.token = @ + 1, !.tab = "overview", !.price = "none", !.priceOf = 0,
                         !.label = "delayed", !.spine = TRUE, !.facts = {}, !.pat = "none", !.patOf = 0,
                         !.recent = Stock!First(<<s>> \o SelectSeq(@, LAMBDA x : x # s), 1),
                         !.overtaken = @ \/ late]
    BY <1>1 DEF Stock!Run
  <2> HIDE DEF late
  <2>5. /\ DOMAIN ui' = DOMAIN ui /\ ui'.active = s /\ ui'.token = ui.token + 1 /\ ui'.tab = "overview"
        /\ ui'.price = "none" /\ ui'.facts = {} /\ ui'.pat = "none" /\ ui'.spine
        /\ (ui'.overtaken <=> ui.overtaken \/ late)
    BY <2>a DEF StockTypes
  <2> HIDE DEF asked
  <2>6. StockTypes' /\ StockNewest'
    BY <2>1, <2>2, <2>5 DEF StockTypes, StockNewest
  <2>7. StockOwn' /\ StockSpine'
    BY <2>1, <2>2, <2>3, <2>5 DEF StockOwn, StockSpine
  <2>8. StockPatterns'
    BY <2>1, <2>2, <2>4, <2>5 DEF StockPatterns
  <2>9. QED
    BY <2>6, <2>7, <2>8
<1>2. ASSUME NEW t, Stock!SelectTab(t) PROVE StockInv'
  <2> DEFINE asks == t = "patterns" /\ ui.pat = "none"
             c0 == Stock!Request("patterns", ui.active, ui.token)
  <2>1. /\ calls' = calls \cup (IF asks THEN {c0} ELSE {})
        /\ c0.kind = "patterns" /\ c0.of = ui.active /\ c0.token = ui.token
    BY <1>2 DEF Stock!SelectTab, Stock!If, Stock!Request
  <2>2. /\ DOMAIN ui' = DOMAIN ui /\ ui'.tab = t /\ ui'.pat = (IF asks THEN "loading" ELSE ui.pat)
        /\ ui'.active = ui.active /\ ui'.token = ui.token /\ ui'.patOf = ui.patOf /\ (ui'.overtaken <=> ui.overtaken)
        /\ ui'.price = ui.price /\ ui'.priceOf = ui.priceOf /\ ui'.facts = ui.facts /\ (ui'.spine <=> ui.spine)
    BY <1>2 DEF Stock!SelectTab, StockTypes
  <2>4. StockTypes' /\ StockNewest' /\ StockOwn'
    BY <2>1, <2>2 DEF StockTypes, StockNewest, StockOwn
  <2>5. StockPatterns'
    BY <2>1, <2>2 DEF StockTypes, StockPatterns
  <2>6. StockSpine'
    BY <2>1, <2>2 DEF StockTypes, StockSpine
  <2>7. QED
    BY <2>4, <2>5, <2>6
<1>3. ASSUME NEW c \in calls, Stock!PatternsAnswer(c) PROVE StockInv'
  <2>1. calls' = calls \ {c} /\ c.kind = "patterns"
    BY <1>3 DEF Stock!PatternsAnswer
  <2>2. /\ DOMAIN ui' = DOMAIN ui /\ ui'.pat = "data" /\ ui'.patOf = c.of
        /\ ui'.active = ui.active /\ ui'.token = ui.token /\ ui'.tab = ui.tab /\ (ui'.overtaken <=> ui.overtaken)
        /\ ui'.price = ui.price /\ ui'.priceOf = ui.priceOf /\ ui'.facts = ui.facts /\ (ui'.spine <=> ui.spine)
    BY <1>3 DEF Stock!PatternsAnswer, StockTypes
  <2>4. StockTypes' /\ StockNewest' /\ StockOwn'
    BY <2>1, <2>2 DEF StockTypes, StockNewest, StockOwn
  <2>5. StockPatterns'
    BY <2>1, <2>2 DEF StockTypes, StockPatterns
  <2>6. StockSpine'
    BY <2>1, <2>2 DEF StockTypes, StockSpine
  <2>7. QED
    BY <2>4, <2>5, <2>6
<1>4. ASSUME NEW c \in calls, NEW ok \in BOOLEAN, Stock!EnginesAnswer(c, ok) \/ Stock!FundAnswer(c, ok) PROVE StockInv'
  <2>1. CASE Stock!EnginesAnswer(c, ok)
    BY <2>1, StockFact DEF Stock!EnginesAnswer
  <2>2. CASE Stock!FundAnswer(c, ok)
    BY <2>2, StockFact DEF Stock!FundAnswer
  <2>3. QED
    BY <1>4, <2>1, <2>2
<1>5. ASSUME NEW c \in calls, NEW ok \in BOOLEAN, Stock!BrokerStatus(c, ok) PROVE StockInv'
  <2>1. \A d \in Stock!If(ok, {Stock!Request("broker", c.of, c.token)}) : d.token = c.token /\ d.of = c.of /\ d.kind = "broker"
    BY DEF Stock!If, Stock!Request
  <2> DEFINE more == Stock!If(ok, {Stock!Request("broker", c.of, c.token)})
  <2>2. Stock!Take(c, ui, more) /\ c.kind = "status"
    BY <1>5 DEF Stock!BrokerStatus
  <2>3. StockSame(ui)
    BY DEF StockSame
  <2> HIDE DEF more
  <2>4. QED
    BY <2>1, <2>2, <2>3, StockTakes DEF StockOwn, StockTypes, more
<1>6. ASSUME NEW c \in calls, NEW ok \in BOOLEAN, Stock!BrokerAnswer(c, ok) PROVE StockInv'
  <2> DEFINE u == IF ok THEN [ui EXCEPT !.price = "broker", !.priceOf = c.of, !.label = "LIVE"] ELSE ui
  <2>1. Stock!Fresh(c) => c.of = ui.active
    BY DEF Stock!Fresh, StockNewest
  <2>2. /\ StockSame(u) /\ u.facts = ui.facts /\ u.spine = ui.spine
        /\ u.price \in {"none", "broker", "quote", "row"}
        /\ u.price # "none" => u.priceOf = c.of \/ (ui.price # "none" /\ u.priceOf = ui.priceOf)
    BY DEF StockTypes, StockSame
  <2>3. Stock!Take(c, u, {}) /\ c.kind = "broker"
    BY <1>6 DEF Stock!BrokerAnswer
  <2> HIDE DEF u
  <2>4. QED
    BY <2>1, <2>2, <2>3, StockTakes DEF StockOwn, StockTypes
<1>7. ASSUME NEW c \in calls, NEW ok \in BOOLEAN, Stock!LtpAnswer(c, ok) PROVE StockInv'
  <2> DEFINE u == IF ~ok THEN ui ELSE [ui EXCEPT !.spine = FALSE, !.price = IF @ = "none" THEN "quote" ELSE @,
                                                 !.priceOf = IF ui.price = "none" THEN c.of ELSE @]
  <2>1. Stock!Fresh(c) => c.of = ui.active
    BY DEF Stock!Fresh, StockNewest
  <2>2. /\ StockSame(u) /\ u.facts = ui.facts
        /\ u.price \in {"none", "broker", "quote", "row"}
        /\ u.price # "none" => u.priceOf = c.of \/ (ui.price # "none" /\ u.priceOf = ui.priceOf)
        /\ u.spine => ui.spine
    BY DEF StockTypes, StockSame
  <2>3. Stock!Take(c, u, {}) /\ c.kind = "ltp"
    BY <1>7 DEF Stock!LtpAnswer
  <2> HIDE DEF u
  <2>4. QED
    BY <2>1, <2>2, <2>3, StockTakes DEF StockOwn, StockTypes
<1>8. ASSUME NEW c \in calls, NEW ok \in BOOLEAN, Stock!ScanAnswer(c, ok) PROVE StockInv'
  <2> DEFINE u == [ui EXCEPT !.spine = FALSE, !.price = IF ok THEN "row" ELSE @, !.priceOf = IF ok THEN c.of ELSE @]
  <2>1. Stock!Fresh(c) => c.of = ui.active
    BY DEF Stock!Fresh, StockNewest
  <2>2. /\ StockSame(u) /\ u.facts = ui.facts
        /\ u.price \in {"none", "broker", "quote", "row"}
        /\ u.price # "none" => u.priceOf = c.of \/ (ui.price # "none" /\ u.priceOf = ui.priceOf)
        /\ ~u.spine
    BY DEF StockTypes, StockSame
  <2>3. Stock!Take(c, u, {}) /\ c.kind = "scan"
    BY <1>8 DEF Stock!ScanAnswer
  <2> HIDE DEF u
  <2>4. QED
    BY <2>1, <2>2, <2>3, StockTakes DEF StockOwn, StockTypes
<1>9. QED
  BY <1>1, <1>2, <1>3, <1>4, <1>5, <1>6, <1>7, <1>8 DEF Stock!Next

LEMMA StockHolds == StockInv => Stock!ShownIsAsked /\ Stock!LoadingIsAsked
BY DEF StockInv, StockTypes, StockOwn, StockPatterns, StockSpine, Stock!ShownIsAsked, Stock!LoadingIsAsked,
       Stock!Spine, Stock!Body, Stock!Of

-------------------------------------------------------------------------------
\* The read cache.  Memory is behind the disk and the disk behind the server; there is at most one
\* request, and what it has been answered is no older than the disk.
CacheTypes ==
  /\ DOMAIN ui = {"version", "mem", "disk", "hydrated", "got"}
  /\ DOMAIN ui.mem = {"v", "age"} /\ DOMAIN ui.disk = {"v", "age"}
  /\ ui.version \in Nat /\ ui.mem.v \in Nat /\ ui.disk.v \in Nat
CacheOrder == ui.mem.v <= ui.disk.v /\ ui.disk.v <= ui.version
CacheReads == \A r \in calls : r.kind = "read" => DOMAIN r.entry = {"v", "age"} /\ r.entry.v \in Nat /\ r.entry.v <= ui.disk.v
CacheGets == \A g \in calls : g.kind = "get" => g.v \in Nat /\ g.v <= ui.version /\ (g.v > 0 => g.v >= ui.disk.v)
CacheAlone == \A g, h \in calls : g.kind = "get" /\ h.kind = "get" => g = h
CacheWaits == \A w \in calls : w.kind = "wait" => \E g \in calls : g.kind = "get"
CacheInv == CacheTypes /\ CacheOrder /\ CacheReads /\ CacheGets /\ CacheAlone /\ CacheWaits

LEMMA CacheInit == Cache!Init => CacheInv
BY DEF Cache!Init, Cache!Absent, CacheInv, CacheTypes, CacheOrder, CacheReads, CacheGets, CacheAlone, CacheWaits

\* A shared request is added only where there is none.
LEMMA CacheShared ==
  /\ \A g \in Cache!Shared : g = Cache!Unsent /\ \A h \in calls : h.kind # "get"
  /\ Cache!Unsent \in Cache!Shared \/ \E g \in calls : g.kind = "get"
  /\ Cache!Unsent.kind = "get" /\ Cache!Unsent.v = 0
BY DEF Cache!Shared, Cache!Of, Cache!If, Cache!Unsent

\* Joining a request, or sending it, keeps it the only one.
LEMMA CacheSends ==
  ASSUME CacheInv, NEW u, NEW more, NEW rest,
         DOMAIN u = DOMAIN ui, u.version = ui.version, u.disk = ui.disk,
         DOMAIN u.mem = {"v", "age"}, u.mem.v \in Nat, u.mem.v <= ui.disk.v,
         rest \subseteq calls, \A c \in calls \ rest : c.kind = "read",
         \A w \in more : w.kind = "wait",
         ui' = u, calls' = rest \cup Cache!Shared \cup more
  PROVE  CacheInv'
<1> USE DEF CacheInv
<1>1. CacheTypes' /\ CacheOrder'
  BY DEF CacheTypes, CacheOrder
<1>2. \A c \in calls' : \/ c \in calls
                        \/ c = Cache!Unsent /\ c.kind = "get" /\ c.v = 0 /\ \A h \in calls : h.kind # "get"
                        \/ c.kind = "wait"
  BY CacheShared
<1>3. CacheReads' /\ CacheGets'
  BY <1>2 DEF CacheReads, CacheGets, CacheTypes
<1>4. CacheAlone'
  BY <1>2 DEF CacheAlone
<1>5. \E g \in calls' : g.kind = "get"
  BY CacheShared
<1>6. QED
  BY <1>1, <1>3, <1>4, <1>5 DEF CacheWaits

\* swr, once the disk was read.
LEMMA CacheServe ==
  ASSUME CacheInv, NEW u, NEW c, NEW rest,
         DOMAIN u = DOMAIN ui, u.version = ui.version, u.disk = ui.disk,
         DOMAIN u.mem = {"v", "age"}, u.mem.v \in Nat, u.mem.v <= ui.disk.v,
         rest \subseteq calls, \A d \in calls \ rest : d.kind = "read",
         Cache!Serve(u, c, rest)
  PROVE  CacheInv' /\ ui'.mem = u.mem
<1> USE DEF CacheInv
<1> DEFINE g == Cache!Give(u, c, u.mem.v)
<1>1. /\ DOMAIN g = DOMAIN ui /\ g.version = ui.version /\ g.disk = ui.disk /\ g.mem = u.mem
  BY DEF Cache!Give, CacheTypes
<1>2. CASE Cache!Usable(u.mem)
  <2>1. ui' = g
    BY <1>2 DEF Cache!Serve
  <2>2. CASE u.mem.age = "stale"
    <3>1. calls' = rest \cup Cache!Shared \cup {}
      BY <1>2, <2>2 DEF Cache!Serve, Cache!If
    <3> HIDE DEF g
    <3> DEFINE m == {}
    <3>2. calls' = rest \cup Cache!Shared \cup m /\ \A w \in m : w.kind = "wait"
      BY <3>1
    <3> HIDE DEF m
    <3>3. CacheInv'
      BY <1>1, <2>1, <3>2, CacheSends
    <3>4. QED
      BY <1>1, <2>1, <3>3
  <2>3. CASE u.mem.age # "stale"
    <3>1. calls' = rest
      BY <1>2, <2>3 DEF Cache!Serve, Cache!If
    <3> HIDE DEF g
    <3>2. CacheTypes' /\ CacheOrder' /\ CacheReads' /\ CacheGets' /\ CacheAlone'
      BY <1>1, <2>1, <3>1 DEF CacheTypes, CacheOrder, CacheReads, CacheGets, CacheAlone
    <3>3. CacheWaits'
      BY <3>1 DEF CacheWaits
    <3>4. QED
      BY <1>1, <2>1, <3>2, <3>3
  <2>4. QED
    BY <2>2, <2>3
<1>3. CASE ~Cache!Usable(u.mem)
  <2> DEFINE m == {Cache!Waits(c)}
  <2>1. ui' = u /\ calls' = rest \cup Cache!Shared \cup m /\ \A w \in m : w.kind = "wait"
    BY <1>3 DEF Cache!Serve, Cache!Waits
  <2> HIDE DEF m
  <2>2. CacheInv'
    BY <2>1, CacheSends
  <2>3. QED
    BY <2>1, <2>2
<1>4. QED
  BY <1>2, <1>3

\* In a session memory goes forward: the two places that write it are the answer of the one
\* request and the disk's copy where there is none.
LEMMA CacheStep == ASSUME CacheInv, steps \in Nat, Cache!Next PROVE CacheInv' /\ Cache!Forward /\ steps' \in Nat
<1> USE DEF CacheInv, Cache!Forward
<1>1. ASSUME NEW c \in Callers, Cache!Force(c) PROVE CacheInv' /\ Cache!Forward
  <2> DEFINE m == {Cache!Waits(c)}
  <2>1. ui' = ui /\ calls' = calls \cup Cache!Shared \cup m /\ \A w \in m : w.kind = "wait"
    BY <1>1 DEF Cache!Force, Cache!Waits
  <2> HIDE DEF m
  <2>2. CacheInv'
    BY <2>1, CacheSends DEF CacheTypes, CacheOrder
  <2>3. QED
    BY <2>1, <2>2 DEF CacheTypes
<1>2. ASSUME NEW c \in Callers, Cache!Call(c) PROVE CacheInv' /\ Cache!Forward
  <2>1. CASE ui.hydrated \/ ui.mem.v > 0
    <3>1. CacheInv' /\ ui'.mem = ui.mem
      BY <1>2, <2>1, CacheServe DEF Cache!Call, CacheTypes, CacheOrder
    <3>2. QED
      BY <3>1 DEF CacheTypes
  <2>2. CASE ~(ui.hydrated \/ ui.mem.v > 0)
    <3> DEFINE r == Cache!Reads(c, ui.disk)
    <3>1. /\ calls' = calls \cup {r} /\ r.kind = "read" /\ r.entry = ui.disk
      BY <1>2, <2>2 DEF Cache!Call, Cache!Reads
    <3>2. /\ DOMAIN ui' = DOMAIN ui /\ ui'.mem = ui.mem /\ ui'.disk = ui.disk /\ ui'.version = ui.version
      BY <1>2, <2>2 DEF Cache!Call, CacheTypes
    <3> HIDE DEF r
    <3>3. CacheTypes' /\ CacheOrder' /\ Cache!Forward
      BY <3>2 DEF CacheTypes, CacheOrder
    <3>4. CacheReads' /\ CacheGets' /\ CacheAlone' /\ CacheWaits'
      BY <3>1, <3>2 DEF CacheTypes, CacheReads, CacheGets, CacheAlone, CacheWaits
    <3>5. QED
      BY <3>3, <3>4
  <2>3. QED
    BY <2>1, <2>2
<1>3. ASSUME NEW r \in Cache!Of({"read"}), Cache!DiskAnswers(r) PROVE CacheInv' /\ Cache!Forward
  <2> DEFINE u == Cache!Hydrated(ui, r.entry)
  <2>1. r \in calls /\ r.kind = "read" /\ Cache!Serve(u, r.by, calls \ {r})
    BY <1>3 DEF Cache!DiskAnswers, Cache!Of
  <2>2. /\ DOMAIN u = DOMAIN ui /\ u.version = ui.version /\ u.disk = ui.disk
        /\ u.mem = ui.mem \/ (u.mem = r.entry /\ ui.mem.v = 0)
    BY DEF Cache!Hydrated, CacheTypes
  <2>3. DOMAIN u.mem = {"v", "age"}
    BY <2>1, <2>2 DEF CacheTypes, CacheReads
  <2>4. u.mem.v \in Nat /\ u.mem.v <= ui.disk.v /\ u.mem.v >= ui.mem.v
    BY <2>1, <2>2 DEF CacheTypes, CacheReads, CacheOrder
  <2> HIDE DEF u
  <2>5. CacheInv' /\ ui'.mem = u.mem
    BY <2>1, <2>2, <2>3, <2>4, CacheServe
  <2>6. QED
    BY <2>4, <2>5
<1>4. ASSUME NEW r \in Cache!Of({"read"}), Cache!DiskFails(r) PROVE CacheInv' /\ Cache!Forward
  <2>1. r \in calls /\ r.kind = "read" /\ Cache!Serve(ui, r.by, calls \ {r})
    BY <1>4 DEF Cache!DiskFails, Cache!Of
  <2>2. CacheInv' /\ ui'.mem = ui.mem
    BY <2>1, CacheServe DEF CacheTypes, CacheOrder
  <2>3. QED
    BY <2>2 DEF CacheTypes
<1>5. ASSUME NEW g \in Cache!Of({"get"}), Cache!Handle(g) PROVE CacheInv' /\ Cache!Forward
  <2> DEFINE h == [g EXCEPT !.v = ui.version]
  <2>1. g \in calls /\ g.kind = "get"
    BY <1>5 DEF Cache!Of
  <2>2. ui' = ui /\ calls' = (calls \ {g}) \cup {h}
    BY <1>5 DEF Cache!Handle
  <2>3. h.kind = "get" /\ h.v = ui.version
    BY <2>1 DEF CacheGets
  <2> HIDE DEF h
  <2>4. CacheTypes' /\ CacheOrder' /\ Cache!Forward /\ CacheReads'
    BY <2>2, <2>3 DEF CacheTypes, CacheOrder, CacheReads
  <2>5. CacheGets' /\ CacheAlone' /\ CacheWaits'
    BY <2>1, <2>2, <2>3 DEF CacheTypes, CacheOrder, CacheGets, CacheAlone, CacheWaits
  <2>6. QED
    BY <2>4, <2>5
<1>6. ASSUME NEW g \in Cache!Of({"get"}), Cache!Answer(g) PROVE CacheInv' /\ Cache!Forward
  <2>1. g \in calls /\ g.kind = "get" /\ g.v > 0
    BY <1>6 DEF Cache!Of, Cache!Answer
  <2>2. calls' \subseteq calls \ {g} /\ \A w \in calls' : w.kind # "wait"
    BY <1>6 DEF Cache!Of, Cache!Answer
  <2>3. /\ DOMAIN ui' = DOMAIN ui /\ ui'.version = ui.version
        /\ ui'.mem = [v |-> g.v, age |-> "fresh"] /\ ui'.disk = [v |-> g.v, age |-> "fresh"]
    BY <1>6 DEF Cache!Answer, CacheTypes
  <2>4. g.v \in Nat /\ g.v <= ui.version /\ g.v >= ui.disk.v /\ ui'.mem.v = g.v /\ ui'.disk.v = g.v
    BY <2>1, <2>3 DEF CacheGets
  <2>5. CacheTypes' /\ CacheOrder' /\ Cache!Forward
    BY <2>3, <2>4 DEF CacheTypes, CacheOrder
  <2>6. CacheReads'
    BY <2>2, <2>4 DEF CacheReads, CacheTypes
  <2>7. CacheGets' /\ CacheAlone' /\ CacheWaits'
    BY <2>1, <2>2 DEF CacheGets, CacheAlone, CacheWaits
  <2>8. QED
    BY <2>5, <2>6, <2>7
<1>7. ASSUME NEW g \in Cache!Of({"get"}), Cache!Fail(g) PROVE CacheInv' /\ Cache!Forward
  <2>1. ui' = ui /\ calls' \subseteq calls /\ \A w \in calls' : w.kind # "wait"
    BY <1>7 DEF Cache!Fail, Cache!Of
  <2>2. QED
    BY <2>1 DEF CacheTypes, CacheOrder, CacheReads, CacheGets, CacheAlone, CacheWaits
<1>8. ASSUME Cache!ServerMoves PROVE CacheInv' /\ Cache!Forward
  <2>1. /\ calls' = calls /\ DOMAIN ui' = DOMAIN ui /\ ui'.version = ui.version + 1 /\ ui'.mem = ui.mem /\ ui'.disk = ui.disk
    BY <1>8 DEF Cache!ServerMoves, CacheTypes
  <2>2. QED
    BY <2>1 DEF CacheTypes, CacheOrder, CacheReads, CacheGets, CacheAlone, CacheWaits
<1>9. ASSUME Cache!TimePasses PROVE CacheInv' /\ Cache!Forward
  <2>1. \A e : DOMAIN e = {"v", "age"} => DOMAIN Cache!Older(e) = {"v", "age"} /\ Cache!Older(e).v = e.v
    BY DEF Cache!Older
  <2>2. /\ calls' = calls /\ DOMAIN ui' = DOMAIN ui /\ ui'.version = ui.version
        /\ ui'.mem = Cache!Older(ui.mem) /\ ui'.disk = Cache!Older(ui.disk)
    BY <1>9 DEF Cache!TimePasses, CacheTypes
  <2>3. DOMAIN ui'.mem = {"v", "age"} /\ ui'.mem.v = ui.mem.v /\ DOMAIN ui'.disk = {"v", "age"} /\ ui'.disk.v = ui.disk.v
    BY <2>1, <2>2 DEF CacheTypes
  <2>4. steps' = steps + 1
    BY <1>9 DEF Cache!TimePasses, Cache!Act
  <2> HIDE DEF Cache!Older
  <2>5. QED
    BY <2>2, <2>3, <2>4 DEF CacheTypes, CacheOrder, CacheReads, CacheGets, CacheAlone, CacheWaits
<1>10. ASSUME Cache!Relaunch PROVE CacheInv' /\ Cache!Forward
  <2>1. /\ calls' = {} /\ DOMAIN ui' = DOMAIN ui /\ ui'.version = ui.version /\ ui'.mem = Cache!Absent /\ ui'.disk = ui.disk
    BY <1>10 DEF Cache!Relaunch, CacheTypes
  <2>2. steps' = steps + 1
    BY <1>10 DEF Cache!Relaunch, Cache!Act
  <2>3. DOMAIN Cache!Absent = {"v", "age"} /\ Cache!Absent.v = 0
    BY DEF Cache!Absent
  <2>4. QED
    BY <2>1, <2>2, <2>3 DEF CacheTypes, CacheOrder, CacheReads, CacheGets, CacheAlone, CacheWaits
<1>11. steps' \in Nat
  <2>1. Cache!Act \/ Cache!Net
    BY DEF Cache!Next, Cache!Force, Cache!Call, Cache!DiskAnswers, Cache!DiskFails, Cache!Handle, Cache!Answer, Cache!Fail,
           Cache!ServerMoves, Cache!TimePasses, Cache!Relaunch
  <2>2. QED
    BY <2>1 DEF Cache!Act, Cache!Net
<1>12. QED
  BY <1>11, <1>1, <1>2, <1>3, <1>4, <1>5, <1>6, <1>7, <1>8, <1>9, <1>10 DEF Cache!Next

LEMMA CacheHolds == CacheInv => Cache!LoadingIsAsked
BY DEF CacheInv, CacheWaits, Cache!LoadingIsAsked, Cache!Of

-------------------------------------------------------------------------------
\* Screens that follow a sweep.  A list is the chosen level's, and a loop that loads has its own
\* request or timer, told by the tick it began with.
ViewRecord(u) ==
  DOMAIN u = {"screen", "server", "level", "tick", "round", "misses", "mem", "kept", "shown", "of", "loading", "over", "wanted"}
ViewMine(cs, t) == \E c \in cs : c.kind \in {"wait", "timer"} /\ c.tick = t
ViewInv == ViewRecord(ui) /\ ui.of = ui.level /\ (ui.loading => ViewMine(calls, ui.tick))

LEMMA ViewInit == View!Init => ViewInv
BY DEF View!Init, ViewInv, ViewRecord

LEMMA ViewSame ==
  ASSUME ViewInv, ViewRecord(ui'), ui'.of = ui.of, ui'.level = ui.level, ui'.tick = ui.tick, ui'.loading => ui.loading,
         \A c \in calls : c.kind \in {"wait", "timer"} /\ c.tick = ui.tick => c \in calls'
  PROVE  ViewInv'
BY DEF ViewInv, ViewMine

LEMMA ViewTimer == ASSUME NEW t, NEW l, NEW cs, View!Timer(t, l) \in cs PROVE ViewMine(cs, t)
BY DEF View!Timer, ViewMine

\* A snapshot: the loop sleeps, or loads no more.
LEMMA ViewGot ==
  ASSUME NEW u, NEW v, NEW rest, ViewRecord(u), u.of = u.level, View!Step(View!Got(u, u.level, v, rest))
  PROVE  ViewInv'
<1> DEFINE s == View!Shows(u, u.level, v)
<1>1. ViewRecord(s) /\ s.of = u.level /\ s.level = u.level /\ s.tick = u.tick /\ s.loading = FALSE
  BY DEF View!Shows, ViewRecord
<1> HIDE DEF s
<1>2. CASE View!GoesOn(u, v)
  <2> DEFINE p == View!Partial(u, u.level, v)
  <2>1. p \in {s, [s EXCEPT !.loading = u.loading], u}
    BY DEF View!Partial, s
  <2>2. ViewRecord(p) /\ p.of = p.level /\ p.tick = u.tick
    <3>1. CASE p = [s EXCEPT !.loading = u.loading]
      BY <1>1, <3>1 DEF ViewRecord
    <3>2. QED
      BY <1>1, <2>1, <3>1
  <2>3. ui' = p /\ View!Timer(u.tick, u.level) \in calls'
    BY <1>2 DEF View!Step, View!Got
  <2> HIDE DEF p
  <2>4. QED
    BY <2>2, <2>3, ViewTimer DEF ViewInv
<1>3. CASE ~View!GoesOn(u, v)
  <2> DEFINE p == View!Over(u, u.level, v)
  <2>1. \/ p = [u EXCEPT !.loading = FALSE, !.over = TRUE]
        \/ \E k : p = [s EXCEPT !.over = TRUE, !.kept = k]
    BY DEF View!Over, s
  <2>2. ViewRecord(p) /\ p.of = p.level /\ p.loading = FALSE
    <3>1. CASE p = [u EXCEPT !.loading = FALSE, !.over = TRUE]
      BY <3>1 DEF ViewRecord
    <3>2. ASSUME NEW k, p = [s EXCEPT !.over = TRUE, !.kept = k] PROVE ViewRecord(p) /\ p.of = p.level /\ p.loading = FALSE
      BY <1>1, <3>2 DEF ViewRecord
    <3>3. QED
      BY <2>1, <3>1, <3>2
  <2>3. ui' = p
    BY <1>3 DEF View!Step, View!Got
  <2> HIDE DEF p
  <2>4. QED
    BY <2>2, <2>3 DEF ViewInv
<1>4. QED
  BY <1>2, <1>3

\* A loop that asks is answered at once or waits.
LEMMA ViewAsks ==
  ASSUME NEW u, NEW k, NEW rest, ViewRecord(u), u.of = u.level, View!Asks(u, k, rest)
  PROVE  ViewInv'
<1> DEFINE a == View!Ask(u, k, rest)
<1>1. CASE a.hit
  <2>1. View!Step(View!Got(u, u.level, a.snap, a.calls))
    BY <1>1 DEF View!Asks
  <2> HIDE DEF a
  <2>2. QED
    BY <2>1, ViewGot
<1>2. CASE ~a.hit
  <2>1. View!Wait(k, u.tick, u.level) \in a.calls
    BY <1>2 DEF View!Ask, View!If
  <2>2. ui' = u /\ calls' = a.calls
    BY <1>2 DEF View!Asks, View!Step
  <2> HIDE DEF a
  <2>3. ViewMine(calls', u.tick)
    BY <2>1, <2>2 DEF ViewMine, View!Wait
  <2>4. QED
    BY <2>2, <2>3 DEF ViewInv
<1>3. QED
  BY <1>1, <1>2

\* A loop that begins, on opening or for another level.
LEMMA ViewBegins ==
  ASSUME NEW u, ViewRecord(u), NEW w \in {View!Opened(u), [View!Opened(u) EXCEPT !.wanted = 0]}, View!Begin(w)
  PROVE  ViewInv'
<1> DEFINE f == View!Fresh(u)
           kept == IF View!S.keeps THEN u.kept[u.level] ELSE View!Nothing
           o == [f EXCEPT !.shown = kept, !.of = u.level, !.loading = kept = View!Nothing]
<1>1. ViewRecord(f) /\ f.level = u.level
  BY DEF View!Fresh, ViewRecord
<1>2. View!Opened(u) = o
  BY DEF View!Opened
<1> HIDE DEF f, kept
<1>3. ViewRecord(o) /\ o.of = o.level
  BY <1>1 DEF ViewRecord
<1> HIDE DEF o
<1>4. ViewRecord(w) /\ w.of = w.level
  BY <1>2, <1>3 DEF ViewRecord
<1>5. CASE w.loading \/ View!S.levels > 1
  BY <1>4, <1>5, ViewAsks DEF View!Begin
<1>6. CASE ~(w.loading \/ View!S.levels > 1)
  <2>1. ui' = [w EXCEPT !.over = TRUE]
    BY <1>6 DEF View!Begin
  <2>2. QED
    BY <1>4, <1>6, <2>1 DEF ViewInv, ViewRecord
<1>7. QED
  BY <1>5, <1>6

LEMMA ViewStep == ASSUME ViewInv, View!Next PROVE ViewInv'
<1>0. ViewRecord(ui) /\ ui.of = ui.level
  BY DEF ViewInv
<1>1. ASSUME View!Open \/ View!Leave PROVE ViewInv'
  BY <1>0, <1>1, ViewBegins DEF View!Open, View!Leave
<1>2. ASSUME NEW l, View!PickLevel(l) PROVE ViewInv'
  <2> DEFINE u == [ui EXCEPT !.level = l]
  <2>1. ViewRecord(u)
    BY <1>0 DEF ViewRecord
  <2>2. View!Begin(View!Opened(u))
    BY <1>2 DEF View!PickLevel
  <2> HIDE DEF u
  <2>3. QED
    BY <2>1, <2>2, ViewBegins
<1>3. ASSUME View!Refresh PROVE ViewInv'
  <2> DEFINE f == View!Fresh(ui)
             u == [f EXCEPT !.kept[1] = View!Nothing, !.shown = View!Nothing, !.loading = TRUE, !.wanted = View!Next1]
  <2>1. ViewRecord(f) /\ f.of = f.level
    BY <1>0 DEF View!Fresh, ViewRecord
  <2>2. View!Asks(u, View!Refreshing, calls)
    BY <1>3 DEF View!Refresh
  <2> HIDE DEF f
  <2>3. ViewRecord(u) /\ u.of = u.level
    BY <2>1 DEF ViewRecord
  <2> HIDE DEF u
  <2>4. QED
    BY <2>2, <2>3, ViewAsks
<1>4. ASSUME View!Rescan PROVE ViewInv'
  <2> DEFINE f == View!Fresh(ui)
             u == [f EXCEPT !.wanted = View!Next1]
  <2>1. ViewRecord(f) /\ f.of = f.level
    BY <1>0 DEF View!Fresh, ViewRecord
  <2>2. View!Asks(u, 1, calls \cup {View!Get(View!Refreshing)})
    BY <1>4 DEF View!Rescan
  <2> HIDE DEF f
  <2>3. ViewRecord(u) /\ u.of = u.level
    BY <2>1 DEF ViewRecord
  <2> HIDE DEF u
  <2>4. QED
    BY <2>2, <2>3, ViewAsks
<1>5. ASSUME NEW c \in View!Of({"timer"}), View!Wakes(c) PROVE ViewInv'
  <2> DEFINE u == [ui EXCEPT !.mem = View!Aged(@)]
             w == [u EXCEPT !.round = IF View!S.rounds THEN @ + 1 ELSE 0]
  <2>1. ViewRecord(u) /\ u.of = u.level /\ u.tick = ui.tick /\ u.level = ui.level /\ u.loading = ui.loading
    BY <1>0 DEF ViewRecord
  <2>2. CASE c.tick = u.tick
    <3>1. View!Asks(w, u.level, calls \ {c})
      BY <1>5, <2>2 DEF View!Wakes
    <3> HIDE DEF u
    <3>2. ViewRecord(w) /\ w.of = w.level
      BY <2>1 DEF ViewRecord
    <3> HIDE DEF w
    <3>3. QED
      BY <3>1, <3>2, ViewAsks
  <2>3. CASE c.tick # u.tick
    <3>1. ui' = u /\ calls' = calls \ {c}
      BY <1>5, <2>3 DEF View!Wakes
    <3> HIDE DEF u, w
    <3>2. QED
      BY <1>0, <2>1, <2>3, <3>1, ViewSame
  <2>4. QED
    BY <2>2, <2>3
<1>6. ASSUME NEW g \in View!Of({"get"}), View!Answer(g) PROVE ViewInv'
  <2> DEFINE v == View!Begun(ui.server, g.key = View!Refreshing)
             e == IF View!S.ttl > 0 THEN [snap |-> View!Snapshot(v), age |-> 0] ELSE ui.mem[g.key]
             u == [ui EXCEPT !.server = v, !.mem[g.key] = e]
             rest == calls \ ({g} \cup View!Waiting(g.key))
  <2>1. ViewRecord(u) /\ u.of = u.level /\ u.tick = ui.tick /\ u.level = ui.level /\ u.of = ui.of /\ u.loading = ui.loading
    BY <1>0 DEF ViewRecord
  <2>2. CASE View!MineWaits(g)
    <3>1. View!Step(View!Got(u, u.level, View!Snapshot(v), rest))
      BY <1>6, <2>2 DEF View!Answer, View!Answered
    <3> HIDE DEF v, e, u, rest
    <3>2. QED
      BY <2>1, <3>1, ViewGot
  <2>3. CASE ~View!MineWaits(g)
    <3>1. ui' = u /\ calls' = rest
      BY <1>6, <2>3 DEF View!Answer, View!Answered
    <3>2. \A c \in calls : c.kind \in {"wait", "timer"} /\ c.tick = ui.tick => c \in rest
      BY <2>3 DEF View!MineWaits, View!Waiting, View!Of
    <3> HIDE DEF v, e, u, rest
    <3>3. QED
      BY <2>1, <3>1, <3>2, ViewSame
  <2>4. QED
    BY <2>2, <2>3
<1>7. ASSUME NEW g \in View!Of({"get"}), View!Fails(g) PROVE ViewInv'
  <2>1. calls' = (calls \ ({g} \cup View!Waiting(g.key))) \cup View!If(View!MineWaits(g) /\ View!Retries, {View!Timer(ui.tick, ui.level)})
    BY <1>7 DEF View!Fails, View!Lost
  <2>2. CASE ~View!MineWaits(g)
    <3>1. ui' = ui
      BY <1>7, <2>2 DEF View!Fails, View!Lost
    <3>2. \A c \in calls : c.kind \in {"wait", "timer"} /\ c.tick = ui.tick => c \in calls'
      BY <2>1, <2>2 DEF View!MineWaits, View!Waiting, View!Of
    <3>3. QED
      BY <1>0, <3>1, <3>2, ViewSame
  <2>3. CASE View!MineWaits(g) /\ View!Retries
    <3>1. ui' = [ui EXCEPT !.misses = @ + 1]
      BY <1>7, <2>3 DEF View!Fails, View!Lost
    <3>2. View!Timer(ui.tick, ui.level) \in calls'
      BY <2>1, <2>3 DEF View!If
    <3>3. ViewRecord(ui') /\ ui'.of = ui'.level /\ ui'.tick = ui.tick
      BY <1>0, <3>1 DEF ViewRecord
    <3>4. QED
      BY <3>2, <3>3, ViewTimer DEF ViewInv
  <2>4. CASE View!MineWaits(g) /\ ~View!Retries
    <3>1. ui' = [ui EXCEPT !.loading = FALSE, !.over = TRUE, !.wanted = 0]
      BY <1>7, <2>4 DEF View!Fails, View!Lost
    <3>2. QED
      BY <1>0, <3>1 DEF ViewInv, ViewRecord
  <2>5. QED
    BY <2>2, <2>3, <2>4
<1>8. ASSUME NEW c \in View!Of({"enrich"}), View!Enriched(c) PROVE ViewInv'
  <2>1. calls' = calls \ {c} /\ c.kind = "enrich"
    BY <1>8 DEF View!Enriched, View!Of
  <2>2. \/ ui' = ui
        \/ ui' = [ui EXCEPT !.kept[1] = ui.shown]
    BY <1>8 DEF View!Enriched
  <2>3. ViewRecord(ui') /\ ui'.of = ui.of /\ ui'.level = ui.level /\ ui'.tick = ui.tick /\ ui'.loading = ui.loading
    BY <1>0, <2>2 DEF ViewRecord
  <2>4. QED
    BY <2>1, <2>3, ViewSame
<1>9. ASSUME View!Sweep \/ View!SweepFails \/ View!TimePasses PROVE ViewInv'
  <2>1. calls' = calls
    BY <1>9 DEF View!Sweep, View!SweepFinds, View!SweepEnds, View!Sweeping, View!SweepFails, View!TimePasses
  <2>2. ViewRecord(ui') /\ ui'.of = ui.of /\ ui'.level = ui.level /\ ui'.tick = ui.tick /\ ui'.loading = ui.loading
    <3>1. CASE View!Sweep
      BY <1>0, <3>1 DEF ViewRecord, View!Sweep, View!SweepFinds, View!SweepEnds
    <3>2. CASE View!SweepFails
      BY <1>0, <3>2 DEF ViewRecord, View!SweepFails
    <3>3. CASE View!TimePasses
      BY <1>0, <3>3 DEF ViewRecord, View!TimePasses
    <3>4. QED
      BY <1>9, <3>1, <3>2, <3>3
  <2>3. QED
    BY <2>1, <2>2, ViewSame
<1>10. QED
  BY <1>1, <1>2, <1>3, <1>4, <1>5, <1>6, <1>7, <1>8, <1>9 DEF View!Next, View!Timers, View!Answers

LEMMA ViewHolds == ViewInv => View!ShownIsAsked /\ View!LoadingIsAsked
BY DEF ViewInv, ViewMine, View!ShownIsAsked, View!LoadingIsAsked, View!Of

-------------------------------------------------------------------------------
\* The backtester.  A console that runs has exactly one launch, poll or timer under way, and a
\* result that is not a previous run's is the last run's.
TestRecord(u) ==
  DOMAIN u = {"form", "loaded", "running", "shown", "previous", "error", "misses", "list", "read", "ahead", "run",
              "disk", "jobs", "next", "file"}
TestPending == {"launch", "poll", "timer"}
TestShown == ~ui.running /\ ~ui.error /\ ui.shown # 0 /\ ~ui.previous => ui.shown = ui.run
TestAlone == \A c, d \in calls : c.kind \in TestPending /\ d.kind \in TestPending => c = d
TestAsked == ui.running <=> \E c \in calls : c.kind \in TestPending
TestInv == TestRecord(ui) /\ TestShown /\ TestAlone /\ TestAsked

LEMMA TestOpening == ASSUME NEW u PROVE \A c \in Test!Opening(u) : c.kind \notin TestPending
<1>1. ASSUME NEW c \in Test!Opening(u) PROVE c.kind \in {"cfg", "last", "list"}
  BY <1>1 DEF Test!Opening
<1>2. QED
  BY <1>1 DEF TestPending

LEMMA TestInit == Test!Init => TestInv
<1> SUFFICES ASSUME Test!Init PROVE TestInv
  OBVIOUS
<1>1. TestRecord(ui) /\ ui.shown = 0 /\ ~ui.running
  BY DEF Test!Init, TestRecord
<1>2. \A c \in calls : c.kind \notin TestPending
  BY TestOpening DEF Test!Init
<1>3. QED
  BY <1>1, <1>2 DEF TestInv, TestShown, TestAlone, TestAsked

\* The part of the console that tells what is shown, and a step that leaves it alone.
TestKeeps(u) ==
  /\ TestRecord(u) /\ u.running = ui.running /\ u.shown = ui.shown /\ u.previous = ui.previous
  /\ u.error = ui.error /\ u.run = ui.run
LEMMA TestSame ==
  ASSUME TestInv, TestKeeps(ui'), \A c \in calls \cup calls' : c.kind \in TestPending => (c \in calls <=> c \in calls')
  PROVE  TestInv'
BY DEF TestInv, TestKeeps, TestShown, TestAlone, TestAsked

\* A step of the one request under way: it goes on as another, or ends.
LEMMA TestGoesOn ==
  ASSUME TestInv, NEW c \in calls, c.kind \in TestPending, NEW d, d.kind \in TestPending,
         calls' = (calls \ {c}) \cup {d}, TestRecord(ui'), ui'.running
  PROVE  TestInv'
BY DEF TestInv, TestShown, TestAlone, TestAsked
LEMMA TestEnds ==
  ASSUME TestInv, NEW c \in calls, c.kind \in TestPending, calls' = calls \ {c},
         TestRecord(ui'), ~ui'.running, ui'.error \/ ui'.shown = ui'.run
  PROVE  TestInv'
BY DEF TestInv, TestShown, TestAlone, TestAsked
LEMMA TestStopped == ASSUME NEW u, TestRecord(u) PROVE TestRecord(Test!Stopped(u)) /\ ~Test!Stopped(u).running /\ Test!Stopped(u).error
BY DEF TestRecord, Test!Stopped
LEMMA TestStarts ==
  ASSUME NEW u, NEW cfg, TestRecord(u)
  PROVE  /\ TestRecord(Test!StartJob(u, cfg)) /\ Test!StartJob(u, cfg).running = u.running
         /\ Test!StartJob(u, cfg).shown = u.shown /\ Test!StartJob(u, cfg).previous = u.previous
         /\ Test!StartJob(u, cfg).error = u.error /\ Test!StartJob(u, cfg).run = u.run
BY DEF TestRecord, Test!StartJob

LEMMA TestUser == ASSUME TestInv, Test!User PROVE TestInv'
<1>0. TestRecord(ui)
  BY DEF TestInv
<1>1. ASSUME NEW f, Test!Edit(f) PROVE TestInv'
  <2>1. ui' = [ui EXCEPT !.form = f, !.loaded = Test!None] /\ calls' = calls
    BY <1>1 DEF Test!Edit
  <2>2. TestKeeps(ui')
    BY <1>0, <2>1 DEF TestKeeps, TestRecord
  <2>3. QED
    BY <2>1, <2>2, TestSame
<1>2. ASSUME NEW l, NEW s, Test!Store(l, s) PROVE TestInv'
  <2>1. TestKeeps(ui')
    BY <1>0, <1>2 DEF Test!Store, TestKeeps, TestRecord
  <2>2. calls' = calls
    BY <1>2 DEF Test!Store
  <2>3. QED
    BY <2>1, <2>2, TestSame
<1>3. ASSUME NEW n, Test!LoadSaved(n) PROVE TestInv'
  <2>1. PICK a, b : ui' = [ui EXCEPT !.form = a, !.loaded = b]
    BY <1>3 DEF Test!LoadSaved
  <2>2. TestKeeps(ui')
    BY <1>0, <2>1 DEF TestKeeps, TestRecord
  <2>3. calls' = calls
    BY <1>3 DEF Test!LoadSaved
  <2>4. QED
    BY <2>2, <2>3, TestSame
<1>4. ASSUME Test!Run PROVE TestInv'
  <2> DEFINE d == [kind |-> "launch", cfg |-> Test!BuildCfg(ui.form)]
  <2>1. ~ui.running /\ calls' = calls \cup {d} /\ d.kind = "launch"
    BY <1>4 DEF Test!Run
  <2>2. PICK k : ui' = [ui EXCEPT !.disk = k, !.error = FALSE, !.running = TRUE, !.run = 0]
    BY <1>4 DEF Test!Run
  <2>3. TestRecord(ui') /\ ui'.running
    BY <1>0, <2>2 DEF TestRecord
  <2> HIDE DEF d
  <2>4. QED
    BY <2>1, <2>3 DEF TestInv, TestShown, TestAlone, TestAsked, TestPending
<1>5. ASSUME Test!Leave PROVE TestInv'
  <2>1. PICK u : TestRecord(u) /\ ui' = Test!Opened(u) /\ calls' = Test!Of({"file"}) \cup Test!Opening(u)
    BY <1>0, <1>5, TestStarts DEF Test!Leave
  <2>2. TestRecord(ui') /\ ~ui'.running /\ ui'.shown = 0
    BY <2>1 DEF Test!Opened, TestRecord
  <2>3. \A c \in calls' : c.kind \notin TestPending
    BY <2>1, TestOpening DEF Test!Of, TestPending
  <2>4. QED
    BY <2>2, <2>3 DEF TestInv, TestShown, TestAlone, TestAsked
<1>6. QED
  BY <1>1, <1>2, <1>3, <1>4, <1>5
     DEF Test!User, Test!EditUniverse, Test!PickStrategy, Test!EditRules, Test!EditRisk, Test!EditCosts,
         Test!SaveStrategy, Test!DeleteStrategy, Test!SaveCurrent

\* A run, from its launch to its last poll.
LEMMA TestPolls ==
  ASSUME TestInv, NEW c \in calls,
         \/ c.kind = "launch" /\ (Test!Launched(c) \/ Test!LaunchFails(c))
         \/ c.kind = "poll" /\ (Test!Polled(c) \/ Test!PollFails(c))
         \/ c.kind = "timer" /\ Test!PollAgain(c)
  PROVE  TestInv'
<1>0. TestRecord(ui) /\ c.kind \in TestPending /\ ui.running
  BY DEF TestInv, TestAsked, TestPending
<1> DEFINE p == [kind |-> "poll"]
           t == [kind |-> "timer"]
<1>p. p.kind \in TestPending /\ t.kind \in TestPending
  BY DEF TestPending
<1> HIDE DEF p, t
<1>1. CASE Test!Launched(c)
  <2> DEFINE s == Test!StartJob(ui, c.cfg)
  <2>1. CASE Test!Accepts(ui.jobs, c.cfg)
    <3>1. ui' = [s EXCEPT !.run = ui.next, !.misses = 0] /\ calls' = (calls \ {c}) \cup {p}
      BY <1>1, <2>1 DEF Test!Launched, p
    <3>2. TestRecord(s) /\ s.running = ui.running
      BY <1>0, TestStarts
    <3> HIDE DEF s
    <3>3. TestRecord(ui') /\ ui'.running
      BY <1>0, <3>1, <3>2 DEF TestRecord
    <3>4. QED
      BY <1>0, <1>p, <3>1, <3>3, TestGoesOn
  <2>2. CASE ~Test!Accepts(ui.jobs, c.cfg)
    BY <1>0, <1>1, <2>2, TestStopped, TestEnds DEF Test!Launched
  <2>3. QED
    BY <2>1, <2>2
<1>2. CASE Test!LaunchFails(c)
  <2>1. PICK u : TestRecord(u) /\ ui' = Test!Stopped(u)
    BY <1>0, <1>2, TestStarts DEF Test!LaunchFails, Test!If
  <2>2. calls' = calls \ {c}
    BY <1>2 DEF Test!LaunchFails
  <2>3. QED
    BY <1>0, <2>1, <2>2, TestStopped, TestEnds
<1>3. CASE Test!Polled(c)
  <2> DEFINE st == Test!Snapshot(ui.jobs, ui.run)
  <2> HIDE DEF st
  <2>1. CASE st = "running"
    <3>1. ui' = [ui EXCEPT !.misses = 0] /\ calls' = (calls \ {c}) \cup {t}
      BY <1>3, <2>1 DEF Test!Polled, Test!If, st, t
    <3>2. TestRecord(ui') /\ ui'.running
      BY <1>0, <3>1 DEF TestRecord
    <3>3. QED
      BY <1>0, <1>p, <3>1, <3>2, TestGoesOn
  <2>2. CASE st = "done"
    <3>1. ui' = [ui EXCEPT !.shown = ui.run, !.previous = FALSE, !.running = FALSE] /\ calls' = calls \ {c}
      BY <1>3, <2>2 DEF Test!Polled, Test!If, st
    <3>2. TestRecord(ui') /\ ~ui'.running /\ ui'.shown = ui'.run
      BY <1>0, <3>1 DEF TestRecord
    <3>3. QED
      BY <1>0, <3>1, <3>2, TestEnds
  <2>3. CASE st \notin {"running", "done"}
    <3>1. ui' = Test!Stopped(ui) /\ calls' = calls \ {c}
      BY <1>3, <2>3 DEF Test!Polled, Test!If, st
    <3>2. QED
      BY <1>0, <3>1, TestStopped, TestEnds
  <2>4. QED
    BY <2>1, <2>2, <2>3
<1>4. CASE Test!PollFails(c)
  <2>1. CASE ui.misses = MaxMisses
    <3>1. ui' = Test!Stopped(ui) /\ calls' = calls \ {c}
      BY <1>4, <2>1 DEF Test!PollFails, Test!Miss, Test!If
    <3>2. QED
      BY <1>0, <3>1, TestStopped, TestEnds
  <2>2. CASE ui.misses # MaxMisses
    <3>1. ui' = [ui EXCEPT !.misses = @ + 1] /\ calls' = (calls \ {c}) \cup {t}
      BY <1>4, <2>2 DEF Test!PollFails, Test!Miss, Test!If, t
    <3>2. TestRecord(ui') /\ ui'.running
      BY <1>0, <3>1 DEF TestRecord
    <3>3. QED
      BY <1>0, <1>p, <3>1, <3>2, TestGoesOn
  <2>3. QED
    BY <2>1, <2>2
<1>5. CASE Test!PollAgain(c)
  BY <1>0, <1>p, <1>5, TestGoesOn DEF Test!PollAgain, p
<1>6. QED
  BY <1>1, <1>2, <1>3, <1>4, <1>5

LEMMA TestStep == ASSUME TestInv, Test!Next PROVE TestInv'
<1>0. TestRecord(ui)
  BY DEF TestInv
<1>1. ASSUME NEW i \in DOMAIN ui.jobs, NEW st, Test!JobEnds(i, st) PROVE TestInv'
  <2>1. PICK j : ui' = [ui EXCEPT !.jobs = j]
    BY <1>1 DEF Test!JobEnds
  <2>2. TestKeeps(ui')
    BY <1>0, <2>1 DEF TestKeeps, TestRecord
  <2>3. calls \subseteq calls' /\ \A c \in calls' \ calls : c.kind = "file"
    BY <1>1 DEF Test!JobEnds, Test!If
  <2>4. QED
    BY <2>2, <2>3, TestSame DEF TestPending
<1>2. ASSUME NEW c \in calls, c.kind \notin TestPending, calls' = calls \ {c},
             \/ ui' = ui \/ (\E a, b : ui' = [ui EXCEPT !.form = a, !.loaded = b])
             \/ (\E a, b : ui' = [ui EXCEPT !.list = a, !.read = b]) \/ (\E f : ui' = [ui EXCEPT !.file = f])
      PROVE  TestInv'
  <2>1. TestKeeps(ui')
    BY <1>0, <1>2 DEF TestKeeps, TestRecord
  <2>2. QED
    BY <1>2, <2>1, TestSame
<1>3. ASSUME NEW c \in Test!Of({"cfg"}), Test!CfgRead(c) PROVE TestInv'
  BY <1>2, <1>3 DEF Test!CfgRead, Test!Of, TestPending
<1>4. ASSUME NEW c \in Test!Of({"list"}), Test!ListRead(c) PROVE TestInv'
  <2>1. \E a, b : ui' = [ui EXCEPT !.list = a, !.read = b]
    BY <1>4 DEF Test!ListRead
  <2>2. QED
    BY <1>2, <1>4, <2>1 DEF Test!ListRead, Test!Of, TestPending
<1>5. ASSUME NEW c \in Test!Of({"file"}), Test!FileWritten(c) PROVE TestInv'
  BY <1>2, <1>5 DEF Test!FileWritten, Test!Of, TestPending
<1>6. ASSUME Test!LastAnswers \/ Test!LastFails PROVE TestInv'
  <2> DEFINE c == [kind |-> "last"]
  <2>1. c \in calls /\ c.kind \notin TestPending /\ calls' = calls \ {c}
    BY <1>6 DEF Test!LastAnswers, Test!LastFails, TestPending
  <2>2. ui' = ui \/ ui' = [ui EXCEPT !.shown = ui.file, !.previous = TRUE]
    BY <1>6 DEF Test!LastAnswers, Test!LastFails
  <2> HIDE DEF c
  <2>3. CASE ui' = ui
    BY <1>2, <2>1, <2>3
  <2>4. CASE ui' = [ui EXCEPT !.shown = ui.file, !.previous = TRUE]
    <3>1. TestRecord(ui') /\ ui'.previous /\ ui'.running = ui.running
      BY <1>0, <2>4 DEF TestRecord
    <3>2. QED
      BY <2>1, <3>1 DEF TestInv, TestShown, TestAlone, TestAsked
  <2>5. QED
    BY <2>2, <2>3, <2>4
<1>7. ASSUME Test!OthersRun PROVE TestInv'
  <2>1. TestKeeps(ui') /\ calls' = calls
    BY <1>0, <1>7, TestStarts DEF Test!OthersRun, TestKeeps
  <2>2. QED
    BY <2>1, TestSame
<1>8. ASSUME Test!Restart PROVE TestInv'
  <2>1. TestKeeps(ui')
    BY <1>0, <1>8 DEF Test!Restart, TestKeeps, TestRecord
  <2>2. calls' = calls \ Test!Of({"file"})
    BY <1>8 DEF Test!Restart
  <2>3. QED
    BY <2>1, <2>2, TestSame DEF Test!Of, TestPending
<1>9. QED
  <2>1. CASE Test!User
    BY <2>1, TestUser
  <2>2. CASE Test!Answers \/ Test!Timers \/ \E c \in Test!Of({"launch"}) : Test!LaunchFails(c)
    BY <2>2, TestPolls DEF Test!Answers, Test!Timers, Test!Of
  <2>3. CASE Test!Simulate \/ Test!Reads \/ Test!OthersRun \/ Test!Restart \/ Test!LastFails
             \/ (\E i \in DOMAIN ui.jobs : Test!JobEnds(i, "error")) \/ \E c \in Test!Of({"file"}) : Test!FileWritten(c)
    BY <1>1, <1>3, <1>4, <1>5, <1>6, <1>7, <1>8, <2>3 DEF Test!Simulate, Test!Reads
  <2>4. QED
    BY <2>1, <2>2, <2>3 DEF Test!Next

LEMMA TestHolds == TestInv => Test!ShownIsAsked /\ Test!LoadingIsAsked
<1> SUFFICES ASSUME TestInv PROVE Test!ShownIsAsked /\ Test!LoadingIsAsked
  OBVIOUS
<1>1. "progress" \in Test!Parts(ui) <=> ui.running
  BY DEF Test!Parts, Test!If
<1>2. "failed" \in Test!Parts(ui) <=> ui.error
  BY DEF Test!Parts, Test!If
<1>3. "previous" \in Test!Parts(ui) <=> ui.shown # 0 /\ ui.previous
  BY DEF Test!Parts, Test!If
<1>4. "result" \in Test!Parts(ui) <=> ui.shown # 0
  BY DEF Test!Parts, Test!If
<1>5. Test!ShownIsAsked
  BY <1>1, <1>2, <1>3, <1>4 DEF Test!ShownIsAsked, TestInv, TestShown
<1>6. Test!LoadingIsAsked
  BY <1>1 DEF Test!LoadingIsAsked, Test!Of, TestInv, TestAsked, TestPending
<1>7. QED
  BY <1>5, <1>6

-------------------------------------------------------------------------------
\* The backtester's forms, configurations, kept lists and runs.
TestBases == Bots \cup {Test!NoBase}
TestKeys == Bots \cup {Test!Custom, Test!Form.key}
TestOwn == [key : {Test!Custom}, rules : BOOLEAN, base : TestBases]
TestStrategy == TestOwn \cup [key : TestKeys, rules : {FALSE}, base : {Test!NoBase}]
TestCfg ==
  [mode : {"index"}, syms : {{}}, strategy : TestStrategy, stop : BOOLEAN, own : BOOLEAN]
  \cup [mode : {"symbols"}, syms : SUBSET Tested, strategy : TestStrategy, stop : BOOLEAN, own : BOOLEAN]
TestForm ==
  [mode : {"index", "symbols"}, syms : SUBSET Tested, key : TestKeys, rules : BOOLEAN, base : TestBases, stop : BOOLEAN, own : BOOLEAN]
TestEntry(l) == [name : Names, v : IF l = "saved" THEN TestCfg ELSE TestOwn]
TestJob == [id : Nat, cfg : TestCfg, status : {"running", "done", "error"}]

\* The runs the server remembers fit its ring, and no more than it allows are under way.
TestJobs(js) == js \in Seq(TestJob) /\ Len(js) <= MaxJobs /\ Cardinality(Test!Running(js)) <= MaxRunning
TestServes(u) == u.next \in Nat /\ TestJobs(u.jobs)
TestLoaded(u) == u.form \in TestForm /\ (u.loaded # Test!None => Test!BuildCfg(u.form) = u.loaded)
\* What the device keeps, what the screen has of it, and what was read of it.
TestLists(u) ==
  /\ DOMAIN u.list = Test!Lists /\ DOMAIN u.disk = {"cfg", "there", "saved", "mine"}
  /\ u.disk.cfg \in TestCfg \cup {Test!None} /\ u.disk.there \subseteq Test!Lists
  /\ u.read \subseteq Test!Lists /\ u.ahead \subseteq Test!Lists
  /\ \A l \in Test!Lists : u.list[l] \in Seq(TestEntry(l)) /\ u.disk[l] \in Seq(TestEntry(l))
TestAgree(u) ==
  \A l \in Test!Lists :
    /\ l \in u.read \ u.ahead => u.disk[l] = u.list[l]
    /\ l \notin u.read \cup u.ahead => u.list[l] = <<>>
    /\ l \notin u.disk.there => u.disk[l] = <<>>
\* A configuration, a list and a launch under way are proper; a list is read once, and as it is
\* on the device unless it was written since.
TestCall(u, c) ==
  /\ c.kind = "cfg" => c.v \in TestCfg \cup {Test!None}
  /\ c.kind = "launch" => c.cfg \in TestCfg
  /\ c.kind = "list" => /\ c.of \in Test!Lists \ u.read /\ c.was \in Seq(TestEntry(c.of))
                        /\ c.of \notin u.ahead => c.was = u.disk[c.of] /\ (c.there <=> c.of \in u.disk.there)
TestCalls(u, C) ==
  /\ \A c \in C : TestCall(u, c)
  /\ \A c, d \in C : c.kind = "list" /\ d.kind = "list" /\ c.of = d.of => c = d
TestKept == TestRecord(ui) /\ TestServes(ui) /\ TestLoaded(ui) /\ TestLists(ui) /\ TestAgree(ui) /\ TestCalls(ui, calls)

LEMMA TestAssumed == Test!BacktestAssumptions
BY ScreensAssumptions
LEMMA TestNames == IsFiniteSet(Names) /\ MaxRunning \in Nat /\ MaxJobs \in Nat /\ MaxRunning <= MaxJobs /\ MaxSaved \in Nat
BY TestAssumed DEF Test!BacktestAssumptions, Test!IsFiniteSet, IsFiniteSet
LEMMA TestSize == ASSUME NEW S PROVE Test!Cardinality(S) = Cardinality(S)
BY DEF Test!Cardinality, Cardinality

-------------------------------------------------------------------------------
\* The form and what is built of it.
LEMMA TestDefault == Test!Form \in TestForm
<1>1. Test!Form = [mode |-> "index", syms |-> {}, key |-> Test!Form.key, rules |-> TRUE, base |-> Test!NoBase, stop |-> FALSE, own |-> FALSE]
  BY DEF Test!Form
<1>2. Test!Form.key \in TestKeys /\ Test!NoBase \in TestBases
  BY DEF TestKeys, TestBases
<1> DEFINE k == Test!Form.key
<1> HIDE DEF k
<1>3. k \in TestKeys => [mode |-> "index", syms |-> {}, key |-> k, rules |-> TRUE, base |-> Test!NoBase, stop |-> FALSE, own |-> FALSE] \in TestForm
  BY <1>2 DEF TestForm
<1>4. QED
  BY <1>1, <1>2, <1>3 DEF k
LEMMA TestDef == ASSUME NEW f \in TestForm PROVE Test!CustomDef(f) \in TestOwn
BY DEF TestForm, TestOwn, Test!CustomDef
LEMMA TestChosen == ASSUME NEW f \in TestForm PROVE Test!Strategy(f) \in TestStrategy
BY TestDef DEF TestForm, TestStrategy, Test!Strategy
LEMMA TestBuilt == ASSUME NEW f \in TestForm PROVE Test!BuildCfg(f) \in TestCfg
<1>1. Test!Strategy(f) \in TestStrategy /\ f.mode \in {"index", "symbols"} /\ f.syms \in SUBSET Tested /\ f.stop \in BOOLEAN /\ f.own \in BOOLEAN
  BY TestChosen DEF TestForm
<1>2. CASE f.mode = "index"
  BY <1>1, <1>2 DEF TestCfg, Test!BuildCfg
<1>3. CASE f.mode = "symbols"
  BY <1>1, <1>3 DEF TestCfg, Test!BuildCfg
<1>4. QED
  BY <1>1, <1>2, <1>3
LEMMA TestOwnLoaded ==
  ASSUME NEW f \in TestForm, NEW d \in TestOwn
  PROVE  /\ Test!LoadCustomDef(f, d) \in TestForm
         /\ LET g == Test!LoadCustomDef(f, d) IN
            g.key = Test!Custom /\ g.rules = d.rules /\ g.base = d.base /\ g.mode = f.mode /\ g.syms = f.syms /\ g.stop = f.stop /\ g.own = f.own
<1>1. Test!Custom \in TestKeys /\ d.rules \in BOOLEAN /\ d.base \in TestBases
  BY DEF TestKeys, TestOwn
<1>2. QED
  BY <1>1 DEF TestForm, Test!LoadCustomDef

\* A configuration that is applied to the form is built of it again, but for what it leaves out.
LEMMA TestApplied ==
  ASSUME NEW f \in TestForm, NEW c \in TestCfg
  PROVE  /\ Test!ApplyCfg(f, c) \in TestForm
         /\ ~Test!LeftOut(f, c) => Test!BuildCfg(Test!ApplyCfg(f, c)) = c
<1>1. /\ c = [mode |-> c.mode, syms |-> c.syms, strategy |-> c.strategy, stop |-> c.stop, own |-> c.own]
      /\ c.mode \in {"index", "symbols"} /\ (c.mode = "index" => c.syms = {}) /\ c.syms \in SUBSET Tested
      /\ c.strategy \in TestStrategy
  BY DEF TestCfg
<1>2. c.stop \in BOOLEAN /\ c.own \in BOOLEAN
  BY DEF TestCfg
<1> DEFINE s == c.strategy
           g == IF s.key = Test!Custom THEN Test!LoadCustomDef(f, s) ELSE [f EXCEPT !.key = s.key]
<1>3. s.key = Test!Custom => s \in TestStrategy /\ s.rules \in BOOLEAN /\ s.base \in TestBases /\ s = [key |-> Test!Custom, rules |-> s.rules, base |-> s.base]
  BY <1>1 DEF TestStrategy, TestOwn, TestBases
<1>4. s.key # Test!Custom => s.key \in TestKeys /\ s = [key |-> s.key, rules |-> FALSE, base |-> Test!NoBase]
  BY <1>1 DEF TestStrategy, TestOwn
<1>5. /\ g \in TestForm
      /\ g.key = s.key /\ g.mode = f.mode /\ g.syms = f.syms /\ g.stop = f.stop /\ g.own = f.own
      /\ Test!Strategy(g) = s
  <2>1. CASE s.key = Test!Custom
    <3>1. s \in TestOwn
      BY <1>3, <2>1 DEF TestOwn
    <3>2. g = Test!LoadCustomDef(f, s)
      BY <2>1
    <3> HIDE DEF g
    <3>3. g \in TestForm /\ g.key = Test!Custom /\ g.rules = s.rules /\ g.base = s.base /\ g.mode = f.mode /\ g.syms = f.syms /\ g.stop = f.stop /\ g.own = f.own
      BY <3>1, <3>2, TestOwnLoaded
    <3>4. Test!Strategy(g) = [key |-> Test!Custom, rules |-> s.rules, base |-> s.base]
      BY <3>3 DEF Test!Strategy, Test!CustomDef
    <3>5. QED
      BY <1>3, <2>1, <3>3, <3>4
  <2>2. CASE s.key # Test!Custom
    <3>1. g = [f EXCEPT !.key = s.key]
      BY <2>2
    <3> HIDE DEF g
    <3>2. g \in TestForm /\ g.key = s.key /\ g.mode = f.mode /\ g.syms = f.syms
      BY <1>4, <2>2, <3>1 DEF TestForm
    <3>3. g.stop = f.stop /\ g.own = f.own
      BY <3>1 DEF TestForm
    <3>4. Test!Strategy(g) = [key |-> s.key, rules |-> FALSE, base |-> Test!NoBase]
      BY <2>2, <3>2 DEF Test!Strategy
    <3>5. QED
      BY <1>4, <2>2, <3>2, <3>3, <3>4
  <2>3. QED
    BY <2>1, <2>2
<1> DEFINE m == IF c.mode = "index" \/ c.syms # {} THEN c.mode ELSE g.mode
           y == IF c.syms # {} THEN c.syms ELSE g.syms
           o == g.own \/ c.own
<1>6. Test!ApplyCfg(f, c) = [g EXCEPT !.mode = m, !.syms = y, !.stop = c.stop, !.own = o]
  BY DEF Test!ApplyCfg
<1>7. g.mode \in {"index", "symbols"} /\ g.syms \in SUBSET Tested /\ g.own \in BOOLEAN /\ DOMAIN g = {"mode", "syms", "key", "rules", "base", "stop", "own"}
  <2> HIDE DEF g
  <2>1. QED
    BY <1>5 DEF TestForm
<1> HIDE DEF g
<1>8. m \in {"index", "symbols"} /\ y \in SUBSET Tested /\ o \in BOOLEAN
  BY <1>1, <1>2, <1>7
<1>9. ~Test!LeftOut(f, c) => m = c.mode /\ (c.mode # "index" => y = c.syms) /\ o = c.own
  BY <1>1, <1>2, <1>5, <1>7 DEF Test!LeftOut
<1> HIDE DEF m, y, o
<1> DEFINE r == [g EXCEPT !.mode = m, !.syms = y, !.stop = c.stop, !.own = o]
<1>10. r \in TestForm
  BY <1>2, <1>5, <1>8 DEF TestForm
<1>11. r.mode = m /\ r.syms = y /\ r.stop = c.stop /\ r.own = o /\ r.key = g.key /\ r.rules = g.rules /\ r.base = g.base
  BY <1>7
<1> HIDE DEF r
<1>12. Test!Strategy(r) = s
  BY <1>5, <1>11 DEF Test!Strategy, Test!CustomDef
<1>13. Test!BuildCfg(r) = [mode |-> m, syms |-> IF m = "index" THEN {} ELSE y, strategy |-> s, stop |-> c.stop, own |-> o]
  BY <1>11, <1>12 DEF Test!BuildCfg
<1>14. QED
  BY <1>1, <1>6, <1>9, <1>10, <1>13 DEF r

-------------------------------------------------------------------------------
\* The kept lists.
LEMMA TestLeft ==
  ASSUME NEW S, NEW s \in Seq(S), NEW K
  PROVE  /\ Test!Places(s, K) \in Seq(S) /\ Len(Test!Places(s, K)) \in Nat /\ Len(Test!Places(s, K)) <= Len(s)
         /\ Picks(Test!Places(s, K), s, Among(Len(s), K))
<1>1. Test!Places(s, K) = Places(s, K)
  BY DEF Test!Places, Places
<1>2. QED
  BY <1>1, PlacesPick, PlacesLen
LEMMA TestCut == ASSUME NEW S, NEW s \in Seq(S) PROVE Test!Cut(s) \in Seq(S)
<1> DEFINE n == IF Len(s) < MaxSaved THEN Len(s) ELSE MaxSaved
<1>1. n \in 0..Len(s)
  BY TestNames, LenProperties
<1>2. \A m \in 0..Len(s) : SubSeq(s, 1, m) \in Seq(S)
  BY SubSeqProperties, LenProperties
<1>3. QED
  BY <1>1, <1>2 DEF Test!Cut
LEMMA TestBut == ASSUME NEW S, NEW s \in Seq(S), NEW n PROVE Test!But(s, n) \in Seq(S)
BY TestLeft DEF Test!But
LEMMA TestNewest ==
  ASSUME NEW l, NEW s \in Seq(TestEntry(l)), NEW n \in Names, NEW v \in (IF l = "saved" THEN TestCfg ELSE TestOwn)
  PROVE  Test!Newest(s, n, v) \in Seq(TestEntry(l))
<1> DEFINE e == [name |-> n, v |-> v]
           t == Test!But(s, n)
<1>1. e \in TestEntry(l)
  BY DEF TestEntry
<1>2. t \in Seq(TestEntry(l))
  BY TestBut
<1>3. Test!Newest(s, n, v) = Test!Cut(<<e>> \o t)
  BY DEF Test!Newest
<1> HIDE DEF e, t
<1>4. <<e>> \o t \in Seq(TestEntry(l))
  BY <1>1, <1>2, ConcatProperties
<1>5. QED
  BY <1>3, <1>4, TestCut
LEMMA TestPicked ==
  ASSUME NEW l, NEW s \in Seq(TestEntry(l)), NEW n \in Test!Named(s)
  PROVE  Test!Of1(s, n) \in (IF l = "saved" THEN TestCfg ELSE TestOwn)
<1>1. PICK i \in DOMAIN s : s[i].name = n
  BY DEF Test!Named
<1>2. \E e \in Test!Range(s) : e.name = n
  BY <1>1 DEF Test!Range
<1> DEFINE e == CHOOSE x \in Test!Range(s) : x.name = n
<1>3. e \in Test!Range(s)
  BY <1>2
<1>4. \A j \in DOMAIN s : s[j] \in TestEntry(l)
  BY LenProperties
<1>5. e \in TestEntry(l)
  BY <1>3, <1>4 DEF Test!Range
<1>6. Test!Of1(s, n) = e.v
  BY DEF Test!Of1
<1> HIDE DEF e
<1>7. QED
  BY <1>5, <1>6 DEF TestEntry
\* What an earlier visit kept, in some order.
LEMMA TestListed ==
  ASSUME NEW S, IsFiniteSet(S)
  PROVE  Test!SetToSeq(S) \in Seq(S) /\ (S = {} => Test!SetToSeq(S) = <<>>)
<1> DEFINE n == Cardinality(S)
<1>1. n \in Nat /\ (S = {} => n = 0)
  BY FS_CardinalityType, FS_EmptySet
<1>2. ExistsBijection(1..n, S)
  BY FS_CardinalityType
<1>3. PICK f \in Bijection(1..n, S) : TRUE
  BY <1>2 DEF ExistsBijection
<1>4. f \in [1..n -> S] /\ \A a, b \in 1..n : f[a] = f[b] => a = b
  BY <1>3 DEF Bijection, Injection, IsInjective
<1>5. Test!IsInjective(f)
  BY <1>4 DEF Test!IsInjective
<1> DEFINE g == CHOOSE h \in [1..n -> S] : Test!IsInjective(h)
<1>6. g \in [1..n -> S]
  BY <1>4, <1>5
<1>7. Test!SetToSeq(S) = g
  BY TestSize DEF Test!SetToSeq
<1> HIDE DEF n, g
<1>8. g \in Seq(S)
  BY <1>1, <1>6
<1>9. n = 0 => g = <<>>
  <2>1. n = 0 => DOMAIN g = {}
    BY <1>6
  <2>2. Len(g) = n
    BY <1>1, <1>6, LenProperties, <1>8
  <2>3. QED
    BY <1>8, <2>2, EmptySeq
<1>10. QED
  BY <1>1, <1>7, <1>8, <1>9
LEMMA TestEarlier ==
  ASSUME NEW V, NEW v \in V, NEW N \in {{}, Names}
  PROVE  Test!Earlier(N, v) \in Seq([name : Names, v : V]) /\ (N = {} => Test!Earlier(N, v) = <<>>)
<1> DEFINE S == {[name |-> n, v |-> v] : n \in N}
           E == [name : Names, v : V]
           t == Test!SetToSeq(S)
<1>1. IsFiniteSet(N)
  BY TestNames, FS_EmptySet
<1>2. IsFiniteSet(S)
  <2> DEFINE h == [n \in N |-> [name |-> n, v |-> v]]
  <2>1. h \in Surjection(N, S)
    BY DEF Surjection
  <2>2. QED
    BY <1>1, <2>1, FS_Surjection
<1>3. S \subseteq E /\ (N = {} => S = {})
  OBVIOUS
<1>4. Test!Earlier(N, v) = Test!Cut(t)
  BY DEF Test!Earlier
<1>5. t \in Seq(S) /\ (S = {} => t = <<>>)
  BY <1>2, TestListed
<1> HIDE DEF S, E, t
<1>6. t \in Seq(E)
  BY <1>3, <1>5
<1>7. Test!Cut(t) \in Seq(E)
  BY <1>6, TestCut
<1>8. N = {} => Test!Cut(t) = <<>>
  <2>1. ASSUME N = {} PROVE t = <<>> /\ Len(t) = 0
    BY <1>3, <1>5, <2>1
  <2>2. N = {} => Test!Cut(t) = SubSeq(t, 1, IF 0 < MaxSaved THEN 0 ELSE MaxSaved)
    BY <2>1 DEF Test!Cut
  <2>3. (IF 0 < MaxSaved THEN 0 ELSE MaxSaved) = 0
    BY TestNames
  <2>4. N = {} => Len(SubSeq(t, 1, 0)) = 0 /\ SubSeq(t, 1, 0) \in Seq(E)
    BY <1>6, <2>1, SubSeqProperties
  <2>5. QED
    BY <2>2, <2>3, <2>4, EmptySeq
<1>9. QED
  BY <1>4, <1>7, <1>8 DEF E

-------------------------------------------------------------------------------
\* The server's runs.
LEMMA TestRunning ==
  ASSUME NEW js \in Seq(TestJob)
  PROVE  IsFiniteSet(Test!Running(js)) /\ Cardinality(Test!Running(js)) \in Nat /\ Cardinality(Test!Running(js)) <= Len(js)
<1>1. Len(js) \in Nat /\ DOMAIN js = 1..Len(js)
  BY LenProperties
<1>2. IsFiniteSet(1..Len(js)) /\ Cardinality(1..Len(js)) = Len(js)
  BY <1>1, FS_Interval
<1>3. Test!Running(js) \in SUBSET (1..Len(js))
  BY <1>1 DEF Test!Running
<1>4. QED
  BY <1>2, <1>3, FS_Subset, FS_CardinalityType
\* What is left of the runs when some are taken away.
LEMMA TestFewer ==
  ASSUME NEW js \in Seq(TestJob), NEW K
  PROVE  /\ Test!Places(js, K) \in Seq(TestJob)
         /\ Len(Test!Places(js, K)) <= Len(js)
         /\ (\E i \in DOMAIN js : i \notin K) => Len(Test!Places(js, K)) < Len(js)
         /\ Cardinality(Test!Running(Test!Places(js, K))) <= Cardinality(Test!Running(js))
<1> DEFINE t == Test!Places(js, K)
           Q == Among(Len(js), K)
<1>1. t \in Seq(TestJob) /\ Len(t) \in Nat /\ Len(t) <= Len(js) /\ Picks(t, js, Q)
  BY TestLeft
<1> HIDE DEF t
<1>2. Len(js) \in Nat /\ DOMAIN js = 1..Len(js) /\ DOMAIN t = 1..Len(t)
  BY <1>1, LenProperties
<1>3. PICK f \in [1..Len(t) -> Q] :
        /\ \A k \in 1..Len(t) : t[k] = js[f[k]]
        /\ \A j, k \in 1..Len(t) : j < k => f[j] < f[k]
  BY <1>1 DEF Picks
<1>4. \A k \in 1..Len(t) : f[k] \in 1..Len(js) /\ f[k] \in K
  BY <1>3 DEF Among
<1>5. \A j, k \in 1..Len(t) : f[j] = f[k] => j = k
  BY <1>1, <1>2, <1>3, <1>4
<1>6. ASSUME NEW i \in DOMAIN js, i \notin K PROVE Len(t) < Len(js)
  <2> DEFINE D == (1..Len(js)) \ {i}
  <2>1. IsFiniteSet(1..Len(js)) /\ Cardinality(1..Len(js)) = Len(js) /\ IsFiniteSet(1..Len(t)) /\ Cardinality(1..Len(t)) = Len(t)
    <3>1. \A n \in Nat : IsFiniteSet(1..n) /\ Cardinality(1..n) = n
      BY FS_Interval
    <3>2. QED
      BY <1>1, <1>2, <3>1
  <2>2. IsFiniteSet(D) /\ Cardinality(D) = Len(js) - 1
    <3> DEFINE I == 1..Len(js)
    <3>1. IsFiniteSet(I) /\ i \in I /\ Cardinality(I) = Len(js)
      BY <1>2, <1>6, <2>1
    <3> HIDE DEF I
    <3>2. IsFiniteSet(I \ {i}) /\ Cardinality(I \ {i}) = Cardinality(I) - 1
      BY <3>1, FS_RemoveElement
    <3>3. QED
      BY <3>1, <3>2 DEF I
  <2> HIDE DEF D
  <2>3. f \in [1..Len(t) -> D]
    BY <1>3, <1>4, <1>6 DEF D
  <2>4. f \in Injection(1..Len(t), D)
    BY <1>5, <2>3 DEF Injection, IsInjective
  <2>5. Len(t) <= Cardinality(D)
    BY <2>1, <2>2, <2>4, FS_Injection
  <2>6. QED
    BY <1>1, <1>2, <2>2, <2>5
<1>7. Cardinality(Test!Running(t)) <= Cardinality(Test!Running(js))
  <2> DEFINE A == Test!Running(t)
             B == Test!Running(js)
             g == [k \in A |-> f[k]]
  <2>1. A \subseteq 1..Len(t) /\ \A k \in A : f[k] \in B
    BY <1>2, <1>3, <1>4 DEF Test!Running
  <2>2. IsFiniteSet(B)
    BY TestRunning
  <2> HIDE DEF A, B
  <2>3. g \in Injection(A, B)
    BY <1>5, <2>1 DEF Injection, IsInjective
  <2>4. QED
    BY <2>2, <2>3, FS_Injection DEF A, B
<1>8. QED
  BY <1>1, <1>6, <1>7 DEF t
\* One run too many: an ended one is there, and the oldest of them gives way.
LEMMA TestRing ==
  ASSUME NEW js \in Seq(TestJob), Len(js) <= MaxJobs + 1, Cardinality(Test!Running(js)) <= MaxRunning
  PROVE  TestJobs(Test!Ring(js))
<1>0. /\ MaxRunning \in Nat /\ MaxJobs \in Nat /\ MaxRunning <= MaxJobs /\ Len(js) \in Nat /\ DOMAIN js = 1..Len(js)
  BY TestNames, LenProperties
<1> DEFINE over == Len(js) - MaxJobs
           Done(i) == {j \in 1..i : js[j].status # "running"}
           gone == {i \in DOMAIN js : js[i].status # "running" /\ Cardinality(Done(i)) <= over}
           t == Test!Places(js, DOMAIN js \ gone)
<1>1. Test!Ring(js) = t
  BY TestSize DEF Test!Ring
<1>2. /\ t \in Seq(TestJob) /\ Len(t) <= Len(js) /\ ((\E i \in DOMAIN js : i \notin DOMAIN js \ gone) => Len(t) < Len(js))
      /\ Cardinality(Test!Running(t)) <= Cardinality(Test!Running(js))
  BY TestFewer
<1>3. over = 1 => \E i \in DOMAIN js : i \in gone
  <2> SUFFICES ASSUME over = 1 PROVE \E i \in DOMAIN js : i \in gone
    OBVIOUS
  <2> DEFINE E == {i \in 1..Len(js) : js[i].status # "running"}
  <2>1. E # {}
    <3> SUFFICES ASSUME E = {} PROVE FALSE
      OBVIOUS
    <3>1. Test!Running(js) = 1..Len(js)
      BY <1>0 DEF Test!Running
    <3>2. Cardinality(1..Len(js)) = Len(js)
      <4>1. \A n \in Nat : Cardinality(1..n) = n
        BY FS_Interval
      <4>2. QED
        BY <1>0, <4>1
    <3>3. QED
      BY <1>0, <3>1, <3>2
  <2>2. E \in SUBSET Nat
    OBVIOUS
  <2>3. PICK i \in E : \A j \in E : i <= j
    BY <2>1, <2>2, NatLeast
  <2>4. Done(i) = {i}
    BY <1>0, <2>3
  <2>5. Cardinality(Done(i)) = 1
    BY <2>4, FS_Singleton
  <2> HIDE DEF Done
  <2>6. i \in DOMAIN js /\ js[i].status # "running" /\ Cardinality(Done(i)) <= over
    BY <1>0, <2>3, <2>5
  <2> HIDE DEF over
  <2>7. QED
    BY <2>6
<1> HIDE DEF gone, t
<1>4. Len(t) <= MaxJobs
  <2>1. Len(t) \in Nat
    BY <1>2, LenProperties
  <2>2. CASE over = 1
    BY <1>0, <1>2, <1>3, <2>1, <2>2
  <2>3. CASE over # 1
    <3>1. \A a, b, m \in Nat : a <= b /\ b <= m + 1 /\ b - m # 1 => a <= m
      OBVIOUS
    <3>2. Len(t) <= Len(js) /\ Len(js) <= MaxJobs + 1 /\ Len(js) - MaxJobs # 1
      BY <1>2, <2>3
    <3>3. QED
      BY <1>0, <2>1, <3>1, <3>2
  <2>4. QED
    BY <2>2, <2>3
<1>5. Cardinality(Test!Running(t)) \in Nat /\ Cardinality(Test!Running(js)) \in Nat
  BY <1>2, TestRunning
<1>6. QED
  BY <1>0, <1>1, <1>2, <1>4, <1>5 DEF TestJobs
LEMMA TestStarted ==
  ASSUME NEW u, TestRecord(u), TestServes(u), NEW cfg \in TestCfg, Test!Accepts(u.jobs, cfg)
  PROVE  /\ TestServes(Test!StartJob(u, cfg)) /\ TestRecord(Test!StartJob(u, cfg))
         /\ Test!StartJob(u, cfg).form = u.form /\ Test!StartJob(u, cfg).loaded = u.loaded
         /\ Test!StartJob(u, cfg).list = u.list /\ Test!StartJob(u, cfg).disk = u.disk
         /\ Test!StartJob(u, cfg).read = u.read /\ Test!StartJob(u, cfg).ahead = u.ahead
<1> DEFINE j == Test!Job(u.next, cfg)
           js == Append(u.jobs, j)
<1>1. /\ u.jobs \in Seq(TestJob) /\ Len(u.jobs) <= MaxJobs /\ u.next \in Nat /\ Cardinality(Test!Running(u.jobs)) < MaxRunning
      /\ Len(u.jobs) \in Nat /\ DOMAIN u.jobs = 1..Len(u.jobs)
  BY LenProperties, TestSize DEF TestServes, TestJobs, Test!Accepts
<1>2. j \in TestJob
  BY <1>1 DEF TestJob, Test!Job
<1> HIDE DEF j
<1>3. js \in Seq(TestJob) /\ Len(js) = Len(u.jobs) + 1 /\ DOMAIN js = 1..(Len(u.jobs) + 1) /\ \A p \in 1..Len(u.jobs) : js[p] = u.jobs[p]
  BY <1>1, <1>2, AppendProperties
<1>4. Test!StartJob(u, cfg) = [u EXCEPT !.jobs = Test!Ring(js), !.next = u.next + 1]
  BY DEF Test!StartJob, j
<1> HIDE DEF js
<1>5. Cardinality(Test!Running(js)) <= MaxRunning
  <2> DEFINE A == Test!Running(u.jobs)
             n == Len(u.jobs) + 1
  <2>1. Test!Running(js) \in SUBSET (A \cup {n})
    BY <1>1, <1>3 DEF Test!Running
  <2>2. IsFiniteSet(A) /\ Cardinality(A) \in Nat
    BY <1>1, TestRunning
  <2>3. IsFiniteSet(A \cup {n}) /\ Cardinality(A \cup {n}) <= Cardinality(A) + 1
    <3> HIDE DEF A
    <3>1. IsFiniteSet(A \cup {n}) /\ Cardinality(A \cup {n}) = IF n \in A THEN Cardinality(A) ELSE Cardinality(A) + 1
      BY <2>2, FS_AddElement
    <3>2. QED
      BY <2>2, <3>1
  <2>4. Cardinality(Test!Running(js)) <= Cardinality(A \cup {n})
    BY <2>1, <2>3, FS_Subset
  <2>5. Cardinality(A \cup {n}) \in Nat /\ Cardinality(Test!Running(js)) \in Nat
    BY <1>3, <2>3, FS_CardinalityType, TestRunning
  <2>6. QED
    BY <1>1, <2>2, <2>3, <2>4, <2>5, TestNames
<1>6. TestJobs(Test!Ring(js))
  BY <1>1, <1>3, <1>5, TestRing, TestNames
<1>7. QED
  BY <1>1, <1>4, <1>6 DEF TestServes, TestRecord
\* A run that ends is one of them still.
LEMMA TestEnded ==
  ASSUME NEW js, TestJobs(js), NEW i \in DOMAIN js, NEW st \in {"done", "error"}
  PROVE  TestJobs([js EXCEPT ![i].status = st])
<1> DEFINE k == [js EXCEPT ![i].status = st]
<1>1. js \in Seq(TestJob) /\ Len(js) \in Nat /\ DOMAIN js = 1..Len(js) /\ Len(js) <= MaxJobs /\ Cardinality(Test!Running(js)) <= MaxRunning
  BY LenProperties DEF TestJobs
<1>2. js[i] \in TestJob
  BY <1>1, ElementOfSeq
<1>3. [js[i] EXCEPT !.status = st] \in TestJob /\ [js[i] EXCEPT !.status = st].status = st
  BY <1>2 DEF TestJob
<1>4. k = [js EXCEPT ![i] = [js[i] EXCEPT !.status = st]]
  OBVIOUS
<1> DEFINE e == [js[i] EXCEPT !.status = st]
<1> HIDE DEF e
<1>5. k = [js EXCEPT ![i] = e] /\ e \in TestJob /\ e.status = st
  BY <1>3, <1>4 DEF e
<1> HIDE DEF k
<1>6. k \in Seq(TestJob) /\ Len(k) = Len(js) /\ DOMAIN k = 1..Len(js)
  BY <1>1, <1>5, ExceptSeq
<1>7. Test!Running(k) \in SUBSET Test!Running(js)
  BY <1>1, <1>5, <1>6 DEF Test!Running
<1>8. Cardinality(Test!Running(k)) <= Cardinality(Test!Running(js)) /\ Cardinality(Test!Running(k)) \in Nat /\ Cardinality(Test!Running(js)) \in Nat
  BY <1>1, <1>6, <1>7, TestRunning, FS_Subset
<1>9. QED
  BY <1>1, <1>6, <1>8, TestNames DEF TestJobs, k

-------------------------------------------------------------------------------
\* What is kept, and the runs, are as they should be in every state.
LEMMA TestKeptHolds == TestKept => Test!LoadedIsBuilt /\ Test!KeptIsShown /\ Test!JobsBounded
<1> SUFFICES ASSUME TestKept PROVE Test!LoadedIsBuilt /\ Test!KeptIsShown /\ Test!JobsBounded
  OBVIOUS
<1>1. Test!LoadedIsBuilt
  BY DEF TestKept, TestLoaded, Test!LoadedIsBuilt
<1>2. Test!KeptIsShown
  BY DEF TestKept, TestLists, TestAgree, Test!KeptIsShown
<1>3. Test!JobsBounded
  <2>1. ui.jobs \in Seq(TestJob) /\ Len(ui.jobs) <= MaxJobs /\ Cardinality(Test!Running(ui.jobs)) <= MaxRunning /\ Len(ui.jobs) \in Nat
    BY LenProperties DEF TestKept, TestServes, TestJobs
  <2>2. ~(Len(ui.jobs) > MaxJobs)
    BY <2>1, TestNames
  <2>3. QED
    BY <2>1, <2>2, TestSize DEF Test!JobsBounded
<1>4. QED
  BY <1>1, <1>2, <1>3

\* The console opens: what is on the device is asked for, and nothing of it is shown.
LEMMA TestKeptOpens ==
  ASSUME NEW u, TestRecord(u), u.form \in TestForm, u.loaded = Test!None, TestLists(u),
         \A l \in Test!Lists : u.list[l] = <<>> /\ (l \notin u.disk.there => u.disk[l] = <<>>),
         u.read = {}, u.ahead = {}, NEW C, \A c \in C : c \in Test!Opening(u) \/ c.kind = "file"
  PROVE  TestLoaded(u) /\ TestAgree(u) /\ TestCalls(u, C)
<1>1. TestLoaded(u) /\ TestAgree(u)
  BY DEF TestLoaded, TestAgree
<1>2. ASSUME NEW c \in C
      PROVE  \/ c.kind = "cfg" /\ c.v = u.disk.cfg
             \/ c.kind \in {"last", "file"}
             \/ \E l \in Test!Lists : c = [kind |-> "list", of |-> l, was |-> u.disk[l], there |-> l \in u.disk.there]
  BY DEF Test!Opening
<1>3. ASSUME NEW c \in C PROVE TestCall(u, c)
  <2>1. CASE c.kind = "cfg"
    BY <1>2, <2>1 DEF TestCall, TestLists
  <2>2. CASE c.kind = "list"
    <3>1. PICK l \in Test!Lists : c = [kind |-> "list", of |-> l, was |-> u.disk[l], there |-> l \in u.disk.there]
      BY <1>2, <2>2
    <3>2. c.of = l /\ c.was = u.disk[l] /\ (c.there <=> l \in u.disk.there)
      BY <3>1
    <3>3. u.disk[l] \in Seq(TestEntry(l))
      BY DEF TestLists
    <3>4. QED
      BY <2>2, <3>2, <3>3 DEF TestCall
  <2>3. CASE c.kind \notin {"cfg", "list"}
    BY <1>2, <2>3 DEF TestCall
  <2>4. QED
    BY <2>1, <2>2, <2>3
<1>4. ASSUME NEW c \in C, NEW d \in C, c.kind = "list", d.kind = "list", c.of = d.of PROVE c = d
  <2>1. PICK l \in Test!Lists : c = [kind |-> "list", of |-> l, was |-> u.disk[l], there |-> l \in u.disk.there]
    BY <1>2, <1>4
  <2>2. PICK k \in Test!Lists : d = [kind |-> "list", of |-> k, was |-> u.disk[k], there |-> k \in u.disk.there]
    BY <1>2, <1>4
  <2>3. k = l
    BY <1>4, <2>1, <2>2
  <2>4. QED
    BY <2>1, <2>2, <2>3
<1>5. QED
  BY <1>1, <1>3, <1>4 DEF TestCalls

LEMMA TestKeptInit == Test!Init => TestKept
<1> SUFFICES ASSUME Test!Init PROVE TestKept
  OBVIOUS
<1> DEFINE c == [Test!BuildCfg(Test!Form) EXCEPT !.stop = TRUE]
           d == Test!CustomDef([Test!Form EXCEPT !.rules = FALSE])
<1>1. c \in TestCfg
  <2>1. Test!BuildCfg(Test!Form) \in TestCfg
    BY TestDefault, TestBuilt
  <2>2. QED
    BY <2>1 DEF TestCfg
<1>2. d \in TestOwn
  <2>1. [Test!Form EXCEPT !.rules = FALSE] \in TestForm
    BY TestDefault DEF TestForm
  <2>2. QED
    BY <2>1, TestDef
<1>3. PICK n \in {{}, Names}, f \in {0, 1} :
        /\ ui = [form |-> Test!Form, loaded |-> Test!None, running |-> FALSE, shown |-> 0, previous |-> FALSE, error |-> FALSE, misses |-> 0,
                 list |-> [l \in Test!Lists |-> <<>>], read |-> {}, ahead |-> {}, run |-> 0,
                 disk |-> [cfg |-> Test!None, there |-> IF n = {} THEN {} ELSE Test!Lists, saved |-> Test!Earlier(n, c), mine |-> Test!Earlier(n, d)],
                 jobs |-> <<>>, next |-> 2, file |-> f]
        /\ calls = Test!Opening(ui)
  BY DEF Test!Init
<1> HIDE DEF c, d
<1>4. /\ Test!Earlier(n, c) \in Seq([name : Names, v : TestCfg]) /\ (n = {} => Test!Earlier(n, c) = <<>>)
      /\ Test!Earlier(n, d) \in Seq([name : Names, v : TestOwn]) /\ (n = {} => Test!Earlier(n, d) = <<>>)
  BY <1>1, <1>2, TestEarlier
<1>5. TestEntry("saved") = [name : Names, v : TestCfg] /\ TestEntry("mine") = [name : Names, v : TestOwn]
  BY DEF TestEntry
<1>k. /\ TestRecord(ui) /\ ui.form = Test!Form /\ ui.loaded = Test!None /\ ui.list = [l \in Test!Lists |-> <<>>] /\ ui.read = {} /\ ui.ahead = {}
      /\ ui.disk = [cfg |-> Test!None, there |-> IF n = {} THEN {} ELSE Test!Lists, saved |-> Test!Earlier(n, c), mine |-> Test!Earlier(n, d)]
      /\ ui.jobs = <<>> /\ ui.next = 2
  BY <1>3 DEF TestRecord
<1>6. /\ ui.disk["saved"] = Test!Earlier(n, c) /\ ui.disk["mine"] = Test!Earlier(n, d) /\ ui.disk.cfg = Test!None
      /\ ui.disk.there = (IF n = {} THEN {} ELSE Test!Lists) /\ DOMAIN ui.disk = {"cfg", "there", "saved", "mine"}
  BY <1>k
<1>7. \A l \in Test!Lists : ui.disk[l] \in Seq(TestEntry(l)) /\ (l \notin ui.disk.there => ui.disk[l] = <<>>)
  BY <1>4, <1>5, <1>6 DEF Test!Lists
<1>8. \A l \in Test!Lists : ui.list[l] = <<>> /\ ui.list[l] \in Seq(TestEntry(l))
  <2>1. \A l \in Test!Lists : <<>> \in Seq(TestEntry(l))
    BY EmptySeq
  <2>2. QED
    BY <1>k, <2>1
<1>9. TestLists(ui)
  BY <1>k, <1>6, <1>7, <1>8 DEF TestLists
<1>10. TestServes(ui)
  <2>1. <<>> \in Seq(TestJob) /\ Len(<<>>) = 0
    BY EmptySeq
  <2>2. Cardinality(Test!Running(<<>>)) <= 0 /\ Cardinality(Test!Running(<<>>)) \in Nat
    BY <2>1, TestRunning
  <2>3. QED
    BY <1>k, <2>1, <2>2, TestNames DEF TestServes, TestJobs
<1>11. QED
  BY <1>3, <1>k, <1>7, <1>8, <1>9, <1>10, TestDefault, TestKeptOpens DEF TestKept

\* Nothing of what is kept changes, and nothing is asked for.
TestStill(u) ==
  /\ u.form = ui.form /\ u.loaded = ui.loaded /\ u.list = ui.list /\ u.disk = ui.disk /\ u.read = ui.read /\ u.ahead = ui.ahead
LEMMA TestKeptSame ==
  ASSUME TestKept, TestRecord(ui'), TestServes(ui'), TestStill(ui'),
         \A c \in calls' : c \in calls \/ c.kind \notin {"cfg", "list", "launch"}
  PROVE  TestKept'
<1>1. TestLoaded(ui') /\ TestLists(ui') /\ TestAgree(ui')
  BY DEF TestKept, TestStill, TestLoaded, TestLists, TestAgree
<1>2. TestCalls(ui', calls')
  BY DEF TestKept, TestStill, TestCalls, TestCall
<1>3. QED
  BY <1>1, <1>2 DEF TestKept

\* The form changes by itself.
LEMMA TestKeptForm ==
  ASSUME TestKept, NEW f \in TestForm, NEW w, ui' = [ui EXCEPT !.form = f, !.loaded = w],
         w # Test!None => Test!BuildCfg(f) = w, \A c \in calls' : c \in calls
  PROVE  TestKept'
<1>1. /\ TestRecord(ui') /\ ui'.form = f /\ ui'.loaded = w /\ ui'.list = ui.list /\ ui'.disk = ui.disk /\ ui'.read = ui.read
      /\ ui'.ahead = ui.ahead /\ ui'.jobs = ui.jobs /\ ui'.next = ui.next
  BY DEF TestKept, TestRecord
<1>2. TestServes(ui') /\ TestLoaded(ui') /\ TestLists(ui') /\ TestAgree(ui')
  BY <1>1 DEF TestKept, TestServes, TestLoaded, TestLists, TestAgree
<1>3. TestCalls(ui', calls')
  BY <1>1 DEF TestKept, TestCalls, TestCall
<1>4. QED
  BY <1>1, <1>2, <1>3 DEF TestKept

LEMMA TestKeptEdits ==
  ASSUME TestKept, Test!EditUniverse \/ Test!PickStrategy \/ Test!EditRules \/ Test!EditRisk \/ Test!EditCosts
  PROVE  TestKept'
<1>0. ui.form \in TestForm /\ ui.list["mine"] \in Seq(TestEntry("mine"))
  BY DEF TestKept, TestLoaded, TestLists, Test!Lists
<1>1. ASSUME NEW f \in TestForm, Test!Edit(f) PROVE TestKept'
  <2>1. ui' = [ui EXCEPT !.form = f, !.loaded = Test!None] /\ calls' = calls
    BY <1>1 DEF Test!Edit
  <2>2. QED
    BY <2>1, TestKeptForm
<1>2. \A m \in {"index", "symbols"} : [ui.form EXCEPT !.mode = m] \in TestForm
  BY <1>0 DEF TestForm
<1>3. \A s \in Tested : [ui.form EXCEPT !.syms = IF s \in @ THEN @ \ {s} ELSE @ \cup {s}] \in TestForm
  <2> SUFFICES ASSUME NEW s \in Tested PROVE [ui.form EXCEPT !.syms = IF s \in @ THEN @ \ {s} ELSE @ \cup {s}] \in TestForm
    OBVIOUS
  <2> DEFINE S == ui.form.syms
             T == IF s \in S THEN S \ {s} ELSE S \cup {s}
  <2>1. T \in SUBSET Tested
    BY <1>0 DEF TestForm
  <2>2. [ui.form EXCEPT !.syms = IF s \in @ THEN @ \ {s} ELSE @ \cup {s}] = [ui.form EXCEPT !.syms = T]
    OBVIOUS
  <2> HIDE DEF T
  <2>3. [ui.form EXCEPT !.syms = T] \in TestForm
    BY <1>0, <2>1 DEF TestForm
  <2>4. QED
    BY <2>2, <2>3
<1>4. \A k \in Bots \cup {Test!Custom} : [ui.form EXCEPT !.key = k] \in TestForm
  BY <1>0 DEF TestForm, TestKeys
<1>5. ASSUME NEW n \in Test!Named(ui.list["mine"]) PROVE Test!LoadCustomDef(ui.form, Test!Of1(ui.list["mine"], n)) \in TestForm
  <2>1. Test!Of1(ui.list["mine"], n) \in TestOwn
    BY <1>0, TestPicked
  <2>2. QED
    BY <1>0, <2>1, TestOwnLoaded
<1>6. [ui.form EXCEPT !.rules = ~@] \in TestForm /\ [ui.form EXCEPT !.stop = ~@] \in TestForm /\ [ui.form EXCEPT !.own = ~@] \in TestForm
  BY <1>0 DEF TestForm
<1>7. \A b \in Bots \cup {Test!NoBase} : [ui.form EXCEPT !.base = b] \in TestForm
  BY <1>0 DEF TestForm, TestBases
<1>8. CASE Test!EditUniverse
  BY <1>1, <1>2, <1>3, <1>8 DEF Test!EditUniverse
<1>9. CASE Test!PickStrategy
  BY <1>1, <1>4, <1>5, <1>9 DEF Test!PickStrategy
<1>10. CASE Test!EditRules \/ Test!EditRisk \/ Test!EditCosts
  BY <1>1, <1>6, <1>7, <1>10 DEF Test!EditRules, Test!EditRisk, Test!EditCosts
<1>11. QED
  BY <1>8, <1>9, <1>10

\* A list is written on the device as it is on the screen.
LEMMA TestKeptStore ==
  ASSUME TestKept, NEW l \in Test!Lists, NEW s \in Seq(TestEntry(l)), Test!Store(l, s)
  PROVE  TestKept'
<1>0. TestRecord(ui) /\ TestLists(ui) /\ TestAgree(ui) /\ TestCalls(ui, calls)
  BY DEF TestKept
<1>1. /\ ui' = [ui EXCEPT !.list[l] = s, !.disk[l] = s, !.disk.there = @ \cup {l}, !.ahead = @ \cup ({l} \ ui.read)]
      /\ calls' = calls
  BY DEF Test!Store
<1>2. /\ TestRecord(ui') /\ ui'.form = ui.form /\ ui'.loaded = ui.loaded /\ ui'.jobs = ui.jobs /\ ui'.next = ui.next
      /\ ui'.read = ui.read /\ ui'.ahead = ui.ahead \cup ({l} \ ui.read)
  BY <1>0, <1>1 DEF TestRecord
<1>3. ui'.list = [ui.list EXCEPT ![l] = s]
  BY <1>0, <1>1 DEF TestRecord
<1>4. ui'.disk = [[ui.disk EXCEPT ![l] = s] EXCEPT !.there = ui.disk.there \cup {l}]
  <2>1. l # "there"
    BY DEF Test!Lists
  <2>2. QED
    BY <1>0, <1>1, <2>1 DEF TestRecord
<1>5. /\ DOMAIN ui'.list = Test!Lists /\ ui'.list[l] = s /\ \A k \in Test!Lists : k # l => ui'.list[k] = ui.list[k]
  BY <1>0, <1>3 DEF TestLists
<1>6. /\ DOMAIN ui'.disk = DOMAIN ui.disk /\ ui'.disk[l] = s /\ ui'.disk.there = ui.disk.there \cup {l} /\ ui'.disk.cfg = ui.disk.cfg
      /\ \A k \in Test!Lists : k # l => ui'.disk[k] = ui.disk[k]
  BY <1>0, <1>4 DEF TestLists, Test!Lists
<1>7. TestServes(ui') /\ TestLoaded(ui')
  BY <1>2 DEF TestKept, TestServes, TestLoaded
<1>8. TestLists(ui')
  BY <1>0, <1>2, <1>5, <1>6 DEF TestLists
<1>9. TestAgree(ui')
  BY <1>0, <1>2, <1>5, <1>6 DEF TestAgree
<1>10. ASSUME NEW c \in calls PROVE TestCall(ui', c)
  <2>1. TestCall(ui, c)
    BY <1>0 DEF TestCalls
  <2>2. CASE c.kind = "list" /\ c.of = l
    BY <1>2, <2>1, <2>2 DEF TestCall
  <2>3. CASE c.kind = "list" /\ c.of # l
    BY <1>2, <1>6, <2>1, <2>3 DEF TestCall
  <2>4. CASE c.kind # "list"
    BY <2>1, <2>4 DEF TestCall
  <2>5. QED
    BY <2>2, <2>3, <2>4
<1>11. TestCalls(ui', calls')
  BY <1>0, <1>1, <1>10 DEF TestCalls
<1>12. QED
  BY <1>2, <1>7, <1>8, <1>9, <1>11 DEF TestKept

LEMMA TestKeptSaves ==
  ASSUME TestKept, NEW n \in Names,
         Test!SaveStrategy(n) \/ Test!DeleteStrategy(n) \/ Test!SaveCurrent(n) \/ Test!LoadSaved(n)
  PROVE  TestKept'
<1>0. /\ ui.form \in TestForm /\ ui.list["mine"] \in Seq(TestEntry("mine")) /\ ui.list["saved"] \in Seq(TestEntry("saved"))
      /\ "mine" \in Test!Lists /\ "saved" \in Test!Lists
  BY DEF TestKept, TestLoaded, TestLists, Test!Lists
<1>1. CASE Test!SaveStrategy(n)
  <2>1. Test!CustomDef(ui.form) \in (IF "mine" = "saved" THEN TestCfg ELSE TestOwn)
    BY <1>0, TestDef
  <2>2. Test!Newest(ui.list["mine"], n, Test!CustomDef(ui.form)) \in Seq(TestEntry("mine"))
    BY <1>0, <2>1, TestNewest
  <2>3. QED
    BY <1>0, <1>1, <2>2, TestKeptStore DEF Test!SaveStrategy
<1>2. CASE Test!DeleteStrategy(n)
  <2>1. Test!But(ui.list["mine"], n) \in Seq(TestEntry("mine"))
    BY <1>0, TestBut
  <2>2. QED
    BY <1>0, <1>2, <2>1, TestKeptStore DEF Test!DeleteStrategy
<1>3. CASE Test!SaveCurrent(n)
  <2>1. Test!BuildCfg(ui.form) \in (IF "saved" = "saved" THEN TestCfg ELSE TestOwn)
    BY <1>0, TestBuilt
  <2>2. Test!Newest(ui.list["saved"], n, Test!BuildCfg(ui.form)) \in Seq(TestEntry("saved"))
    BY <1>0, <2>1, TestNewest
  <2>3. QED
    BY <1>0, <1>3, <2>2, TestKeptStore DEF Test!SaveCurrent
<1>4. CASE Test!LoadSaved(n)
  <2> DEFINE c == Test!Of1(ui.list["saved"], n)
             f == Test!ApplyCfg(ui.form, c)
             w == IF Test!LeftOut(ui.form, c) THEN Test!None ELSE c
  <2>1. c \in TestCfg
    BY <1>0, <1>4, TestPicked DEF Test!LoadSaved
  <2>2. ui' = [ui EXCEPT !.form = f, !.loaded = w] /\ calls' = calls
    BY <1>4 DEF Test!LoadSaved
  <2>3. f \in TestForm /\ (w # Test!None => Test!BuildCfg(f) = w)
    BY <1>0, <2>1, TestApplied
  <2> HIDE DEF f, w
  <2>4. QED
    BY <2>2, <2>3, TestKeptForm
<1>5. QED
  BY <1>1, <1>2, <1>3, <1>4

LEMMA TestKeptRun == ASSUME TestKept, Test!Run PROVE TestKept'
<1>0. TestRecord(ui) /\ TestLists(ui) /\ TestAgree(ui) /\ TestCalls(ui, calls) /\ ui.form \in TestForm
  BY DEF TestKept, TestLoaded
<1> DEFINE b == Test!BuildCfg(ui.form)
<1>1. b \in TestCfg
  BY <1>0, TestBuilt
<1>2. /\ ui' = [ui EXCEPT !.disk.cfg = b, !.error = FALSE, !.running = TRUE, !.run = 0]
      /\ calls' = calls \cup {[kind |-> "launch", cfg |-> b]}
  BY DEF Test!Run
<1> HIDE DEF b
<1>3. /\ TestRecord(ui') /\ ui'.form = ui.form /\ ui'.loaded = ui.loaded /\ ui'.jobs = ui.jobs /\ ui'.next = ui.next
      /\ ui'.read = ui.read /\ ui'.ahead = ui.ahead /\ ui'.list = ui.list
  BY <1>0, <1>2 DEF TestRecord
<1>4. ui'.disk = [ui.disk EXCEPT !.cfg = b]
  BY <1>0, <1>2 DEF TestRecord
<1>5. /\ DOMAIN ui'.disk = DOMAIN ui.disk /\ ui'.disk.there = ui.disk.there /\ ui'.disk.cfg = b
      /\ \A k \in Test!Lists : ui'.disk[k] = ui.disk[k]
  BY <1>0, <1>4 DEF TestLists, Test!Lists
<1>6. TestServes(ui') /\ TestLoaded(ui')
  BY <1>3 DEF TestKept, TestServes, TestLoaded
<1>7. TestLists(ui')
  BY <1>0, <1>1, <1>3, <1>5 DEF TestLists
<1>8. TestAgree(ui')
  BY <1>0, <1>3, <1>5 DEF TestAgree
<1>9. ASSUME NEW c \in calls' PROVE TestCall(ui', c) /\ (c \notin calls => c.kind = "launch")
  <2>1. CASE c \in calls
    <3>1. TestCall(ui, c)
      BY <1>0, <2>1 DEF TestCalls
    <3>2. QED
      BY <1>3, <1>5, <2>1, <3>1 DEF TestCall
  <2>2. CASE c \notin calls
    <3>1. c.kind = "launch" /\ c.cfg = b
      BY <1>2, <2>2
    <3>2. QED
      BY <1>1, <3>1 DEF TestCall
  <2>3. QED
    BY <2>1, <2>2
<1>10. TestCalls(ui', calls')
  BY <1>0, <1>9 DEF TestCalls
<1>11. QED
  BY <1>3, <1>6, <1>7, <1>8, <1>10 DEF TestKept

LEMMA TestKeptLeave == ASSUME TestKept, Test!Leave PROVE TestKept'
<1>0. TestRecord(ui) /\ TestServes(ui) /\ TestLists(ui) /\ TestAgree(ui) /\ TestCalls(ui, calls)
  BY DEF TestKept
<1>1. PICK u \in {ui} \cup {Test!StartJob(ui, c.cfg) : c \in {d \in Test!Of({"launch"}) : Test!Accepts(ui.jobs, d.cfg)}} :
        ui' = Test!Opened(u) /\ calls' = Test!Of({"file"}) \cup Test!Opening(u)
  BY DEF Test!Leave
<1>2. TestRecord(u) /\ TestServes(u) /\ u.disk = ui.disk
  <2>1. CASE u = ui
    BY <1>0, <2>1
  <2>2. ASSUME NEW c \in Test!Of({"launch"}), Test!Accepts(ui.jobs, c.cfg), u = Test!StartJob(ui, c.cfg)
        PROVE  TestRecord(u) /\ TestServes(u) /\ u.disk = ui.disk
    <3>1. c.cfg \in TestCfg
      BY <1>0, <2>2 DEF TestCalls, TestCall, Test!Of
    <3>2. QED
      BY <1>0, <2>2, <3>1, TestStarted
  <2>3. QED
    BY <1>1, <2>1, <2>2
<1>3. /\ TestRecord(ui') /\ ui'.form = Test!Form /\ ui'.loaded = Test!None /\ ui'.jobs = u.jobs /\ ui'.next = u.next
      /\ ui'.read = {} /\ ui'.ahead = {} /\ ui'.disk = ui.disk /\ ui'.list = [l \in Test!Lists |-> <<>>]
  BY <1>1, <1>2 DEF TestRecord, Test!Opened
<1>4. TestServes(ui')
  BY <1>2, <1>3 DEF TestServes
<1>5. \A l \in Test!Lists : ui'.list[l] = <<>> /\ <<>> \in Seq(TestEntry(l))
  BY <1>3, EmptySeq
<1>6. \A l \in Test!Lists : l \notin ui.disk.there => ui.disk[l] = <<>>
  BY <1>0 DEF TestAgree
<1>7. TestLists(ui')
  BY <1>0, <1>3, <1>5 DEF TestLists
<1>8. Test!Opening(u) = Test!Opening(ui')
  BY <1>2, <1>3 DEF Test!Opening
<1>9. \A c \in calls' : c \in Test!Opening(ui') \/ c.kind = "file"
  BY <1>1, <1>8 DEF Test!Of
<1>10. TestLoaded(ui') /\ TestAgree(ui') /\ TestCalls(ui', calls')
  BY <1>3, <1>5, <1>6, <1>7, <1>9, TestDefault, TestKeptOpens
<1>11. QED
  BY <1>3, <1>4, <1>7, <1>10 DEF TestKept

\* What is answered.
LEMMA TestKeptReads ==
  ASSUME TestKept, NEW c \in calls, (c.kind = "cfg" /\ Test!CfgRead(c)) \/ (c.kind = "list" /\ Test!ListRead(c))
  PROVE  TestKept'
<1>0. TestRecord(ui) /\ TestLoaded(ui) /\ TestLists(ui) /\ TestAgree(ui) /\ TestCalls(ui, calls) /\ TestCall(ui, c) /\ calls' = calls \ {c}
  BY DEF TestKept, TestCalls, Test!CfgRead, Test!ListRead
<1>1. CASE c.kind = "cfg" /\ Test!CfgRead(c)
  <2>1. CASE c.v = Test!None
    <3>1. ui' = ui
      BY <1>1, <2>1 DEF Test!CfgRead
    <3>2. TestRecord(ui') /\ TestServes(ui') /\ TestStill(ui')
      BY <3>1 DEF TestKept, TestStill
    <3>3. QED
      BY <1>0, <3>2, TestKeptSame
  <2>2. CASE c.v # Test!None
    <3> DEFINE f == Test!ApplyCfg(ui.form, c.v)
    <3>1. c.v \in TestCfg
      BY <1>0, <1>1, <2>2 DEF TestCall
    <3>2. f \in TestForm
      BY <1>0, <3>1, TestApplied DEF TestLoaded
    <3>3. ui' = [ui EXCEPT !.form = f, !.loaded = Test!None]
      BY <1>1, <2>2 DEF Test!CfgRead
    <3> HIDE DEF f
    <3>4. QED
      BY <1>0, <3>2, <3>3, TestKeptForm
  <2>3. QED
    BY <2>1, <2>2
<1>2. CASE c.kind = "list" /\ Test!ListRead(c)
  <2> DEFINE l == c.of
             s == IF c.there THEN c.was ELSE ui.list[l]
  <2>1. /\ l \in Test!Lists \ ui.read /\ c.was \in Seq(TestEntry(l))
        /\ l \notin ui.ahead => c.was = ui.disk[l] /\ (c.there <=> l \in ui.disk.there)
    BY <1>0, <1>2 DEF TestCall
  <2>2. ui' = [ui EXCEPT !.list[l] = s, !.read = @ \cup {l}]
    BY <1>2 DEF Test!ListRead
  <2>3. s \in Seq(TestEntry(l))
    BY <1>0, <2>1 DEF TestLists
  <2>4. l \notin ui.ahead => s = ui.disk[l]
    BY <1>0, <2>1 DEF TestAgree
  <2> HIDE DEF s
  <2>5. /\ TestRecord(ui') /\ ui'.form = ui.form /\ ui'.loaded = ui.loaded /\ ui'.jobs = ui.jobs /\ ui'.next = ui.next
        /\ ui'.read = ui.read \cup {l} /\ ui'.ahead = ui.ahead /\ ui'.disk = ui.disk
    BY <1>0, <2>2 DEF TestRecord
  <2>6. ui'.list = [ui.list EXCEPT ![l] = s]
    BY <1>0, <2>2 DEF TestRecord
  <2>7. DOMAIN ui'.list = Test!Lists /\ ui'.list[l] = s /\ \A k \in Test!Lists : k # l => ui'.list[k] = ui.list[k]
    BY <1>0, <2>1, <2>6 DEF TestLists
  <2>8. TestServes(ui') /\ TestLoaded(ui')
    BY <2>5 DEF TestKept, TestServes, TestLoaded
  <2>9. TestLists(ui')
    BY <1>0, <2>1, <2>3, <2>5, <2>7 DEF TestLists
  <2>10. TestAgree(ui')
    BY <1>0, <2>1, <2>4, <2>5, <2>7 DEF TestAgree
  <2>11. ASSUME NEW d \in calls' PROVE TestCall(ui', d)
    <3>1. TestCall(ui, d) /\ d # c /\ d \in calls
      BY <1>0, <2>11 DEF TestCalls
    <3>2. d.kind = "list" => d.of # l
      BY <1>0, <1>2, <3>1 DEF TestCalls
    <3>3. QED
      BY <2>5, <3>1, <3>2 DEF TestCall
  <2>12. TestCalls(ui', calls')
    BY <1>0, <2>11 DEF TestCalls
  <2>13. QED
    BY <2>5, <2>8, <2>9, <2>10, <2>12 DEF TestKept
<1>3. QED
  BY <1>1, <1>2

LEMMA TestKeptRuns ==
  ASSUME TestKept, NEW c \in calls, c.kind = "launch", Test!Launched(c) \/ Test!LaunchFails(c)
  PROVE  TestKept'
<1>0. TestRecord(ui) /\ TestServes(ui) /\ c.cfg \in TestCfg
  BY DEF TestKept, TestCalls, TestCall
<1>1. \A d \in calls' : d \in calls \/ d.kind = "poll"
  BY DEF Test!Launched, Test!LaunchFails
<1>2. ASSUME NEW u, ui' = Test!Stopped(u), TestRecord(u), TestServes(u), TestStill(u) PROVE TestKept'
  <2>1. TestRecord(ui') /\ TestServes(ui') /\ TestStill(ui')
    BY <1>2 DEF Test!Stopped, TestRecord, TestServes, TestStill
  <2>2. QED
    BY <1>1, <2>1, TestKeptSame
<1>3. TestStill(ui)
  BY DEF TestStill
<1> DEFINE s == Test!StartJob(ui, c.cfg)
<1>4. Test!Accepts(ui.jobs, c.cfg) => TestRecord(s) /\ TestServes(s) /\ TestStill(s)
  BY <1>0, TestStarted DEF TestStill
<1>5. CASE Test!Launched(c) /\ Test!Accepts(ui.jobs, c.cfg)
  <2>1. ui' = [s EXCEPT !.run = ui.next, !.misses = 0]
    BY <1>5 DEF Test!Launched
  <2> HIDE DEF s
  <2>2. TestRecord(ui') /\ TestServes(ui') /\ TestStill(ui')
    BY <1>4, <1>5, <2>1 DEF TestRecord, TestServes, TestStill
  <2>3. QED
    BY <1>1, <2>2, TestKeptSame
<1>6. CASE Test!Launched(c) /\ ~Test!Accepts(ui.jobs, c.cfg)
  BY <1>0, <1>2, <1>3, <1>6 DEF Test!Launched
<1>7. CASE Test!LaunchFails(c)
  <2>1. PICK u \in {ui} \cup Test!If(Test!Accepts(ui.jobs, c.cfg), {s}) : ui' = Test!Stopped(u)
    BY <1>7 DEF Test!LaunchFails
  <2> HIDE DEF s
  <2>2. TestRecord(u) /\ TestServes(u) /\ TestStill(u)
    BY <1>0, <1>3, <1>4, <2>1 DEF Test!If
  <2>3. QED
    BY <1>2, <2>1, <2>2
<1>8. QED
  BY <1>5, <1>6, <1>7

LEMMA TestKeptPolls ==
  ASSUME TestKept, NEW c \in calls, Test!Polled(c) \/ Test!PollFails(c) \/ Test!PollAgain(c) \/ Test!FileWritten(c)
  PROVE  TestKept'
<1>0. TestRecord(ui) /\ TestServes(ui)
  BY DEF TestKept
<1>1. \A d \in calls' : d \in calls \/ d.kind \in {"poll", "timer"}
  BY DEF Test!Polled, Test!PollFails, Test!PollAgain, Test!FileWritten, Test!If
<1>2. /\ TestRecord(ui') /\ TestStill(ui') /\ ui'.jobs = ui.jobs /\ ui'.next = ui.next
  <2>1. CASE Test!Polled(c)
    <3>1. \/ ui' = [ui EXCEPT !.misses = 0]
          \/ ui' = [ui EXCEPT !.shown = ui.run, !.previous = FALSE, !.running = FALSE]
          \/ ui' = [ui EXCEPT !.error = TRUE, !.running = FALSE]
      BY <2>1 DEF Test!Polled, Test!Stopped
    <3>2. QED
      BY <1>0, <3>1 DEF TestRecord, TestStill
  <2>2. CASE Test!PollFails(c)
    <3>1. ui' = [ui EXCEPT !.error = TRUE, !.running = FALSE] \/ ui' = [ui EXCEPT !.misses = @ + 1]
      BY <2>2 DEF Test!PollFails, Test!Miss, Test!Stopped
    <3>2. QED
      BY <1>0, <3>1 DEF TestRecord, TestStill
  <2>3. CASE Test!PollAgain(c)
    BY <1>0, <2>3 DEF Test!PollAgain, TestRecord, TestStill
  <2>4. CASE Test!FileWritten(c)
    <3>1. \E f : ui' = [ui EXCEPT !.file = f]
      BY <2>4 DEF Test!FileWritten
    <3>2. QED
      BY <1>0, <3>1 DEF TestRecord, TestStill
  <2>5. QED
    BY <2>1, <2>2, <2>3, <2>4
<1>3. TestServes(ui')
  BY <1>0, <1>2 DEF TestServes
<1>4. QED
  BY <1>1, <1>2, <1>3, TestKeptSame

LEMMA TestKeptServer ==
  ASSUME TestKept, Test!OthersRun \/ Test!Restart \/ Test!LastFails \/ Test!LastAnswers
                   \/ \E i \in DOMAIN ui.jobs : Test!JobEnds(i, "done") \/ Test!JobEnds(i, "error")
  PROVE  TestKept'
<1>0. TestRecord(ui) /\ TestServes(ui)
  BY DEF TestKept
<1>1. CASE Test!OthersRun
  <2> DEFINE b == Test!BuildCfg(Test!Form)
  <2>1. b \in TestCfg
    BY TestDefault, TestBuilt
  <2>2. Test!Accepts(ui.jobs, b) /\ ui' = Test!StartJob(ui, b) /\ calls' = calls
    BY <1>1 DEF Test!OthersRun
  <2> HIDE DEF b
  <2>3. TestRecord(ui') /\ TestServes(ui') /\ TestStill(ui')
    BY <1>0, <2>1, <2>2, TestStarted DEF TestStill
  <2>4. QED
    BY <2>2, <2>3, TestKeptSame
<1>2. CASE Test!Restart
  <2>1. ui' = [ui EXCEPT !.jobs = <<>>] /\ \A d \in calls' : d \in calls
    BY <1>2 DEF Test!Restart
  <2>2. TestRecord(ui') /\ TestStill(ui') /\ ui'.jobs = <<>> /\ ui'.next = ui.next
    BY <1>0, <2>1 DEF TestRecord, TestStill
  <2>3. TestServes(ui')
    <3>1. <<>> \in Seq(TestJob) /\ Len(<<>>) = 0
      BY EmptySeq
    <3>2. Cardinality(Test!Running(<<>>)) <= 0 /\ Cardinality(Test!Running(<<>>)) \in Nat
      BY <3>1, TestRunning
    <3>3. QED
      BY <1>0, <2>2, <3>1, <3>2, TestNames DEF TestServes, TestJobs
  <2>4. QED
    BY <2>1, <2>2, <2>3, TestKeptSame
<1>3. CASE Test!LastFails \/ Test!LastAnswers
  <2>1. (ui' = ui \/ ui' = [ui EXCEPT !.shown = ui.file, !.previous = TRUE]) /\ \A d \in calls' : d \in calls
    BY <1>3 DEF Test!LastFails, Test!LastAnswers
  <2>2. TestRecord(ui') /\ TestStill(ui') /\ ui'.jobs = ui.jobs /\ ui'.next = ui.next
    BY <1>0, <2>1 DEF TestRecord, TestStill
  <2>3. TestServes(ui')
    BY <1>0, <2>2 DEF TestServes
  <2>4. QED
    BY <2>1, <2>2, <2>3, TestKeptSame
<1>4. ASSUME NEW i \in DOMAIN ui.jobs, NEW st \in {"done", "error"}, Test!JobEnds(i, st) PROVE TestKept'
  <2> DEFINE js == [ui.jobs EXCEPT ![i].status = st]
  <2>1. ui' = [ui EXCEPT !.jobs[i].status = st] /\ \A d \in calls' : d \in calls \/ d.kind = "file"
    BY <1>4 DEF Test!JobEnds, Test!If
  <2>2. TestRecord(ui') /\ TestStill(ui') /\ ui'.next = ui.next
    BY <1>0, <2>1 DEF TestRecord, TestStill
  <2>3. ui'.jobs = js
    BY <1>0, <2>1 DEF TestRecord
  <2>4. TestJobs(js)
    BY <1>0, TestEnded DEF TestServes
  <2> HIDE DEF js
  <2>5. TestServes(ui')
    BY <1>0, <2>2, <2>3, <2>4 DEF TestServes
  <2>6. QED
    BY <2>1, <2>2, <2>5, TestKeptSame
<1>5. QED
  BY <1>1, <1>2, <1>3, <1>4

LEMMA TestKeptStep == ASSUME TestKept, Test!Next PROVE TestKept'
<1>1. ASSUME NEW k, NEW c \in Test!Of({k}) PROVE c \in calls /\ c.kind = k
  BY <1>1 DEF Test!Of
<1>2. CASE Test!Reads
  BY <1>1, <1>2, TestKeptReads, TestKeptServer DEF Test!Reads
<1>3. CASE Test!Answers \/ Test!Timers \/ (\E c \in Test!Of({"file"}) : Test!FileWritten(c)) \/ \E c \in Test!Of({"launch"}) : Test!LaunchFails(c)
  BY <1>1, <1>3, TestKeptRuns, TestKeptPolls DEF Test!Answers, Test!Timers
<1>4. CASE Test!User
  BY <1>4, TestKeptEdits, TestKeptRun, TestKeptLeave, TestKeptSaves DEF Test!User
<1>5. CASE Test!Simulate \/ Test!OthersRun \/ Test!Restart \/ Test!LastFails \/ \E i \in DOMAIN ui.jobs : Test!JobEnds(i, "error")
  BY <1>5, TestKeptServer DEF Test!Simulate
<1>6. QED
  BY <1>2, <1>3, <1>4, <1>5 DEF Test!Next

-------------------------------------------------------------------------------
\* The dossier.  An answer is kept only for the dossier's symbol; a reading of screener.in under
\* way is for it, unless one was overtaken.
DossTypes ==
  /\ DOMAIN ui = {"sym", "got", "busy", "msg", "scr", "scrOf", "n", "again", "overtaken"}
  /\ DOMAIN ui.got = Sources /\ ui.scr \in {"none", "loading", "data", "failed"}
  /\ \A c \in calls : c.kind = "job" => c.source \in Sources
DossGot == \A x \in Sources : ui.got[x] \in {0, ui.sym}
DossBusy == ui.busy => \E c \in calls : c.kind = "job"
DossReading ==
  ui.sym # 0 =>
    /\ \A c \in calls : c.kind = "screener" => c.of = ui.sym \/ ui.overtaken
    /\ ui.scr = "data" => ui.scrOf = ui.sym \/ ui.overtaken
    /\ ui.scr \in {"none", "loading"} => ui.again \/ ui.overtaken \/ \E c \in calls : c.kind = "screener" /\ c.of = ui.sym
DossInv == DossTypes /\ DossGot /\ DossBusy /\ DossReading

LEMMA DossInit == Doss!Init => DossInv
BY DEF Doss!Init, Doss!Nothing, DossInv, DossTypes, DossGot, DossBusy, DossReading

LEMMA DossRun == ASSUME DossInv, NEW s \in Companies, Doss!Run(s) PROVE DossInv'
<1> DEFINE jobs == Doss!Jobs(s, ui.n + 1)
           late == Doss!Of({"screener"}) # {}
           again == s = ui.sym
           first == [kind |-> "job", of |-> s, n |-> ui.n + 1, source |-> "mb"]
<1>1. \A c \in jobs : c.kind = "job" /\ c.source \in Sources
  BY DEF Doss!Jobs
<1>2. first \in jobs /\ first.kind = "job"
  BY ScreensAssumptions DEF Doss!Jobs, Doss!DossierAssumptions
<1>3. late <=> \E c \in calls : c.kind = "screener"
  BY DEF Doss!Of
<1>4. /\ calls' = calls \cup jobs \cup (IF again THEN {} ELSE {Doss!Reading(s)})
      /\ Doss!Reading(s).kind = "screener" /\ Doss!Reading(s).of = s
  BY DEF Doss!Run, Doss!If, Doss!Reading
<1>5. ui' = [ui EXCEPT !.sym = s, !.got = Doss!Nothing, !.busy = TRUE, !.msg = FALSE, !.n = @ + 1,
                       !.scr = IF s # ui.sym THEN "loading" ELSE "none", !.scrOf = 0, !.again = again, !.overtaken = late]
  BY DEF Doss!Run
<1> HIDE DEF jobs, late, again, first
<1>6. /\ DOMAIN ui' = DOMAIN ui /\ ui'.sym = s /\ ui'.got = Doss!Nothing /\ ui'.scr \in {"none", "loading"}
      /\ (ui'.again <=> again) /\ (ui'.overtaken <=> late)
  BY <1>5 DEF DossInv, DossTypes
<1>7. DossTypes' /\ DossGot'
  BY <1>1, <1>4, <1>6 DEF DossInv, DossTypes, DossGot, Doss!Nothing
<1>8. DossBusy'
  BY <1>2, <1>4 DEF DossBusy
<1>9. DossReading'
  <2>1. \A c \in calls' : c.kind = "screener" => c.of = s \/ late
    BY <1>1, <1>3, <1>4
  <2>2. again \/ \E c \in calls' : c.kind = "screener" /\ c.of = s
    BY <1>4
  <2>3. QED
    BY <1>6, <2>1, <2>2 DEF DossReading
<1>10. QED
  BY <1>7, <1>8, <1>9 DEF DossInv

LEMMA DossAnswer ==
  ASSUME DossInv, NEW c \in calls, c.kind = "job", NEW ok \in BOOLEAN, Doss!Answer(c, ok)
  PROVE  DossInv'
<1> DEFINE u == IF ok THEN Doss!Patch(ui, c) ELSE ui
<1> USE DEF DossInv
<1>1. /\ DOMAIN u = DOMAIN ui /\ DOMAIN u.got = Sources /\ u.sym = ui.sym /\ u.busy = ui.busy /\ u.scr = ui.scr
      /\ u.scrOf = ui.scrOf /\ u.again = ui.again /\ u.overtaken = ui.overtaken
  BY DEF Doss!Patch, DossTypes
<1>2. \A x \in Sources : u.got[x] \in {0, ui.sym}
  BY DEF Doss!Patch, DossTypes, DossGot
<1>3. ui' = Doss!Settled(u, c) /\ calls' = calls \ {c}
  BY DEF Doss!Answer
<1> HIDE DEF u
<1>4. CASE \E d \in Doss!Of({"job"}) \ {c} : d.n = c.n
  <2>1. ui' = u /\ \E d \in calls' : d.kind = "job"
    BY <1>3, <1>4 DEF Doss!Settled, Doss!Of
  <2>2. DossTypes' /\ DossGot' /\ DossBusy'
    BY <1>1, <1>2, <1>3, <2>1 DEF DossTypes, DossGot, DossBusy
  <2>3. DossReading'
    BY <1>1, <1>3, <2>1 DEF DossReading
  <2>4. QED
    BY <2>2, <2>3
<1>5. CASE ~\E d \in Doss!Of({"job"}) \ {c} : d.n = c.n
  <2>1. CASE u.sym = c.of /\ ~Doss!Has(u, Doss!Core)
    <3>1. ui' = [u EXCEPT !.busy = FALSE, !.msg = TRUE, !.sym = 0, !.got = Doss!Nothing, !.again = FALSE]
      BY <1>3, <1>5, <2>1 DEF Doss!Settled
    <3>2. DOMAIN ui' = DOMAIN u /\ ~ui'.busy /\ ui'.sym = 0 /\ ui'.got = Doss!Nothing /\ ui'.scr = u.scr
      BY <1>1, <3>1 DEF DossTypes
    <3>3. QED
      BY <1>1, <1>3, <3>2 DEF DossTypes, DossGot, DossBusy, DossReading, Doss!Nothing
  <2>2. CASE ~(u.sym = c.of /\ ~Doss!Has(u, Doss!Core))
    <3>1. ui' = [u EXCEPT !.busy = FALSE]
      BY <1>3, <1>5, <2>2 DEF Doss!Settled
    <3>2. /\ DOMAIN ui' = DOMAIN u /\ ~ui'.busy /\ ui'.sym = u.sym /\ ui'.got = u.got /\ ui'.scr = u.scr
          /\ ui'.scrOf = u.scrOf /\ ui'.again = u.again /\ ui'.overtaken = u.overtaken
      BY <1>1, <3>1 DEF DossTypes
    <3>3. DossTypes' /\ DossGot' /\ DossBusy'
      BY <1>1, <1>2, <1>3, <3>2 DEF DossTypes, DossGot, DossBusy
    <3>4. DossReading'
      BY <1>1, <1>3, <3>2 DEF DossReading
    <3>5. QED
      BY <3>3, <3>4
  <2>3. QED
    BY <2>1, <2>2
<1>6. QED
  BY <1>4, <1>5

LEMMA DossStep == ASSUME DossInv, Doss!Next PROVE DossInv'
<1> USE DEF DossInv
<1>1. ASSUME Doss!FetchScreener PROVE DossInv'
  <2>1. /\ calls' = calls \cup {Doss!Reading(ui.sym)} /\ Doss!Reading(ui.sym).kind = "screener" /\ Doss!Reading(ui.sym).of = ui.sym
    BY <1>1 DEF Doss!FetchScreener, Doss!Reading
  <2>2. /\ DOMAIN ui' = DOMAIN ui /\ ui'.scr = "loading" /\ ui'.sym = ui.sym /\ ui'.got = ui.got /\ ui'.busy = ui.busy
        /\ ui'.overtaken = ui.overtaken /\ ui'.scrOf = ui.scrOf
    BY <1>1 DEF Doss!FetchScreener, DossTypes
  <2>3. DossTypes' /\ DossGot' /\ DossBusy'
    BY <2>1, <2>2 DEF DossTypes, DossGot, DossBusy
  <2>4. DossReading'
    BY <2>1, <2>2 DEF DossReading
  <2>5. QED
    BY <2>3, <2>4
<1>2. ASSUME NEW c \in Doss!Of({"screener"}), NEW ok \in BOOLEAN, Doss!ScreenerAnswers(c, ok) PROVE DossInv'
  <2>1. c \in calls /\ c.kind = "screener" /\ calls' = calls \ {c}
    BY <1>2 DEF Doss!ScreenerAnswers, Doss!Of
  <2>2. /\ DOMAIN ui' = DOMAIN ui /\ ui'.scr \in {"data", "failed"} /\ ui'.scrOf = c.of /\ ui'.sym = ui.sym /\ ui'.got = ui.got
        /\ ui'.busy = ui.busy /\ ui'.overtaken = ui.overtaken
    BY <1>2 DEF Doss!ScreenerAnswers, DossTypes
  <2>3. DossTypes' /\ DossGot' /\ DossBusy'
    BY <2>1, <2>2 DEF DossTypes, DossGot, DossBusy
  <2>4. DossReading'
    BY <2>1, <2>2 DEF DossReading
  <2>5. QED
    BY <2>3, <2>4
<1>3. ASSUME NEW c \in Doss!Of({"job"}), NEW ok \in BOOLEAN, Doss!Answer(c, ok) PROVE DossInv'
  BY <1>3, DossAnswer DEF Doss!Of
<1>4. QED
  BY <1>1, <1>2, <1>3, DossRun DEF Doss!Next, Doss!Answers

\* Whatever has answered, the exported document holds nothing the report does not show.
LEMMA DossDocument == Doss!Report(ui) => Doss!Document(ui) \subseteq Doss!Sections(ui)
<1> SUFFICES ASSUME Doss!Report(ui), NEW x \in Doss!Document(ui) PROVE x \in Doss!Sections(ui)
  OBVIOUS
<1>1. \/ x = "verdict" \/ (x = "fundamentals" /\ Doss!Has(ui, {"mb", "fund"})) \/ (x = "technicals" /\ Doss!Has(ui, {"tech"}))
      \/ (x = "setup" /\ Doss!Has(ui, {"rec"})) \/ (x = "shareholding" /\ Doss!Has(ui, {"hold"}))
      \/ (x \in {"fair value", "priced in", "methods"} /\ Doss!Has(ui, {"rep"}))
      \/ (x = "strengths" /\ Doss!Has(ui, {"mb"})) \/ (x = "filings" /\ Doss!Has(ui, {"ann"}))
  BY DEF Doss!Document, Doss!If
<1>2. \/ x \in Doss!Overview(ui) \/ x \in Doss!Worth(ui) \/ x \in Doss!Trading(ui) \/ x \in Doss!Ownership(ui) \/ x \in Doss!Risks(ui)
  BY <1>1 DEF Doss!Overview, Doss!Worth, Doss!Trading, Doss!Ownership, Doss!Risks, Doss!If
<1>3. QED
  BY <1>2 DEF Doss!Sections

LEMMA DossHolds == DossInv => Doss!ShownIsAsked /\ Doss!LoadingIsAsked
<1> SUFFICES ASSUME DossInv PROVE Doss!ShownIsAsked /\ Doss!LoadingIsAsked
  OBVIOUS
<1>1. Doss!Report(ui) => ui.sym # 0
  BY DEF Doss!Report
<1>2. Doss!ShownIsAsked
  BY <1>1, DossDocument DEF DossInv, DossTypes, DossGot, DossReading, Doss!ShownIsAsked, Doss!Screener
<1>3. Doss!LoadingIsAsked
  BY <1>1 DEF DossInv, DossTypes, DossBusy, DossReading, Doss!LoadingIsAsked, Doss!Screener, Doss!Of
<1>4. QED
  BY <1>2, <1>3

-------------------------------------------------------------------------------
\* The recommendation lists.  The mounted screen has at most one scan, it says it scans just while
\* that runs, and it has none before its own reading of the store.
ListRecord(u) ==
  DOMAIN u = {"list", "disk", "cache", "include", "hydrated", "mount", "ready", "scanning", "shown", "error", "done", "twice", "overlap"}
ListCall(c) ==
  \/ c.kind = "hydrate" /\ c = [kind |-> "hydrate", mount |-> c.mount]
  \/ /\ c.kind = "scan" /\ DOMAIN c = {"kind", "mount", "phase", "todo", "out", "read", "live", "prev", "told"}
     /\ c.todo \subseteq Companies /\ (c.phase # "reads" => c.out = {} /\ c.todo = {})
ListTypes == ListRecord(ui) /\ ui.mount \in Nat /\ \A c \in calls : ListCall(c) /\ c.mount \in Nat /\ c.mount <= ui.mount
ListStore ==
  /\ ui.ready => ui.hydrated
  /\ \A c \in calls : c.kind = "scan" => ui.hydrated
  /\ ~ui.hydrated => ui.done = {}
  /\ ui.done \subseteq ui.cache.scanned /\ ui.cache.recs \subseteq ui.cache.scanned /\ ui.disk.recs \subseteq ui.disk.scanned
ListMount ==
  /\ \A h \in calls : h.kind = "hydrate" /\ h.mount = ui.mount =>
       ~ui.ready /\ ~ui.scanning /\ \A c \in calls : c.kind = "scan" => c.mount # ui.mount
  /\ \A c \in calls : c.kind = "scan" /\ c.mount = ui.mount => ui.scanning
  /\ \A c, d \in calls : c.kind = "scan" /\ c.mount = ui.mount /\ d.kind = "scan" /\ d.mount = ui.mount => c = d
  /\ ui.scanning => \E c \in calls : c.kind = "scan" /\ c.mount = ui.mount
ListShown ==
  /\ ui.ready /\ ~ui.scanning => ui.shown = ui.cache.recs
  /\ \A c \in calls : c.kind = "scan" /\ c.mount = ui.mount /\ c.phase # "reads" => ui.shown = ui.cache.recs
ListOnce ==
  /\ ui.twice => ui.overlap
  /\ ~ui.overlap => \A c, d \in calls : c.kind = "scan" /\ d.kind = "scan" => c = d
  /\ ~ui.overlap /\ ui.list.skips => \A c \in calls : c.kind = "scan" => c.todo \cap (ui.cache.scanned \ c.told) = {}
ListInv == ListTypes /\ ListStore /\ ListMount /\ ListShown /\ ListOnce

LEMMA ListInit == List!Init => ListInv
<1> SUFFICES ASSUME List!Init PROVE ListInv
  OBVIOUS
<1> DEFINE h == [kind |-> "hydrate", mount |-> 1]
<1>1. calls = {h} /\ h.kind = "hydrate" /\ h.mount = 1
  BY DEF List!Init
<1>2. /\ ListRecord(ui) /\ ui.mount = 1 /\ ~ui.ready /\ ~ui.scanning /\ ~ui.hydrated /\ ui.done = {} /\ ~ui.twice
      /\ ui.cache = List!NoCache /\ ui.disk.recs \subseteq ui.disk.scanned
  BY DEF List!Init, List!NoCache, ListRecord
<1>3. ListTypes
  BY <1>1, <1>2 DEF ListTypes, ListCall
<1> HIDE DEF h
<1>4. ListStore
  BY <1>1, <1>2 DEF ListStore, List!NoCache
<1>5. ListMount /\ ListShown /\ ListOnce
  BY <1>1, <1>2 DEF ListMount, ListShown, ListOnce
<1>6. QED
  BY <1>3, <1>4, <1>5 DEF ListInv

\* What only a scan of one's own, or the screen, changes.
ListKeeps(u) ==
  /\ ListRecord(u) /\ u.mount = ui.mount /\ (u.ready <=> ui.ready) /\ (u.hydrated <=> ui.hydrated) /\ u.cache = ui.cache
  /\ u.disk = ui.disk /\ u.done = ui.done /\ u.list = ui.list /\ (u.overlap <=> ui.overlap)

\* A scan goes on.
LEMMA ListGoesOn ==
  ASSUME ListInv, NEW c \in calls, c.kind = "scan", NEW d, calls' = (calls \ {c}) \cup {d},
         d.kind = "scan", ListCall(d), d.mount = c.mount, d.phase = "reads", ListKeeps(ui'), ui'.scanning <=> ui.scanning,
         ui'.shown = ui.shown \/ c.mount = ui.mount, ui'.twice => ui.overlap,
         ~ui.overlap /\ ui.list.skips => d.todo \cap (ui.cache.scanned \ d.told) = {}
  PROVE  ListInv'
<1> USE DEF ListInv, ListKeeps
<1>1. ListTypes'
  BY DEF ListTypes
<1>2. ListStore'
  BY DEF ListStore
<1>3. ListMount'
  BY DEF ListMount
<1>4. ListShown'
  BY DEF ListShown, ListMount
<1>5. ListOnce'
  BY DEF ListOnce
<1>6. QED
  BY <1>1, <1>2, <1>3, <1>4, <1>5

\* A scan ends: it was to show what the store holds, or has told it.
LEMMA ListEnds ==
  ASSUME ListInv, NEW c \in calls, c.kind = "scan", calls' = calls \ {c}, ListKeeps(ui'),
         ui'.scanning <=> ui.scanning /\ c.mount # ui.mount, ui'.shown = ui.shown, c.phase # "reads", ui'.twice => ui.overlap
  PROVE  ListInv'
<1> USE DEF ListInv, ListKeeps
<1>1. ListTypes'
  BY DEF ListTypes
<1>2. ListStore'
  BY DEF ListStore
<1>3. ListMount'
  BY DEF ListMount
<1>4. ListShown'
  BY DEF ListShown, ListMount
<1>5. ListOnce'
  BY DEF ListOnce
<1>6. QED
  BY <1>1, <1>2, <1>3, <1>4, <1>5

\* A scan of the mounted screen begins: there was none, and the list on show is the store's.
LEMMA ListStarts ==
  ASSUME ListInv, NEW rest, rest \subseteq calls, \A c \in calls : c.kind = "scan" => c \in rest,
         ui'.hydrated, ~\E h \in rest : h.kind = "hydrate" /\ h.mount = ui.mount,
         ~\E c \in calls : c.kind = "scan" /\ c.mount = ui.mount,
         NEW v, calls' = rest \cup {v}, v.kind = "scan", v.mount = ui.mount, ListCall(v), v.todo = {},
         ListRecord(ui'), ui'.mount = ui.mount, ui'.scanning, ui'.shown = ui'.cache.recs, ui'.done = ui.done,
         ui'.disk = ui.disk, ui'.list = ui.list,
         ui'.cache = IF ui.hydrated THEN ui.cache ELSE ui.disk, ui'.twice <=> ui.twice,
         ui'.overlap <=> ui.overlap \/ \E c \in calls : c.kind = "scan"
  PROVE  ListInv'
<1> USE DEF ListInv
<1>1. ListTypes'
  BY DEF ListTypes
<1>2. ListStore'
  BY DEF ListStore
<1>3. ListMount'
  BY DEF ListMount
<1>4. ListShown'
  BY DEF ListShown
<1>5. ListOnce'
  BY DEF ListOnce
<1>6. QED
  BY <1>1, <1>2, <1>3, <1>4, <1>5

LEMMA ListScan ==
  ASSUME NEW m
  PROVE  /\ List!Scan(m).kind = "scan" /\ List!Scan(m).mount = m /\ List!Scan(m).todo = {} /\ ListCall(List!Scan(m))
BY DEF List!Scan, ListCall

LEMMA ListStarted ==
  ASSUME NEW u, ListRecord(u)
  PROVE  LET s == List!Started(u) IN
         /\ ListRecord(s) /\ s.mount = u.mount /\ s.hydrated = u.hydrated /\ s.ready = u.ready /\ s.scanning /\ s.shown = u.shown
         /\ s.done = u.done /\ s.disk = u.disk /\ s.list = u.list /\ s.cache = u.cache /\ s.twice = u.twice
         /\ (s.overlap <=> u.overlap \/ \E c \in calls : c.kind = "scan")
<1> DEFINE some == List!Scans # {}
<1>1. some <=> \E c \in calls : c.kind = "scan"
  BY DEF List!Scans, List!Of
<1>2. List!Started(u) = [u EXCEPT !.scanning = TRUE, !.error = FALSE, !.overlap = @ \/ some]
  BY DEF List!Started
<1> HIDE DEF some
<1>3. QED
  BY <1>1, <1>2 DEF ListRecord

LEMMA ListRunScan == ASSUME ListInv, List!RunScan PROVE ListInv'
<1> DEFINE v == List!Scan(ui.mount)
<1>1. /\ v.kind = "scan" /\ v.mount = ui.mount /\ v.todo = {} /\ ListCall(v)
  BY ListScan
<1>2. ui.ready /\ ~ui.scanning /\ ui' = List!Started(ui) /\ calls' = calls \cup {v}
  BY DEF List!RunScan
<1> HIDE DEF v
<1>3. /\ ui.hydrated /\ ~\E h \in calls : h.kind = "hydrate" /\ h.mount = ui.mount
      /\ ~\E c \in calls : c.kind = "scan" /\ c.mount = ui.mount
      /\ ui.shown = ui.cache.recs /\ ListRecord(ui)
  BY <1>2 DEF ListInv, ListStore, ListMount, ListShown, ListTypes
<1>4. QED
  BY <1>1, <1>2, <1>3, ListStarts, ListStarted

LEMMA ListHydrated == ASSUME ListInv, NEW h \in calls, h.kind = "hydrate", List!Hydrated(h) PROVE ListInv'
<1> DEFINE k == IF ui.hydrated THEN ui.cache ELSE ui.disk
           u == [ui EXCEPT !.hydrated = TRUE, !.cache = k, !.shown = IF List!Mine(h) THEN k.recs ELSE @, !.ready = @ \/ List!Mine(h)]
           first == List!Mine(h) /\ k.asof = 0
<1>1. /\ ui' = IF first THEN List!Started(u) ELSE u
      /\ calls' = (calls \ {h}) \cup List!If(first, {List!Scan(ui.mount)})
  BY DEF List!Hydrated
<1>m. List!Mine(h) <=> h.mount = ui.mount
  BY DEF List!Mine
<1>2. /\ ListRecord(u) /\ u.hydrated /\ u.cache = k /\ u.mount = ui.mount /\ (u.ready <=> ui.ready \/ h.mount = ui.mount)
      /\ u.shown = (IF h.mount = ui.mount THEN k.recs ELSE ui.shown) /\ (u.scanning <=> ui.scanning)
      /\ u.done = ui.done /\ u.disk = ui.disk /\ u.list = ui.list /\ (u.twice <=> ui.twice) /\ (u.overlap <=> ui.overlap)
  BY <1>m DEF ListInv, ListTypes, ListRecord
<1>k. k = IF ui.hydrated THEN ui.cache ELSE ui.disk
  OBVIOUS
<1>3. \A g \in calls : g.kind = "hydrate" /\ g.mount = h.mount => g = h
  BY DEF ListInv, ListTypes, ListCall
<1> HIDE DEF u, k
<1>4. CASE first
  <2> DEFINE v == List!Scan(ui.mount)
  <2>1. v.kind = "scan" /\ v.mount = ui.mount /\ v.todo = {} /\ ListCall(v)
    BY ListScan
  <2>2. ui' = List!Started(u) /\ calls' = (calls \ {h}) \cup {v} /\ h.mount = ui.mount
    BY <1>1, <1>m, <1>4 DEF List!If
  <2> HIDE DEF v, first
  <2>3. /\ ~\E g \in calls \ {h} : g.kind = "hydrate" /\ g.mount = ui.mount
        /\ ~\E c \in calls : c.kind = "scan" /\ c.mount = ui.mount
    BY <1>3, <2>2 DEF ListInv, ListMount
  <2>4. \A c \in calls : c.kind = "scan" => c \in calls \ {h}
    OBVIOUS
  <2>5. /\ ListRecord(ui') /\ ui'.mount = ui.mount /\ ui'.hydrated /\ ui'.scanning /\ ui'.shown = ui'.cache.recs /\ ui'.cache = k
        /\ ui'.done = ui.done /\ ui'.disk = ui.disk /\ ui'.list = ui.list /\ (ui'.twice <=> ui.twice)
        /\ (ui'.overlap <=> ui.overlap \/ \E c \in calls : c.kind = "scan")
    BY <1>2, <2>2, ListStarted
  <2>6. QED
    BY <1>k, <2>1, <2>2, <2>3, <2>4, <2>5, ListStarts
<1>5. CASE ~first
  <2>1. ui' = u /\ calls' = calls \ {h}
    BY <1>1, <1>5 DEF List!If
  <2> HIDE DEF first
  <2>2. ListTypes'
    BY <1>2, <2>1 DEF ListInv, ListTypes
  <2>3. ListStore'
    BY <1>2, <1>k, <2>1 DEF ListInv, ListStore
  <2>4. ListMount'
    BY <1>2, <1>3, <2>1 DEF ListInv, ListMount
  <2>5. ListShown'
    BY <1>2, <1>k, <2>1 DEF ListInv, ListShown, ListStore, ListMount
  <2>6. ListOnce'
    BY <1>2, <1>k, <2>1 DEF ListInv, ListOnce, ListStore
  <2>7. QED
    BY <2>2, <2>3, <2>4, <2>5, <2>6 DEF ListInv
<1>6. QED
  BY <1>4, <1>5

LEMMA ListLeave == ASSUME ListInv, List!Leave PROVE ListInv'
<1> DEFINE h == [kind |-> "hydrate", mount |-> ui.mount + 1]
<1> USE DEF ListInv
<1>1. calls' = calls \cup {h} /\ h.kind = "hydrate" /\ h.mount = ui.mount + 1
  BY DEF List!Leave
<1>2. /\ ListRecord(ui') /\ ui'.mount = ui.mount + 1 /\ ~ui'.ready /\ ~ui'.scanning /\ ui'.shown = ui.cache.recs
      /\ ui'.cache = ui.cache /\ ui'.disk = ui.disk /\ ui'.done = ui.done /\ ui'.list = ui.list /\ ui'.hydrated = ui.hydrated
      /\ ui'.twice = ui.twice /\ ui'.overlap = ui.overlap
  BY DEF List!Leave, ListTypes, ListRecord
<1>3. ListCall(h)
  BY DEF ListCall
<1> HIDE DEF h
<1>4. ListTypes'
  BY <1>1, <1>2, <1>3 DEF ListTypes
<1>5. ListStore'
  BY <1>1, <1>2 DEF ListStore
<1>6. \A c \in calls' : c.kind = "scan" => c.mount # ui'.mount
  BY <1>1, <1>2 DEF ListTypes
<1>7. ListMount' /\ ListShown'
  BY <1>2, <1>6 DEF ListMount, ListShown
<1>8. ListOnce'
  BY <1>1, <1>2 DEF ListOnce
<1>9. QED
  BY <1>4, <1>5, <1>7, <1>8

\* The screen is told of the store.
LEMMA ListTold ==
  ASSUME ListInv, calls' = calls, ListKeeps(ui'), ui'.scanning <=> ui.scanning, ui'.shown = ui.cache.recs, ui'.twice <=> ui.twice
  PROVE  ListInv'
<1> USE DEF ListInv, ListKeeps
<1>1. ListTypes' /\ ListStore'
  BY DEF ListTypes, ListStore
<1>2. ListMount'
  BY DEF ListMount
<1>3. ListShown' /\ ListOnce'
  BY DEF ListShown, ListOnce
<1>4. QED
  BY <1>1, <1>2, <1>3

LEMMA ListCandidates ==
  ASSUME ListInv, NEW c \in calls, c.kind = "scan", NEW found, found \subseteq Companies, List!CandidatesArrive(c, found)
  PROVE  ListInv'
<1> DEFINE todo == List!ToAnalyse(found)
<1>0. ListRecord(ui) /\ ListCall(c)
  BY DEF ListInv, ListTypes
<1>1. CASE todo = {}
  <2>1. \E e : ui' = [List!Ended(ui, c) EXCEPT !.error = e]
    BY <1>1 DEF List!CandidatesArrive
  <2>2. ListKeeps(ui') /\ (ui'.scanning <=> ui.scanning /\ c.mount # ui.mount) /\ ui'.shown = ui.shown /\ (ui'.twice <=> ui.twice)
    BY <1>0, <2>1 DEF List!Ended, List!Mine, ListKeeps, ListRecord
  <2>3. calls' = calls \ {c} /\ c.phase # "reads"
    BY <1>1 DEF List!CandidatesArrive
  <2>4. QED
    BY <2>2, <2>3, ListEnds DEF ListInv, ListOnce
<1>2. CASE todo # {}
  <2> DEFINE d == [c EXCEPT !.phase = "reads", !.todo = todo, !.live = ui.cache.recs, !.told = ui.include]
  <2>1. ui' = ui /\ calls' = (calls \ {c}) \cup {d}
    BY <1>2 DEF List!CandidatesArrive
  <2>2. todo \subseteq Companies /\ (ui.list.skips => todo \cap (ui.cache.scanned \ ui.include) = {})
    BY DEF List!ToAnalyse
  <2> HIDE DEF todo
  <2>3. ListCall(d) /\ d.kind = "scan" /\ d.mount = c.mount /\ d.phase = "reads" /\ d.todo = todo /\ d.told = ui.include
    BY <1>0, <2>2 DEF ListCall
  <2> HIDE DEF d
  <2>4. QED
    BY <1>0, <2>1, <2>2, <2>3, ListGoesOn DEF ListInv, ListKeeps, ListOnce
<1>3. QED
  BY <1>1, <1>2

\* The next symbol is one of those left.
LEMMA ListLeast == ASSUME NEW T, T \subseteq Companies, T # {} PROVE (CHOOSE s \in T : \A t \in T : s <= t) \in T
<1>1. T \subseteq Nat
  BY ScreensAssumptions
<1>2. PICK x \in T : \A y \in T : ~(<<y, x>> \in OpToRel(<, Nat))
  BY <1>1, WFMin, NatLessThanWellFounded, Zenon
<1>3. ASSUME NEW y \in T PROVE x <= y
  <2>1. x \in Nat /\ y \in Nat
    BY <1>1
  <2>2. ~(y < x)
    BY <1>2, <2>1 DEF OpToRel
  <2>3. QED
    BY <2>1, <2>2
<1>4. QED
  BY <1>3

LEMMA ListReads ==
  ASSUME ListInv, NEW c \in calls, c.kind = "scan",
         List!Take(c) \/ (\E s, buy : List!ReadArrives(c, s, buy)) \/ \E s : List!ReadFails(c, s)
  PROVE  ListInv'
<1>0. ListRecord(ui) /\ ListCall(c)
  BY DEF ListInv, ListTypes
<1>1. CASE List!Take(c)
  <2> DEFINE s == CHOOSE s \in c.todo : \A t \in c.todo : s <= t
             d == [c EXCEPT !.todo = @ \ {s}, !.out = @ \cup {s}]
             skipped == ui.list.skips /\ s \in ui.cache.scanned \ c.told
  <2>1. s \in c.todo
    BY <1>0, <1>1, ListLeast DEF List!Take, ListCall
  <2>2. calls' = (calls \ {c}) \cup {d} /\ c.phase = "reads" /\ ui' = [ui EXCEPT !.twice = @ \/ skipped]
    BY <1>1 DEF List!Take
  <2>3. skipped => ui.overlap
    BY <2>1 DEF ListInv, ListOnce
  <2> HIDE DEF s, skipped
  <2>4. /\ ListCall(d) /\ d.kind = "scan" /\ d.mount = c.mount /\ d.phase = "reads" /\ d.told = c.told /\ d.todo \subseteq c.todo
    BY <1>0, <2>2 DEF ListCall
  <2> HIDE DEF d
  <2>5. ListKeeps(ui') /\ (ui'.scanning <=> ui.scanning) /\ ui'.shown = ui.shown /\ (ui'.twice <=> ui.twice \/ skipped)
    BY <1>0, <2>2 DEF ListKeeps, ListRecord
  <2>6. ~ui.overlap /\ ui.list.skips => d.todo \cap (ui.cache.scanned \ d.told) = {}
    BY <2>4 DEF ListInv, ListOnce
  <2>7. ui'.twice => ui.overlap
    BY <2>3, <2>5 DEF ListInv, ListOnce
  <2>8. QED
    BY <2>2, <2>4, <2>5, <2>6, <2>7, ListGoesOn
<1>2. ASSUME NEW s, NEW out, NEW read, NEW live, s \in c.out, ListKeeps(ui'), ui'.scanning <=> ui.scanning,
             ui'.shown = ui.shown \/ c.mount = ui.mount, ui'.twice <=> ui.twice,
             calls' = (calls \ {c}) \cup {[c EXCEPT !.out = out, !.read = read, !.live = live]}
      PROVE  ListInv'
  <2> DEFINE d == [c EXCEPT !.out = out, !.read = read, !.live = live]
  <2>1. ListCall(d) /\ d.kind = "scan" /\ d.mount = c.mount /\ d.phase = "reads" /\ d.told = c.told /\ d.todo = c.todo
    BY <1>0, <1>2 DEF ListCall
  <2>2. calls' = (calls \ {c}) \cup {d}
    BY <1>2
  <2> HIDE DEF d
  <2>3. ~ui.overlap /\ ui.list.skips => d.todo \cap (ui.cache.scanned \ d.told) = {}
    BY <2>1 DEF ListInv, ListOnce
  <2>4. ui'.twice => ui.overlap
    BY <1>2 DEF ListInv, ListOnce
  <2>5. QED
    BY <1>2, <2>1, <2>2, <2>3, <2>4, ListGoesOn
<1>3. ASSUME NEW s, NEW buy, List!ReadArrives(c, s, buy) PROVE ListInv'
  <2> DEFINE live == IF buy THEN c.live \cup {s} ELSE c.live \ {s}
  <2>1. /\ s \in c.out /\ ui' = (IF c.mount = ui.mount THEN [ui EXCEPT !.shown = live] ELSE ui)
        /\ calls' = (calls \ {c}) \cup {[c EXCEPT !.out = @ \ {s}, !.read = @ \cup {<<s, buy>>}, !.live = live]}
    BY <1>3 DEF List!ReadArrives, List!Mine
  <2> HIDE DEF live
  <2>2. /\ ListKeeps(ui') /\ (ui'.scanning <=> ui.scanning) /\ (ui'.shown = ui.shown \/ c.mount = ui.mount) /\ (ui'.twice <=> ui.twice)
    BY <1>0, <2>1 DEF ListKeeps, ListRecord
  <2>3. QED
    BY <1>2, <2>1, <2>2
<1>4. ASSUME NEW s, List!ReadFails(c, s) PROVE ListInv'
  <2>1. s \in c.out /\ ui' = ui /\ calls' = (calls \ {c}) \cup {[c EXCEPT !.out = @ \ {s}]}
    BY <1>4 DEF List!ReadFails
  <2>2. [c EXCEPT !.out = @ \ {s}] = [c EXCEPT !.out = @ \ {s}, !.read = @, !.live = @]
    BY <1>0 DEF ListCall
  <2>3. ListKeeps(ui')
    BY <1>0, <2>1 DEF ListKeeps
  <2>4. QED
    BY <1>2, <2>1, <2>2, <2>3
<1>5. QED
  BY <1>1, <1>3, <1>4

\* The outcome is merged into the store: what was in its record stays there.
LEMMA ListFinish == ASSUME ListInv, NEW c \in calls, c.kind = "scan", List!Finish(c) PROVE ListInv'
<1> USE DEF ListInv
<1> DEFINE m == List!Merged(c)
           all == {r[1] : r \in c.read}
           u == [ui EXCEPT !.cache = m, !.disk = m, !.include = @ \ all, !.done = @ \cup all]
<1>1. ui' = List!Ended(List!Emitted(u), c) /\ calls' = calls \ {c} /\ c.phase = "reads" /\ c.todo = {}
  BY DEF List!Finish
<1>2. m.scanned = ui.cache.scanned \cup all /\ m.recs \subseteq m.scanned
  <2>1. m.scanned = ui.cache.scanned \cup all
    BY DEF List!Merged, List!Onto
  <2>2. m.recs \subseteq ui.cache.recs \cup all
    BY DEF List!Merged, List!Onto
  <2>3. QED
    BY <2>1, <2>2 DEF ListStore
<1> HIDE DEF m, all
<1>3. /\ ListRecord(ui') /\ ui'.mount = ui.mount /\ (ui'.ready <=> ui.ready) /\ (ui'.hydrated <=> ui.hydrated)
      /\ ui'.cache = m /\ ui'.disk = m /\ ui'.done = ui.done \cup all /\ ui'.list = ui.list /\ ui'.shown = m.recs
      /\ (ui'.overlap <=> ui.overlap) /\ (ui'.twice <=> ui.twice) /\ (ui'.scanning <=> ui.scanning /\ c.mount # ui.mount)
  BY <1>1 DEF List!Ended, List!Emitted, List!Mine, ListTypes, ListRecord
<1>4. ListTypes' /\ ListStore'
  BY <1>1, <1>2, <1>3 DEF ListTypes, ListStore
<1>5. ListMount'
  BY <1>1, <1>3 DEF ListMount
<1>6. ListShown'
  BY <1>1, <1>3 DEF ListShown
<1>7. ListOnce'
  <2>1. ~ui.overlap => calls' = {} \/ \A d \in calls' : d.kind # "scan"
    BY <1>1 DEF ListOnce
  <2>2. QED
    BY <1>3, <2>1, <1>1 DEF ListOnce
<1>8. QED
  BY <1>4, <1>5, <1>6, <1>7

LEMMA ListStep == ASSUME ListInv, List!Next PROVE ListInv'
<1>0. ListRecord(ui)
  BY DEF ListInv, ListTypes
<1>1. ASSUME NEW h \in List!Of({"hydrate"}), List!Hydrated(h) PROVE ListInv'
  BY <1>1, ListHydrated DEF List!Of
<1>2. ASSUME NEW c \in List!Scans,
             \/ List!CandidatesArrive(c, Companies) \/ List!CandidatesArrive(c, {}) \/ List!Take(c) \/ List!Finish(c)
             \/ (\E s \in Companies, buy \in BOOLEAN : List!ReadArrives(c, s, buy)) \/ \E s \in Companies : List!ReadFails(c, s)
      PROVE  ListInv'
  <2>1. c \in calls /\ c.kind = "scan"
    BY DEF List!Scans, List!Of
  <2>2. QED
    BY <1>2, <2>1, ListCandidates, ListReads, ListFinish
<1>3. ASSUME NEW c \in List!Scans, List!CandidatesFail(c) PROVE ListInv'
  <2>1. c \in calls /\ c.kind = "scan" /\ calls' = calls \ {c} /\ c.phase # "reads"
    BY <1>3 DEF List!Scans, List!Of, List!CandidatesFail
  <2>2. ListKeeps(ui') /\ (ui'.scanning <=> ui.scanning /\ c.mount # ui.mount) /\ ui'.shown = ui.shown /\ (ui'.twice <=> ui.twice)
    BY <1>0, <1>3 DEF List!CandidatesFail, List!Ended, List!Mine, ListKeeps, ListRecord
  <2>3. QED
    BY <2>1, <2>2, ListEnds DEF ListInv, ListOnce
<1>4. ASSUME NEW s, List!SetDepth \/ List!ToggleInclude(s) PROVE ListInv'
  <2>1. ListKeeps(ui') /\ (ui'.scanning <=> ui.scanning) /\ ui'.shown = ui.cache.recs /\ (ui'.twice <=> ui.twice)
    BY <1>0, <1>4 DEF List!SetDepth, List!ToggleInclude, List!Emitted, ListKeeps, ListRecord
  <2>2. calls' = calls
    BY <1>4 DEF List!SetDepth, List!ToggleInclude
  <2>3. QED
    BY <2>1, <2>2, ListTold
<1>5. QED
  BY <1>1, <1>2, <1>3, <1>4, ListRunScan, ListLeave DEF List!Next, List!Work

LEMMA ListHolds ==
  ListInv => List!ShownIsAsked /\ List!LoadingIsAsked /\ List!AskedOnce /\ List!NothingLost
BY DEF ListInv, ListShown, ListMount, ListOnce, ListStore, List!ShownIsAsked, List!LoadingIsAsked, List!AskedOnce, List!NothingLost,
       List!Scans, List!Of, List!Mine

-------------------------------------------------------------------------------
\* The screener's table.  The invariant is stated of a table and its requests, since a step shows
\* (asks for the page in view) after what it changes.
TableRecord(u) ==
  DOMAIN u = {"restored", "sel", "rows", "rowsOf", "loading", "refreshing", "note", "seq", "job", "req", "expr", "asc",
              "page", "fundBusy", "lost", "emptied"}
TableScans == {"page", "sweep"}
TableTypes(u, cs) ==
  /\ TableRecord(u) /\ u.seq \in Nat /\ u.sel \subseteq Universes
  /\ IsFiniteSet(DOMAIN u.rows) /\ DOMAIN u.rows \subseteq Nat
  /\ \A s \in DOMAIN u.rows : DOMAIN u.rows[s] = {"tech", "fund"}
  /\ \A c \in cs : c.kind = "cons" => c = [kind |-> "cons", seq |-> c.seq, sel |-> c.sel] /\ c.sel \subseteq Universes
  /\ \A c \in cs : c.kind = "poll" => DOMAIN c = {"kind", "target", "round", "phase"}
  /\ \A c \in cs : c.kind \in {"cons", "timer", "page", "sweep"} => c.seq \in Nat /\ c.seq <= u.seq
TableRows(u, cs) ==
  /\ ~u.restored => u.loading /\ \A c \in cs : c.kind # "cons"
  /\ \A c \in cs : c.kind = "cons" /\ c.seq = u.seq => c.sel = u.sel /\ u.job = none
  /\ u.restored /\ ~u.loading => u.rowsOf = u.sel /\ DOMAIN u.rows \subseteq Table!Members(u.sel)
TableOnce(u, cs) ==
  /\ u.job = none => u.req = {}
  /\ \A c \in cs : c.kind \in TableScans /\ c.seq = u.seq => c.want \subseteq u.req
  /\ \A c, d \in cs : c.kind \in TableScans /\ d.kind \in TableScans /\ c # d /\ c.seq = d.seq => c.want \cap d.want = {}
TableDone(u, cs) ==
  u.job # none =>
    /\ u.job.symbols = DOMAIN u.rows
    /\ ~u.lost => \A s \in DOMAIN u.rows :
         \/ u.rows[s].tech
         \/ \E c \in cs : c.kind \in TableScans /\ c.seq = u.seq /\ s \in c.want
         \/ s \notin u.req /\ \E c \in cs : c.kind = "timer" /\ c.seq = u.seq
TableAsked(u, cs) ==
  /\ u.restored /\ (u.loading \/ u.refreshing) => \E c \in cs : c.kind = "cons" /\ c.seq = u.seq
  /\ u.fundBusy => u.emptied \/ \E c \in cs : c.kind = "poll" \/ (c.kind = "cons" /\ c.seq = u.seq)
  /\ u.job # none /\ (\E s \in DOMAIN u.rows : u.rows[s].fund = "undefined") => \E c \in cs : c.kind = "poll"
TableState(u, cs) == TableTypes(u, cs) /\ TableRows(u, cs) /\ TableOnce(u, cs) /\ TableDone(u, cs) /\ TableAsked(u, cs)
TablePage == ui.page \in Nat /\ ui.page < Table!PageCount(ui)
TableInv == TableState(ui, calls) /\ TablePage

\* All but what showing changes.
TableSame(u, v) ==
  /\ TableRecord(u) /\ TableRecord(v)
  /\ u.restored = v.restored /\ u.sel = v.sel /\ u.rows = v.rows /\ u.rowsOf = v.rowsOf /\ u.loading = v.loading
  /\ u.refreshing = v.refreshing /\ u.seq = v.seq /\ u.job = v.job /\ u.expr = v.expr /\ u.fundBusy = v.fundBusy
  /\ u.lost = v.lost /\ u.emptied = v.emptied

\* A page pass asks for what no scan of the load has been asked for, and remembers it.
LEMMA TablePass ==
  ASSUME NEW p, DOMAIN p = {"u", "cs"}, TableRecord(p.u)
  PROVE  LET q == Table!PagePass(p) IN
         /\ DOMAIN q = {"u", "cs"} /\ TableSame(q.u, p.u) /\ q.u.page = p.u.page
         /\ \E w : /\ w \cap p.u.req = {} /\ (p.u.job = none => w = {}) /\ q.u.req = p.u.req \cup w
                   /\ q.cs = p.cs \cup (IF w = {} THEN {} ELSE {Table!Scan("page", p.u.seq, w)})
<1> DEFINE u == p.u
           w == IF u.job = none \/ u.job.seq # u.seq THEN {} ELSE Table!PageRows(u) \ u.req
           q == Table!PagePass(p)
<1>1. w \cap p.u.req = {} /\ (p.u.job = none => w = {})
  OBVIOUS
<1>2. q = IF w = {} THEN p ELSE [u |-> Table!Taken(u, w), cs |-> p.cs \cup {Table!Scan("page", u.seq, w)}]
  BY DEF Table!PagePass
<1> HIDE DEF q, w
<1>3. CASE w = {}
  <2>1. q = p /\ q.u.req = p.u.req \cup w /\ q.cs = p.cs \cup (IF w = {} THEN {} ELSE {Table!Scan("page", p.u.seq, w)})
    BY <1>2, <1>3
  <2>2. QED
    BY <1>1, <2>1 DEF TableSame, q
<1>4. CASE w # {}
  <2>1. /\ DOMAIN q = {"u", "cs"} /\ q.u = [u EXCEPT !.req = @ \cup w]
        /\ q.cs = p.cs \cup (IF w = {} THEN {} ELSE {Table!Scan("page", p.u.seq, w)})
    BY <1>2, <1>4 DEF Table!Taken
  <2>2. TableSame(q.u, p.u) /\ q.u.page = p.u.page /\ q.u.req = p.u.req \cup w
    BY <2>1 DEF TableSame, TableRecord
  <2>3. QED
    BY <1>1, <2>1, <2>2 DEF q
<1>5. QED
  BY <1>3, <1>4

\* Counting: the instance's Cardinality is the library's, and a page in range begins within the rows.
LEMMA TableSize == ASSUME NEW S PROVE Table!Cardinality(S) = Cardinality(S)
BY DEF Table!Cardinality, Cardinality
LEMMA TableQuotient == ASSUME NEW n \in Nat, NEW d \in Nat \ {0} PROVE /\ n \div d \in Nat
                                                                  /\ d * (n \div d) <= n /\ n < d * (n \div d) + d
OBVIOUS
LEMMA TableCount ==
  ASSUME NEW u, IsFiniteSet(DOMAIN u.rows)
  PROVE  /\ IsFiniteSet(Table!Filtered(u)) /\ Cardinality(Table!Filtered(u)) \in Nat
         /\ Table!PageCount(u) \in Nat /\ Table!PageCount(u) >= 1
         /\ \A k \in Nat : k < Table!PageCount(u) /\ Table!Filtered(u) # {} => k * PageSize < Cardinality(Table!Filtered(u))
<1> DEFINE F == Table!Filtered(u)
           n == Cardinality(F)
<1>1. F \subseteq DOMAIN u.rows
  BY DEF Table!Filtered
<1>2. IsFiniteSet(F) /\ n \in Nat /\ (n = 0 <=> F = {})
  BY <1>1, FS_Subset, FS_CardinalityType, FS_EmptySet
<1>3. Table!PageCount(u) = IF n = 0 THEN 1 ELSE (n + PageSize - 1) \div PageSize
  BY TableSize DEF Table!PageCount, n, F
<1>4. PageSize \in Nat \ {0}
  BY ScreensAssumptions
<1> HIDE DEF F, n
<1>5. CASE n = 0
  BY <1>2, <1>3, <1>5 DEF n, F
<1>6. CASE n # 0
  <2> DEFINE c == (n + PageSize - 1) \div PageSize
  <2>1. n + PageSize - 1 \in Nat
    BY <1>2, <1>4, <1>6
  <2>2. c \in Nat /\ PageSize * c <= n + PageSize - 1 /\ n + PageSize - 1 < PageSize * c + PageSize
    BY <1>4, <2>1, TableQuotient
  <2> HIDE DEF c
  <2>3. c >= 1
    BY <1>2, <1>4, <1>6, <2>2
  <2>4. ASSUME NEW k \in Nat, k < c PROVE k * PageSize < n
    <3>1. k + 1 <= c
      BY <2>2, <2>4
    <3>2. PageSize * (k + 1) <= PageSize * c
      BY <1>4, <2>2, <3>1
    <3>3. PageSize * (k + 1) = PageSize * k + PageSize /\ PageSize * k = k * PageSize /\ PageSize * k \in Nat
      BY <1>4
    <3>4. PageSize * c \in Nat
      BY <1>4, <2>2
    <3>5. QED
      BY <1>2, <1>4, <2>2, <3>2, <3>3, <3>4
  <2>5. Table!PageCount(u) = c
    BY <1>3, <1>6 DEF c
  <2>6. QED
    BY <1>2, <2>2, <2>3, <2>4, <2>5 DEF n, F
<1>7. QED
  BY <1>5, <1>6

\* Showing: two passes, the second with a page that is in range.
LEMMA TableShow ==
  ASSUME NEW u, NEW reset, NEW cs, TableRecord(u), u.page \in Nat, IsFiniteSet(DOMAIN u.rows), Table!Show(u, reset, cs)
  PROVE  /\ TableSame(ui', u) /\ TablePage'
         /\ \E v, w : /\ v \cap u.req = {} /\ w \cap (u.req \cup v) = {} /\ (u.job = none => v = {} /\ w = {})
                      /\ ui'.req = u.req \cup v \cup w
                      /\ calls' = cs \cup (IF v = {} THEN {} ELSE {Table!Scan("page", u.seq, v)})
                                     \cup (IF w = {} THEN {} ELSE {Table!Scan("page", u.seq, w)})
<1> DEFINE p0 == [u |-> u, cs |-> cs]
           p == Table!PagePass(p0)
           g == Table!InRange(p.u, reset)
           p1 == [p EXCEPT !.u.page = g]
           q == Table!PagePass(p1)
<1>1. ui' = q.u /\ calls' = q.cs
  BY DEF Table!Show
<1>2. DOMAIN p0 = {"u", "cs"} /\ p0.u = u /\ p0.cs = cs
  OBVIOUS
<1> HIDE DEF p0, p
<1>3. /\ DOMAIN p = {"u", "cs"} /\ TableSame(p.u, u) /\ p.u.page = u.page
      /\ \E v : /\ v \cap u.req = {} /\ (u.job = none => v = {}) /\ p.u.req = u.req \cup v
                /\ p.cs = cs \cup (IF v = {} THEN {} ELSE {Table!Scan("page", u.seq, v)})
  BY <1>2, TablePass DEF p
<1> HIDE DEF g
<1>4. /\ DOMAIN p1 = {"u", "cs"} /\ p1.cs = p.cs /\ p1.u = [p.u EXCEPT !.page = g]
  BY <1>3
<1>5. TableSame(p1.u, u) /\ p1.u.page = g /\ p1.u.req = p.u.req
  BY <1>3, <1>4 DEF TableSame, TableRecord
<1> HIDE DEF p1, q
<1>6. /\ DOMAIN q = {"u", "cs"} /\ TableSame(q.u, p1.u) /\ q.u.page = g
      /\ \E w : /\ w \cap p1.u.req = {} /\ (p1.u.job = none => w = {}) /\ q.u.req = p1.u.req \cup w
                /\ q.cs = p1.cs \cup (IF w = {} THEN {} ELSE {Table!Scan("page", p1.u.seq, w)})
  BY <1>4, <1>5, TablePass DEF q, TableSame
<1>7. TableSame(ui', u)
  BY <1>1, <1>5, <1>6 DEF TableSame
<1>8. TablePage'
  <2>1. Table!PageCount(ui') = Table!PageCount(p.u) /\ IsFiniteSet(DOMAIN p.u.rows)
    BY <1>3, <1>7 DEF TableSame, Table!PageCount, Table!Filtered
  <2>2. Table!PageCount(p.u) \in Nat /\ Table!PageCount(p.u) >= 1
    BY <2>1, TableCount
  <2>3. g = 0 \/ (g = u.page /\ ~(u.page > Table!PageCount(p.u) - 1))
    BY <1>3 DEF g, Table!InRange
  <2>4. ui'.page = g
    BY <1>1, <1>6
  <2>5. g \in Nat /\ g < Table!PageCount(p.u)
    BY <2>2, <2>3
  <2>6. ui'.page \in Nat /\ ui'.page < Table!PageCount(ui')
    BY <2>1, <2>4, <2>5
  <2>7. QED
    BY <2>6 DEF TablePage
<1>9. PICK v : /\ v \cap u.req = {} /\ (u.job = none => v = {}) /\ p.u.req = u.req \cup v
               /\ p.cs = cs \cup (IF v = {} THEN {} ELSE {Table!Scan("page", u.seq, v)})
  BY <1>3
<1>10. PICK w : /\ w \cap p1.u.req = {} /\ (p1.u.job = none => w = {}) /\ q.u.req = p1.u.req \cup w
                /\ q.cs = p1.cs \cup (IF w = {} THEN {} ELSE {Table!Scan("page", p1.u.seq, w)})
  BY <1>6
<1>11. p1.u.job = u.job /\ p1.u.seq = u.seq
  BY <1>5 DEF TableSame
<1>12. /\ v \cap u.req = {} /\ w \cap (u.req \cup v) = {} /\ (u.job = none => v = {} /\ w = {})
       /\ ui'.req = u.req \cup v \cup w
       /\ calls' = cs \cup (IF v = {} THEN {} ELSE {Table!Scan("page", u.seq, v)})
                      \cup (IF w = {} THEN {} ELSE {Table!Scan("page", u.seq, w)})
  BY <1>1, <1>4, <1>5, <1>9, <1>10, <1>11
<1>13. QED
  BY <1>7, <1>8, <1>12

\* A scan that is added keeps the state.
LEMMA TableAdds ==
  ASSUME NEW u, NEW cs, TableState(u, cs), NEW x, NEW w, NEW k \in TableScans, w \cap u.req = {}, u.job # none \/ w = {},
         TableSame(x, u), x.req = u.req \cup w
  PROVE  TableState(x, cs \cup (IF w = {} THEN {} ELSE {Table!Scan(k, u.seq, w)}))
<1> DEFINE d == Table!Scan(k, u.seq, w)
           more == IF w = {} THEN {} ELSE {d}
           ds == cs \cup more
<1> USE DEF TableState
<1>1. d.kind = k /\ d.seq = u.seq /\ d.want = w
  BY DEF Table!Scan
<1>2. k \notin {"cons", "timer", "poll"}
  BY DEF TableScans
<1>3. cs \subseteq ds /\ (w # {} => d \in ds) /\ \A c \in ds : c \in cs \/ (c = d /\ w # {})
  OBVIOUS
<1> HIDE DEF d, more, ds
<1>4. TableTypes(x, ds)
  BY <1>1, <1>2, <1>3 DEF TableTypes, TableSame
<1>5. TableRows(x, ds)
  BY <1>1, <1>2, <1>3 DEF TableRows, TableSame
<1>6. TableOnce(x, ds)
  <2>1. x.job = none => x.req = {}
    BY DEF TableOnce, TableSame
  <2>2. ASSUME NEW c \in ds, c.kind \in TableScans, c.seq = u.seq PROVE c.want \subseteq x.req
    BY <1>1, <1>3, <2>2 DEF TableOnce
  <2>3. ASSUME NEW c \in ds, NEW e \in ds, c.kind \in TableScans, e.kind \in TableScans, c # e, c.seq = e.seq
        PROVE  c.want \cap e.want = {}
    <3>1. CASE c \in cs /\ e \in cs
      BY <2>3, <3>1 DEF TableOnce
    <3>2. CASE c \in cs /\ e = d
      BY <1>1, <2>3, <3>2 DEF TableOnce
    <3>3. CASE c = d /\ e \in cs
      BY <1>1, <2>3, <3>3 DEF TableOnce
    <3>4. QED
      BY <1>3, <2>3, <3>1, <3>2, <3>3
  <2>4. x.seq = u.seq
    BY DEF TableSame
  <2>5. QED
    BY <2>1, <2>2, <2>3, <2>4 DEF TableOnce
<1>7. TableDone(x, ds)
  <2>1. /\ x.job = u.job /\ x.rows = u.rows /\ x.lost = u.lost /\ x.seq = u.seq
    BY DEF TableSame
  <2>2. ASSUME u.job # none, ~u.lost, NEW s \in DOMAIN u.rows
        PROVE  \/ u.rows[s].tech
               \/ \E c \in ds : c.kind \in TableScans /\ c.seq = u.seq /\ s \in c.want
               \/ s \notin x.req /\ \E c \in ds : c.kind = "timer" /\ c.seq = u.seq
    <3>1. CASE s \in w
      BY <1>1, <1>3, <3>1
    <3>2. CASE s \notin w
      BY <1>3, <2>2, <3>2 DEF TableDone
    <3>3. QED
      BY <3>1, <3>2
  <2>3. QED
    BY <2>1, <2>2 DEF TableDone
<1>8. TableAsked(x, ds)
  BY <1>1, <1>2, <1>3 DEF TableAsked, TableSame
<1>9. QED
  BY <1>4, <1>5, <1>6, <1>7, <1>8 DEF ds, more, d

\* Showing keeps the state, and puts the page in range.
LEMMA TableShown ==
  ASSUME NEW u, NEW reset, NEW cs, TableState(u, cs), u.page \in Nat, Table!Show(u, reset, cs)
  PROVE  TableInv'
<1>1. TableRecord(u) /\ IsFiniteSet(DOMAIN u.rows)
  BY DEF TableState, TableTypes
<1>2. PICK v, w : /\ v \cap u.req = {} /\ w \cap (u.req \cup v) = {} /\ (u.job = none => v = {} /\ w = {})
                  /\ ui'.req = u.req \cup v \cup w
                  /\ calls' = cs \cup (IF v = {} THEN {} ELSE {Table!Scan("page", u.seq, v)})
                                 \cup (IF w = {} THEN {} ELSE {Table!Scan("page", u.seq, w)})
  BY <1>1, TableShow
<1>3. TableSame(ui', u) /\ TablePage'
  BY <1>1, TableShow
<1> DEFINE x == [u EXCEPT !.req = @ \cup v]
           ds == cs \cup (IF v = {} THEN {} ELSE {Table!Scan("page", u.seq, v)})
<1>4. TableSame(x, u) /\ x.req = u.req \cup v /\ TableSame(ui', x) /\ x.seq = u.seq /\ x.job = u.job
  BY <1>1, <1>3 DEF TableSame, TableRecord
<1> HIDE DEF x
<1>5. TableState(x, ds)
  BY <1>2, <1>4, TableAdds DEF TableScans
<1>6. calls' = ds \cup (IF w = {} THEN {} ELSE {Table!Scan("page", x.seq, w)})
  BY <1>2, <1>4
<1> HIDE DEF ds
<1>7. TableState(ui', calls')
  <2>1. w \cap x.req = {} /\ (x.job # none \/ w = {}) /\ ui'.req = x.req \cup w /\ "page" \in TableScans
    BY <1>2, <1>4 DEF TableScans
  <2>2. TableState(ui', ds \cup (IF w = {} THEN {} ELSE {Table!Scan("page", x.seq, w)}))
    BY <1>4, <1>5, <2>1, TableAdds
  <2>3. QED
    BY <1>6, <2>2
<1>8. QED
  BY <1>3, <1>7 DEF TableInv

LEMMA TableInit == Table!Init => TableInv
<1> SUFFICES ASSUME Table!Init PROVE TableInv
  OBVIOUS
<1>1. PICK v \in Universes : ui = Table!Start({v}) /\ calls = {}
  BY DEF Table!Init
<1>2. /\ TableRecord(ui) /\ ui.seq = 0 /\ ui.sel = {v} /\ ui.rows = <<>> /\ ~ui.restored /\ ui.loading /\ ui.job = none /\ ui.req = {}
      /\ ~ui.fundBusy /\ ui.page = 0
  BY <1>1 DEF Table!Start, TableRecord
<1>3. DOMAIN ui.rows = {}
  BY <1>2
<1>4. IsFiniteSet(DOMAIN ui.rows)
  BY <1>3, FS_EmptySet
<1>5. TableState(ui, calls)
  <2>1. TableTypes(ui, calls)
    <3>1. \A c \in calls : FALSE
      BY <1>1
    <3>2. TableRecord(ui) /\ ui.seq \in Nat /\ ui.sel \subseteq Universes
      BY <1>2
    <3>3. DOMAIN ui.rows \subseteq Nat /\ \A s \in DOMAIN ui.rows : FALSE
      BY <1>3
    <3>4. QED
      BY <1>4, <3>1, <3>2, <3>3 DEF TableTypes
  <2>2. TableRows(ui, calls) /\ TableOnce(ui, calls)
    BY <1>1, <1>2 DEF TableRows, TableOnce
  <2>3. TableDone(ui, calls) /\ TableAsked(ui, calls)
    BY <1>2 DEF TableDone, TableAsked
  <2>4. QED
    BY <2>1, <2>2, <2>3 DEF TableState
<1>6. TablePage
  <2>1. Table!PageCount(ui) \in Nat /\ Table!PageCount(ui) >= 1
    BY <1>4, TableCount
  <2>2. QED
    BY <1>2, <2>1 DEF TablePage
<1>7. QED
  BY <1>5, <1>6 DEF TableInv

LEMMA TablePageSame ==
  ASSUME TableInv, ui'.page = ui.page, ui'.rows = ui.rows, ui'.expr = ui.expr PROVE TablePage'
BY DEF TableInv, TablePage, Table!PageCount, Table!Filtered

\* Rows that lose nothing, and other polls, keep the state.
LEMMA TableTouch ==
  ASSUME TableState(ui, calls), NEW u, NEW cs, TableRecord(u),
         u.restored = ui.restored, u.sel = ui.sel, u.rowsOf = ui.rowsOf, u.loading = ui.loading, u.refreshing = ui.refreshing,
         u.seq = ui.seq, u.job = ui.job, u.req = ui.req, u.lost = ui.lost, u.emptied = ui.emptied,
         DOMAIN u.rows = DOMAIN ui.rows, \A s \in DOMAIN ui.rows : DOMAIN u.rows[s] = {"tech", "fund"} /\ (ui.rows[s].tech => u.rows[s].tech),
         \A c \in calls : c.kind # "poll" => c \in cs,
         \A c \in cs : c \in calls \/ (c.kind = "poll" /\ DOMAIN c = {"kind", "target", "round", "phase"}),
         u.fundBusy => ui.fundBusy,
         \/ \E c \in cs : c.kind = "poll"
         \/ ~u.fundBusy /\ \A s \in DOMAIN ui.rows : u.rows[s].fund # "undefined"
         \/ cs = calls /\ \A s \in DOMAIN ui.rows : u.rows[s].fund = "undefined" => ui.rows[s].fund = "undefined"
  PROVE  TableState(u, cs)
<1> USE DEF TableState
<1>1. TableTypes(u, cs)
  BY DEF TableTypes
<1>2. TableRows(u, cs)
  BY DEF TableRows
<1>3. TableOnce(u, cs)
  BY DEF TableOnce, TableScans
<1>4. TableDone(u, cs)
  BY DEF TableDone, TableScans
<1>5. TableAsked(u, cs)
  BY DEF TableAsked
<1>6. QED
  BY <1>1, <1>2, <1>3, <1>4, <1>5

\* A load begins: what belongs to the last one is forgotten.
LEMMA TableLoad ==
  ASSUME TableInv, NEW u, NEW reset, TableRecord(u), u.seq = ui.seq, u.sel \subseteq Universes, u.page \in Nat, u.rows = ui.rows,
         u.restored, u.loading \/ (u.rowsOf = u.sel /\ DOMAIN u.rows \subseteq Table!Members(u.sel)), Table!Load(u, reset)
  PROVE  TableInv'
<1> DEFINE x == [u EXCEPT !.seq = @ + 1, !.req = {}, !.job = none, !.note = FALSE]
           d == [kind |-> "cons", seq |-> u.seq + 1, sel |-> u.sel]
           cs == Table!Cleaned(calls) \cup {d}
<1>1. Table!Show(x, reset, cs)
  BY DEF Table!Load
<1>2. /\ TableRecord(x) /\ x.seq = ui.seq + 1 /\ x.req = {} /\ x.job = none /\ x.sel = u.sel /\ x.page = u.page /\ x.rows = ui.rows
      /\ x.restored = u.restored /\ x.loading = u.loading /\ x.rowsOf = u.rowsOf /\ x.fundBusy = u.fundBusy
  BY DEF TableRecord
<1>3. d.kind = "cons" /\ d.seq = ui.seq + 1 /\ d.sel = u.sel /\ d = [kind |-> "cons", seq |-> d.seq, sel |-> d.sel]
  OBVIOUS
<1>4. d \in cs /\ \A c \in cs : c = d \/ (c \in calls /\ c.kind \notin {"poll", "timer", "sweep"})
  BY DEF Table!Cleaned
<1> HIDE DEF x, d, cs
<1>5. TableTypes(x, cs)
  BY <1>2, <1>3, <1>4 DEF TableInv, TableState, TableTypes
<1>6. \A c \in cs : c.kind \in {"cons", "page", "sweep"} /\ c.seq = x.seq => c = d
  BY <1>2, <1>4 DEF TableInv, TableState, TableTypes
<1>7. TableRows(x, cs)
  BY <1>2, <1>3, <1>6 DEF TableRows
<1>8. TableOnce(x, cs)
  BY <1>2, <1>3, <1>4, <1>6 DEF TableInv, TableState, TableOnce, TableScans
<1>9. TableDone(x, cs) /\ TableAsked(x, cs)
  BY <1>2, <1>3, <1>4 DEF TableDone, TableAsked
<1>10. TableState(x, cs)
  BY <1>5, <1>7, <1>8, <1>9 DEF TableState
<1>11. QED
  BY <1>1, <1>2, <1>10, TableShown

LEMMA TableMembers == ASSUME NEW us, us \subseteq Universes PROVE Table!Members(us) \subseteq Nat /\ IsFiniteSet(Table!Members(us))
<1> DEFINE f == [v \in us |-> MembersOf[v]]
           T == {MembersOf[v] : v \in us}
<1>1. Table!Members(us) = UNION T
  BY DEF Table!Members
<1>2. IsFiniteSet(us)
  BY ScreensAssumptions, FS_Subset
<1>3. f \in Surjection(us, T)
  BY DEF Surjection
<1>4. IsFiniteSet(T)
  BY <1>2, <1>3, FS_Surjection
<1>5. \A S \in T : IsFiniteSet(S) /\ S \subseteq Nat
  BY ScreensAssumptions
<1> HIDE DEF f, T
<1>6. IsFiniteSet(UNION T)
  BY <1>4, <1>5, FS_UNION
<1>7. QED
  BY <1>1, <1>5, <1>6

LEMMA TableLoaded == ASSUME TableInv, NEW c \in calls, c.kind = "cons", NEW ok \in SUBSET c.sel, Table!Loaded(c, ok) PROVE TableInv'
<1> USE DEF TableInv, TableState
<1>1. CASE c.seq # ui.seq
  <2>1. ui' = ui /\ calls' = calls \ {c}
    BY <1>1 DEF Table!Loaded, Table!Current
  <2>2. TableTypes(ui', calls')
    BY <2>1 DEF TableTypes
  <2>3. TableRows(ui', calls') /\ TableAsked(ui', calls')
    BY <1>1, <2>1 DEF TableRows, TableAsked
  <2>4. TableOnce(ui', calls') /\ TableDone(ui', calls')
    BY <1>1, <2>1 DEF TableOnce, TableDone, TableScans
  <2>5. TablePage'
    BY <2>1, TablePageSame
  <2>6. QED
    BY <2>2, <2>3, <2>4, <2>5
<1>2. CASE c.seq = ui.seq
  <2> DEFINE syms == Table!Members(ok)
             job == IF syms = {} THEN none ELSE Table!Job(c.seq, syms)
             rows == [s \in syms |-> Table!New]
             u == [ui EXCEPT !.loading = FALSE, !.refreshing = FALSE, !.rowsOf = c.sel, !.rows = rows, !.note = syms = {},
                             !.emptied = syms = {}, !.job = job, !.fundBusy = @ \/ syms # {}, !.lost = FALSE]
             poll == Table!Poll(syms, 0, "ask")
             due == Table!Scan("timer", c.seq, {})
             cs == (calls \ {c}) \cup Table!If(syms # {}, {poll, due})
  <2>1. Table!Show(u, FALSE, cs)
    BY <1>2 DEF Table!Loaded, Table!Current
  <2>2. c.sel = ui.sel /\ c.sel \subseteq Universes /\ ui.job = none /\ ui.req = {} /\ ui.restored
    BY <1>2 DEF TableTypes, TableRows, TableOnce
  <2>3. syms \subseteq Nat /\ IsFiniteSet(syms) /\ syms \subseteq Table!Members(ui.sel)
    <3>1. ok \subseteq Universes
      BY <2>2
    <3>2. Table!Members(ok) \subseteq Table!Members(ui.sel)
      BY <2>2 DEF Table!Members
    <3>3. QED
      BY <3>1, <3>2, TableMembers
  <2>4. DOMAIN rows = syms /\ \A s \in syms : DOMAIN rows[s] = {"tech", "fund"}
    BY DEF Table!New
  <2>5. syms # {} => job # none /\ job.symbols = syms
    BY <2>3, ScreensAssumptions, <1>2 DEF Table!Job, TableTypes
  <2>6. syms = {} => job = none
    OBVIOUS
  <2>7. /\ poll.kind = "poll" /\ DOMAIN poll = {"kind", "target", "round", "phase"} /\ due.kind = "timer" /\ due.seq = ui.seq
    BY <1>2 DEF Table!Poll, Table!Scan
  <2>8. /\ \A d \in calls : d # c => d \in cs
        /\ \A d \in cs : (d \in calls /\ d # c) \/ (syms # {} /\ d \in {poll, due})
        /\ syms # {} => poll \in cs /\ due \in cs
    BY DEF Table!If
  <2> HIDE DEF syms, job, rows, poll, due, cs
  <2>9. /\ TableRecord(u) /\ ~u.loading /\ ~u.refreshing /\ u.rowsOf = c.sel /\ u.rows = rows /\ (u.emptied <=> syms = {}) /\ u.job = job
        /\ ~u.lost /\ u.restored = ui.restored /\ u.sel = ui.sel /\ u.seq = ui.seq /\ u.req = ui.req /\ u.page = ui.page
    BY DEF TableTypes, TableRecord
  <2> HIDE DEF u
  <2>10. \A d \in cs : d.kind = "cons" => d.seq # ui.seq
    BY <1>2, <2>2, <2>7, <2>8 DEF TableTypes, TableRows
  <2>11. TableTypes(u, cs)
    <3>1. TableTypes(ui, calls)
      OBVIOUS
    <3>2. \A d \in cs : d.kind = "cons" => d = [kind |-> "cons", seq |-> d.seq, sel |-> d.sel] /\ d.sel \subseteq Universes
      BY <2>7, <2>8, <3>1 DEF TableTypes
    <3>3. \A d \in cs : d.kind = "poll" => DOMAIN d = {"kind", "target", "round", "phase"}
      BY <2>7, <2>8, <3>1 DEF TableTypes
    <3>4. \A d \in cs : d.kind \in {"cons", "timer", "page", "sweep"} => d.seq \in Nat /\ d.seq <= u.seq
      BY <2>7, <2>8, <2>9, <3>1 DEF TableTypes
    <3>5. u.seq \in Nat /\ u.sel \subseteq Universes /\ IsFiniteSet(DOMAIN u.rows) /\ DOMAIN u.rows \subseteq Nat
      BY <2>3, <2>4, <2>9, <3>1 DEF TableTypes
    <3>6. QED
      BY <2>4, <2>9, <3>2, <3>3, <3>4, <3>5 DEF TableTypes
  <2>12. TableRows(u, cs)
    BY <2>2, <2>3, <2>4, <2>9, <2>10 DEF TableRows
  <2>13. TableOnce(u, cs)
    BY <2>2, <2>7, <2>8, <2>9 DEF TableOnce, TableScans
  <2>14. TableDone(u, cs)
    BY <2>2, <2>4, <2>5, <2>6, <2>7, <2>8, <2>9 DEF TableDone
  <2>15. TableAsked(u, cs)
    BY <2>6, <2>7, <2>8, <2>9 DEF TableAsked
  <2>16. QED
    BY <2>1, <2>9, <2>11, <2>12, <2>13, <2>14, <2>15, TableShown DEF TablePage
<1>3. QED
  BY <1>1, <1>2

LEMMA TableSweepStarts ==
  ASSUME TableInv, NEW c \in calls, c.kind = "timer", Table!SweepStarts(c) PROVE TableInv'
<1> DEFINE rest == IF c.seq = ui.seq /\ ui.job # none THEN ui.job.symbols \ ui.req ELSE {}
           cs == calls \ {c}
           x == [ui EXCEPT !.req = @ \cup rest]
<1> USE DEF TableInv
<1>1. ui' = x /\ calls' = cs \cup (IF rest = {} THEN {} ELSE {Table!Scan("sweep", ui.seq, rest)})
  BY DEF Table!SweepStarts, Table!Current, Table!If
<1>2. TableRecord(ui)
  BY DEF TableState, TableTypes
<1>3. rest \cap ui.req = {} /\ (ui.job # none \/ rest = {})
  OBVIOUS
<1>4. c.seq = ui.seq /\ ui.job # none => \A s \in DOMAIN ui.rows : s \in ui.req \/ s \in rest
  BY DEF TableState, TableDone
<1> HIDE DEF rest
<1>5. TableSame(x, ui) /\ x.req = ui.req \cup rest /\ x.page = ui.page /\ x.rows = ui.rows /\ x.expr = ui.expr
  BY <1>2 DEF TableSame, TableRecord
<1> HIDE DEF x
<1>6. TablePage'
  BY <1>1, <1>5, TablePageSame
<1>7. /\ TableTypes(ui, cs) /\ TableRows(ui, cs) /\ TableOnce(ui, cs) /\ TableAsked(ui, cs)
  BY DEF TableState, TableTypes, TableRows, TableOnce, TableAsked
<1>8. CASE c.seq = ui.seq /\ ui.job # none
  <2> DEFINE d == Table!Scan("sweep", ui.seq, rest)
             more == IF rest = {} THEN {} ELSE {d}
             y == [ui EXCEPT !.lost = TRUE]
  <2>1. TableRecord(y) /\ TableState(y, cs)
    <3>1. /\ TableRecord(y) /\ y.restored = ui.restored /\ y.sel = ui.sel /\ y.rows = ui.rows /\ y.rowsOf = ui.rowsOf
          /\ y.loading = ui.loading /\ y.refreshing = ui.refreshing /\ y.seq = ui.seq /\ y.job = ui.job /\ y.req = ui.req
          /\ y.fundBusy = ui.fundBusy /\ y.emptied = ui.emptied /\ y.lost
      BY <1>2 DEF TableRecord
    <3> HIDE DEF y
    <3>2. TableDone(y, cs)
      BY <3>1 DEF TableState, TableDone
    <3>3. TableTypes(y, cs) /\ TableRows(y, cs)
      BY <1>7, <3>1 DEF TableTypes, TableRows
    <3>4. TableOnce(y, cs) /\ TableAsked(y, cs)
      BY <1>7, <3>1 DEF TableOnce, TableAsked
    <3>5. QED
      BY <3>1, <3>2, <3>3, <3>4 DEF TableState
  <2> DEFINE z == [y EXCEPT !.req = @ \cup rest]
  <2>2. /\ TableSame(z, y) /\ z.req = y.req \cup rest /\ y.req = ui.req /\ y.job = ui.job /\ y.seq = ui.seq
        /\ z.restored = x.restored /\ z.sel = x.sel /\ z.rows = x.rows /\ z.rowsOf = x.rowsOf
        /\ z.loading = x.loading /\ z.refreshing = x.refreshing /\ z.seq = x.seq /\ z.job = x.job /\ z.req = x.req
        /\ z.fundBusy = x.fundBusy /\ z.emptied = x.emptied
    BY <1>2 DEF TableSame, TableRecord, x
  <2> HIDE DEF y, z
  <2>3. TableState(z, cs \cup (IF rest = {} THEN {} ELSE {Table!Scan("sweep", y.seq, rest)}))
    BY <1>3, <2>1, <2>2, TableAdds DEF TableScans
  <2>4. TableState(z, calls')
    BY <1>1, <2>2, <2>3
  <2>5. TableDone(ui', calls')
    <3>1. rest # {} => d \in calls' /\ d.kind = "sweep" /\ d.seq = ui.seq /\ d.want = rest
      BY <1>1 DEF Table!Scan
    <3>2. cs \subseteq calls'
      BY <1>1
    <3> HIDE DEF d, cs
    <3>3. ui'.job = ui.job /\ ui'.rows = ui.rows /\ ui'.lost = ui.lost /\ ui'.seq = ui.seq /\ ui.job.symbols = DOMAIN ui.rows
      BY <1>1, <1>5, <1>8 DEF TableSame, TableState, TableDone
    <3>4. ASSUME ~ui.lost, NEW s \in DOMAIN ui.rows
          PROVE  ui.rows[s].tech \/ \E e \in calls' : e.kind \in TableScans /\ e.seq = ui.seq /\ s \in e.want
      <4>1. CASE s \in rest
        BY <3>1, <4>1 DEF TableScans
      <4>2. CASE s \notin rest
        <5>1. s \in ui.req
          BY <1>4, <1>8, <4>2
        <5>2. ui.rows[s].tech \/ \E e \in calls : e.kind \in TableScans /\ e.seq = ui.seq /\ s \in e.want
          BY <1>8, <3>4, <5>1 DEF TableState, TableDone
        <5>3. QED
          BY <3>2, <5>2 DEF TableScans, cs
      <4>3. QED
        BY <4>1, <4>2
    <3>5. QED
      BY <3>3, <3>4 DEF TableDone
  <2>6. TableTypes(ui', calls')
    BY <1>1, <1>5, <2>2, <2>4 DEF TableState, TableTypes, TableSame
  <2>7. TableRows(ui', calls')
    BY <1>1, <2>2, <2>4 DEF TableState, TableRows
  <2>8. TableOnce(ui', calls') /\ TableAsked(ui', calls')
    BY <1>1, <2>2, <2>4 DEF TableState, TableOnce, TableAsked
  <2>9. QED
    BY <1>6, <2>5, <2>6, <2>7, <2>8 DEF TableState
<1>9. CASE ~(c.seq = ui.seq /\ ui.job # none)
  <2>1. rest = {} /\ calls' = cs
    BY <1>1, <1>9 DEF rest
  <2>2. TableDone(ui, cs)
    BY <1>9 DEF TableState, TableDone, TableScans
  <2>3. TableState(x, cs \cup (IF rest = {} THEN {} ELSE {Table!Scan("sweep", ui.seq, rest)}))
    BY <1>3, <1>5, <1>7, <2>2, TableAdds DEF TableState, TableScans
  <2>4. QED
    BY <1>1, <1>6, <2>3
<1>10. QED
  BY <1>8, <1>9

LEMMA TableScanAnswers ==
  ASSUME TableInv, NEW c \in calls, c.kind \in TableScans, NEW got \in SUBSET c.want, Table!ScanAnswers(c, got) PROVE TableInv'
<1> USE DEF TableInv, TableState
<1>0. TableRecord(ui)
  BY DEF TableTypes
<1> DEFINE cs == calls \ {c}
<1>1. CASE c.seq # ui.seq
  <2>1. ui' = ui /\ calls' = cs
    BY <1>1 DEF Table!ScanAnswers, Table!Current
  <2>2. TableTypes(ui', calls') /\ TableRows(ui', calls') /\ TableAsked(ui', calls')
    BY <2>1 DEF TableTypes, TableRows, TableAsked, TableScans
  <2>3. TableOnce(ui', calls')
    BY <2>1 DEF TableOnce
  <2>4. TableDone(ui', calls')
    BY <1>1, <2>1 DEF TableDone, TableScans
  <2>5. TablePage'
    BY <2>1, TablePageSame
  <2>6. QED
    BY <2>2, <2>3, <2>4, <2>5
<1>2. CASE c.seq = ui.seq
  <2> DEFINE rows == [s \in DOMAIN ui.rows |-> IF s \in got THEN [ui.rows[s] EXCEPT !.tech = TRUE] ELSE ui.rows[s]]
             lost == ui.lost \/ got # c.want
             u == [ui EXCEPT !.rows = rows, !.lost = lost]
  <2>1. Table!Show(u, FALSE, cs)
    BY <1>2 DEF Table!ScanAnswers, Table!Current
  <2>2. DOMAIN rows = DOMAIN ui.rows
    OBVIOUS
  <2>3. \A s \in DOMAIN ui.rows : /\ DOMAIN rows[s] = {"tech", "fund"} /\ rows[s].fund = ui.rows[s].fund
                                  /\ (ui.rows[s].tech \/ s \in got => rows[s].tech)
    BY DEF TableTypes
  <2> HIDE DEF rows, lost
  <2>4. /\ TableRecord(u) /\ u.restored = ui.restored /\ u.sel = ui.sel /\ u.rows = rows /\ u.rowsOf = ui.rowsOf
        /\ u.loading = ui.loading /\ u.refreshing = ui.refreshing /\ u.seq = ui.seq /\ u.job = ui.job /\ u.req = ui.req
        /\ u.fundBusy = ui.fundBusy /\ u.emptied = ui.emptied /\ (u.lost <=> lost) /\ u.page = ui.page
    BY <1>0 DEF TableRecord
  <2> HIDE DEF u
  <2>5. TableTypes(u, cs)
    BY <2>2, <2>3, <2>4 DEF TableTypes
  <2>6. TableRows(u, cs) /\ TableAsked(u, cs)
    BY <2>2, <2>3, <2>4 DEF TableRows, TableAsked, TableScans
  <2>7. TableOnce(u, cs)
    BY <2>4 DEF TableOnce
  <2>8. TableDone(u, cs)
    BY <2>2, <2>3, <2>4 DEF TableDone, TableScans, lost
  <2>9. QED
    BY <2>1, <2>4, <2>5, <2>6, <2>7, <2>8, TableShown DEF TablePage
<1>3. QED
  BY <1>1, <1>2

\* What the controls presuppose.
LEMMA TableControls ==
  ASSUME TableInv
  PROVE  /\ \A b \in {"universe", "filters", "sort", "refresh", "next", "previous"} : b \in Table!Offered(ui) => ~ui.loading /\ ui.restored
         /\ "previous" \in Table!Offered(ui) => ui.page > 0
<1>1. ~ui.restored => ui.loading
  BY DEF TableInv, TableState, TableRows
<1>2. "previous" \notin Table!TopBar(ui) \cup {"sort", "refresh"}
  BY DEF Table!TopBar
<1>3. "previous" \in Table!Pager(ui) => ui.page > 0
  BY DEF Table!Pager, Table!If
<1>4. QED
  BY <1>1, <1>2, <1>3 DEF Table!Offered

LEMMA TableLoads ==
  ASSUME TableInv,
         \/ Table!Restore \/ Table!Refresh
         \/ \E sel \in (SUBSET Universes) \ {{}} : Table!PickUniverse(sel)
  PROVE  TableInv'
<1>1. TableRecord(ui) /\ ui.page \in Nat /\ ui.sel \subseteq Universes
  BY DEF TableInv, TablePage, TableState, TableTypes
<1>2. CASE Table!Restore
  <2>1. PICK sel \in (SUBSET Universes) \ {{}}, e \in Table!Exprs :
          ~ui.restored /\ Table!Load([ui EXCEPT !.restored = TRUE, !.sel = sel, !.expr = e], TRUE)
    BY <1>2 DEF Table!Restore
  <2> DEFINE u == [ui EXCEPT !.restored = TRUE, !.sel = sel, !.expr = e]
  <2>2. TableRecord(u) /\ u.seq = ui.seq /\ u.sel = sel /\ u.page = ui.page /\ u.rows = ui.rows /\ u.restored /\ u.loading = ui.loading
    BY <1>1 DEF TableRecord
  <2>3. ui.loading
    BY <2>1 DEF TableInv, TableState, TableRows
  <2> HIDE DEF u
  <2>4. Table!Load(u, TRUE)
    BY <2>1 DEF u
  <2>5. QED
    BY <1>1, <2>2, <2>3, <2>4, TableLoad
<1>3. CASE Table!Refresh
  <2> DEFINE u == [ui EXCEPT !.refreshing = TRUE]
  <2>1. Table!Load(u, FALSE) /\ "refresh" \in Table!Offered(ui)
    BY <1>3 DEF Table!Refresh
  <2>2. ~ui.loading /\ ui.restored
    BY <2>1, TableControls
  <2>3. ui.rowsOf = ui.sel /\ DOMAIN ui.rows \subseteq Table!Members(ui.sel)
    BY <2>2 DEF TableInv, TableState, TableRows
  <2>4. TableRecord(u) /\ u.seq = ui.seq /\ u.sel = ui.sel /\ u.page = ui.page /\ u.rows = ui.rows /\ (u.restored <=> ui.restored)
        /\ u.rowsOf = ui.rowsOf
    BY <1>1 DEF TableRecord
  <2> HIDE DEF u
  <2>5. QED
    BY <1>1, <2>1, <2>2, <2>3, <2>4, TableLoad
<1>4. ASSUME NEW sel \in (SUBSET Universes) \ {{}}, Table!PickUniverse(sel) PROVE TableInv'
  <2> DEFINE u == [ui EXCEPT !.sel = sel, !.loading = TRUE]
             reset == sel # ui.sel
  <2>1. Table!Load(u, reset) /\ "universe" \in Table!Offered(ui)
    BY <1>4 DEF Table!PickUniverse
  <2>2. ui.restored
    BY <2>1, TableControls
  <2>3. TableRecord(u) /\ u.seq = ui.seq /\ u.sel = sel /\ u.page = ui.page /\ u.rows = ui.rows /\ (u.restored <=> ui.restored) /\ u.loading
    BY <1>1 DEF TableRecord
  <2> HIDE DEF u, reset
  <2>4. QED
    BY <1>1, <2>1, <2>2, <2>3, TableLoad
<1>5. QED
  BY <1>2, <1>3, <1>4

\* A filter, the order, the page: nothing the state speaks of.
LEMMA TableViews ==
  ASSUME TableInv,
         \/ Table!SetSort
         \/ \E e \in Table!Exprs : Table!SetExpr(e)
         \/ \E d \in {1, -1} : Table!TurnPage(d)
  PROVE  TableInv'
<1>1. TableRecord(ui) /\ ui.page \in Nat /\ TableState(ui, calls)
  BY DEF TableInv, TablePage, TableState, TableTypes
<1>2. ASSUME NEW u, NEW reset, u.page \in Nat, Table!Show(u, reset, calls), TableRecord(u),
             u.restored = ui.restored, u.sel = ui.sel, u.rowsOf = ui.rowsOf, u.loading = ui.loading, u.refreshing = ui.refreshing,
             u.seq = ui.seq, u.job = ui.job, u.req = ui.req, u.lost = ui.lost, u.emptied = ui.emptied, u.rows = ui.rows,
             u.fundBusy = ui.fundBusy
      PROVE  TableInv'
  <2>1. \A s \in DOMAIN ui.rows : DOMAIN ui.rows[s] = {"tech", "fund"}
    BY <1>1 DEF TableState, TableTypes
  <2>2. TableState(u, calls)
    BY <1>1, <1>2, <2>1, TableTouch
  <2>3. QED
    BY <1>2, <2>2, TableShown
<1>3. CASE Table!SetSort
  <2> DEFINE u == [ui EXCEPT !.asc = ~@]
  <2>1. Table!Show(u, TRUE, calls)
    BY <1>3 DEF Table!SetSort
  <2>2. /\ TableRecord(u) /\ u.page = ui.page
        /\ u.restored = ui.restored /\ u.sel = ui.sel /\ u.rowsOf = ui.rowsOf /\ u.loading = ui.loading /\ u.refreshing = ui.refreshing
        /\ u.seq = ui.seq /\ u.job = ui.job /\ u.req = ui.req /\ u.lost = ui.lost /\ u.emptied = ui.emptied /\ u.rows = ui.rows
        /\ u.fundBusy = ui.fundBusy
    BY <1>1 DEF TableRecord
  <2> HIDE DEF u
  <2>3. QED
    BY <1>1, <1>2, <2>1, <2>2
<1>4. ASSUME NEW e \in Table!Exprs, Table!SetExpr(e) PROVE TableInv'
  <2> DEFINE u == [ui EXCEPT !.expr = e]
  <2>1. Table!Show(u, TRUE, calls)
    BY <1>4 DEF Table!SetExpr
  <2>2. /\ TableRecord(u) /\ u.page = ui.page
        /\ u.restored = ui.restored /\ u.sel = ui.sel /\ u.rowsOf = ui.rowsOf /\ u.loading = ui.loading /\ u.refreshing = ui.refreshing
        /\ u.seq = ui.seq /\ u.job = ui.job /\ u.req = ui.req /\ u.lost = ui.lost /\ u.emptied = ui.emptied /\ u.rows = ui.rows
        /\ u.fundBusy = ui.fundBusy
    BY <1>1 DEF TableRecord
  <2> HIDE DEF u
  <2>3. QED
    BY <1>1, <1>2, <2>1, <2>2
<1>5. ASSUME NEW d \in {1, -1}, Table!TurnPage(d) PROVE TableInv'
  <2> DEFINE u == [ui EXCEPT !.page = @ + d]
  <2>1. Table!Show(u, FALSE, calls) /\ (IF d > 0 THEN "next" ELSE "previous") \in Table!Offered(ui)
    BY <1>5 DEF Table!TurnPage
  <2>2. /\ TableRecord(u) /\ u.page = ui.page + d
        /\ u.restored = ui.restored /\ u.sel = ui.sel /\ u.rowsOf = ui.rowsOf /\ u.loading = ui.loading /\ u.refreshing = ui.refreshing
        /\ u.seq = ui.seq /\ u.job = ui.job /\ u.req = ui.req /\ u.lost = ui.lost /\ u.emptied = ui.emptied /\ u.rows = ui.rows
        /\ u.fundBusy = ui.fundBusy
    BY <1>1 DEF TableRecord
  <2>3. d = -1 => ui.page > 0
    BY <2>1, TableControls
  <2>4. ui.page + d \in Nat
    BY <1>1, <2>3
  <2> HIDE DEF u
  <2>5. QED
    BY <1>1, <1>2, <2>1, <2>2, <2>4
<1>6. QED
  BY <1>3, <1>4, <1>5

\* Fundamentals that arrive or are given up take nothing from a row.
TableRowsTyped(rows) == \A s \in DOMAIN rows : DOMAIN rows[s] = {"tech", "fund"}
TableRowsKept(new, rows, syms) ==
  /\ DOMAIN new = DOMAIN rows
  /\ \A s \in DOMAIN rows : /\ DOMAIN new[s] = {"tech", "fund"} /\ new[s].tech = rows[s].tech
                            /\ (new[s].fund = "undefined" => rows[s].fund = "undefined" /\ s \notin syms)
LEMMA TableFund ==
  ASSUME NEW rows, NEW syms, NEW v \in {"data", "null"}, TableRowsTyped(rows)
  PROVE  TableRowsKept(Table!WithFund(rows, syms, v), rows, syms)
<1> DEFINE new == Table!WithFund(rows, syms, v)
<1>1. DOMAIN new = DOMAIN rows
  BY DEF Table!WithFund
<1>2. ASSUME NEW s \in DOMAIN rows
      PROVE  /\ DOMAIN new[s] = {"tech", "fund"} /\ new[s].tech = rows[s].tech
             /\ (new[s].fund = "undefined" => rows[s].fund = "undefined" /\ s \notin syms)
  <2>1. new[s] = IF s \in syms /\ rows[s].fund # "data" THEN [rows[s] EXCEPT !.fund = v] ELSE rows[s]
    BY DEF Table!WithFund
  <2>2. DOMAIN rows[s] = {"tech", "fund"}
    BY DEF TableRowsTyped
  <2> HIDE DEF new
  <2>3. CASE s \in syms /\ rows[s].fund # "data"
    BY <2>1, <2>2, <2>3
  <2>4. CASE ~(s \in syms /\ rows[s].fund # "data")
    BY <2>1, <2>2, <2>4
  <2>5. QED
    BY <2>3, <2>4
<1>3. QED
  BY <1>1, <1>2 DEF TableRowsKept

\* A poll that ends settles what never came.
LEMMA TableSettles ==
  ASSUME TableInv, NEW c \in calls, c.kind = "poll", NEW rows, DOMAIN rows = DOMAIN ui.rows,
         \A s \in DOMAIN ui.rows : DOMAIN rows[s] = {"tech", "fund"} /\ rows[s].tech = ui.rows[s].tech,
         NEW u, TableRecord(u), u.rows = rows, u.page = ui.page,
         u.restored = ui.restored, u.sel = ui.sel, u.rowsOf = ui.rowsOf, u.loading = ui.loading, u.refreshing = ui.refreshing,
         u.seq = ui.seq, u.job = ui.job, u.req = ui.req, u.lost = ui.lost, u.emptied = ui.emptied,
         Table!Show(Table!Settle(u), FALSE, calls \ {c})
  PROVE  TableInv'
<1> DEFINE x == Table!Settle(u)
           new == Table!WithFund(rows, DOMAIN rows, "null")
           cs == calls \ {c}
<1>1. TableRecord(ui) /\ ui.page \in Nat /\ TableState(ui, calls)
  BY DEF TableInv, TablePage, TableState, TableTypes
<1>2. x = [u EXCEPT !.rows = Table!WithFund(u.rows, DOMAIN u.rows, "null"), !.fundBusy = FALSE]
  BY DEF Table!Settle
<1>3. Table!Show(x, FALSE, cs) /\ new = Table!WithFund(rows, DOMAIN rows, "null")
  OBVIOUS
<1> HIDE DEF x, new
<1>4. /\ DOMAIN new = DOMAIN ui.rows
      /\ \A s \in DOMAIN ui.rows : DOMAIN new[s] = {"tech", "fund"} /\ new[s].tech = ui.rows[s].tech /\ new[s].fund # "undefined"
  <2>1. TableRowsTyped(rows)
    BY DEF TableRowsTyped
  <2>2. TableRowsKept(new, rows, DOMAIN rows)
    BY <1>3, <2>1, TableFund
  <2>3. QED
    BY <2>2 DEF TableRowsKept
<1>5. /\ TableRecord(x) /\ x.restored = ui.restored /\ x.sel = ui.sel /\ x.rowsOf = ui.rowsOf /\ x.loading = ui.loading
      /\ x.refreshing = ui.refreshing /\ x.seq = ui.seq /\ x.job = ui.job /\ x.req = ui.req /\ x.lost = ui.lost
      /\ x.emptied = ui.emptied /\ x.page = ui.page /\ ~x.fundBusy /\ x.rows = new
  BY <1>1, <1>2 DEF TableRecord, new
<1>6. TableState(x, cs)
  BY <1>1, <1>4, <1>5, TableTouch
<1> HIDE DEF cs
<1>7. QED
  BY <1>1, <1>3, <1>5, <1>6, TableShown

LEMMA TablePolls ==
  ASSUME TableInv, NEW c \in calls, c.kind = "poll",
         \/ Table!PollFails(c) \/ Table!PollAgain(c)
         \/ \E got, pending \in SUBSET c.target : Table!PollAnswers(c, got, pending)
  PROVE  TableInv'
<1>1. TableRecord(ui) /\ ui.page \in Nat /\ TableState(ui, calls) /\ \A s \in DOMAIN ui.rows : DOMAIN ui.rows[s] = {"tech", "fund"}
  BY DEF TableInv, TablePage, TableState, TableTypes
<1>2. ASSUME Table!Show(Table!Settle(ui), FALSE, calls \ {c}) PROVE TableInv'
  BY <1>1, <1>2, TableSettles
<1>3. ASSUME NEW cs, NEW d \in cs, d.kind = "poll", DOMAIN d = {"kind", "target", "round", "phase"}, cs = (calls \ {c}) \cup {d}
      PROVE  /\ \A e \in calls : e.kind # "poll" => e \in cs
             /\ \A e \in cs : e \in calls \/ (e.kind = "poll" /\ DOMAIN e = {"kind", "target", "round", "phase"})
  BY <1>3
<1>4. CASE Table!PollFails(c)
  BY <1>2, <1>4 DEF Table!PollFails
<1>5. CASE Table!PollAgain(c)
  <2>1. CASE c.round < MaxRounds
    <3> DEFINE d == [c EXCEPT !.phase = "ask"]
    <3>1. calls' = (calls \ {c}) \cup {d} /\ ui' = ui
      BY <1>5, <2>1 DEF Table!PollAgain
    <3>2. d.kind = "poll" /\ DOMAIN d = {"kind", "target", "round", "phase"} /\ d \in calls'
      BY <3>1 DEF TableInv, TableState, TableTypes
    <3> HIDE DEF d
    <3>3. /\ \A e \in calls : e.kind # "poll" => e \in calls'
          /\ \A e \in calls' : e \in calls \/ (e.kind = "poll" /\ DOMAIN e = {"kind", "target", "round", "phase"})
      BY <1>3, <3>1, <3>2
    <3>4. TableState(ui, calls')
      BY <1>1, <3>2, <3>3, TableTouch
    <3>5. TablePage'
      BY <3>1, TablePageSame
    <3>6. QED
      BY <3>1, <3>4, <3>5 DEF TableInv
  <2>2. CASE ~(c.round < MaxRounds)
    BY <1>2, <1>5, <2>2 DEF Table!PollAgain
  <2>3. QED
    BY <2>1, <2>2
<1>6. ASSUME NEW got \in SUBSET c.target, NEW pending \in SUBSET c.target, Table!PollAnswers(c, got, pending) PROVE TableInv'
  <2> DEFINE rows == Table!WithFund(ui.rows, got, "data")
             u == [ui EXCEPT !.rows = Table!WithFund(@, got, "data")]
             d == Table!Poll(pending \ got, c.round + 1, "wait")
             cs == (calls \ {c}) \cup {d}
  <2>1. IF pending \ got = {} THEN Table!Show(Table!Settle(u), FALSE, calls \ {c}) ELSE Table!Show(u, FALSE, cs)
    BY <1>6 DEF Table!PollAnswers
  <2>2. /\ TableRecord(u) /\ u.restored = ui.restored /\ u.sel = ui.sel /\ u.rowsOf = ui.rowsOf /\ u.loading = ui.loading
        /\ u.refreshing = ui.refreshing /\ u.seq = ui.seq /\ u.job = ui.job /\ u.req = ui.req /\ u.lost = ui.lost
        /\ u.emptied = ui.emptied /\ u.page = ui.page /\ u.fundBusy = ui.fundBusy /\ u.rows = rows
    BY <1>1 DEF TableRecord
  <2>3. d.kind = "poll" /\ DOMAIN d = {"kind", "target", "round", "phase"} /\ d \in cs
    BY DEF Table!Poll
  <2>4. rows = Table!WithFund(ui.rows, got, "data")
    OBVIOUS
  <2> HIDE DEF rows, u, d
  <2>5. /\ DOMAIN rows = DOMAIN ui.rows
        /\ \A s \in DOMAIN ui.rows : DOMAIN rows[s] = {"tech", "fund"} /\ rows[s].tech = ui.rows[s].tech
    <3>1. TableRowsTyped(ui.rows)
      BY <1>1 DEF TableRowsTyped
    <3>2. TableRowsKept(rows, ui.rows, got)
      BY <2>4, <3>1, TableFund
    <3>3. QED
      BY <3>2 DEF TableRowsKept
  <2>6. CASE pending \ got = {}
    BY <1>1, <2>1, <2>2, <2>5, <2>6, TableSettles
  <2>7. CASE pending \ got # {}
    <3>1. /\ \A e \in calls : e.kind # "poll" => e \in cs
          /\ \A e \in cs : e \in calls \/ (e.kind = "poll" /\ DOMAIN e = {"kind", "target", "round", "phase"})
      BY <1>3, <2>3
    <3>2. Table!Show(u, FALSE, cs)
      BY <2>1, <2>7
    <3> HIDE DEF cs
    <3>3. TableState(u, cs)
      BY <1>1, <2>2, <2>3, <2>5, <3>1, TableTouch
    <3>4. QED
      BY <1>1, <2>2, <3>2, <3>3, TableShown
  <2>8. QED
    BY <2>6, <2>7
<1>7. QED
  BY <1>4, <1>5, <1>6

LEMMA TableStep == ASSUME TableInv, Table!Next PROVE TableInv'
<1>1. ASSUME NEW c \in Table!Of({"cons"}), NEW ok \in SUBSET c.sel, Table!Loaded(c, ok) PROVE TableInv'
  BY <1>1, TableLoaded DEF Table!Of
<1>2. ASSUME NEW c \in Table!Of({"timer"}), Table!SweepStarts(c) PROVE TableInv'
  BY <1>2, TableSweepStarts DEF Table!Of
<1>3. ASSUME NEW c \in Table!Of({"page", "sweep"}), NEW got \in SUBSET c.want, Table!ScanAnswers(c, got) PROVE TableInv'
  BY <1>3, TableScanAnswers DEF Table!Of, TableScans
<1>4. ASSUME NEW c \in Table!Of({"poll"}),
             Table!PollFails(c) \/ Table!PollAgain(c) \/ \E got, pending \in SUBSET c.target : Table!PollAnswers(c, got, pending)
      PROVE  TableInv'
  BY <1>4, TablePolls DEF Table!Of
<1>5. QED
  BY <1>1, <1>2, <1>3, <1>4, TableLoads, TableViews DEF Table!Next

LEMMA TableFirst == ASSUME NEW p \in Nat, NEW d \in Nat \ {0} PROVE (p * d) \div d = p
<1> DEFINE q == (p * d) \div d
<1>1. p * d \in Nat /\ p * d = d * p
  OBVIOUS
<1>2. q \in Nat /\ d * q <= d * p /\ d * p < d * q + d
  BY <1>1, TableQuotient
<1> HIDE DEF q
<1>3. ASSUME q < p PROVE FALSE
  <2>1. d * (q + 1) <= d * p
    BY <1>2, <1>3
  <2>2. d * (q + 1) = d * q + d /\ d * q \in Nat /\ d * p \in Nat
    BY <1>2
  <2>3. QED
    BY <1>2, <2>1, <2>2
<1>4. ASSUME p < q PROVE FALSE
  <2>1. d * (p + 1) <= d * q
    BY <1>2, <1>4
  <2>2. d * (p + 1) = d * p + d /\ d * q \in Nat /\ d * p \in Nat
    BY <1>2
  <2>3. QED
    BY <1>2, <2>1, <2>2
<1>5. q = p
  BY <1>2, <1>3, <1>4
<1>6. QED
  BY <1>5 DEF q

\* The rank numbers the rows in view without a gap, either way round: the page in range has a first row.
LEMMA TableRanks ==
  ASSUME TableInv, NEW k \in Nat, k < Cardinality(Table!Filtered(ui))
  PROVE  \E s \in Table!Filtered(ui) : Table!Rank(ui, s) = k
<1> DEFINE F == Table!Filtered(ui)
           n == Cardinality(F)
           below(s) == {t \in F : IF ui.asc THEN t < s ELSE t > s}
           rank == [s \in F |-> Cardinality(below(s))]
<1>1. F \subseteq Nat /\ IsFiniteSet(F) /\ n \in Nat
  <2>1. IsFiniteSet(DOMAIN ui.rows) /\ DOMAIN ui.rows \subseteq Nat
    BY DEF TableInv, TableState, TableTypes
  <2>2. F \subseteq DOMAIN ui.rows
    BY DEF Table!Filtered
  <2>3. QED
    BY <2>1, <2>2, FS_Subset, FS_CardinalityType
<1>2. \A s \in F : Table!Rank(ui, s) = rank[s]
  BY TableSize DEF Table!Rank
<1>3. ASSUME NEW S, NEW T, S \subseteq T, T \subseteq F, T # S
      PROVE  Cardinality(S) \in Nat /\ Cardinality(T) \in Nat /\ Cardinality(S) < Cardinality(T)
  <2>1. IsFiniteSet(T)
    BY <1>1, <1>3, FS_Subset
  <2>2. IsFiniteSet(S) /\ Cardinality(S) <= Cardinality(T) /\ Cardinality(S) # Cardinality(T)
    BY <1>3, <2>1, FS_Subset
  <2>3. QED
    BY <2>1, <2>2, FS_CardinalityType
<1>4. ASSUME NEW s \in F PROVE rank[s] \in 0 .. n - 1
  <2>1. s \notin below(s) /\ below(s) \subseteq F
    BY <1>1
  <2> HIDE DEF F, below
  <2>2. Cardinality(below(s)) \in Nat /\ Cardinality(below(s)) < n
    BY <1>3, <2>1
  <2>3. QED
    BY <1>1, <2>2
<1>5. ASSUME NEW s \in F, NEW t \in F, s # t PROVE rank[s] # rank[t]
  <2>1. below(s) \subseteq F /\ below(t) \subseteq F
    OBVIOUS
  <2>2. \/ below(s) \subseteq below(t) /\ s \in below(t) /\ s \notin below(s)
        \/ below(t) \subseteq below(s) /\ t \in below(s) /\ t \notin below(t)
    BY <1>1, <1>5
  <2> HIDE DEF F, below
  <2>3. CASE below(s) \subseteq below(t) /\ s \in below(t) /\ s \notin below(s)
    BY <1>3, <1>5, <2>1, <2>3
  <2>4. CASE below(t) \subseteq below(s) /\ t \in below(s) /\ t \notin below(t)
    BY <1>3, <1>5, <2>1, <2>4
  <2>5. QED
    BY <2>2, <2>3, <2>4
<1>6. n \in Nat \ {0}
  BY <1>1
<1> HIDE DEF F, n
<1>7. rank \in Injection(F, 0 .. n - 1)
  BY <1>4, <1>5 DEF Injection, IsInjective
<1>8. IsFiniteSet(0 .. n - 1) /\ Cardinality(0 .. n - 1) = n
  BY <1>6, FS_Interval
<1>9. rank \in Surjection(F, 0 .. n - 1)
  BY <1>7, <1>8, FS_Injection DEF n
<1>10. k \in 0 .. n - 1
  BY <1>6 DEF n, F
<1> HIDE DEF rank
<1>11. \E s \in F : rank[s] = k
  BY <1>9, <1>10 DEF Surjection
<1>12. QED
  BY <1>2, <1>11 DEF F

LEMMA TablePageHasRows == TableInv => Table!PageHasRows
<1> SUFFICES ASSUME TableInv, Table!Filtered(ui) # {} PROVE Table!PageRows(ui) # {}
  BY DEF Table!PageHasRows
<1> DEFINE k == ui.page * PageSize
<1>1. IsFiniteSet(DOMAIN ui.rows) /\ ui.page \in Nat /\ ui.page < Table!PageCount(ui) /\ PageSize \in Nat \ {0}
  BY ScreensAssumptions DEF TableInv, TablePage, TableState, TableTypes
<1>2. k \in Nat /\ k < Cardinality(Table!Filtered(ui))
  BY <1>1, TableCount
<1>3. PICK s \in Table!Filtered(ui) : Table!Rank(ui, s) = k
  BY <1>2, TableRanks
<1>4. Table!Rank(ui, s) \div PageSize = ui.page
  BY <1>1, <1>3, TableFirst
<1>5. s \in Table!PageRows(ui)
  BY <1>4 DEF Table!PageRows
<1>6. QED
  BY <1>5

LEMMA TableHolds ==
  TableInv => /\ Table!RowsOfSelection /\ Table!LoadingIsAsked
              /\ Table!AskedOnce /\ Table!NothingLeftOut /\ Table!PageHasRows
<1> SUFFICES ASSUME TableInv
             PROVE  /\ Table!RowsOfSelection /\ Table!LoadingIsAsked
                    /\ Table!AskedOnce /\ Table!NothingLeftOut /\ Table!PageHasRows
  OBVIOUS
<1> USE DEF TableInv, TableState
<1>1. Table!RowsOfSelection
  BY DEF TableRows, Table!RowsOfSelection
<1>2. Table!LoadingIsAsked
  <2>1. ui.restored /\ (ui.loading \/ ui.refreshing) => \E c \in Table!Of({"cons"}) : c.seq = ui.seq
    BY DEF TableAsked, Table!Of
  <2>2. ui.fundBusy => Table!Of({"poll"}) # {} \/ (\E c \in Table!Of({"cons"}) : c.seq = ui.seq) \/ ui.emptied
    BY DEF TableAsked, Table!Of
  <2>3. Table!EmptyMessage(ui) = "fetching" => \E s \in DOMAIN ui.rows : ui.rows[s].fund = "undefined"
    BY DEF Table!EmptyMessage, Table!FundWaiting
  <2>4. ui.job # none /\ Table!EmptyMessage(ui) = "fetching" => Table!Of({"poll"}) # {}
    BY <2>3 DEF TableAsked, Table!Of
  <2>5. QED
    BY <2>1, <2>2, <2>4 DEF Table!LoadingIsAsked
<1>3. Table!AskedOnce
  BY DEF TableOnce, TableScans, Table!AskedOnce, Table!Of
<1>4. Table!NothingLeftOut
  BY DEF TableDone, TableScans, Table!NothingLeftOut, Table!Of
<1>5. QED
  BY <1>1, <1>2, <1>3, <1>4, TablePageHasRows

-------------------------------------------------------------------------------
\* The screener's sheets.  What a sheet drafts is drafted whole: the columns in some order, each
\* once; rows with an id of their own; saved screens with a name of their own.
SheetWords == STRING \cup {"price", "hand", "nl"}
SheetRow == [id : Nat, metric : SheetWords, src : SheetWords]
SheetPart == [key : STRING, on : BOOLEAN]
SheetSaved == [name : Titles, sel : SUBSET Markets, rows : Seq(SheetRow)]
SheetApart(s) == \A p, q \in DOMAIN s : s[p] = s[q] => p = q
SheetRows(rs, n) ==
  /\ rs \in Seq(SheetRow) /\ \A p \in DOMAIN rs : rs[p].id < n
  /\ \A p, q \in DOMAIN rs : rs[p].id = rs[q].id => p = q
SheetMarkets(u) == u.sel \in SUBSET Markets /\ u.sel # {} /\ u.picks \in SUBSET Markets
SheetFilters(u) ==
  /\ u.nextId \in Nat /\ SheetRows(u.rows, u.nextId)
  /\ u.sheet = "picker" => \E p \in DOMAIN u.rows : u.rows[p].id = u.row
SheetColumns(u) ==
  /\ u.order \in Seq(STRING) /\ SheetApart(u.order)
  /\ u.draft \in Seq(SheetPart)
  /\ \A p, q \in DOMAIN u.draft : u.draft[p].key = u.draft[q].key => p = q
SheetSaves(u) ==
  /\ u.saved \in Seq(SheetSaved)
  /\ \A p \in DOMAIN u.saved : u.saved[p].sel # {} /\ SheetRows(u.saved[p].rows, u.nextId)
  /\ \A p, q \in DOMAIN u.saved : u.saved[p].name = u.saved[q].name => p = q
SheetRecord(u) ==
  DOMAIN u = {"sheet", "sel", "picks", "rows", "nextId", "row", "presets", "order", "hidden", "draft", "saved"}
SheetOk(u) == SheetRecord(u) /\ SheetMarkets(u) /\ SheetFilters(u) /\ SheetColumns(u) /\ SheetSaves(u)
SheetInv == SheetOk(ui)

LEMMA SheetPlaces == ASSUME NEW s, NEW K PROVE Sheet!Places(s, K) = Places(s, K)
BY DEF Sheet!Places, Places
LEMMA SheetAssumed == Sheet!SheetsAssumptions
BY ScreensAssumptions

\* What is left of a list when some of it is taken away, and what is put before it.
LEMMA SheetLeft ==
  ASSUME NEW S, NEW s \in Seq(S), NEW K
  PROVE  /\ Sheet!Places(s, K) \in Seq(S)
         /\ \A p \in DOMAIN Sheet!Places(s, K) : \E q \in DOMAIN s : q \in K /\ Sheet!Places(s, K)[p] = s[q]
         /\ \A q \in DOMAIN s : q \in K => \E p \in DOMAIN Sheet!Places(s, K) : Sheet!Places(s, K)[p] = s[q]
         /\ SheetApart(s) => SheetApart(Sheet!Places(s, K))
<1>1. Sheet!Places(s, K) = Places(s, K)
  BY SheetPlaces
<1> DEFINE r == Places(s, K)
<1>2. /\ r \in Seq(S)
      /\ \A p \in DOMAIN r : \E q \in DOMAIN s : q \in K /\ r[p] = s[q]
      /\ \A q \in DOMAIN s : q \in K => \E p \in DOMAIN r : r[p] = s[q]
      /\ (\A p, q \in DOMAIN s : s[p] = s[q] => p = q) => \A p, q \in DOMAIN r : r[p] = r[q] => p = q
  BY PlacesIn
<1> HIDE DEF r
<1>3. Sheet!Places(s, K) = r
  BY <1>1 DEF r
<1>4. QED
  BY <1>2, <1>3 DEF SheetApart

LEMMA SheetPut ==
  ASSUME NEW S, NEW e \in S, NEW s \in Seq(S)
  PROVE  /\ <<e>> \o s \in Seq(S) /\ Len(<<e>> \o s) = Len(s) + 1 /\ (<<e>> \o s)[1] = e
         /\ DOMAIN (<<e>> \o s) = 1..(Len(s) + 1)
         /\ \A p \in DOMAIN s : (<<e>> \o s)[p + 1] = s[p] /\ p + 1 \in DOMAIN (<<e>> \o s)
         /\ \A p \in DOMAIN (<<e>> \o s) : p = 1 \/ (p - 1 \in DOMAIN s /\ (<<e>> \o s)[p] = s[p - 1])
<1>1. <<e>> \in Seq(S) /\ Len(<<e>>) = 1 /\ Len(s) \in Nat /\ DOMAIN s = 1..Len(s)
  BY LenProperties
<1>2. QED
  BY <1>1, ConcatProperties

\* Keys in the order of a list that has each once.
Listing(s, K) == s \in Seq(STRING) /\ SheetApart(s) /\ Sheet!Keys(s) = K
LEMMA SheetWithout ==
  ASSUME NEW s, NEW K, Listing(s, K), NEW ks
  PROVE  Listing(Sheet!Without(s, ks), K \ ks)
<1> DEFINE I == {b \in DOMAIN s : s[b] \notin ks}
           r == Sheet!Places(s, I)
<1>1. s \in Seq(STRING) /\ SheetApart(s) /\ K = {s[b] : b \in DOMAIN s}
  BY DEF Listing, Sheet!Keys
<1>0. I = {b \in DOMAIN s : s[b] \notin ks}
  OBVIOUS
<1> HIDE DEF I
<1>2. /\ r \in Seq(STRING) /\ SheetApart(r)
      /\ \A p \in DOMAIN r : \E q \in DOMAIN s : q \in I /\ r[p] = s[q]
      /\ \A q \in DOMAIN s : q \in I => \E p \in DOMAIN r : r[p] = s[q]
  BY <1>1, SheetLeft
<1>3. Sheet!Without(s, ks) = r
  BY <1>0 DEF Sheet!Without
<1> HIDE DEF r
<1>4. {r[p] : p \in DOMAIN r} = K \ ks
  BY <1>0, <1>1, <1>2
<1>5. QED
  BY <1>2, <1>3, <1>4 DEF Listing, Sheet!Keys

LEMMA SheetFront ==
  ASSUME NEW s, NEW K, Listing(s, K), NEW k \in K
  PROVE  /\ Listing(Sheet!Front(s, k), K) /\ Sheet!Front(s, k) = <<k>> \o Sheet!Without(s, {k})
         /\ Sheet!Front(s, k)[1] = k /\ 1 \in DOMAIN Sheet!Front(s, k)
         /\ \A p \in DOMAIN Sheet!Without(s, {k}) :
              Sheet!Front(s, k)[p + 1] = Sheet!Without(s, {k})[p] /\ p + 1 \in DOMAIN Sheet!Front(s, k)
<1> DEFINE t == Sheet!Without(s, {k})
           r == <<k>> \o t
<1>1. t \in Seq(STRING) /\ SheetApart(t) /\ {t[p] : p \in DOMAIN t} = K \ {k}
  BY SheetWithout DEF Listing, Sheet!Keys
<1>2. k \in STRING
  BY DEF Listing, Sheet!Keys
<1>3. /\ r \in Seq(STRING) /\ r[1] = k /\ 1 \in DOMAIN r
      /\ \A p \in DOMAIN t : r[p + 1] = t[p] /\ p + 1 \in DOMAIN r
      /\ \A p \in DOMAIN r : p = 1 \/ (p - 1 \in DOMAIN t /\ r[p] = t[p - 1])
  <2> HIDE DEF t
  <2>1. /\ r \in Seq(STRING) /\ Len(r) = Len(t) + 1 /\ r[1] = k /\ DOMAIN r = 1..(Len(t) + 1)
        /\ \A p \in DOMAIN t : r[p + 1] = t[p] /\ p + 1 \in DOMAIN r
        /\ \A p \in DOMAIN r : p = 1 \/ (p - 1 \in DOMAIN t /\ r[p] = t[p - 1])
    <3> DEFINE S == STRING
    <3>1. t \in Seq(S) /\ k \in S
      BY <1>1, <1>2
    <3> HIDE DEF S
    <3>2. /\ <<k>> \o t \in Seq(S) /\ Len(<<k>> \o t) = Len(t) + 1 /\ (<<k>> \o t)[1] = k
          /\ DOMAIN (<<k>> \o t) = 1..(Len(t) + 1)
          /\ \A p \in DOMAIN t : (<<k>> \o t)[p + 1] = t[p] /\ p + 1 \in DOMAIN (<<k>> \o t)
          /\ \A p \in DOMAIN (<<k>> \o t) : p = 1 \/ (p - 1 \in DOMAIN t /\ (<<k>> \o t)[p] = t[p - 1])
      BY <3>1, SheetPut
    <3>4. S = STRING
      BY DEF S
    <3>3. QED
      BY <3>2, <3>4
  <2>2. Len(t) \in Nat
    BY <1>1, LenProperties
  <2>3. QED
    BY <2>1, <2>2
<1>4. Sheet!Front(s, k) = r /\ r = <<k>> \o Sheet!Without(s, {k}) /\ t = Sheet!Without(s, {k})
  BY DEF Sheet!Front, Listing
<1>5. DOMAIN t \subseteq Nat /\ DOMAIN r \subseteq Nat
  BY <1>1, <1>3, LenProperties
<1> HIDE DEF r, t
<1>6. \A p \in DOMAIN t : t[p] # k
  BY <1>1
<1>7. SheetApart(r)
  <2> SUFFICES ASSUME NEW p \in DOMAIN r, NEW q \in DOMAIN r, r[p] = r[q] PROVE p = q
    BY DEF SheetApart
  <2>1. CASE p = 1
    BY <1>3, <1>6, <2>1
  <2>2. CASE q = 1
    BY <1>3, <1>6, <2>2
  <2>3. CASE p # 1 /\ q # 1
    <3>1. p - 1 \in DOMAIN t /\ q - 1 \in DOMAIN t /\ t[p - 1] = t[q - 1]
      BY <1>3, <2>3
    <3>2. p - 1 = q - 1
      BY <1>1, <3>1 DEF SheetApart
    <3>3. QED
      BY <1>5, <3>2
  <2>4. QED
    BY <2>1, <2>2, <2>3
<1>8. {r[p] : p \in DOMAIN r} = K
  <2>1. ASSUME NEW p \in DOMAIN r PROVE r[p] \in K
    <3>1. CASE p = 1
      BY <1>1, <1>3, <3>1
    <3>2. CASE p # 1
      <4>1. p - 1 \in DOMAIN t /\ r[p] = t[p - 1]
        BY <1>3, <3>2
      <4>2. QED
        BY <1>1, <4>1
    <3>3. QED
      BY <3>1, <3>2
  <2>2. \A x \in K : \E p \in DOMAIN r : r[p] = x
    <3>1. ASSUME NEW x \in K, x # k PROVE \E p \in DOMAIN r : r[p] = x
      <4>1. PICK p \in DOMAIN t : t[p] = x
        BY <1>1, <3>1
      <4>2. QED
        BY <1>3, <4>1
    <3>2. QED
      BY <1>3, <3>1
  <2>3. QED
    BY <2>1, <2>2
<1>9. Listing(r, K)
  BY <1>3, <1>7, <1>8 DEF Listing, Sheet!Keys
<1>10. QED
  BY <1>3, <1>4, <1>9

LEMMA SheetJoin ==
  ASSUME NEW s, NEW K, Listing(s, K), NEW t, NEW L, Listing(t, L), K \cap L = {}
  PROVE  Listing(s \o t, K \cup L)
<1> DEFINE r == s \o t
<1>1. /\ s \in Seq(STRING) /\ SheetApart(s) /\ {s[p] : p \in DOMAIN s} = K /\ DOMAIN s = 1..Len(s) /\ Len(s) \in Nat
      /\ t \in Seq(STRING) /\ SheetApart(t) /\ {t[p] : p \in DOMAIN t} = L /\ DOMAIN t = 1..Len(t) /\ Len(t) \in Nat
  BY LenProperties DEF Listing, Sheet!Keys
<1>2. /\ r \in Seq(STRING) /\ Len(r) = Len(s) + Len(t)
      /\ \A p \in 1..(Len(s) + Len(t)) : r[p] = IF p <= Len(s) THEN s[p] ELSE t[p - Len(s)]
  BY <1>1, ConcatProperties
<1>3. DOMAIN r = 1..(Len(s) + Len(t))
  BY <1>2, LenProperties
<1> HIDE DEF r
<1>4. \A p \in DOMAIN r : \/ (p \in DOMAIN s /\ r[p] = s[p])
                        \/ (p - Len(s) \in DOMAIN t /\ r[p] = t[p - Len(s)])
  BY <1>1, <1>2, <1>3
<1>5. /\ \A p \in DOMAIN s : p \in DOMAIN r /\ r[p] = s[p]
      /\ \A p \in DOMAIN t : p + Len(s) \in DOMAIN r /\ r[p + Len(s)] = t[p]
  BY <1>1, <1>2, <1>3
<1>6. {r[p] : p \in DOMAIN r} = K \cup L
  <2>1. \A p \in DOMAIN r : r[p] \in K \cup L
    BY <1>1, <1>4
  <2>2. ASSUME NEW x \in K PROVE \E p \in DOMAIN r : r[p] = x
    <3>1. PICK p \in DOMAIN s : s[p] = x
      BY <1>1
    <3>2. QED
      BY <1>5, <3>1
  <2>3. ASSUME NEW x \in L PROVE \E p \in DOMAIN r : r[p] = x
    <3>1. PICK p \in DOMAIN t : t[p] = x
      BY <1>1
    <3>2. QED
      BY <1>5, <3>1
  <2>4. QED
    BY <2>1, <2>2, <2>3
<1>7. SheetApart(r)
  <2> SUFFICES ASSUME NEW p \in DOMAIN r, NEW q \in DOMAIN r, r[p] = r[q] PROVE p = q
    BY DEF SheetApart
  <2>0. p \in Nat /\ q \in Nat
    BY <1>1, <1>3
  <2>1. CASE p \in DOMAIN s /\ r[p] = s[p]
    <3>1. r[q] \notin L
      BY <1>1, <2>1
    <3>2. q \in DOMAIN s /\ r[q] = s[q]
      BY <1>1, <1>4, <3>1
    <3>3. QED
      BY <1>1, <2>1, <3>2 DEF SheetApart
  <2>2. CASE p - Len(s) \in DOMAIN t /\ r[p] = t[p - Len(s)]
    <3>1. r[q] \notin K
      BY <1>1, <2>2
    <3>2. q - Len(s) \in DOMAIN t /\ r[q] = t[q - Len(s)]
      BY <1>1, <1>4, <3>1
    <3>3. p - Len(s) = q - Len(s)
      BY <1>1, <2>2, <3>2 DEF SheetApart
    <3>4. QED
      BY <1>1, <2>0, <3>3
  <2>3. QED
    BY <1>4, <2>1, <2>2
<1>8. QED
  BY <1>2, <1>6, <1>7 DEF Listing, Sheet!Keys, r

\* Whatever order is stored, the complete one has every column once.
LEMMA SheetComplete ==
  ASSUME NEW s \in Seq(STRING), SheetApart(s)
  PROVE  Listing(Sheet!Complete(s), Sheet!Keys(Columns))
<1> DEFINE I == {b \in DOMAIN s : s[b] \in Sheet!Keys(Columns)}
           known == Sheet!Places(s, I)
           rest == Sheet!Without(Columns, Sheet!Keys(known))
<1>1. Sheet!Complete(s) = known \o rest
  BY DEF Sheet!Complete
<1>2. Listing(Columns, Sheet!Keys(Columns))
  BY SheetAssumed DEF Listing, SheetApart, Sheet!SheetsAssumptions
<1>3. Listing(rest, Sheet!Keys(Columns) \ Sheet!Keys(known))
  <2> HIDE DEF known
  <2>1. QED
    BY <1>2, SheetWithout
<1>0. I = {b \in DOMAIN s : s[b] \in Sheet!Keys(Columns)}
  OBVIOUS
<1> HIDE DEF I
<1>4. /\ known \in Seq(STRING) /\ SheetApart(known)
      /\ \A p \in DOMAIN known : \E q \in DOMAIN s : q \in I /\ known[p] = s[q]
  BY SheetLeft
<1> HIDE DEF known
<1>5. Listing(known, Sheet!Keys(known)) /\ Sheet!Keys(known) \subseteq Sheet!Keys(Columns)
  BY <1>0, <1>4 DEF Listing, Sheet!Keys
<1> HIDE DEF rest
<1>6. Listing(known \o rest, Sheet!Keys(known) \cup (Sheet!Keys(Columns) \ Sheet!Keys(known)))
  BY <1>3, <1>5, SheetJoin
<1>7. Sheet!Keys(known) \cup (Sheet!Keys(Columns) \ Sheet!Keys(known)) = Sheet!Keys(Columns)
  BY <1>5
<1>8. QED
  BY <1>1, <1>6, <1>7

\* The first that is kept is the first; the second comes behind it or in its place.
LEMMA SheetEarly ==
  ASSUME NEW S, NEW s \in Seq(S), NEW K
  PROVE  LET r == Sheet!Places(s, K) IN
         /\ 1 \in DOMAIN s /\ 1 \in K => 1 \in DOMAIN r /\ r[1] = s[1]
         /\ 2 \in DOMAIN s /\ 2 \in K =>
              /\ 1 \in K => 2 \in DOMAIN r /\ r[2] = s[2]
              /\ 1 \notin K => 1 \in DOMAIN r /\ r[1] = s[2]
<1> DEFINE r == Places(s, K)
           Q == Among(Len(s), K)
<1>0. Sheet!Places(s, K) = r
  BY SheetPlaces
<1>1. r \in Seq(S) /\ Picks(r, s, Q) /\ DOMAIN s = 1..Len(s) /\ Len(s) \in Nat
  BY PlacesPick, LenProperties
<1> HIDE DEF r
<1>2. DOMAIN r = 1..Len(r) /\ Len(r) \in Nat
  BY <1>1, LenProperties
<1>3. PICK f \in [1..Len(r) -> Q] : /\ \A p \in 1..Len(r) : r[p] = s[f[p]]
                                    /\ \A p, q \in 1..Len(r) : p < q => f[p] < f[q]
                                    /\ \A q \in Q : \E p \in 1..Len(r) : f[p] = q
  BY <1>1 DEF Picks
<1>4. \A p \in 1..Len(r) : f[p] \in 1..Len(s) /\ f[p] \in K
  BY <1>3 DEF Among
<1>5. ASSUME 1 \in DOMAIN s, 1 \in K PROVE 1 \in 1..Len(r) /\ f[1] = 1
  <2>1. PICK p \in 1..Len(r) : f[p] = 1
    BY <1>1, <1>3, <1>5 DEF Among
  <2>2. 1 \in 1..Len(r)
    BY <1>2
  <2>3. ~(1 < p)
    BY <1>3, <1>4, <2>1, <2>2
  <2>4. p = 1
    BY <2>3
  <2>5. QED
    BY <2>1, <2>2, <2>4
<1>6. ASSUME 2 \in DOMAIN s, 2 \in K, 1 \in K PROVE 2 \in 1..Len(r) /\ f[2] = 2
  <2>1. PICK p \in 1..Len(r) : f[p] = 2
    BY <1>1, <1>3, <1>6 DEF Among
  <2>2. 1 \in 1..Len(r) /\ f[1] = 1
    BY <1>1, <1>5, <1>6
  <2>3. p # 1 /\ 2 \in 1..Len(r)
    BY <1>2, <2>1, <2>2
  <2>4. 2 < p => f[1] < f[2] /\ f[2] < f[p]
    BY <1>2, <1>3, <2>2, <2>3
  <2>5. ~(2 < p)
    BY <1>4, <2>1, <2>2, <2>3, <2>4
  <2>6. p = 2
    BY <2>3, <2>5
  <2>7. QED
    BY <2>1, <2>6
<1>7. ASSUME 2 \in DOMAIN s, 2 \in K, 1 \notin K PROVE 1 \in 1..Len(r) /\ f[1] = 2
  <2>1. PICK p \in 1..Len(r) : f[p] = 2
    BY <1>1, <1>3, <1>7 DEF Among
  <2>2. 1 \in 1..Len(r) /\ f[1] # 1
    BY <1>2, <1>4, <1>7
  <2>3. 1 < p => f[1] < f[p]
    BY <1>3, <2>2
  <2>4. ~(1 < p)
    BY <1>4, <2>1, <2>2, <2>3
  <2>5. p = 1
    BY <2>4
  <2>6. QED
    BY <2>1, <2>5
<1>8. QED
  BY <1>0, <1>2, <1>3, <1>5, <1>6, <1>7

\* The table: the number, then the symbol, then what is not hidden, each once.
LEMMA SheetShown ==
  ASSUME NEW s \in Seq(STRING), SheetApart(s), NEW hidden
  PROVE  LET cols == Sheet!VisibleCols(s, hidden) IN
         /\ Listing(cols, (Sheet!Keys(Columns) \ hidden) \cup {"sym"})
         /\ cols[IF "sno" \in hidden THEN 1 ELSE 2] = "sym"
<1> DEFINE K == Sheet!Keys(Columns)
           c == Sheet!Complete(s)
           a == Sheet!Front(c, "sym")
           t == Sheet!Without(a, {"sno"})
           b == Sheet!Front(a, "sno")
           H == hidden \ {"sym"}
           cols == Sheet!Without(b, H)
<1>1. "sym" \in K /\ "sno" \in K
  BY SheetAssumed DEF Sheet!SheetsAssumptions, Sheet!Pinned
<1>2. Listing(c, K)
  BY SheetComplete
<1>3. Listing(a, K) /\ a[1] = "sym"
  <2> HIDE DEF c, K
  <2>1. QED
    BY <1>1, <1>2, SheetFront
<1>4. /\ Listing(b, K) /\ b[1] = "sno" /\ 1 \in DOMAIN b
      /\ \A p \in DOMAIN t : b[p + 1] = t[p] /\ p + 1 \in DOMAIN b
  <2> HIDE DEF a, K
  <2>1. QED
    BY <1>1, <1>3, SheetFront
<1>5. Listing(t, K \ {"sno"}) /\ 1 \in DOMAIN t /\ t[1] = "sym"
  <2> DEFINE I == {n \in DOMAIN a : a[n] \notin {"sno"}}
  <2>0. t = Sheet!Places(a, I)
    BY DEF Sheet!Without
  <2> HIDE DEF a, K
  <2>1. Listing(t, K \ {"sno"})
    BY <1>3, SheetWithout
  <2>2. a \in Seq(STRING) /\ DOMAIN a = 1..Len(a) /\ Len(a) \in Nat /\ DOMAIN a # {}
    BY <1>1, <1>3, LenProperties DEF Listing, Sheet!Keys
  <2>3. 1 \in DOMAIN a
    BY <2>2
  <2>4. 1 \in I
    BY <1>3, <2>3
  <2> HIDE DEF I, t
  <2>5. 1 \in DOMAIN Sheet!Places(a, I) /\ Sheet!Places(a, I)[1] = a[1]
    BY <2>2, <2>3, <2>4, SheetEarly
  <2>6. QED
    BY <1>3, <2>0, <2>1, <2>5
<1>6. b \in Seq(STRING) /\ 1 \in DOMAIN b /\ 2 \in DOMAIN b /\ b[2] = "sym"
  <2> HIDE DEF t, b, K
  <2>1. b[1 + 1] = t[1] /\ 1 + 1 \in DOMAIN b
    BY <1>4, <1>5
  <2>2. QED
    BY <1>4, <1>5, <2>1 DEF Listing
<1> DEFINE J == {n \in DOMAIN b : b[n] \notin H}
<1>7. cols = Sheet!Places(b, J) /\ J = {n \in DOMAIN b : b[n] \notin H}
  BY DEF Sheet!Without
<1>8. Listing(cols, K \ H)
  <2> HIDE DEF b, K, H
  <2>1. QED
    BY <1>4, SheetWithout
<1>9. K \ H = (K \ hidden) \cup {"sym"}
  <2> HIDE DEF K
  <2>1. QED
    BY <1>1
<1>10. Sheet!VisibleCols(s, hidden) = cols
  BY DEF Sheet!VisibleCols
<1>11. 2 \in J /\ (1 \in J <=> "sno" \notin hidden)
  <2> HIDE DEF b
  <2>1. QED
    BY <1>4, <1>6
<1> HIDE DEF J, b, H, K
<1>12. /\ 1 \in J => Sheet!Places(b, J)[2] = b[2]
       /\ 1 \notin J => Sheet!Places(b, J)[1] = b[2]
  BY <1>6, <1>11, SheetEarly
<1>13. cols[IF "sno" \in hidden THEN 1 ELSE 2] = "sym"
  <2> HIDE DEF cols
  <2>1. QED
    BY <1>6, <1>7, <1>11, <1>12
<1> HIDE DEF cols
<1>14. QED
  BY <1>8, <1>9, <1>10, <1>13 DEF K

\* A list that has each of its elements once has as many as it is long.
LEMMA SheetCount ==
  ASSUME NEW S, NEW s \in Seq(S), SheetApart(s)
  PROVE  Sheet!Cardinality(Sheet!Keys(s)) = Len(s)
<1> DEFINE K == {s[p] : p \in DOMAIN s}
           D == 1..Len(s)
<1>1. DOMAIN s = D /\ Len(s) \in Nat /\ s \in [D -> S]
  BY LenProperties
<1>2. s \in [D -> K]
  BY <1>1
<1>3. s \in Injection(D, K)
  BY <1>1, <1>2 DEF Injection, IsInjective, SheetApart
<1>4. s \in Surjection(D, K)
  BY <1>1, <1>2 DEF Surjection
<1>5. IsFiniteSet(D) /\ Cardinality(D) = Len(s)
  BY <1>1, FS_Interval
<1>6. Cardinality(K) = Cardinality(D)
  <2> HIDE DEF K, D
  <2>1. QED
    BY <1>3, <1>4, <1>5, FS_Surjection
<1>7. Sheet!Cardinality(K) = Cardinality(K)
  BY DEF Sheet!Cardinality, Cardinality
<1>8. Sheet!Keys(s) = K
  BY DEF Sheet!Keys
<1>9. QED
  BY <1>5, <1>6, <1>7, <1>8

LEMMA SheetHolds == SheetInv => Sheet!SheetsLeaveAScreen
<1> SUFFICES ASSUME SheetInv PROVE Sheet!SheetsLeaveAScreen
  OBVIOUS
<1> DEFINE cols == Sheet!VisibleCols(ui.order, ui.hidden)
           ids == [p \in DOMAIN ui.rows |-> ui.rows[p].id]
           names == [p \in DOMAIN ui.saved |-> ui.saved[p].name]
           distinct(s) == Sheet!Cardinality(Sheet!Keys(s)) = Len(s)
<1>1. SheetMarkets(ui) /\ SheetFilters(ui) /\ SheetColumns(ui) /\ SheetSaves(ui)
  BY DEF SheetInv, SheetOk
<1>2. /\ Listing(cols, (Sheet!Keys(Columns) \ ui.hidden) \cup {"sym"})
      /\ cols[IF "sno" \in ui.hidden THEN 1 ELSE 2] = "sym"
  BY <1>1, SheetShown DEF SheetColumns
<1>3. distinct(cols)
  <2> HIDE DEF cols
  <2>1. QED
    BY <1>2, SheetCount DEF Listing
<1>4. distinct(ids)
  <2>1. ui.rows \in Seq(SheetRow) /\ \A p, q \in DOMAIN ui.rows : ui.rows[p].id = ui.rows[q].id => p = q
    BY <1>1 DEF SheetFilters, SheetRows
  <2>0. DOMAIN ui.rows = 1..Len(ui.rows) /\ Len(ui.rows) \in Nat /\ \A p \in DOMAIN ui.rows : ui.rows[p] \in SheetRow
    BY <2>1, LenProperties
  <2>2. \A p \in DOMAIN ui.rows : ui.rows[p].id \in Nat
    BY <2>0 DEF SheetRow
  <2>3. ids \in Seq(Nat) /\ SheetApart(ids)
    BY <2>0, <2>1, <2>2 DEF SheetApart
  <2> HIDE DEF ids
  <2>4. QED
    BY <2>3, SheetCount
<1>5. distinct(names)
  <2>1. ui.saved \in Seq(SheetSaved) /\ \A p, q \in DOMAIN ui.saved : ui.saved[p].name = ui.saved[q].name => p = q
    BY <1>1 DEF SheetSaves
  <2>0. DOMAIN ui.saved = 1..Len(ui.saved) /\ Len(ui.saved) \in Nat /\ \A p \in DOMAIN ui.saved : ui.saved[p] \in SheetSaved
    BY <2>1, LenProperties
  <2>2. \A p \in DOMAIN ui.saved : ui.saved[p].name \in Titles
    BY <2>0 DEF SheetSaved
  <2>3. names \in Seq(Titles) /\ SheetApart(names)
    BY <2>0, <2>1, <2>2 DEF SheetApart
  <2> HIDE DEF names
  <2>4. QED
    BY <2>3, SheetCount
<1>6. ui.sel # {} /\ \A p \in DOMAIN ui.saved : ui.saved[p].sel # {}
  BY <1>1 DEF SheetMarkets, SheetSaves
<1>7. Sheet!At("picker") => \E p \in DOMAIN ui.rows : ui.rows[p].id = ui.row
  BY <1>1 DEF SheetFilters, Sheet!At
<1>8. Sheet!Keys(cols) = (Sheet!Keys(Columns) \ ui.hidden) \cup {"sym"}
  BY <1>2 DEF Listing
<1>9. QED
  BY <1>2, <1>3, <1>4, <1>5, <1>6, <1>7, <1>8 DEF Sheet!SheetsLeaveAScreen

\* One handler of the sheets: what it leaves alone stays fine.
LEMMA SheetMarketsSame == ASSUME NEW u, NEW v, SheetMarkets(u), v.sel = u.sel, v.picks = u.picks PROVE SheetMarkets(v)
BY DEF SheetMarkets
LEMMA SheetFiltersSame ==
  ASSUME NEW u, NEW v, SheetFilters(u), v.rows = u.rows, v.nextId = u.nextId, v.sheet # "picker" \/ (v.sheet = u.sheet /\ v.row = u.row)
  PROVE  SheetFilters(v)
BY DEF SheetFilters
LEMMA SheetColumnsSame == ASSUME NEW u, NEW v, SheetColumns(u), v.order = u.order, v.draft = u.draft PROVE SheetColumns(v)
BY DEF SheetColumns
LEMMA SheetSavesSame == ASSUME NEW u, NEW v, SheetSaves(u), v.saved = u.saved, v.nextId = u.nextId PROVE SheetSaves(v)
BY DEF SheetSaves

LEMMA SheetRowsLater == ASSUME NEW rs, NEW n \in Nat, SheetRows(rs, n), NEW m \in Nat, n <= m PROVE SheetRows(rs, m)
<1>1. \A p \in DOMAIN rs : rs[p] \in SheetRow
  BY LenProperties DEF SheetRows
<1>2. \A p \in DOMAIN rs : rs[p].id \in Nat
  BY <1>1 DEF SheetRow
<1>3. \A p \in DOMAIN rs : rs[p].id < m
  BY <1>2 DEF SheetRows
<1>4. QED
  BY <1>3 DEF SheetRows

LEMMA SheetRowsLeft == ASSUME NEW rs, NEW n, SheetRows(rs, n), NEW K PROVE SheetRows(Sheet!Places(rs, K), n)
<1> DEFINE r == Sheet!Places(rs, K)
<1>1. rs \in Seq(SheetRow) /\ (\A p \in DOMAIN rs : rs[p].id < n) /\ \A p, q \in DOMAIN rs : rs[p].id = rs[q].id => p = q
  BY DEF SheetRows
<1>2. SheetApart(rs)
  BY <1>1 DEF SheetApart
<1>3. /\ r \in Seq(SheetRow) /\ SheetApart(r)
      /\ \A p \in DOMAIN r : \E q \in DOMAIN rs : q \in K /\ r[p] = rs[q]
  BY <1>1, <1>2, SheetLeft
<1> HIDE DEF r
<1>4. \A p \in DOMAIN r : r[p].id < n
  BY <1>1, <1>3
<1>5. ASSUME NEW p \in DOMAIN r, NEW q \in DOMAIN r, r[p].id = r[q].id PROVE p = q
  <2>1. PICK a \in DOMAIN rs : r[p] = rs[a]
    BY <1>3
  <2>2. PICK b \in DOMAIN rs : r[q] = rs[b]
    BY <1>3
  <2>3. a = b
    BY <1>1, <1>5, <2>1, <2>2
  <2>4. QED
    BY <1>3, <2>1, <2>2, <2>3 DEF SheetApart
<1>6. QED
  BY <1>3, <1>4, <1>5 DEF SheetRows, r

\* New rows go on behind the others, with ids that were never given.
LEMMA SheetPlus ==
  ASSUME SheetInv, ~Sheet!At("picker"), NEW ms \in Seq(SheetWords), NEW src \in SheetWords, ui' = Sheet!Plus(ui, ms, src)
  PROVE  SheetInv'
<1> DEFINE k == ui.nextId
           more == [b \in DOMAIN ms |-> Sheet!Row(k + b - 1, ms[b], src)]
<1>1. /\ SheetRecord(ui) /\ SheetMarkets(ui) /\ SheetColumns(ui) /\ SheetSaves(ui)
      /\ k \in Nat /\ SheetRows(ui.rows, k) /\ ui.sheet # "picker"
  BY DEF SheetInv, SheetOk, SheetFilters, Sheet!At
<1>2. Len(ms) \in Nat /\ DOMAIN ms = 1..Len(ms) /\ \A b \in DOMAIN ms : ms[b] \in SheetWords
  BY LenProperties
<1>3. ui' = [ui EXCEPT !.rows = @ \o more, !.nextId = @ + Len(ms)]
  BY DEF Sheet!Plus
<1>4. \A b \in DOMAIN ms : more[b] \in SheetRow /\ more[b].id = k + b - 1
  BY <1>1, <1>2 DEF Sheet!Row, SheetRow
<1>5. DOMAIN more = 1..Len(ms)
  BY <1>2
<1> HIDE DEF more
<1>6. more \in Seq(SheetRow) /\ Len(more) = Len(ms)
  <2>1. more \in [1..Len(ms) -> SheetRow]
    <3>1. more = [b \in 1..Len(ms) |-> more[b]]
      BY <1>2 DEF more
    <3>2. QED
      BY <1>2, <1>4, <1>5, <3>1
  <2>2. QED
    BY <1>2, <2>1
<1> DEFINE rs == ui.rows
           r == rs \o more
<1>7. rs \in Seq(SheetRow) /\ Len(rs) \in Nat /\ DOMAIN rs = 1..Len(rs)
  BY <1>1, LenProperties DEF SheetRows
<1>8. /\ r \in Seq(SheetRow) /\ Len(r) = Len(rs) + Len(ms)
      /\ \A p \in 1..(Len(rs) + Len(ms)) : r[p] = IF p <= Len(rs) THEN rs[p] ELSE more[p - Len(rs)]
  <2> HIDE DEF rs
  <2>1. /\ r \in Seq(SheetRow) /\ Len(r) = Len(rs) + Len(more)
        /\ \A p \in 1..(Len(rs) + Len(more)) : r[p] = IF p <= Len(rs) THEN rs[p] ELSE more[p - Len(rs)]
    BY <1>6, <1>7, ConcatProperties
  <2> HIDE DEF r
  <2>2. QED
    BY <1>6, <2>1
<1>9. DOMAIN r = 1..(Len(rs) + Len(ms))
  BY <1>8, LenProperties
<1> HIDE DEF r
<1>10. \A p \in DOMAIN r : \/ (p \in DOMAIN rs /\ r[p] = rs[p] /\ rs[p].id < k /\ rs[p].id \in Nat)
                        \/ (p > Len(rs) /\ r[p].id = k + (p - Len(rs)) - 1)
  <2> SUFFICES ASSUME NEW p \in DOMAIN r
               PROVE  \/ (p \in DOMAIN rs /\ r[p] = rs[p] /\ rs[p].id < k /\ rs[p].id \in Nat)
                      \/ (p > Len(rs) /\ r[p].id = k + (p - Len(rs)) - 1)
    OBVIOUS
  <2>1. p \in Nat
    BY <1>2, <1>7, <1>9
  <2>2. CASE p <= Len(rs)
    <3>1. p \in DOMAIN rs /\ r[p] = rs[p]
      BY <1>2, <1>7, <1>8, <1>9, <2>1, <2>2
    <3>2. rs[p] \in SheetRow /\ rs[p].id < k
      BY <1>1, <1>7, <3>1, LenProperties DEF SheetRows
    <3>3. rs[p].id \in Nat
      BY <3>2 DEF SheetRow
    <3>4. QED
      BY <3>1, <3>2, <3>3
  <2>3. CASE ~(p <= Len(rs))
    <3>1. p - Len(rs) \in DOMAIN ms /\ r[p] = more[p - Len(rs)]
      BY <1>2, <1>7, <1>8, <1>9, <2>1, <2>3
    <3>2. QED
      BY <1>4, <1>7, <2>1, <2>3, <3>1
  <2>4. QED
    BY <2>2, <2>3
<1>11. \A p \in DOMAIN r : r[p].id < k + Len(ms) /\ p \in Nat
  <2> DEFINE l == Len(rs)
  <2>1. k \in Nat /\ l \in Nat /\ Len(ms) \in Nat /\ DOMAIN r = 1..(l + Len(ms))
    BY <1>1, <1>2, <1>7, <1>9
  <2>2. \A p \in DOMAIN r : (r[p].id < k /\ r[p].id \in Nat) \/ (p > l /\ r[p].id = k + (p - l) - 1)
    BY <1>10
  <2> HIDE DEF l, k
  <2>3. QED
    BY <2>1, <2>2
<1>12. ASSUME NEW p \in DOMAIN r, NEW q \in DOMAIN r, r[p].id = r[q].id PROVE p = q
  <2>1. \A a, b \in DOMAIN rs : rs[a].id = rs[b].id => a = b
    BY <1>1 DEF SheetRows
  <2>2. p \in Nat /\ q \in Nat
    BY <1>11
  <2>3. CASE p \in DOMAIN rs /\ r[p] = rs[p] /\ rs[p].id < k /\ rs[p].id \in Nat
    <3>1. ~(q > Len(rs) /\ r[q].id = k + (q - Len(rs)) - 1)
      BY <1>1, <1>7, <1>12, <2>2, <2>3
    <3>2. QED
      BY <1>10, <1>12, <2>1, <2>3, <3>1
  <2>4. CASE p > Len(rs) /\ r[p].id = k + (p - Len(rs)) - 1
    <3>0. r[q].id = k + (p - Len(rs)) - 1
      BY <1>12, <2>4
    <3>1. ~(r[q] = rs[q] /\ rs[q].id < k)
      <4>1. \A a, l \in Nat : p > l => ~(a + (p - l) - 1 < a)
        BY <2>2
      <4>2. ~(k + (p - Len(rs)) - 1 < k)
        BY <1>1, <1>7, <2>4, <4>1
      <4>3. QED
        BY <3>0, <4>2
    <3>2. q > Len(rs) /\ r[q].id = k + (q - Len(rs)) - 1
      BY <1>10, <3>1
    <3>3. k + (p - Len(rs)) - 1 = k + (q - Len(rs)) - 1
      BY <3>0, <3>2
    <3>4. \A a, l \in Nat : a + (p - l) - 1 = a + (q - l) - 1 => p = q
      BY <2>2
    <3>5. QED
      BY <1>1, <1>7, <3>3, <3>4
  <2>5. QED
    BY <1>10, <2>3, <2>4
<1>13. SheetRows(r, k + Len(ms)) /\ k + Len(ms) \in Nat /\ k <= k + Len(ms)
  BY <1>1, <1>2, <1>8, <1>11, <1>12 DEF SheetRows
<1>14. /\ SheetRecord(ui') /\ ui'.rows = r /\ ui'.nextId = k + Len(ms) /\ ui'.saved = ui.saved /\ ui'.sheet # "picker"
       /\ ui'.sel = ui.sel /\ ui'.picks = ui.picks /\ ui'.order = ui.order /\ ui'.draft = ui.draft
  BY <1>1, <1>3 DEF SheetRecord, r
<1>15. SheetSaves(ui')
  <2>1. \A p \in DOMAIN ui.saved : SheetRows(ui.saved[p].rows, k + Len(ms))
    BY <1>1, <1>13, SheetRowsLater DEF SheetSaves
  <2>2. QED
    BY <1>1, <1>14, <2>1 DEF SheetSaves
<1>16. SheetFilters(ui')
  BY <1>13, <1>14 DEF SheetFilters
<1>17. SheetMarkets(ui') /\ SheetColumns(ui')
  BY <1>1, <1>14, SheetMarketsSame, SheetColumnsSame
<1>18. QED
  BY <1>14, <1>15, <1>16, <1>17 DEF SheetInv, SheetOk

LEMMA SheetInit == Sheet!Init => SheetInv
<1> SUFFICES ASSUME Sheet!Init PROVE SheetInv
  OBVIOUS
<1>1. /\ SheetRecord(ui) /\ ui.sheet = "none" /\ ui.sel = {Fallback} /\ ui.picks = {} /\ ui.rows = <<>> /\ ui.nextId = 1
      /\ ui.order = Columns /\ ui.draft = <<>> /\ ui.saved = <<>>
  BY DEF Sheet!Init, SheetRecord
<1>2. Columns \in Seq(STRING) /\ SheetApart(Columns) /\ Fallback \in Markets
  BY SheetAssumed DEF Sheet!SheetsAssumptions, SheetApart
<1>3. SheetMarkets(ui) /\ SheetFilters(ui)
  BY <1>1, <1>2 DEF SheetMarkets, SheetFilters, SheetRows
<1>4. SheetColumns(ui) /\ SheetSaves(ui)
  BY <1>1, <1>2 DEF SheetColumns, SheetSaves
<1>5. QED
  BY <1>1, <1>3, <1>4 DEF SheetInv, SheetOk

\* The picker of universes, and what opens and closes a sheet.
LEMMA SheetChoices ==
  ASSUME SheetInv,
         \/ Sheet!Close \/ Sheet!OpenUniverses \/ Sheet!ToggleAll \/ Sheet!ApplyMarkets \/ Sheet!OpenFilters \/ Sheet!ShowPresets
         \/ Sheet!OpenSaved \/ \E m \in Markets : Sheet!ToggleMarket(m)
  PROVE  SheetInv'
<1>0. SheetRecord(ui) /\ SheetMarkets(ui) /\ SheetFilters(ui) /\ SheetColumns(ui) /\ SheetSaves(ui)
  BY DEF SheetInv, SheetOk
<1>1. Fallback \in Markets
  BY SheetAssumed DEF Sheet!SheetsAssumptions
<1> DEFINE Rest == /\ SheetRecord(ui') /\ ui'.rows = ui.rows /\ ui'.nextId = ui.nextId /\ ui'.order = ui.order
                   /\ ui'.draft = ui.draft /\ ui'.saved = ui.saved /\ ui'.sheet # "picker"
<1>2. ASSUME Rest, SheetMarkets(ui') PROVE SheetInv'
  BY <1>0, <1>2, SheetFiltersSame, SheetColumnsSame, SheetSavesSame DEF SheetInv, SheetOk
<1> DEFINE Choice == ui'.sel = ui.sel /\ ui'.picks = ui.picks
<1>3. ASSUME Rest, Choice PROVE SheetInv'
  BY <1>0, <1>2, <1>3, SheetMarketsSame
<1>4. CASE Sheet!Close
  <2>1. PICK t : t # "picker" /\ ui' = [ui EXCEPT !.sheet = t]
    BY <1>4 DEF Sheet!Close, Sheet!Set, Sheet!At
  <2>2. QED
    BY <1>0, <1>3, <2>1 DEF SheetRecord
<1>5. CASE Sheet!OpenUniverses
  <2>1. ui' = [ui EXCEPT !.sheet = "universe", !.picks = ui.sel]
    BY <1>5 DEF Sheet!OpenUniverses, Sheet!Set
  <2>2. Rest /\ ui'.sel = ui.sel /\ ui'.picks = ui.sel
    BY <1>0, <2>1 DEF SheetRecord
  <2>3. QED
    BY <1>0, <1>2, <2>2 DEF SheetMarkets
<1>6. CASE Sheet!ToggleAll \/ \E m \in Markets : Sheet!ToggleMarket(m)
  <2>1. PICK P : P \in SUBSET Markets /\ ui' = [ui EXCEPT !.picks = P] /\ ui.sheet = "universe"
    <3>1. CASE Sheet!ToggleAll
      BY <1>1, <3>1 DEF Sheet!ToggleAll, Sheet!Set, Sheet!At
    <3>2. ASSUME NEW m \in Markets, Sheet!ToggleMarket(m) PROVE \E P : P \in SUBSET Markets /\ ui' = [ui EXCEPT !.picks = P] /\ ui.sheet = "universe"
      <4>1. ui' = [ui EXCEPT !.picks = IF m \in @ THEN @ \ {m} ELSE @ \cup {m}] /\ ui.sheet = "universe"
        BY <3>2 DEF Sheet!ToggleMarket, Sheet!Set, Sheet!At
      <4>2. ui.picks \in SUBSET Markets
        BY <1>0 DEF SheetMarkets
      <4>3. QED
        BY <4>1, <4>2
    <3>3. QED
      BY <1>6, <3>1, <3>2
  <2>2. Rest /\ ui'.sel = ui.sel /\ ui'.picks = P
    BY <1>0, <2>1 DEF SheetRecord
  <2>3. QED
    BY <1>0, <1>2, <2>1, <2>2 DEF SheetMarkets
<1>7. CASE Sheet!ApplyMarkets
  <2>1. ui' = Sheet!Closed([ui EXCEPT !.sel = ui.picks]) /\ ui.picks # {}
    BY <1>7 DEF Sheet!ApplyMarkets, Sheet!Applies, Sheet!Set
  <2>2. Rest /\ ui'.sel = ui.picks /\ ui'.picks = ui.picks
    BY <1>0, <2>1 DEF SheetRecord, Sheet!Closed
  <2>3. QED
    BY <1>0, <1>2, <2>1, <2>2 DEF SheetMarkets
<1>8. CASE Sheet!OpenFilters \/ Sheet!OpenSaved
  <2>1. PICK t : t # "picker" /\ ui' = [ui EXCEPT !.sheet = t]
    BY <1>8 DEF Sheet!OpenFilters, Sheet!OpenSaved, Sheet!Set
  <2>2. QED
    BY <1>0, <1>3, <2>1 DEF SheetRecord
<1>9. CASE Sheet!ShowPresets
  <2>1. ui' = [ui EXCEPT !.presets = ~@] /\ ui.sheet = "filters"
    BY <1>9 DEF Sheet!ShowPresets, Sheet!Set, Sheet!At
  <2>2. QED
    BY <1>0, <1>3, <2>1 DEF SheetRecord
<1>10. QED
  BY <1>4, <1>5, <1>6, <1>7, <1>8, <1>9

\* The rows of the filters.
LEMMA SheetRowsChange ==
  ASSUME SheetInv, ~Sheet!At("picker"), NEW rs, SheetRows(rs, ui.nextId), ui' = [ui EXCEPT !.rows = rs]
  PROVE  SheetInv'
<1>0. SheetRecord(ui) /\ SheetMarkets(ui) /\ SheetFilters(ui) /\ SheetColumns(ui) /\ SheetSaves(ui)
  BY DEF SheetInv, SheetOk
<1>1. /\ SheetRecord(ui') /\ ui'.rows = rs /\ ui'.nextId = ui.nextId /\ ui'.sheet # "picker" /\ ui'.sel = ui.sel /\ ui'.picks = ui.picks
      /\ ui'.order = ui.order /\ ui'.draft = ui.draft /\ ui'.saved = ui.saved
  BY <1>0 DEF SheetRecord, Sheet!At
<1>2. SheetFilters(ui')
  BY <1>0, <1>1 DEF SheetFilters
<1>3. QED
  BY <1>0, <1>1, <1>2, SheetMarketsSame, SheetColumnsSame, SheetSavesSame DEF SheetInv, SheetOk

LEMMA SheetOne == ASSUME NEW S, NEW e \in S PROVE <<e>> \in Seq(S)
OBVIOUS

LEMMA SheetEdits ==
  ASSUME SheetInv,
         \/ Sheet!AddRow \/ Sheet!ClearAll \/ (\E ms \in {<<>>} \cup {<<k>> : k \in Metrics} : Sheet!BuildFromText(ms))
         \/ (\E n \in DOMAIN ui.rows : Sheet!RemoveRow(ui.rows[n].id)) \/ \E p \in Presets : Sheet!TogglePreset(p)
  PROVE  SheetInv'
<1>0. SheetRows(ui.rows, ui.nextId) /\ ui.nextId \in Nat
  BY DEF SheetInv, SheetOk, SheetFilters
<1>1. CASE Sheet!AddRow
  <2>1. ui.sheet = "filters" /\ ui' = Sheet!Plus(ui, <<"price">>, "hand")
    BY <1>1 DEF Sheet!AddRow, Sheet!Set, Sheet!At
  <2>2. ~Sheet!At("picker")
    BY <2>1 DEF Sheet!At
  <2>3. \A k \in SheetWords : <<k>> \in Seq(SheetWords)
    BY SheetOne
  <2>4. "price" \in SheetWords /\ "hand" \in SheetWords
    BY DEF SheetWords
  <2>5. <<"price">> \in Seq(SheetWords)
    BY <2>3, <2>4
  <2>6. PICK ms \in Seq(SheetWords), src \in SheetWords : ui' = Sheet!Plus(ui, ms, src)
    BY <2>1, <2>4, <2>5
  <2>7. QED
    BY <2>2, <2>6, SheetPlus
<1>2. CASE Sheet!ClearAll
  <2>1. ~Sheet!At("picker") /\ ui' = [ui EXCEPT !.rows = <<>>]
    BY <1>2 DEF Sheet!ClearAll, Sheet!Set, Sheet!At
  <2>2. SheetRows(<<>>, ui.nextId)
    BY DEF SheetRows
  <2>3. QED
    BY <2>1, <2>2, SheetRowsChange
<1>3. ASSUME NEW ms \in {<<>>} \cup {<<k>> : k \in Metrics}, Sheet!BuildFromText(ms) PROVE SheetInv'
  <2>1. ms \in Seq(SheetWords)
    <3>1. CASE ms = <<>>
      BY <3>1
    <3>2. CASE ms # <<>>
      <4>1. PICK k \in Metrics : ms = <<k>>
        BY <3>2
      <4>2. k \in SheetWords
        BY SheetAssumed DEF Sheet!SheetsAssumptions, SheetWords
      <4>3. QED
        BY <4>1, <4>2, SheetOne
    <3>3. QED
      BY <3>1, <3>2
  <2>2. ui.sheet = "filters" /\ ui' = Sheet!Plus(ui, ms, "nl")
    BY <1>3 DEF Sheet!BuildFromText, Sheet!Set, Sheet!At
  <2>3. ~Sheet!At("picker")
    BY <2>2 DEF Sheet!At
  <2>4. "nl" \in SheetWords
    BY DEF SheetWords
  <2>5. PICK src \in SheetWords : ui' = Sheet!Plus(ui, ms, src)
    BY <2>2, <2>4
  <2>6. QED
    BY <2>1, <2>3, <2>5, SheetPlus
<1>4. ASSUME NEW id, Sheet!RemoveRow(id) PROVE SheetInv'
  <2> DEFINE I == {n \in DOMAIN ui.rows : ui.rows[n].id # id}
             rs == Sheet!Places(ui.rows, I)
  <2>1. ~Sheet!At("picker") /\ ui' = [ui EXCEPT !.rows = rs]
    BY <1>4 DEF Sheet!RemoveRow, Sheet!Set, Sheet!At
  <2> HIDE DEF I
  <2>2. SheetRows(rs, ui.nextId)
    BY <1>0, SheetRowsLeft
  <2> HIDE DEF rs
  <2>3. QED
    BY <2>1, <2>2, SheetRowsChange
<1>5. ASSUME NEW p \in Presets, Sheet!TogglePreset(p) PROVE SheetInv'
  <2> DEFINE I == {n \in DOMAIN ui.rows : ui.rows[n].src # p}
             rs == Sheet!Places(ui.rows, I)
  <2> DEFINE ms == PresetRows[p]
  <2>a. p \in SheetWords /\ ms \in Seq(STRING) /\ ~Sheet!At("picker")
    BY <1>5, SheetAssumed DEF Sheet!SheetsAssumptions, Sheet!TogglePreset, Sheet!At, SheetWords
  <2>0. ms \in Seq(SheetWords)
    <3> HIDE DEF ms
    <3>1. DOMAIN ms = 1..Len(ms) /\ Len(ms) \in Nat /\ ms = [b \in 1..Len(ms) |-> ms[b]] /\ \A b \in 1..Len(ms) : ms[b] \in STRING
      BY <2>a, LenProperties
    <3>2. ms \in [1..Len(ms) -> SheetWords]
      BY <3>1 DEF SheetWords
    <3>3. QED
      BY <3>1, <3>2
  <2>1. ui' = [ui EXCEPT !.rows = rs] \/ ui' = Sheet!Plus(ui, PresetRows[p], p)
    BY <1>5 DEF Sheet!TogglePreset, Sheet!Set, Sheet!Off
  <2> HIDE DEF I
  <2>2. SheetRows(rs, ui.nextId)
    BY <1>0, SheetRowsLeft
  <2> HIDE DEF rs
  <2>3. QED
    BY <2>a, <2>0, <2>1, <2>2, SheetPlus, SheetRowsChange
<1>6. QED
  BY <1>1, <1>2, <1>3, <1>4, <1>5

\* The picker of a row's metric: the row it was opened for is there until it is closed.
LEMMA SheetPicks ==
  ASSUME SheetInv, (\E n \in DOMAIN ui.rows : Sheet!OpenPicker(ui.rows[n].id)) \/ \E k \in Metrics : Sheet!PickMetric(k)
  PROVE  SheetInv'
<1>0. /\ SheetRecord(ui) /\ SheetMarkets(ui) /\ SheetFilters(ui) /\ SheetColumns(ui) /\ SheetSaves(ui)
      /\ SheetRows(ui.rows, ui.nextId) /\ ui.nextId \in Nat
  BY DEF SheetInv, SheetOk, SheetFilters
<1> DEFINE Rest == /\ SheetRecord(ui') /\ ui'.nextId = ui.nextId /\ ui'.order = ui.order /\ ui'.draft = ui.draft
                   /\ ui'.saved = ui.saved /\ ui'.sel = ui.sel /\ ui'.picks = ui.picks
<1>1. ASSUME Rest, SheetFilters(ui') PROVE SheetInv'
  BY <1>0, <1>1, SheetMarketsSame, SheetColumnsSame, SheetSavesSame DEF SheetInv, SheetOk
<1>2. ASSUME NEW n \in DOMAIN ui.rows, Sheet!OpenPicker(ui.rows[n].id) PROVE SheetInv'
  <2>1. ui' = [ui EXCEPT !.sheet = "picker", !.row = ui.rows[n].id]
    BY <1>2 DEF Sheet!OpenPicker, Sheet!Set
  <2>2. Rest /\ ui'.rows = ui.rows /\ ui'.row = ui.rows[n].id
    BY <1>0, <2>1 DEF SheetRecord
  <2>3. SheetFilters(ui')
    BY <1>0, <1>2, <2>2 DEF SheetFilters
  <2>4. QED
    BY <1>1, <2>2, <2>3
<1>3. ASSUME NEW k \in Metrics, Sheet!PickMetric(k) PROVE SheetInv'
  <2> DEFINE rs == [n \in DOMAIN ui.rows |-> IF ui.rows[n].id = ui.row THEN [ui.rows[n] EXCEPT !.metric = k] ELSE ui.rows[n]]
  <2>1. ui' = [ui EXCEPT !.sheet = "filters", !.rows = rs]
    BY <1>3 DEF Sheet!PickMetric, Sheet!Set
  <2>2. k \in SheetWords
    BY SheetAssumed DEF Sheet!SheetsAssumptions, SheetWords
  <2>3. DOMAIN ui.rows = 1..Len(ui.rows) /\ Len(ui.rows) \in Nat /\ \A n \in DOMAIN ui.rows : ui.rows[n] \in SheetRow
    BY <1>0, LenProperties DEF SheetRows
  <2>4. DOMAIN rs = DOMAIN ui.rows /\ \A n \in DOMAIN ui.rows : rs[n] \in SheetRow /\ rs[n].id = ui.rows[n].id
    BY <2>2, <2>3 DEF SheetRow
  <2>5. rs \in Seq(SheetRow)
    <3>1. rs = [n \in 1..Len(ui.rows) |-> rs[n]]
      BY <2>3
    <3> HIDE DEF rs
    <3>2. rs \in [1..Len(ui.rows) -> SheetRow]
      BY <2>3, <2>4, <3>1
    <3>3. QED
      BY <2>3, <3>2
  <2>6. Rest /\ ui'.rows = rs /\ ui'.sheet # "picker"
    BY <1>0, <2>1 DEF SheetRecord
  <2> HIDE DEF rs
  <2>7. SheetRows(rs, ui.nextId)
    BY <1>0, <2>4, <2>5 DEF SheetRows
  <2>8. SheetFilters(ui')
    BY <1>0, <2>6, <2>7 DEF SheetFilters
  <2>9. QED
    BY <1>1, <2>6, <2>8
<1>4. QED
  BY <1>2, <1>3

\* The draft of the columns.
LEMMA SheetDraft ==
  ASSUME SheetColumns(ui)
  PROVE  LET d == Sheet!DraftOf(ui) IN
         d \in Seq(SheetPart) /\ \A p, q \in DOMAIN d : d[p].key = d[q].key => p = q
<1> DEFINE c == Sheet!Complete(ui.order)
           keys == Sheet!Front(c, "sym")
           d == [n \in DOMAIN keys |-> [key |-> keys[n], on |-> keys[n] \notin ui.hidden]]
<1>1. Listing(keys, Sheet!Keys(Columns))
  <2> DEFINE K == Sheet!Keys(Columns)
  <2>1. Listing(c, K)
    BY SheetComplete DEF SheetColumns
  <2>2. "sym" \in K
    BY SheetAssumed DEF Sheet!SheetsAssumptions, Sheet!Pinned
  <2> HIDE DEF c, K
  <2>3. Listing(Sheet!Front(c, "sym"), K)
    BY <2>1, <2>2, SheetFront
  <2>4. QED
    BY <2>3 DEF K
<1>2. Sheet!DraftOf(ui) = d
  BY DEF Sheet!DraftOf
<1> HIDE DEF keys
<1>3. keys \in Seq(STRING) /\ SheetApart(keys)
  BY <1>1 DEF Listing
<1>4. DOMAIN keys = 1..Len(keys) /\ Len(keys) \in Nat /\ \A n \in DOMAIN keys : keys[n] \in STRING
  BY <1>3, LenProperties
<1>5. DOMAIN d = DOMAIN keys /\ \A n \in DOMAIN keys : d[n].key = keys[n] /\ d[n] \in SheetPart
  BY <1>4 DEF SheetPart
<1>6. d = [n \in 1..Len(keys) |-> d[n]]
  BY <1>4
<1> HIDE DEF d
<1>7. d \in [1..Len(keys) -> SheetPart]
  BY <1>4, <1>5, <1>6
<1>8. d \in Seq(SheetPart)
  BY <1>4, <1>7
<1>9. \A p, q \in DOMAIN d : d[p].key = d[q].key => p = q
  BY <1>3, <1>5 DEF SheetApart
<1>10. QED
  BY <1>2, <1>8, <1>9

LEMMA SheetCols ==
  ASSUME SheetInv,
         \/ Sheet!OpenColumns \/ Sheet!ApplyColumns \/ Sheet!ResetColumns \/ (\E k \in Sheet!Keys(Columns) : Sheet!ToggleColumn(k))
         \/ \E n, m \in DOMAIN ui.draft : Sheet!MoveColumn(n, m)
  PROVE  SheetInv'
<1>0. SheetRecord(ui) /\ SheetMarkets(ui) /\ SheetFilters(ui) /\ SheetColumns(ui) /\ SheetSaves(ui)
  BY DEF SheetInv, SheetOk
<1> DEFINE d == ui.draft
           Rest == /\ SheetRecord(ui') /\ ui'.rows = ui.rows /\ ui'.nextId = ui.nextId /\ ui'.saved = ui.saved
                   /\ ui'.sel = ui.sel /\ ui'.picks = ui.picks /\ ui'.sheet # "picker"
<1>1. ASSUME Rest, SheetColumns(ui') PROVE SheetInv'
  BY <1>0, <1>1, SheetMarketsSame, SheetFiltersSame, SheetSavesSame DEF SheetInv, SheetOk
<1>2. /\ d \in Seq(SheetPart) /\ (\A p, q \in DOMAIN d : d[p].key = d[q].key => p = q) /\ ui.order \in Seq(STRING) /\ SheetApart(ui.order)
      /\ DOMAIN d = 1..Len(d) /\ Len(d) \in Nat /\ \A p \in DOMAIN d : d[p] \in SheetPart
  BY <1>0, LenProperties DEF SheetColumns
<1>3. ASSUME NEW e, DOMAIN e = DOMAIN d, e = [n \in 1..Len(d) |-> e[n]], \A p \in DOMAIN d : e[p] \in SheetPart PROVE e \in Seq(SheetPart)
  <2> HIDE DEF d
  <2>1. e \in [1..Len(d) -> SheetPart]
    BY <1>2, <1>3
  <2>2. QED
    BY <1>2, <2>1
<1>4. CASE Sheet!OpenColumns
  <2>1. ui' = [ui EXCEPT !.sheet = "columns", !.draft = Sheet!DraftOf(ui)]
    BY <1>4 DEF Sheet!OpenColumns, Sheet!Set
  <2>2. Rest /\ ui'.order = ui.order /\ ui'.draft = Sheet!DraftOf(ui)
    BY <1>0, <2>1 DEF SheetRecord
  <2>3. SheetColumns(ui')
    BY <1>0, <2>2, SheetDraft DEF SheetColumns
  <2>4. QED
    BY <1>1, <2>2, <2>3
<1>5. ASSUME NEW k, Sheet!ToggleColumn(k) PROVE SheetInv'
  <2> DEFINE e == Sheet!Toggled(d, k)
  <2>1. ui' = [ui EXCEPT !.draft = e] /\ ui.sheet = "columns"
    BY <1>5 DEF Sheet!ToggleColumn, Sheet!Set, Sheet!At
  <2>2. DOMAIN e = DOMAIN d /\ e = [n \in 1..Len(d) |-> e[n]]
    BY <1>2 DEF Sheet!Toggled
  <2>3. \A p \in DOMAIN d : e[p] \in SheetPart /\ e[p].key = d[p].key
    BY <1>2 DEF Sheet!Toggled, SheetPart
  <2> HIDE DEF e
  <2>4. e \in Seq(SheetPart)
    BY <1>3, <2>2, <2>3
  <2>5. Rest /\ ui'.order = ui.order /\ ui'.draft = e
    BY <1>0, <2>1 DEF SheetRecord
  <2>6. SheetColumns(ui')
    <3>1. \A p, q \in DOMAIN e : e[p].key = e[q].key => p = q
      BY <1>2, <2>2, <2>3
    <3>2. QED
      BY <1>2, <2>4, <2>5, <3>1 DEF SheetColumns
  <2>7. QED
    BY <1>1, <2>5, <2>6
<1>6. ASSUME NEW n \in DOMAIN d, NEW m \in DOMAIN d, Sheet!MoveColumn(n, m) PROVE SheetInv'
  <2> DEFINE e == [d EXCEPT ![n] = d[m], ![m] = d[n]]
             to == [p \in DOMAIN d |-> IF p = m THEN n ELSE IF p = n THEN m ELSE p]
  <2>1. ui' = [ui EXCEPT !.draft = e] /\ ui.sheet = "columns"
    BY <1>6 DEF Sheet!MoveColumn, Sheet!Set, Sheet!At
  <2>2. DOMAIN e = DOMAIN d /\ e = [p \in 1..Len(d) |-> e[p]]
    BY <1>2
  <2>3. \A p \in DOMAIN d : e[p] = d[to[p]] /\ to[p] \in DOMAIN d
    BY <1>2, <1>6
  <2>4. \A p, q \in DOMAIN d : to[p] = to[q] => p = q
    BY <1>6
  <2> HIDE DEF e, to
  <2>5. e \in Seq(SheetPart)
    <3>1. \A p \in DOMAIN d : e[p] \in SheetPart
      <4> HIDE DEF d
      <4>1. QED
        BY <1>2, <2>3
    <3>2. QED
      BY <1>3, <2>2, <3>1
  <2>6. \A p, q \in DOMAIN e : e[p].key = e[q].key => p = q
    <3> HIDE DEF d
    <3>1. QED
      BY <1>2, <2>2, <2>3, <2>4
  <2>7. Rest /\ ui'.order = ui.order /\ ui'.draft = e
    BY <1>0, <2>1 DEF SheetRecord
  <2>8. SheetColumns(ui')
    BY <1>2, <2>5, <2>6, <2>7 DEF SheetColumns
  <2>9. QED
    BY <1>1, <2>7, <2>8
<1>7. CASE Sheet!ApplyColumns
  <2> DEFINE o == [n \in DOMAIN d |-> d[n].key]
             h == {d[n].key : n \in {m \in DOMAIN d : ~d[m].on}}
  <2>1. ui' = Sheet!Closed([ui EXCEPT !.order = o, !.hidden = h])
    BY <1>7 DEF Sheet!ApplyColumns, Sheet!Set
  <2>2. Rest /\ ui'.order = o /\ ui'.draft = d
    <3> HIDE DEF o, h
    <3>1. QED
      BY <1>0, <2>1 DEF SheetRecord, Sheet!Closed
  <2>3. o \in [1..Len(d) -> STRING]
    <3>1. \A p \in DOMAIN d : d[p].key \in STRING
      BY <1>2 DEF SheetPart
    <3>2. QED
      BY <1>2, <3>1
  <2>4. o \in Seq(STRING)
    BY <1>2, <2>3
  <2>5. SheetApart(o)
    BY <1>2 DEF SheetApart
  <2> HIDE DEF o
  <2>6. SheetColumns(ui')
    BY <1>2, <2>2, <2>4, <2>5 DEF SheetColumns
  <2>7. QED
    BY <1>1, <2>2, <2>6
<1>8. CASE Sheet!ResetColumns
  <2>1. ui' = Sheet!Closed([ui EXCEPT !.order = Columns, !.hidden = {}])
    BY <1>8 DEF Sheet!ResetColumns, Sheet!Set
  <2>2. Rest /\ ui'.order = Columns /\ ui'.draft = d
    BY <1>0, <2>1 DEF SheetRecord, Sheet!Closed
  <2>3. Columns \in Seq(STRING) /\ SheetApart(Columns)
    BY SheetAssumed DEF Sheet!SheetsAssumptions, SheetApart
  <2>4. SheetColumns(ui')
    BY <1>2, <2>2, <2>3 DEF SheetColumns
  <2>5. QED
    BY <1>1, <2>2, <2>4
<1>9. QED
  BY <1>4, <1>5, <1>6, <1>7, <1>8

\* The saved screens.
LEMMA SheetTitled ==
  ASSUME SheetSaves(ui), NEW n
  PROVE  LET t == Sheet!Untitled(ui.saved, n) IN
         /\ t \in Seq(SheetSaved)
         /\ \A p \in DOMAIN t : t[p].sel # {} /\ SheetRows(t[p].rows, ui.nextId) /\ t[p].name # n
         /\ \A p, q \in DOMAIN t : t[p].name = t[q].name => p = q
<1> DEFINE s == ui.saved
           I == {m \in DOMAIN s : s[m].name # n}
           t == Sheet!Places(s, I)
<1>0. Sheet!Untitled(ui.saved, n) = t /\ I = {m \in DOMAIN s : s[m].name # n}
  BY DEF Sheet!Untitled
<1>1. /\ s \in Seq(SheetSaved) /\ (\A p \in DOMAIN s : s[p].sel # {} /\ SheetRows(s[p].rows, ui.nextId))
      /\ \A p, q \in DOMAIN s : s[p].name = s[q].name => p = q
  BY DEF SheetSaves
<1>2. SheetApart(s)
  BY <1>1 DEF SheetApart
<1> HIDE DEF I
<1>3. /\ t \in Seq(SheetSaved) /\ SheetApart(t)
      /\ \A p \in DOMAIN t : \E q \in DOMAIN s : q \in I /\ t[p] = s[q]
  BY <1>1, <1>2, SheetLeft
<1> HIDE DEF t, s
<1>4. \A p \in DOMAIN t : t[p].sel # {} /\ SheetRows(t[p].rows, ui.nextId) /\ t[p].name # n
  BY <1>0, <1>1, <1>3
<1>5. ASSUME NEW p \in DOMAIN t, NEW q \in DOMAIN t, t[p].name = t[q].name PROVE p = q
  <2>1. PICK a \in DOMAIN s : t[p] = s[a]
    BY <1>3
  <2>2. PICK b \in DOMAIN s : t[q] = s[b]
    BY <1>3
  <2>3. a = b
    BY <1>1, <1>5, <2>1, <2>2
  <2>4. QED
    BY <1>3, <2>1, <2>2, <2>3 DEF SheetApart
<1>6. QED
  BY <1>0, <1>3, <1>4, <1>5

LEMMA SheetShelf ==
  ASSUME SheetInv, (\E n \in Titles : Sheet!SaveScreen(n) \/ Sheet!DeleteScreen(n)) \/ \E m \in DOMAIN ui.saved : Sheet!ApplySaved(m)
  PROVE  SheetInv'
<1>0. /\ SheetRecord(ui) /\ SheetMarkets(ui) /\ SheetFilters(ui) /\ SheetColumns(ui) /\ SheetSaves(ui)
      /\ SheetRows(ui.rows, ui.nextId) /\ ui.nextId \in Nat
  BY DEF SheetInv, SheetOk, SheetFilters
<1>1. ASSUME NEW s, ui' = [ui EXCEPT !.saved = s], ui.sheet = "saved",
             s \in Seq(SheetSaved), \A p \in DOMAIN s : s[p].sel # {} /\ SheetRows(s[p].rows, ui.nextId),
             \A p, q \in DOMAIN s : s[p].name = s[q].name => p = q
      PROVE  SheetInv'
  <2>1. /\ SheetRecord(ui') /\ ui'.rows = ui.rows /\ ui'.nextId = ui.nextId /\ ui'.sheet # "picker" /\ ui'.sel = ui.sel /\ ui'.picks = ui.picks
        /\ ui'.order = ui.order /\ ui'.draft = ui.draft /\ ui'.saved = s
    BY <1>0, <1>1 DEF SheetRecord
  <2>2. SheetSaves(ui')
    BY <1>1, <2>1 DEF SheetSaves
  <2>3. QED
    BY <1>0, <2>1, <2>2, SheetMarketsSame, SheetFiltersSame, SheetColumnsSame DEF SheetInv, SheetOk
<1>2. ASSUME NEW n \in Titles, Sheet!SaveScreen(n) PROVE SheetInv'
  <2> DEFINE t == Sheet!Untitled(ui.saved, n)
             e == Sheet!Screen(n)
             next == <<e>> \o t
             k == IF Len(next) < Cap THEN Len(next) ELSE Cap
             s == SubSeq(next, 1, k)
  <2>1. ui' = [ui EXCEPT !.saved = s] /\ ui.sheet = "saved"
    BY <1>2 DEF Sheet!SaveScreen, Sheet!Set, Sheet!At
  <2>2. /\ t \in Seq(SheetSaved)
        /\ \A p \in DOMAIN t : t[p].sel # {} /\ SheetRows(t[p].rows, ui.nextId) /\ t[p].name # n
        /\ \A p, q \in DOMAIN t : t[p].name = t[q].name => p = q
    BY <1>0, SheetTitled
  <2>3. e \in SheetSaved /\ e.name = n /\ e.sel # {} /\ SheetRows(e.rows, ui.nextId)
    BY <1>0 DEF Sheet!Screen, SheetSaved, SheetMarkets, SheetRows
  <2> HIDE DEF t, e
  <2>4. /\ next \in Seq(SheetSaved) /\ Len(next) = Len(t) + 1 /\ next[1] = e /\ DOMAIN next = 1..(Len(t) + 1)
        /\ \A p \in DOMAIN next : p = 1 \/ (p - 1 \in DOMAIN t /\ next[p] = t[p - 1])
    BY <2>2, <2>3, SheetPut
  <2>5. Len(t) \in Nat /\ DOMAIN t = 1..Len(t) /\ Cap \in Nat
    BY <2>2, LenProperties, SheetAssumed DEF Sheet!SheetsAssumptions
  <2> HIDE DEF next
  <2>6. k \in 0..Len(next) /\ k \in Nat
    BY <2>4, <2>5
  <2> HIDE DEF k
  <2>7. s \in Seq(SheetSaved) /\ Len(s) = k /\ DOMAIN s = 1..k /\ \A p \in 1..k : s[p] = next[p] /\ p \in DOMAIN next
    BY <2>4, <2>5, <2>6, SubSeqProperties
  <2> HIDE DEF s
  <2>8. \A p \in DOMAIN next : next[p].sel # {} /\ SheetRows(next[p].rows, ui.nextId)
    <3> SUFFICES ASSUME NEW p \in DOMAIN next PROVE next[p].sel # {} /\ SheetRows(next[p].rows, ui.nextId)
      OBVIOUS
    <3>1. CASE p = 1
      BY <2>3, <2>4, <3>1
    <3>2. CASE p # 1
      <4>1. p - 1 \in DOMAIN t /\ next[p] = t[p - 1]
        BY <2>4, <3>2
      <4>2. QED
        BY <2>2, <4>1
    <3>3. QED
      BY <3>1, <3>2
  <2>9. ASSUME NEW p \in DOMAIN next, NEW q \in DOMAIN next, next[p].name = next[q].name PROVE p = q
    <3>1. p \in Nat /\ q \in Nat
      BY <2>4, <2>5
    <3>2. CASE p = 1
      BY <2>2, <2>3, <2>4, <2>9, <3>2
    <3>3. CASE q = 1
      BY <2>2, <2>3, <2>4, <2>9, <3>3
    <3>4. CASE p # 1 /\ q # 1
      <4>1. p - 1 = q - 1
        BY <2>2, <2>4, <2>9, <3>4
      <4>2. QED
        BY <3>1, <4>1
    <3>5. QED
      BY <3>2, <3>3, <3>4
  <2>10. (\A p \in DOMAIN s : s[p].sel # {} /\ SheetRows(s[p].rows, ui.nextId)) /\ \A p, q \in DOMAIN s : s[p].name = s[q].name => p = q
    BY <2>7, <2>8, <2>9
  <2>11. QED
    BY <1>1, <2>1, <2>7, <2>10
<1>3. ASSUME NEW n \in Titles, Sheet!DeleteScreen(n) PROVE SheetInv'
  <2> DEFINE t == Sheet!Untitled(ui.saved, n)
  <2>1. ui' = [ui EXCEPT !.saved = t] /\ ui.sheet = "saved"
    BY <1>3 DEF Sheet!DeleteScreen, Sheet!Set, Sheet!At
  <2>2. /\ t \in Seq(SheetSaved)
        /\ \A p \in DOMAIN t : t[p].sel # {} /\ SheetRows(t[p].rows, ui.nextId)
        /\ \A p, q \in DOMAIN t : t[p].name = t[q].name => p = q
    BY <1>0, SheetTitled
  <2> HIDE DEF t
  <2>3. QED
    BY <1>1, <2>1, <2>2
<1>4. ASSUME NEW m \in DOMAIN ui.saved, Sheet!ApplySaved(m) PROVE SheetInv'
  <2> DEFINE e == ui.saved[m]
  <2>1. ui' = Sheet!Closed([ui EXCEPT !.sel = e.sel, !.rows = e.rows])
    BY <1>4 DEF Sheet!ApplySaved, Sheet!Set
  <2>2. e \in SheetSaved /\ e.sel # {} /\ SheetRows(e.rows, ui.nextId)
    BY <1>0, <1>4, LenProperties DEF SheetSaves
  <2>3. e.sel \in SUBSET Markets
    BY <2>2 DEF SheetSaved
  <2> HIDE DEF e
  <2>4. /\ SheetRecord(ui') /\ ui'.rows = e.rows /\ ui'.nextId = ui.nextId /\ ui'.sheet = "none" /\ ui'.sel = e.sel /\ ui'.picks = ui.picks
        /\ ui'.order = ui.order /\ ui'.draft = ui.draft /\ ui'.saved = ui.saved
    BY <1>0, <2>1 DEF SheetRecord, Sheet!Closed
  <2>5. SheetMarkets(ui') /\ SheetFilters(ui')
    BY <1>0, <2>2, <2>3, <2>4 DEF SheetMarkets, SheetFilters
  <2>6. QED
    BY <1>0, <2>4, <2>5, SheetColumnsSame, SheetSavesSame DEF SheetInv, SheetOk
<1>5. QED
  BY <1>2, <1>3, <1>4

LEMMA SheetStep == ASSUME SheetInv, Sheet!Next PROVE SheetInv'
BY SheetChoices, SheetEdits, SheetPicks, SheetCols, SheetShelf DEF Sheet!Next

-------------------------------------------------------------------------------
\* The screens together: the one that is open keeps its invariant.
Inv ==
  /\ In("table", TableInv) /\ In("panel", PanelInv) /\ In("stock", StockInv) /\ In("desk", DeskInv /\ DeskLegs)
  /\ In("cache", CacheInv /\ steps \in Nat) /\ In("view", ViewInv) /\ In("list", ListInv)
  /\ In("backtest", TestInv /\ TestKept) /\ In("dossier", DossInv) /\ In("sheet", SheetInv)

LEMMA InvInit == Init => Inv
<1>1. Cache!Init => steps \in Nat
  BY DEF Cache!Init
<1>2. QED
  BY <1>1, TableInit, PanelInit, StockInit, DeskInit, DeskLegsInit, CacheInit, ViewInit, ListInit, TestInit, TestKeptInit,
     DossInit, SheetInit DEF Init, Inv, In

LEMMA InvSame == ASSUME Inv, UNCHANGED screensVars PROVE Inv'
<1>1. ui' = ui /\ calls' = calls /\ steps' = steps /\ focus' = focus
  BY DEF screensVars, client
<1>2. TableInv' <=> TableInv
  BY <1>1 DEF TableInv, TablePage
<1>3. PanelInv' <=> PanelInv
  BY <1>1 DEF PanelInv, PanelTypes, PanelNewest, PanelMemo, PanelAsked, Panel!ShownIsAsked, Panel!P
<1>4. StockInv' <=> StockInv
  BY <1>1 DEF StockInv, StockTypes, StockNewest, StockOwn, StockPatterns, StockSpine
<1>5. DeskInv' <=> DeskInv
  BY <1>1 DEF DeskInv, DeskFields, Desk!ShownIsAsked, Desk!LoadingIsAsked
<1>6. CacheInv' <=> CacheInv
  BY <1>1 DEF CacheInv, CacheTypes, CacheOrder, CacheReads, CacheGets, CacheAlone, CacheWaits
<1>7. ViewInv' <=> ViewInv
  BY <1>1 DEF ViewInv
<1>8. ListInv' <=> ListInv
  BY <1>1 DEF ListInv, ListTypes, ListStore, ListMount, ListShown, ListOnce
<1>9. TestInv' <=> TestInv
  BY <1>1 DEF TestInv, TestShown, TestAlone, TestAsked
<1>10. DossInv' <=> DossInv
  BY <1>1 DEF DossInv, DossTypes, DossGot, DossBusy, DossReading
<1>11. SheetInv' <=> SheetInv
  BY <1>1 DEF SheetInv
<1>12. (TestKept' <=> TestKept) /\ (DeskLegs' <=> DeskLegs)
  BY <1>1 DEF TestKept, DeskLegs
<1>13. QED
  BY <1>1, <1>2, <1>3, <1>4, <1>5, <1>6, <1>7, <1>8, <1>9, <1>10, <1>11, <1>12 DEF Inv, In

LEMMA InvStep == ASSUME Inv, [Next]_screensVars PROVE Inv' /\ [In("cache", Cache!Forward)]_screensVars
<1>1. CASE UNCHANGED screensVars
  BY <1>1, InvSame
<1>2. CASE Next
  <2>1. focus' = focus
    BY <1>2 DEF Next
  <2>2. CASE focus = "table"
    BY <1>2, <2>1, <2>2, TableStep DEF Inv, In, Next
  <2>3. CASE focus = "sheet"
    BY <1>2, <2>1, <2>3, SheetStep DEF Inv, In, Next
  <2>4. CASE focus = "panel"
    BY <1>2, <2>1, <2>4, PanelStep DEF Inv, In, Next
  <2>5. CASE focus = "stock"
    BY <1>2, <2>1, <2>5, StockStep DEF Inv, In, Next
  <2>6. CASE focus = "desk"
    BY <1>2, <2>1, <2>6, DeskStep, DeskLegsStep DEF DeskInv, Inv, In, Next
  <2>7. CASE focus = "cache"
    BY <1>2, <2>1, <2>7, CacheStep DEF Inv, In, Next
  <2>8. CASE focus = "view"
    BY <1>2, <2>1, <2>8, ViewStep DEF Inv, In, Next
  <2>9. CASE focus = "list"
    BY <1>2, <2>1, <2>9, ListStep DEF Inv, In, Next
  <2>10. CASE focus = "backtest"
    BY <1>2, <2>1, <2>10, TestStep, TestKeptStep DEF Inv, In, Next
  <2>11. CASE focus = "dossier"
    BY <1>2, <2>1, <2>11, DossStep DEF Inv, In, Next
  <2>12. QED
    BY <1>2, <2>2, <2>3, <2>4, <2>5, <2>6, <2>7, <2>8, <2>9, <2>10, <2>11 DEF Next
<1>3. QED
  BY <1>1, <1>2

\* Each screen's invariant holds whenever it is the one that is open.
THEOREM ScreensInvariant == Spec => []Inv
<1>1. Init => Inv
  BY InvInit
<1>2. Inv /\ [Next]_screensVars => Inv'
  BY InvStep
<1>3. QED
  BY <1>1, <1>2, PTL DEF Spec

\* What is on show was asked for, whatever answers are late, lost or out of order: no table, panel,
\* stock, chain, level, list, job or dossier is another's, but where an unguarded answer came
\* after a newer question, which `overtaken` records (ScreenerScreen.tsx:605-668, StockScreen.tsx,
\* ChecklistPanel.tsx and the others).
THEOREM ScreensShowWhatWasAsked == Spec => []ShownIsAsked
<1>1. Inv => ShownIsAsked
  BY TableHolds, PanelHolds, StockHolds, ViewHolds, ListHolds, TestHolds, DossHolds DEF DeskInv, Inv, In, ShownIsAsked
<1>2. QED
  BY <1>1, ScreensInvariant, PTL

\* What says it loads is being asked for: no spinner is left behind by a request nobody waits for
\* (ScreenerScreen.tsx:692-744, StockScreen.tsx:186, MomentumScreen.tsx:563-615).
THEOREM ScreensLoadWhatIsAsked == Spec => []LoadingIsAsked
<1>1. Inv => LoadingIsAsked
  BY TableHolds, PanelHolds, StockHolds, CacheHolds, ViewHolds, ListHolds, TestHolds, DossHolds DEF DeskInv, Inv, In, LoadingIsAsked
<1>2. QED
  BY <1>1, ScreensInvariant, PTL

\* A symbol is in one scan of a load, none is left out of a table that is done, the page in range
\* has rows, and what a scan of a list has read is in the record the next one keeps
\* (ScreenerScreen.tsx:572, 804-876, RecommendationsScreen.tsx:434-553).
THEOREM ScreensAskExactlyOnce == Spec => []EachExactlyOnce
<1>1. Inv => EachExactlyOnce
  BY TableHolds, ListHolds DEF Inv, In, EachExactlyOnce
<1>2. QED
  BY <1>1, ScreensInvariant, PTL

\* What a sheet leaves is a screen that can be run: markets, columns and rows that are chosen, a
\* name for one saved screen; until a leg is taken away the legs of a strategy are apart; a saved
\* backtest that was loaded is the one that will run, what was saved is on the device as it is on
\* the screen, and the server simulates no more than it allows (ScreenerScreen.tsx:1068-1440,
\* DerivativesScreen.tsx:63-71, BacktestScreen.tsx:286-391, backtest_engine.py:923-944).
THEOREM SheetsLeaveScreens == Spec => []SheetsLeaveAScreen
<1>1. Inv => SheetsLeaveAScreen
  BY SheetHolds, DeskLegsHold, TestKeptHolds DEF Inv, In, SheetsLeaveAScreen
<1>2. QED
  BY <1>1, ScreensInvariant, PTL

\* Within a session the copy in memory is only ever replaced by one no older, however answers, reads
\* of the disk and forced reads overlap (swr.ts:82-93, 128-146).
THEOREM ScreensCacheForward == Spec => Forward
<1>1. Inv /\ [Next]_screensVars => [In("cache", Cache!Forward)]_screensVars
  BY InvStep
<1>2. QED
  BY <1>1, ScreensInvariant, PTL DEF Spec, Forward

-------------------------------------------------------------------------------
(* The synchronised documents.  What a stamp says of a copy rests on what  *)
(* no step states: a device that has not been muddled has one call under   *)
(* way, which carries its copy unless its timer is set to send another,    *)
(* and no stamp runs ahead of the server's.                                *)
USE SyncAssumptions DEF NoDoc

\* The values that exist: what devices, calls and the server hold was edited.
Edited ==
  /\ {NoDoc, server.v} \subseteq stored /\ \A v \in stored : v <= edits
  /\ \A d \in Devices : doc[d] <= edits /\ \A s \in Slots : call[d][s].v <= edits /\ call[d][s].rv <= edits

\* What is sent and put is a document, and so is what a pull may seed with.
Documents ==
  \A d \in Devices, s \in Slots : call[d][s].at \in {"sent", "put", "stored"} => call[d][s].v # NoDoc

Known == TypeOK /\ Edited /\ Documents

\* What holds of a device and its call as long as nothing is lost and nothing muddled: the
\* call carries the device's copy or the timer is set; a stamp is at most the server's; a
\* device that has sent or taken nothing since its last stamp has that stamp's copy.
CallTidy(d, c) ==
  /\ c.client /\ signed[d] /\ c.rts <= server.ts
  /\ timer[d] \/ (doc[d] = c.v /\ c.at # "taken")
  /\ c.at \in {"asked", "answered"} => c.kind = "pull" /\ c.ts = stamp[d]
  /\ c.kind = "pull" => stamp[d] <= c.ts
  /\ c.at = "refused" => c.ts < c.rts /\ c.rv # NoDoc
  /\ c.at = "stored" => c.ts <= server.ts /\ (c.ts = server.ts => c.v = server.v)
Alone(d, s) == \A u \in Slots : u # s => Free(d, u)
Waits(d) == ~timer[d] /\ \A s \in Slots : call[d][s].at \in {"none", "asked", "answered"}
Tidy(d) ==
  /\ stamp[d] <= server.ts /\ (timer[d] => doc[d] # NoDoc /\ signed[d])
  /\ Waits(d) /\ doc[d] \in stored /\ stamp[d] = server.ts => doc[d] = server.v
  /\ \A s \in Slots : ~Free(d, s) => CallTidy(d, call[d][s]) /\ Alone(d, s)
Clear == faults = 0 /\ ~muddled
IInv == Known /\ (Clear => \A d \in Devices : Tidy(d))

-------------------------------------------------------------------------------
(* One call moves, the others stay.                                        *)

LEMMA OneCallMoves ==
  ASSUME TypeOK, NEW d \in Devices, NEW s \in Slots, NEW rec \in Calls, Goto(d, s, rec)
  PROVE  /\ call' \in [Devices -> [Slots -> Calls]] /\ call'[d][s] = rec
         /\ \A e \in Devices, u \in Slots : e # d \/ u # s => call'[e][u] = call[e][u]
<1>1. call \in [Devices -> [Slots -> Calls]] /\ call' = [call EXCEPT ![d] = [call[d] EXCEPT ![s] = rec]]
  BY DEF TypeOK, Goto
<1>2. [call[d] EXCEPT ![s] = rec] \in [Slots -> Calls]
  BY <1>1
<1>3. QED
  BY <1>1, <1>2

LEMMA Blank == Nothing \in Calls
BY DEF Nothing, Calls, Stamps

-------------------------------------------------------------------------------
LEMMA InitTyped == SyncInit => TypeOK
<1> SUFFICES ASSUME SyncInit PROVE TypeOK
  OBVIOUS
<1>1. 0 \in 0..MaxEdits /\ 0 \in 0..MaxPulls /\ 0 \in 0..MaxFaults /\ 0 \in Stamps /\ 1 \in Stamps
  BY DEF Stamps
<1>2. QED
  BY <1>1, Blank DEF SyncInit, TypeOK

\* A call that goes on is a call.
LEMMA StepTyped ==
  ASSUME TypeOK, NEW d \in Devices, NEW s \in Slots, Step(d, s)
  PROVE  TypeOK'
<1> DEFINE c == call[d][s]
<1>0. c \in Calls /\ now \in Stamps /\ MaxNow \in Nat /\ server \in [v : 0..MaxEdits, ts : Stamps]
  BY DEF TypeOK
<1>1. c.v \in 0..MaxEdits /\ c.rv \in 0..MaxEdits /\ c.ts \in Stamps /\ c.rts \in Stamps
  BY <1>0 DEF Calls
<1>2. ASSUME NEW rec \in Calls, Goto(d, s, rec), now' \in Stamps, server' \in [v : 0..MaxEdits, ts : Stamps],
             doc' \in [Devices -> 0..MaxEdits], stamp' \in [Devices -> Stamps],
             signed' = signed, timer' \in [Devices -> BOOLEAN],
             UNCHANGED <<edits, pulls, faults>>, owed' \subseteq Devices, stored' \subseteq 0..MaxEdits, muddled' \in BOOLEAN
      PROVE  TypeOK'
  BY <1>2, OneCallMoves DEF TypeOK
<1>3. ASSUME NEW place \in {"sent", "put", "stored", "refused", "asked", "answered", "taken"}
      PROVE  [c EXCEPT !.at = place] \in Calls
  BY <1>0 DEF Calls
<1>4. ASSUME NEW t \in Stamps, Second(t) PROVE now' \in Stamps
  BY <1>4 DEF Second
<1>5. [timer EXCEPT ![d] = Scheduled(d)] \in [Devices -> BOOLEAN]
  BY DEF TypeOK, Scheduled
<1> HIDE DEF c
<1>6. CASE PushFire(d, s)
  <2>1. timer' \in [Devices -> BOOLEAN] /\ muddled' \in BOOLEAN
    BY <1>6 DEF PushFire, Overlap, TypeOK
  <2>2. CASE ~Sendable(d)
    BY <1>6, <2>1, <2>2 DEF PushFire, TypeOK
  <2>3. CASE Sendable(d)
    <3>1. PICK t \in Stamps :
            Second(t) /\ Goto(d, s, [Nothing EXCEPT !.kind = "push", !.at = "sent", !.v = doc[d], !.ts = t, !.client = TRUE])
      BY <1>6, <2>3 DEF PushFire
    <3>2. [Nothing EXCEPT !.kind = "push", !.at = "sent", !.v = doc[d], !.ts = t, !.client = TRUE] \in Calls
      <4>1. doc[d] \in 0..MaxEdits /\ 0 \in 0..MaxEdits /\ 0 \in Stamps
        BY DEF TypeOK, Stamps
      <4>2. QED
        BY <4>1 DEF Nothing, Calls
    <3>3. QED
      BY <1>2, <1>4, <1>6, <2>1, <3>1, <3>2 DEF PushFire, TypeOK
  <2>4. QED
    BY <2>2, <2>3
<1>7. CASE DataCompare(d, s)
  <2>1. [c EXCEPT !.at = "refused", !.rv = server.v, !.rts = server.ts] \in Calls
    BY <1>0 DEF Calls
  <2>2. PICK rec \in Calls : Goto(d, s, rec)
    BY <1>3, <1>7, <2>1 DEF DataCompare, c
  <2>3. QED
    BY <1>2, <1>7, <2>2 DEF DataCompare, local, TypeOK
<1>8. CASE DataPut(d, s)
  <2>1. Goto(d, s, [c EXCEPT !.at = "stored"]) /\ server' \in [v : 0..MaxEdits, ts : Stamps] /\ stored' \subseteq 0..MaxEdits
    BY <1>1, <1>8 DEF DataPut, c, TypeOK
  <2>2. muddled' \in BOOLEAN /\ owed' \subseteq Devices
    BY <1>8 DEF DataPut, TypeOK
  <2>3. QED
    BY <1>2, <1>3, <1>8, <2>1, <2>2 DEF DataPut, local, TypeOK
<1>9. CASE DataGet(d, s)
  <2>1. [c EXCEPT !.at = "answered", !.rv = server.v, !.rts = server.ts] \in Calls
    BY <1>0 DEF Calls
  <2>2. QED
    BY <1>2, <1>9, <2>1 DEF DataGet, local, TypeOK, c
<1>10. CASE Accepted(d, s) \/ Taken(d, s)
  <2>1. Goto(d, s, Nothing) /\ stamp' \in [Devices -> Stamps]
    BY <1>1, <1>10 DEF Accepted, Taken, Stamp, TypeOK, c
  <2>2. QED
    BY <1>2, <1>10, <2>1, Blank DEF Accepted, Taken, TypeOK
<1>11. CASE Refused(d, s) \/ PullTakes(d, s)
  <2>1. doc' \in [Devices -> 0..MaxEdits] /\ timer' \in [Devices -> BOOLEAN] /\ owed' \subseteq Devices
    BY <1>1, <1>5, <1>11 DEF Refused, PullTakes, TakenCopy, Settled, TypeOK, c
  <2>2. PICK rec \in Calls : Goto(d, s, rec)
    BY <1>3, <1>11, Blank DEF Refused, PullTakes, c
  <2>3. QED
    BY <1>2, <1>11, <2>1, <2>2 DEF Refused, PullTakes, TypeOK
<1>12. CASE PullSeeds(d, s)
  <2>1. ASSUME NEW t \in Stamps PROVE [c EXCEPT !.at = "sent", !.ts = t] \in Calls
    BY <1>0 DEF Calls
  <2>2. (\E rec \in Calls : Goto(d, s, rec)) /\ now' \in Stamps
    BY <1>0, <1>3, <1>4, <1>12, <2>1, Blank DEF PullSeeds, c
  <2>3. QED
    BY <1>2, <1>12, <2>2 DEF PullSeeds, local, TypeOK
<1>13. CASE Abandoned(d, s)
  BY <1>2, <1>13, Blank DEF Abandoned, local, TypeOK
<1>14. QED
  BY <1>6, <1>7, <1>8, <1>9, <1>10, <1>11, <1>12, <1>13 DEF Step

\* What a user does, or a fault.
Outside(d) ==
  \/ Edit(d) \/ SignOut(d) \/ DeleteAccount(d) \/ Restart(d)
  \/ \E s \in Slots : SyncNow(d, s) \/ OnSignedIn(d, s) \/ Lose(d, s) \/ PushUnsigned(d, s)

LEMMA PullTyped ==
  ASSUME TypeOK, NEW d \in Devices
  PROVE  PullRecord(d) \in Calls /\ PullRecord(d).v = doc[d] /\ PullRecord(d).rv = NoDoc /\ PullRecord(d).at = "asked"
<1>1. doc[d] \in 0..MaxEdits /\ stamp[d] \in Stamps /\ 0 \in 0..MaxEdits /\ 0 \in Stamps
  BY DEF TypeOK, Stamps
<1>2. QED
  BY <1>1 DEF PullRecord, Nothing, Calls

LEMMA OutsideTyped ==
  ASSUME TypeOK, NEW d \in Devices, Outside(d)
  PROVE  TypeOK'
<1>0. /\ edits \in 0..MaxEdits /\ pulls \in 0..MaxPulls /\ faults \in 0..MaxFaults
      /\ call \in [Devices -> [Slots -> Calls]] /\ MaxEdits \in Nat /\ MaxPulls \in Nat /\ MaxFaults \in Nat
  BY DEF TypeOK
<1>1. Fault => faults' \in 0..MaxFaults
  BY <1>0 DEF Fault
<1>2. ASSUME NEW s \in Slots, Pull(d, s)
      PROVE  pulls' \in 0..MaxPulls /\ call' \in [Devices -> [Slots -> Calls]]
  BY <1>0, <1>2, PullTyped, OneCallMoves DEF Pull
<1>3. CASE Edit(d)
  <2>1. edits' \in 0..MaxEdits /\ edits' = edits + 1
    BY <1>0, <1>3 DEF Edit
  <2>2. doc' \in [Devices -> 0..MaxEdits] /\ timer' \in [Devices -> BOOLEAN] /\ owed' \subseteq Devices
    BY <1>3, <2>1 DEF Edit, Scheduled, TypeOK
  <2>3. QED
    BY <1>3, <2>1, <2>2 DEF Edit, TypeOK
<1>4. CASE SignOut(d) \/ DeleteAccount(d)
  <2>1. faults' \in 0..MaxFaults /\ signed' \in [Devices -> BOOLEAN]
    BY <1>1, <1>4 DEF SignOut, DeleteAccount, TypeOK
  <2>2. server' \in [v : 0..MaxEdits, ts : Stamps]
    <3>1. Purged \in [v : 0..MaxEdits, ts : Stamps]
      BY <1>0 DEF Purged, Stamps
    <3>2. QED
      BY <1>4, <3>1 DEF SignOut, DeleteAccount, TypeOK
  <2>3. QED
    BY <1>4, <2>1, <2>2 DEF SignOut, DeleteAccount, TypeOK
<1>5. CASE Restart(d)
  <2>1. \A s \in Slots : Dropped(call[d][s]) \in Calls
    <3>1. ASSUME NEW c \in Calls PROVE [c EXCEPT !.client = FALSE] \in Calls
      BY DEF Calls
    <3>2. QED
      BY <1>0, <3>1, Blank DEF Dropped
  <2>2. call' \in [Devices -> [Slots -> Calls]]
    BY <1>0, <1>5, <2>1 DEF Restart
  <2>3. QED
    BY <1>1, <1>5, <2>2 DEF Restart, TypeOK
<1>6. ASSUME NEW s \in Slots, SyncNow(d, s) \/ OnSignedIn(d, s) PROVE TypeOK'
  <2>1. muddled' \in BOOLEAN /\ Pull(d, s)
    BY <1>6 DEF SyncNow, OnSignedIn, Overlap, TypeOK
  <2>2. QED
    BY <1>2, <1>6, <2>1 DEF SyncNow, OnSignedIn, local, TypeOK
<1>7. ASSUME NEW s \in Slots, Lose(d, s) \/ PushUnsigned(d, s) PROVE TypeOK'
  <2>1. call[d][s] \in Calls /\ 0 \in 0..MaxEdits /\ 0 \in Stamps
    BY <1>0 DEF Stamps
  <2>2. /\ [call[d][s] EXCEPT !.client = FALSE] \in Calls
        /\ [call[d][s] EXCEPT !.at = "answered", !.rv = NoDoc, !.rts = 0] \in Calls
    BY <2>1 DEF Calls
  <2>3. call' \in [Devices -> [Slots -> Calls]]
    <3>1. \E rec \in Calls : Goto(d, s, rec)
      BY <1>7, <2>2, Blank DEF Lose, PushUnsigned
    <3>2. QED
      BY <3>1, OneCallMoves
  <2>4. faults' \in 0..MaxFaults
    BY <1>0, <1>1, <1>7 DEF Lose, PushUnsigned
  <2>5. QED
    BY <1>7, <2>3, <2>4 DEF Lose, PushUnsigned, local, TypeOK
<1>8. QED
  BY <1>3, <1>4, <1>5, <1>6, <1>7 DEF Outside

LEMMA NextIs == SyncNext => \E d \in Devices : Outside(d) \/ \E s \in Slots : Step(d, s)
BY DEF SyncNext, Outside

LEMMA TypedNext == TypeOK /\ [SyncNext]_vars => TypeOK'
<1>1. TypeOK /\ UNCHANGED vars => TypeOK'
  BY DEF TypeOK, vars, local
<1>2. QED
  BY <1>1, NextIs, StepTyped, OutsideTyped

-------------------------------------------------------------------------------
(* Where values come from.                                                 *)

\* A call's new record carries what it had, the device's copy or the server's.
LEMMA KnownMove ==
  ASSUME Known, TypeOK', NEW d \in Devices, NEW s \in Slots, NEW rec \in Calls, Goto(d, s, rec),
         rec.v \in {call[d][s].v, doc[d], NoDoc}, rec.rv \in {call[d][s].rv, server.v, NoDoc},
         rec.at \in {"sent", "put", "stored"} => rec.v # NoDoc,
         \A e \in Devices : doc'[e] \in {doc[e], call[d][s].rv}, edits' = edits,
         (server' = server /\ stored' = stored)
         \/ (server'.v = call[d][s].v /\ stored' = stored \cup {call[d][s].v})
  PROVE  Known'
<1>1. /\ call'[d][s] = rec
      /\ \A e \in Devices, u \in Slots : e # d \/ u # s => call'[e][u] = call[e][u]
  BY OneCallMoves DEF Known
<1>2. edits \in Nat /\ server.v <= edits /\ call[d][s].v <= edits /\ call[d][s].rv <= edits /\ doc[d] <= edits
  BY DEF Known, Edited, TypeOK
<1>3. Documents'
  BY <1>1 DEF Known, Documents
<1>4. {NoDoc, server'.v} \subseteq stored' /\ \A v \in stored' : v <= edits'
  BY <1>2 DEF Known, Edited
<1>5. \A e \in Devices : doc'[e] <= edits' /\ \A u \in Slots : call'[e][u].v <= edits' /\ call'[e][u].rv <= edits'
  <2>1. rec.v <= edits /\ rec.rv <= edits
    BY <1>2
  <2>2. QED
    BY <1>1, <1>2, <2>1 DEF Known, Edited
<1>6. QED
  BY <1>3, <1>4, <1>5 DEF Known, Edited

LEMMA KnownStep ==
  ASSUME Known, TypeOK', NEW d \in Devices, NEW s \in Slots, Step(d, s)
  PROVE  Known'
<1> DEFINE c == call[d][s]
<1>0. /\ c \in Calls /\ TypeOK /\ Documents /\ doc \in [Devices -> 0..MaxEdits]
      /\ server \in [v : 0..MaxEdits, ts : Stamps]
  BY DEF Known, TypeOK
<1>1. c.at \in {"sent", "put", "stored"} => c.v # NoDoc
  BY <1>0 DEF Documents
<1>2. Nothing.at = "none" /\ Nothing.v = NoDoc /\ Nothing.rv = NoDoc /\ Nothing \in Calls
  BY Blank DEF Nothing
<1>3. ASSUME NEW place \in {"sent", "put", "stored", "refused", "asked", "answered", "taken"}
      PROVE  LET r == [c EXCEPT !.at = place] IN r \in Calls /\ r.at = place /\ r.v = c.v /\ r.rv = c.rv
  BY <1>0 DEF Calls
<1>4. ASSUME NEW place \in {"refused", "answered"}
      PROVE  LET r == [c EXCEPT !.at = place, !.rv = server.v, !.rts = server.ts]
             IN  r \in Calls /\ r.at = place /\ r.v = c.v /\ r.rv = server.v
  BY <1>0 DEF Calls
<1>5. ASSUME NEW t \in Stamps
      PROVE  LET r == [c EXCEPT !.at = "sent", !.ts = t] IN r \in Calls /\ r.at = "sent" /\ r.v = c.v /\ r.rv = c.rv
  BY <1>0 DEF Calls
<1> HIDE DEF c
<1>6. CASE PushFire(d, s)
  <2>1. CASE ~Sendable(d)
    BY <1>6, <2>1 DEF PushFire, Known, Edited, Documents
  <2>2. CASE Sendable(d)
    <3>1. PICK t \in Stamps :
            Goto(d, s, [Nothing EXCEPT !.kind = "push", !.at = "sent", !.v = doc[d], !.ts = t, !.client = TRUE])
      BY <1>6, <2>2 DEF PushFire
    <3>2. doc[d] \in 0..MaxEdits /\ 0 \in 0..MaxEdits /\ 0 \in Stamps
      BY <1>0 DEF Stamps
    <3>3. LET r == [Nothing EXCEPT !.kind = "push", !.at = "sent", !.v = doc[d], !.ts = t, !.client = TRUE]
          IN  r \in Calls /\ r.v = doc[d] /\ r.rv = NoDoc
      BY <3>2 DEF Nothing, Calls
    <3>4. QED
      BY <1>6, <2>2, <3>1, <3>3, KnownMove DEF PushFire, Sendable
  <2>3. QED
    BY <2>1, <2>2
<1>7. CASE DataCompare(d, s)
  <2>1. c.at = "sent" /\ UNCHANGED <<doc, server, edits, stored>>
    BY <1>7 DEF DataCompare, local, c
  <2>2. CASE Stale(c)
    BY <1>0, <1>4, <1>7, <2>1, <2>2, KnownMove DEF DataCompare, c
  <2>3. CASE ~Stale(c)
    BY <1>0, <1>1, <1>3, <1>7, <2>1, <2>3, KnownMove DEF DataCompare, c
  <2>4. QED
    BY <2>2, <2>3
<1>8. CASE DataPut(d, s)
  <2>1. c.at = "put" /\ UNCHANGED <<doc, edits>> /\ server'.v = c.v /\ stored' = stored \cup {c.v}
    BY <1>8 DEF DataPut, local, c
  <2>2. QED
    BY <1>0, <1>1, <1>3, <1>8, <2>1, KnownMove DEF DataPut, c
<1>9. CASE DataGet(d, s)
  BY <1>0, <1>4, <1>9, KnownMove DEF DataGet, local, c
<1>10. CASE Accepted(d, s) \/ Taken(d, s)
  BY <1>0, <1>2, <1>10, KnownMove DEF Accepted, Taken
<1>11. CASE Refused(d, s) \/ PullTakes(d, s)
  <2>1. /\ \A e \in Devices : doc'[e] \in {doc[e], c.rv}
        /\ UNCHANGED <<server, edits, stored>>
    BY <1>0, <1>11 DEF Refused, PullTakes, TakenCopy, c
  <2>2. Goto(d, s, Nothing) \/ Goto(d, s, [c EXCEPT !.at = "taken"])
    BY <1>11 DEF Refused, PullTakes, c
  <2>3. QED
    BY <1>2, <1>3, <2>1, <2>2, KnownMove DEF c
<1>12. CASE PullSeeds(d, s)
  <2>1. UNCHANGED <<doc, server, edits, stored>>
    BY <1>12 DEF PullSeeds, local
  <2>2. CASE ~Seeds(c)
    BY <1>0, <1>2, <1>12, <2>1, <2>2, KnownMove DEF PullSeeds, c
  <2>3. CASE Seeds(c)
    <3>1. PICK t \in Stamps : Goto(d, s, [c EXCEPT !.at = "sent"]) \/ Goto(d, s, [c EXCEPT !.at = "sent", !.ts = t])
      <4>1. Goto(d, s, [c EXCEPT !.at = "sent"]) \/ \E t \in Stamps : Goto(d, s, [c EXCEPT !.at = "sent", !.ts = t])
        BY <1>12, <2>3 DEF PullSeeds, c
      <4>2. 0 \in Stamps
        BY DEF Stamps
      <4>3. QED
        BY <4>1, <4>2
    <3>2. PICK r \in Calls : Goto(d, s, r) /\ r.at = "sent" /\ r.v = c.v /\ r.rv = c.rv
      BY <1>3, <1>5, <3>1
    <3>3. c.v # NoDoc
      BY <2>3 DEF Seeds
    <3>4. QED
      BY <2>1, <3>2, <3>3, KnownMove DEF c
  <2>4. QED
    BY <2>2, <2>3
<1>13. CASE Abandoned(d, s)
  BY <1>0, <1>2, <1>13, KnownMove DEF Abandoned, local
<1>14. QED
  BY <1>6, <1>7, <1>8, <1>9, <1>10, <1>11, <1>12, <1>13 DEF Step

LEMMA KnownOutside ==
  ASSUME Known, TypeOK', NEW d \in Devices, Outside(d)
  PROVE  Known'
<1>0. /\ TypeOK /\ Documents /\ Edited /\ call \in [Devices -> [Slots -> Calls]]
      /\ doc \in [Devices -> 0..MaxEdits] /\ edits \in Nat
  BY DEF Known, TypeOK
<1>1. CASE Edit(d)
  <2>1. /\ edits' = edits + 1 /\ UNCHANGED <<server, call, stored>>
        /\ doc'[d] = edits + 1 /\ \A e \in Devices : e # d => doc'[e] = doc[e]
    BY <1>0, <1>1 DEF Edit
  <2>2. edits <= edits' /\ \A n \in Int : n <= edits => n <= edits'
    BY <1>0, <2>1
  <2>3. server.v \in Int /\ stored \subseteq Int /\ \A e \in Devices : doc[e] \in Int /\ \A s \in Slots : call[e][s].v \in Int /\ call[e][s].rv \in Int
    BY <1>0 DEF TypeOK, Calls
  <2>4. Edited'
    <3>1. {NoDoc, server.v} \subseteq stored /\ (\A v \in stored : v <= edits)
      BY <1>0 DEF Edited
    <3>2. \A e \in Devices : doc[e] <= edits /\ \A s \in Slots : call[e][s].v <= edits /\ call[e][s].rv <= edits
      BY <1>0 DEF Edited
    <3>3. {NoDoc, server'.v} \subseteq stored' /\ (\A v \in stored' : v <= edits')
      BY <2>1, <2>2, <2>3, <3>1
    <3>4. \A e \in Devices : doc'[e] <= edits'
      BY <1>0, <2>1, <2>2, <2>3, <3>2
    <3>5. \A e \in Devices, s \in Slots : call'[e][s].v <= edits' /\ call'[e][s].rv <= edits'
      BY <2>1, <2>2, <2>3, <3>2
    <3>6. QED
      BY <3>3, <3>4, <3>5 DEF Edited
  <2>5. Documents'
    BY <1>0, <2>1 DEF Documents
  <2>6. QED
    BY <2>4, <2>5 DEF Known
<1>2. CASE SignOut(d) \/ DeleteAccount(d)
  <2>1. UNCHANGED <<doc, call, edits, stored>> /\ (server' = server \/ server' = Purged)
    BY <1>2 DEF SignOut, DeleteAccount
  <2>2. Edited'
    BY <1>0, <2>1 DEF Edited, Purged
  <2>3. Documents'
    BY <1>0, <2>1 DEF Documents
  <2>4. QED
    BY <2>2, <2>3 DEF Known
<1>3. CASE Restart(d)
  <2>1. UNCHANGED <<server, doc, edits, stored>>
    BY <1>3 DEF Restart
  <2>2. ASSUME NEW e \in Devices, NEW s \in Slots
        PROVE  call'[e][s] \in {call[e][s], Nothing, [call[e][s] EXCEPT !.client = FALSE]}
    BY <1>0, <1>3 DEF Restart, Dropped
  <2>3. Nothing.at = "none" /\ Nothing.v = 0 /\ Nothing.rv = 0
    BY DEF Nothing
  <2>4. ASSUME NEW c \in Calls
        PROVE  LET r == [c EXCEPT !.client = FALSE] IN r.at = c.at /\ r.v = c.v /\ r.rv = c.rv
    BY DEF Calls
  <2>5. \A e \in Devices, s \in Slots :
          \/ call'[e][s].at = call[e][s].at /\ call'[e][s].v = call[e][s].v /\ call'[e][s].rv = call[e][s].rv
          \/ call'[e][s].at = "none" /\ call'[e][s].v = 0 /\ call'[e][s].rv = 0
    <3> TAKE e \in Devices, s \in Slots
    <3>1. call[e][s] \in Calls
      BY <1>0
    <3>2. CASE call'[e][s] = [call[e][s] EXCEPT !.client = FALSE]
      BY <2>4, <3>1, <3>2
    <3>3. QED
      BY <2>2, <2>3, <3>2
  <2>6. Edited'
    BY <1>0, <2>1, <2>5 DEF Edited
  <2>7. Documents'
    BY <1>0, <2>5 DEF Documents
  <2>8. QED
    BY <2>6, <2>7 DEF Known
<1>4. ASSUME NEW s \in Slots, SyncNow(d, s) \/ OnSignedIn(d, s) PROVE Known'
  BY <1>0, <1>4, PullTyped, KnownMove DEF SyncNow, OnSignedIn, Pull, local
<1>5. ASSUME NEW s \in Slots, Lose(d, s) \/ PushUnsigned(d, s) PROVE Known'
  <2> DEFINE c == call[d][s]
  <2>0. c \in Calls /\ 0 \in 0..MaxEdits /\ 0 \in Stamps
    BY <1>0 DEF Stamps
  <2>1. LET r == [c EXCEPT !.client = FALSE] IN r \in Calls /\ r.at = c.at /\ r.v = c.v /\ r.rv = c.rv
    BY <2>0 DEF Calls
  <2>2. LET r == [c EXCEPT !.at = "answered", !.rv = NoDoc, !.rts = 0] IN r \in Calls /\ r.at = "answered" /\ r.v = c.v /\ r.rv = NoDoc
    BY <2>0 DEF Calls
  <2>3. Nothing \in Calls /\ Nothing.at = "none" /\ Nothing.v = NoDoc /\ Nothing.rv = NoDoc
    BY Blank DEF Nothing
  <2>4. c.at \in {"sent", "put", "stored"} => c.v # NoDoc
    BY <1>0 DEF Documents
  <2>5. UNCHANGED <<server, doc, edits, stored>>
    BY <1>5 DEF Lose, PushUnsigned, local
  <2> HIDE DEF c
  <2>6. \/ Goto(d, s, Nothing) \/ Goto(d, s, [c EXCEPT !.client = FALSE])
        \/ Goto(d, s, [c EXCEPT !.at = "answered", !.rv = NoDoc, !.rts = 0])
    BY <1>5 DEF Lose, PushUnsigned, c
  <2>7. QED
    BY <1>0, <2>1, <2>2, <2>3, <2>4, <2>5, <2>6, KnownMove DEF c
<1>6. QED
  BY <1>1, <1>2, <1>3, <1>4, <1>5 DEF Outside

LEMMA KnownInvariant == SyncSpec => []Known
<1>1. SyncInit => Known
  <2>1. SyncInit => Edited /\ Documents
    BY DEF SyncInit, Edited, Documents, Nothing
  <2>2. QED
    BY <2>1, InitTyped DEF Known
<1>2. Known /\ [SyncNext]_vars => Known'
  <2>1. Known /\ UNCHANGED vars => Known'
    BY DEF Known, TypeOK, Edited, Documents, vars, local
  <2>2. Known => TypeOK
    BY DEF Known
  <2>3. QED
    BY <2>1, <2>2, TypedNext, NextIs, KnownStep, KnownOutside
<1>3. QED
  BY <1>1, <1>2, PTL DEF SyncSpec

-------------------------------------------------------------------------------
(* A device and its stamp.                                                 *)

\* A device nobody touches, while the server stays.
LEMMA UntouchedTidy ==
  ASSUME NEW e \in Devices, Tidy(e), server' = server, stored' = stored,
         UNCHANGED <<doc[e], stamp[e], signed[e], timer[e]>>, \A u \in Slots : call'[e][u] = call[e][u]
  PROVE  Tidy(e)'
BY DEF Tidy, Waits, Alone, Free, CallTidy, Nothing

\* A device whose only call moves.
LEMMA TouchedTidy ==
  ASSUME TypeOK, NEW d \in Devices, NEW s \in Slots, Alone(d, s), NEW rec \in Calls, Goto(d, s, rec),
         rec # Nothing => CallTidy(d, rec)',
         stamp'[d] <= server'.ts, timer'[d] => doc'[d] # NoDoc /\ signed'[d],
         ~timer'[d] /\ rec.at \in {"none", "asked", "answered"} /\ doc'[d] \in stored' /\ stamp'[d] = server'.ts
           => doc'[d] = server'.v
  PROVE  Tidy(d)'
<1>1. call'[d][s] = rec /\ \A u \in Slots : u # s => call'[d][u] = Nothing
  BY OneCallMoves DEF Alone, Free
<1>2. Alone(d, s)'
  BY <1>1 DEF Alone, Free
<1>3. \A u \in Slots : ~Free(d, u)' => u = s
  BY <1>1 DEF Free
<1>4. \A u \in Slots : ~Free(d, u)' => CallTidy(d, call[d][u])' /\ Alone(d, u)'
  BY <1>1, <1>2, <1>3 DEF Free, CallTidy
<1>5. Waits(d)' => ~timer'[d] /\ rec.at \in {"none", "asked", "answered"}
  BY <1>1 DEF Waits
<1>6. QED
  BY <1>4, <1>5 DEF Tidy

\* A step of one device's call, other than the put, leaves the others and the server alone.
LEMMA StepTidy ==
  ASSUME Known, Clear, \A e \in Devices : Tidy(e),
         NEW d \in Devices, NEW s \in Slots, Step(d, s), ~DataPut(d, s), ~muddled'
  PROVE  \A e \in Devices : Tidy(e)'
<1> DEFINE c == call[d][s]
<1>0. /\ TypeOK /\ Edited /\ Documents /\ Tidy(d) /\ c \in Calls /\ server.ts \in Nat
      /\ doc \in [Devices -> 0..MaxEdits] /\ stamp \in [Devices -> Stamps] /\ timer \in [Devices -> BOOLEAN]
      /\ call \in [Devices -> [Slots -> Calls]] /\ stamp[d] \in Nat /\ Stamps \subseteq Nat
  BY DEF Known, TypeOK, Stamps
<1>1. c.ts \in Nat /\ c.rts \in Nat
  BY <1>0 DEF Calls
<1>2. /\ server' = server /\ stored' = stored /\ signed' = signed
      /\ \A e \in Devices : e # d => doc'[e] = doc[e] /\ stamp'[e] = stamp[e] /\ timer'[e] = timer[e]
      /\ \A e \in Devices, u \in Slots : e # d => call'[e][u] = call[e][u]
  BY <1>0 DEF Step, PushFire, DataCompare, DataGet, Accepted, Refused, Taken, PullTakes, PullSeeds, Abandoned,
     Goto, Stamp, local
<1>3. \A e \in Devices : e # d => Tidy(e)'
  BY <1>2, UntouchedTidy
<1>4. ~Free(d, s) => CallTidy(d, c) /\ Alone(d, s)
  BY <1>0 DEF Tidy
<1>5. c.at # "none" => ~Free(d, s)
  BY DEF Free, Nothing
<1>6. Nothing.at = "none" /\ Nothing \in Calls
  BY Blank DEF Nothing
<1>7. ASSUME NEW place \in {"sent", "put", "taken"}
      PROVE  \E r \in Calls : /\ r = [c EXCEPT !.at = place]
                               /\ r.at = place /\ r.v = c.v /\ r.ts = c.ts /\ r.rts = c.rts
                               /\ r.kind = c.kind /\ r.client = c.client
  <2>1. [c EXCEPT !.at = place] \in Calls
    BY <1>0 DEF Calls
  <2>2. QED
    BY <1>0, <2>1 DEF Calls
<1>8. ASSUME NEW place \in {"refused", "answered"}
      PROVE  \E r \in Calls : /\ r = [c EXCEPT !.at = place, !.rv = server.v, !.rts = server.ts]
                               /\ r.at = place /\ r.v = c.v /\ r.ts = c.ts /\ r.rts = server.ts /\ r.rv = server.v
                               /\ r.kind = c.kind /\ r.client = c.client
  <2>1. [c EXCEPT !.at = place, !.rv = server.v, !.rts = server.ts] \in Calls
    BY <1>0 DEF Calls, TypeOK
  <2>2. QED
    BY <1>0, <2>1 DEF Calls
<1>9. ASSUME NEW t \in Stamps
      PROVE  \E r \in Calls : /\ r = [c EXCEPT !.at = "sent", !.ts = t]
                               /\ r.at = "sent" /\ r.v = c.v /\ r.ts = t /\ r.rts = c.rts
                               /\ r.kind = c.kind /\ r.client = c.client
  <2>1. [c EXCEPT !.at = "sent", !.ts = t] \in Calls
    BY <1>0 DEF Calls
  <2>2. QED
    BY <1>0, <2>1 DEF Calls
<1> HIDE DEF c
<1>10. CASE PushFire(d, s)
  <2>1. Alone(d, s) /\ Free(d, s) /\ timer[d] /\ ~timer'[d] /\ doc' = doc /\ stamp' = stamp
    <3>1. \A u \in Slots : ~call[d][u].client
      BY <1>10 DEF PushFire, Overlap
    <3>2. \A u \in Slots : Free(d, u)
      BY <1>0, <3>1 DEF Tidy, CallTidy
    <3>3. QED
      BY <1>0, <1>10, <3>2 DEF PushFire, Alone
  <2>2. Sendable(d) /\ signed[d]
    BY <1>0, <2>1 DEF Sendable, Tidy
  <2>3. PICK t \in Stamps :
          Goto(d, s, [Nothing EXCEPT !.kind = "push", !.at = "sent", !.v = doc[d], !.ts = t, !.client = TRUE])
    BY <1>10, <2>2 DEF PushFire
  <2>4. PICK r \in Calls :
          Goto(d, s, r) /\ r.kind = "push" /\ r.at = "sent" /\ r.v = doc[d] /\ r.client /\ r.rts = 0
    <3>1. doc[d] \in 0..MaxEdits /\ 0 \in 0..MaxEdits /\ 0 \in Stamps
      BY <1>0 DEF Stamps
    <3>2. LET r == [Nothing EXCEPT !.kind = "push", !.at = "sent", !.v = doc[d], !.ts = t, !.client = TRUE]
          IN  r \in Calls /\ r.kind = "push" /\ r.at = "sent"
      BY <3>1 DEF Nothing, Calls
    <3>3. LET r == [Nothing EXCEPT !.kind = "push", !.at = "sent", !.v = doc[d], !.ts = t, !.client = TRUE]
          IN  r.v = doc[d] /\ r.client /\ r.rts = 0
      BY <3>1 DEF Nothing
    <3>4. QED
      BY <2>3, <3>2, <3>3
  <2>5. CallTidy(d, r)'
    BY <1>0, <1>2, <2>1, <2>2, <2>4 DEF CallTidy
  <2>6. /\ stamp'[d] <= server'.ts /\ (timer'[d] => doc'[d] # NoDoc /\ signed'[d])
        /\ r.at \notin {"none", "asked", "answered"}
    BY <1>0, <1>2, <2>1, <2>4 DEF Tidy
  <2>7. Tidy(d)'
    BY <1>0, <2>1, <2>4, <2>5, <2>6, TouchedTidy
  <2>8. QED
    BY <1>3, <2>7
<1>11. CASE DataCompare(d, s)
  <2>1. /\ c.at = "sent" /\ UNCHANGED <<doc, stamp, timer>> /\ CallTidy(d, c) /\ Alone(d, s)
        /\ Goto(d, s, IF Stale(c) THEN [c EXCEPT !.at = "refused", !.rv = server.v, !.rts = server.ts]
                                  ELSE [c EXCEPT !.at = "put"])
    BY <1>4, <1>5, <1>11 DEF DataCompare, local, c
  <2>2. PICK rec \in Calls :
          /\ Goto(d, s, rec) /\ rec.at \in {"refused", "put"} /\ rec.v = c.v /\ rec.ts = c.ts /\ rec.kind = c.kind
          /\ rec.client = c.client /\ rec.rts <= server.ts
          /\ rec.at = "refused" => rec.ts < rec.rts /\ rec.rv # NoDoc
    <3>1. CASE Stale(c)
      <4>1. Goto(d, s, [c EXCEPT !.at = "refused", !.rv = server.v, !.rts = server.ts])
            /\ c.ts < server.ts /\ server.v # NoDoc
        BY <1>0, <1>1, <2>1, <3>1 DEF Stale
      <4>2. QED
        BY <1>0, <1>1, <1>8, <4>1
    <3>2. CASE ~Stale(c)
      BY <1>0, <1>1, <1>7, <2>1, <3>2 DEF CallTidy
    <3>3. QED
      BY <3>1, <3>2
  <2>3. CallTidy(d, rec)'
    BY <1>2, <2>1, <2>2 DEF CallTidy
  <2>4. /\ stamp'[d] <= server'.ts /\ (timer'[d] => doc'[d] # NoDoc /\ signed'[d])
        /\ rec.at \notin {"none", "asked", "answered"}
    BY <1>0, <1>2, <2>1, <2>2 DEF Tidy
  <2>5. Tidy(d)'
    BY <1>0, <2>1, <2>2, <2>3, <2>4, TouchedTidy
  <2>6. QED
    BY <1>3, <2>5
<1>12. CASE DataGet(d, s)
  <2>1. /\ c.at = "asked" /\ UNCHANGED <<doc, stamp, timer>> /\ CallTidy(d, c) /\ Alone(d, s)
        /\ Goto(d, s, [c EXCEPT !.at = "answered", !.rv = server.v, !.rts = server.ts])
    BY <1>4, <1>5, <1>12 DEF DataGet, local, c
  <2>2. PICK rec \in Calls :
          /\ Goto(d, s, rec) /\ rec.at = "answered" /\ rec.v = c.v /\ rec.ts = c.ts /\ rec.kind = c.kind
          /\ rec.client = c.client /\ rec.rts <= server.ts
    BY <1>0, <1>8, <2>1
  <2>3. CallTidy(d, rec)'
    BY <1>2, <2>1, <2>2 DEF CallTidy
  <2>4. ~timer[d] => Waits(d)
    <3>1. \A u \in Slots : call[d][u].at \in {"none", "asked", "answered"}
      BY <1>6, <2>1 DEF Alone, Free, c
    <3>2. QED
      BY <3>1 DEF Waits
  <2>5. QED
    BY <1>0, <1>2, <1>3, <2>1, <2>2, <2>3, <2>4, TouchedTidy DEF Tidy
<1>13. CASE Accepted(d, s)
  <2>1. /\ c.at = "stored" /\ UNCHANGED <<doc, timer>> /\ CallTidy(d, c) /\ Alone(d, s)
        /\ Goto(d, s, Nothing) /\ stamp'[d] = c.ts
    BY <1>0, <1>4, <1>5, <1>13 DEF Accepted, Here, Stamp, c
  <2>2. stamp'[d] <= server'.ts /\ (timer'[d] => doc'[d] # NoDoc /\ signed'[d])
    BY <1>0, <1>2, <2>1 DEF Tidy, CallTidy
  <2>3. ~timer'[d] /\ stamp'[d] = server'.ts => doc'[d] = server'.v
    BY <1>2, <2>1 DEF CallTidy
  <2>4. Tidy(d)'
    BY <1>0, <1>6, <2>1, <2>2, <2>3, TouchedTidy
  <2>5. QED
    BY <1>3, <2>4
<1>14. CASE Taken(d, s)
  <2>1. /\ c.at = "taken" /\ UNCHANGED <<doc, timer>> /\ CallTidy(d, c) /\ Alone(d, s)
        /\ Goto(d, s, Nothing) /\ stamp'[d] = c.rts
    BY <1>0, <1>4, <1>5, <1>14 DEF Taken, Here, Stamp, c
  <2>2. stamp'[d] <= server'.ts /\ (timer'[d] => doc'[d] # NoDoc /\ signed'[d])
    BY <1>0, <1>2, <2>1 DEF Tidy, CallTidy
  <2>3. ~timer'[d] /\ stamp'[d] = server'.ts => doc'[d] = server'.v
    BY <1>0, <1>2, <2>1 DEF CallTidy
  <2>4. Tidy(d)'
    BY <1>0, <1>6, <2>1, <2>2, <2>3, TouchedTidy
  <2>5. QED
    BY <1>3, <2>4
\* A newer copy is written over the device's, which sets the timer; its stamp follows.
<1>15. ASSUME CallTidy(d, c), Alone(d, s), Goto(d, s, [c EXCEPT !.at = "taken"]), stamp' = stamp,
              doc'[d] = c.rv, timer' = [timer EXCEPT ![d] = Scheduled(d)], c.rv # NoDoc
       PROVE  \A e \in Devices : Tidy(e)'
  <2>1. timer'[d] /\ signed[d]
    BY <1>0, <1>15 DEF CallTidy, Scheduled
  <2>2. PICK rec \in Calls :
          /\ Goto(d, s, rec) /\ rec.at = "taken" /\ rec.v = c.v /\ rec.ts = c.ts /\ rec.kind = c.kind
          /\ rec.client = c.client /\ rec.rts = c.rts
    BY <1>7, <1>15
  <2>3. CallTidy(d, rec)'
    BY <1>2, <1>15, <2>1, <2>2 DEF CallTidy
  <2>4. QED
    BY <1>0, <1>2, <1>3, <1>15, <2>1, <2>2, <2>3, TouchedTidy DEF Tidy
<1>16. CASE Refused(d, s)
  <2>1. c.at = "refused" /\ CallTidy(d, c) /\ Alone(d, s) /\ stamp' = stamp
    BY <1>4, <1>5, <1>16 DEF Refused, Here, c
  <2>2. CASE c.kind = "push"
    BY <1>0, <1>15, <1>16, <2>1, <2>2 DEF Refused, TakenCopy, CallTidy, c
  <2>3. CASE c.kind # "push"
    <3>1. c.kind = "pull" /\ Goto(d, s, Nothing) /\ UNCHANGED <<doc, timer>>
      BY <1>16, <2>3 DEF Refused, c
    <3>2. stamp[d] < server.ts
      BY <1>0, <1>1, <2>1, <3>1 DEF CallTidy
    <3>3. QED
      BY <1>0, <1>2, <1>3, <1>6, <2>1, <3>1, <3>2, TouchedTidy DEF Tidy
  <2>4. QED
    BY <2>2, <2>3
<1>17. CASE PullTakes(d, s)
  <2>1. c.at = "answered" /\ c.rv # NoDoc /\ CallTidy(d, c) /\ Alone(d, s) /\ stamp' = stamp
    BY <1>4, <1>5, <1>17 DEF PullTakes, RemoteWins, Here, c
  <2>2. QED
    BY <1>0, <1>15, <1>17, <2>1 DEF PullTakes, TakenCopy, c
<1>18. CASE PullSeeds(d, s)
  <2>1. /\ c.at = "answered" /\ CallTidy(d, c) /\ Alone(d, s) /\ UNCHANGED <<doc, stamp, timer>>
        /\ c.kind = "pull" /\ c.ts = stamp[d]
    BY <1>4, <1>5, <1>18 DEF PullSeeds, Here, local, c, CallTidy
  <2>2. CASE Goto(d, s, Nothing)
    <3>1. ~timer[d] => Waits(d)
      <4>1. \A u \in Slots : call[d][u].at \in {"none", "asked", "answered"}
        BY <1>6, <2>1 DEF Alone, Free, c
      <4>2. QED
        BY <4>1 DEF Waits
    <3>2. QED
      BY <1>0, <1>2, <1>3, <1>6, <2>1, <2>2, <3>1, TouchedTidy DEF Tidy
  <2>3. CASE ~Goto(d, s, Nothing)
    <3>1. PICK rec \in Calls :
            /\ Goto(d, s, rec) /\ rec.at = "sent" /\ rec.v = c.v /\ rec.kind = c.kind /\ rec.client = c.client
            /\ rec.rts = c.rts /\ stamp[d] <= rec.ts
      <4>1. CASE Goto(d, s, [c EXCEPT !.at = "sent"])
        <5>1. PICK r \in Calls : /\ r = [c EXCEPT !.at = "sent"] /\ r.at = "sent" /\ r.v = c.v /\ r.ts = c.ts
                                 /\ r.rts = c.rts /\ r.kind = c.kind /\ r.client = c.client
          BY <1>7
        <5>2. stamp[d] <= r.ts
          BY <1>0, <2>1, <5>1
        <5>3. QED
          BY <4>1, <5>1, <5>2
      <4>2. ASSUME NEW t \in Stamps, Goto(d, s, [c EXCEPT !.at = "sent", !.ts = t]), c.ts = 0
            PROVE  \E rec \in Calls :
                     /\ Goto(d, s, rec) /\ rec.at = "sent" /\ rec.v = c.v /\ rec.kind = c.kind
                     /\ rec.client = c.client /\ rec.rts = c.rts /\ stamp[d] <= rec.ts
        <5>1. PICK r \in Calls : /\ r = [c EXCEPT !.at = "sent", !.ts = t]
                                 /\ r.at = "sent" /\ r.v = c.v /\ r.ts = t /\ r.rts = c.rts
                                 /\ r.kind = c.kind /\ r.client = c.client
          BY <1>9
        <5>2. stamp[d] <= r.ts
          BY <1>0, <2>1, <4>2, <5>1
        <5>3. QED
          BY <4>2, <5>1, <5>2
      <4>3. QED
        BY <1>18, <2>3, <4>1, <4>2 DEF PullSeeds, c
    <3>2. CallTidy(d, rec)'
      BY <1>2, <2>1, <3>1 DEF CallTidy
    <3>3. QED
      BY <1>0, <1>2, <1>3, <2>1, <3>1, <3>2, TouchedTidy DEF Tidy
  <2>4. QED
    BY <2>2, <2>3
<1>19. CASE Abandoned(d, s)
  BY <1>4, <1>19 DEF Abandoned, CallTidy, Free, Nothing, c
<1>20. QED
  BY <1>10, <1>11, <1>12, <1>13, <1>14, <1>16, <1>17, <1>18, <1>19 DEF Step

\* The put changes the server: to a later second, at which no device's stamp is, or not at all.
LEMMA PutTidy ==
  ASSUME Known, Clear, \A e \in Devices : Tidy(e),
         NEW d \in Devices, NEW s \in Slots, DataPut(d, s), ~muddled'
  PROVE  \A e \in Devices : Tidy(e)'
<1> DEFINE c == call[d][s]
<1>0. /\ TypeOK /\ Edited /\ c \in Calls /\ server.ts \in Nat /\ server.v \in stored
      /\ c.ts \in Nat /\ \A e \in Devices : stamp[e] \in Nat
  BY DEF Known, TypeOK, Edited, Stamps, Calls
<1>1. /\ c.at = "put" /\ server' = [v |-> c.v, ts |-> c.ts] /\ stored' = stored \cup {c.v}
      /\ UNCHANGED <<doc, stamp, signed, timer>> /\ Goto(d, s, [c EXCEPT !.at = "stored"])
  BY DEF DataPut, local, c
<1>2. server.ts < c.ts \/ (server.ts = c.ts /\ server.v = c.v)
  <2>1. muddled' = (muddled \/ server.ts > c.ts \/ (server.ts = c.ts /\ server.v # c.v))
    BY DEF DataPut, c
  <2>2. ~(server.ts > c.ts) /\ ~(server.ts = c.ts /\ server.v # c.v)
    BY <2>1
  <2>3. QED
    BY <1>0, <2>2
<1>3. server'.v = c.v /\ server'.ts = c.ts
  BY <1>1
<1>4. \/ server.ts < server'.ts
      \/ server.ts = server'.ts /\ server'.v = server.v /\ stored' = stored
  BY <1>0, <1>1, <1>2, <1>3
<1>5. \E r \in Calls : /\ r = [c EXCEPT !.at = "stored"] /\ r.at = "stored" /\ r.v = c.v /\ r.ts = c.ts /\ r.rts = c.rts
                       /\ r.kind = c.kind /\ r.client = c.client
  <2>1. [c EXCEPT !.at = "stored"] \in Calls
    BY <1>0 DEF Calls
  <2>2. QED
    BY <1>0, <2>1 DEF Calls
<1>6. server'.ts \in Nat
  BY <1>0, <1>3
<1>7. CallTidy(d, c) /\ Alone(d, s)
  BY <1>1 DEF Tidy, Free, Nothing, c
<1> HIDE DEF c
<1>8. PICK rec \in Calls :
        /\ Goto(d, s, rec) /\ rec.at = "stored" /\ rec.v = c.v /\ rec.ts = c.ts /\ rec.rts = c.rts
        /\ rec.kind = c.kind /\ rec.client = c.client
  BY <1>1, <1>5
<1>9. \A e \in Devices, u \in Slots : e # d \/ u # s => call'[e][u] = call[e][u]
  BY <1>0, <1>8, OneCallMoves
<1>10. Tidy(d)'
  <2>1. c.rts \in Nat /\ stamp[d] <= server'.ts /\ c.rts <= server'.ts
    <3>1. c.rts \in Nat /\ stamp[d] <= server.ts /\ c.rts <= server.ts /\ stamp[d] \in Nat
      BY <1>0, <1>7 DEF Tidy, CallTidy, Calls, Stamps
    <3>2. QED
      BY <1>0, <1>4, <1>6, <3>1
  <2>2. rec.ts <= server'.ts
    BY <1>0, <1>3, <1>8
  <2>3. CallTidy(d, rec)'
    BY <1>1, <1>3, <1>7, <1>8, <2>1, <2>2 DEF CallTidy
  <2>4. timer'[d] => doc'[d] # NoDoc /\ signed'[d]
    BY <1>1 DEF Tidy
  <2>5. QED
    BY <1>0, <1>1, <1>7, <1>8, <2>1, <2>3, <2>4, TouchedTidy
<1>11. ASSUME NEW e \in Devices, e # d PROVE Tidy(e)'
  <2>0. Tidy(e) /\ \A u \in Slots : call'[e][u] = call[e][u] /\ call[e][u] \in Calls
    BY <1>0, <1>9, <1>11 DEF TypeOK
  <2>1. stamp'[e] = stamp[e] /\ stamp[e] <= server'.ts /\ (stamp[e] = server'.ts => server' = server /\ stored' = stored)
    <3>1. stamp[e] <= server.ts
      BY <2>0 DEF Tidy
    <3>2. server.ts = server'.ts /\ server'.v = server.v => server' = server
      BY <1>0, <1>1, <1>3 DEF TypeOK
    <3>3. QED
      BY <1>0, <1>1, <1>4, <1>6, <3>1, <3>2
  <2>2. ASSUME NEW u \in Slots, ~Free(e, u)' PROVE CallTidy(e, call[e][u])' /\ Alone(e, u)'
    <3> DEFINE k == call[e][u]
    <3>1. CallTidy(e, k) /\ Alone(e, u)
      BY <2>0, <2>2 DEF Tidy, Free, Nothing
    <3>2. Alone(e, u)'
      BY <2>0, <3>1 DEF Alone, Free, Nothing
    <3>3. k.rts \in Nat /\ k.ts \in Nat
      BY <2>0 DEF Calls, Stamps
    <3>4. k.rts <= server'.ts
      BY <1>0, <1>4, <1>6, <3>1, <3>3 DEF CallTidy
    <3>5. k.at = "stored" => k.ts <= server'.ts /\ (k.ts = server'.ts => k.v = server'.v)
      BY <1>0, <1>4, <1>6, <3>1, <3>3 DEF CallTidy
    <3>6. QED
      BY <1>1, <2>0, <3>1, <3>2, <3>4, <3>5 DEF CallTidy
  <2>3. Waits(e)' /\ doc'[e] \in stored' /\ stamp'[e] = server'.ts => doc'[e] = server'.v
    BY <1>1, <2>0, <2>1 DEF Tidy, Waits
  <2>4. timer'[e] => doc'[e] # NoDoc /\ signed'[e]
    BY <1>1, <2>0 DEF Tidy
  <2>5. QED
    BY <2>1, <2>2, <2>3, <2>4 DEF Tidy
<1>12. QED
  BY <1>10, <1>11

LEMMA OutsideTidy ==
  ASSUME Known, Clear, \A e \in Devices : Tidy(e), NEW d \in Devices, Outside(d), Clear'
  PROVE  \A e \in Devices : Tidy(e)'
<1>0. /\ TypeOK /\ Edited /\ Tidy(d) /\ faults = 0 /\ faults' = 0 /\ server.ts \in Nat /\ stamp[d] \in Nat
      /\ doc \in [Devices -> 0..MaxEdits] /\ timer \in [Devices -> BOOLEAN] /\ signed \in [Devices -> BOOLEAN]
      /\ call \in [Devices -> [Slots -> Calls]] /\ edits \in Nat
  BY DEF Known, TypeOK, Stamps, Clear
<1>1. ~Fault
  BY <1>0 DEF Fault
<1>2. CASE Edit(d)
  <2>1. /\ doc'[d] = edits + 1 /\ timer'[d] = (timer[d] \/ signed[d])
        /\ \A e \in Devices : e # d => doc'[e] = doc[e] /\ timer'[e] = timer[e]
        /\ UNCHANGED <<server, stamp, signed, call, stored>>
    BY <1>0, <1>2 DEF Edit, Scheduled
  <2>2. doc'[d] # 0 /\ doc'[d] \notin stored
    <3>1. ~(edits + 1 <= edits) /\ edits + 1 # 0
      BY <1>0
    <3>2. QED
      BY <1>0, <2>1, <3>1 DEF Edited
  <2>3. Tidy(d)'
    <3>1. ASSUME NEW s \in Slots, ~Free(d, s)' PROVE CallTidy(d, call[d][s])' /\ Alone(d, s)'
      BY <1>0, <2>1, <3>1 DEF Tidy, CallTidy, Alone, Free
    <3>2. QED
      BY <1>0, <2>1, <2>2, <3>1 DEF Tidy
  <2>4. QED
    BY <2>1, <2>3, UntouchedTidy
<1>3. CASE SignOut(d) \/ DeleteAccount(d) \/ Restart(d)
  BY <1>1, <1>3 DEF SignOut, DeleteAccount, Restart
<1>4. ASSUME NEW s \in Slots, SyncNow(d, s) \/ OnSignedIn(d, s) PROVE \A e \in Devices : Tidy(e)'
  <2>1. /\ UNCHANGED <<server, doc, stamp, timer, stored>> /\ Goto(d, s, PullRecord(d)) /\ signed'[d]
        /\ \A e \in Devices : e # d => signed'[e] = signed[e]
    BY <1>0, <1>4 DEF SyncNow, OnSignedIn, Pull, local
  <2>2. \A u \in Slots : Free(d, u)
    <3>1. \A u \in Slots : ~call[d][u].client
      BY <1>4 DEF SyncNow, OnSignedIn, Overlap, Clear
    <3>2. QED
      BY <1>0, <3>1 DEF Tidy, CallTidy
  <2>3. PICK r \in Calls : /\ Goto(d, s, r) /\ r.kind = "pull" /\ r.at = "asked" /\ r.v = doc[d] /\ r.ts = stamp[d]
                           /\ r.rts = 0 /\ r.client
    <3>1. PullRecord(d) \in Calls /\ PullRecord(d).kind = "pull" /\ PullRecord(d).at = "asked"
      BY <1>0, PullTyped DEF PullRecord, Nothing
    <3>2. PullRecord(d).v = doc[d] /\ PullRecord(d).ts = stamp[d] /\ PullRecord(d).rts = 0 /\ PullRecord(d).client
      BY DEF PullRecord, Nothing
    <3>3. QED
      BY <2>1, <3>1, <3>2
  <2>4. CallTidy(d, r)'
    BY <1>0, <2>1, <2>3 DEF CallTidy
  <2>5. ~timer[d] => Waits(d)
    BY <2>2 DEF Waits, Free, Nothing
  <2>6. Tidy(d)'
    BY <1>0, <2>1, <2>2, <2>3, <2>4, <2>5, TouchedTidy DEF Tidy, Alone
  <2>7. \A e \in Devices, u \in Slots : e # d => call'[e][u] = call[e][u]
    BY <1>0, <2>3, OneCallMoves
  <2>8. QED
    BY <2>1, <2>6, <2>7, UntouchedTidy
<1>5. ASSUME NEW s \in Slots, Lose(d, s) \/ PushUnsigned(d, s) PROVE \A e \in Devices : Tidy(e)'
  <2>1. PushUnsigned(d, s)
    BY <1>1, <1>5 DEF Lose
  <2>2. call[d][s].at = "sent" /\ ~signed[d]
    BY <2>1 DEF PushUnsigned, At
  <2>3. QED
    BY <1>0, <2>2 DEF Tidy, CallTidy, Free, Nothing
<1>6. QED
  BY <1>2, <1>3, <1>4, <1>5 DEF Outside

\* What was lost or muddled stays so.
LEMMA ClearBefore == TypeOK /\ TypeOK' /\ [SyncNext]_vars /\ Clear' => Clear
<1> SUFFICES ASSUME TypeOK, TypeOK', [SyncNext]_vars, Clear' PROVE Clear
  OBVIOUS
<1>1. faults \in Nat /\ faults' = 0
  BY DEF TypeOK, Clear
<1>2. ASSUME NEW d \in Devices, NEW s \in Slots, Step(d, s) PROVE faults' = faults /\ (muddled => muddled')
  <2>1. faults' = faults
    BY <1>2 DEF Step, PushFire, DataCompare, DataPut, DataGet, Accepted, Refused, Taken, PullTakes, PullSeeds, Abandoned
  <2>2. muddled => muddled'
    BY <1>2 DEF Step, PushFire, DataCompare, DataPut, DataGet, Accepted, Refused, Taken, PullTakes, PullSeeds,
       Abandoned, Overlap
  <2>3. QED
    BY <2>1, <2>2
<1>3. ASSUME NEW d \in Devices, Outside(d) PROVE faults' \in {faults, faults + 1} /\ (muddled => muddled')
  <2>1. faults' \in {faults, faults + 1}
    BY <1>3 DEF Outside, Edit, SignOut, DeleteAccount, Restart, SyncNow, OnSignedIn, Lose, PushUnsigned, Fault
  <2>2. muddled => muddled'
    BY <1>3 DEF Outside, Edit, SignOut, DeleteAccount, Restart, SyncNow, OnSignedIn, Lose, PushUnsigned, Overlap
  <2>3. QED
    BY <2>1, <2>2
<1>4. faults' \in {faults, faults + 1} /\ (muddled => muddled')
  BY <1>2, <1>3, NextIs DEF vars
<1>5. faults = 0
  BY <1>1, <1>4
<1>6. QED
  BY <1>4, <1>5 DEF Clear

LEMMA SyncInvariance == SyncSpec => []IInv
<1>1. SyncInit => (Clear => \A d \in Devices : Tidy(d))
  BY DEF SyncInit, Tidy, Waits, Free, Nothing
<1>2. IInv /\ Known' /\ [SyncNext]_vars => IInv'
  <2> SUFFICES ASSUME IInv, Known', [SyncNext]_vars, Clear' PROVE \A d \in Devices : Tidy(d)'
    BY DEF IInv
  <2>1. Known /\ Clear /\ ~muddled'
    BY ClearBefore DEF IInv, Known, Clear
  <2>2. \A d \in Devices : Tidy(d)
    BY <2>1 DEF IInv
  <2>3. CASE UNCHANGED vars
    BY <2>2, <2>3, UntouchedTidy DEF vars, local
  <2>4. CASE SyncNext
    BY <2>1, <2>2, <2>4, NextIs, StepTidy, PutTidy, OutsideTidy
  <2>5. QED
    BY <2>3, <2>4
<1>3. Known /\ (Clear => \A d \in Devices : Tidy(d)) => IInv
  BY DEF IInv
<1>4. QED
  BY <1>1, <1>2, <1>3, KnownInvariant, PTL DEF SyncSpec

-------------------------------------------------------------------------------
(* Every reachable state of devices, calls and server is well typed.       *)
THEOREM CopiesTyped == SyncSpec => []TypeOK
<1>1. Known => TypeOK
  BY DEF Known
<1>2. QED
  BY <1>1, KnownInvariant, PTL

-------------------------------------------------------------------------------
(* What is dated.  The clock starts above zero, so what is sent, stored or *)
(* answered as a document has a stamp above that of a device that never    *)
(* synced.                                                                 *)
Dated(c) ==
  /\ c.at \in {"sent", "put", "stored"} => c.ts > 0
  /\ c.rv # NoDoc => c.rts > 0
InTime ==
  /\ now > 0 /\ (server.v # NoDoc => server.ts > 0)
  /\ \A d \in Devices, s \in Slots : Dated(call[d][s])

LEMMA BlankDated == Dated(Nothing)
BY DEF Dated, Nothing

LEMMA DatedMove ==
  ASSUME TypeOK, InTime, NEW d \in Devices, NEW s \in Slots, NEW rec \in Calls, Goto(d, s, rec), Dated(rec), now' > 0,
         \/ server' = server
         \/ call[d][s].at = "put" /\ server'.ts = call[d][s].ts
  PROVE  InTime'
<1>1. /\ call'[d][s] = rec
      /\ \A e \in Devices, u \in Slots : e # d \/ u # s => call'[e][u] = call[e][u]
  BY OneCallMoves
<1>2. \A e \in Devices, u \in Slots : Dated(call'[e][u])
  BY <1>1 DEF InTime
<1>3. server'.v # NoDoc => server'.ts > 0
  BY DEF InTime, Dated
<1>4. QED
  BY <1>2, <1>3 DEF InTime, Dated

LEMMA DatedStep ==
  ASSUME TypeOK, InTime, NEW d \in Devices, NEW s \in Slots, Step(d, s)
  PROVE  InTime'
<1> DEFINE c == call[d][s]
<1>0. /\ c \in Calls /\ now \in Int /\ now > 0 /\ Dated(c) /\ server \in [v : 0..MaxEdits, ts : Stamps]
      /\ server.v # NoDoc => server.ts > 0
  BY DEF TypeOK, InTime, Stamps
<1>1. ASSUME NEW place \in {"sent", "put", "stored", "refused", "asked", "answered", "taken"}
      PROVE  LET r == [c EXCEPT !.at = place]
             IN  r \in Calls /\ r.at = place /\ r.ts = c.ts /\ r.rv = c.rv /\ r.rts = c.rts
  BY <1>0 DEF Calls
<1>2. ASSUME NEW place \in {"refused", "answered"}
      PROVE  LET r == [c EXCEPT !.at = place, !.rv = server.v, !.rts = server.ts]
             IN  r \in Calls /\ r.at = place /\ r.rv = server.v /\ r.rts = server.ts
  BY <1>0 DEF Calls
<1>3. ASSUME NEW t \in Stamps
      PROVE  LET r == [c EXCEPT !.at = "sent", !.ts = t]
             IN  r \in Calls /\ r.at = "sent" /\ r.ts = t /\ r.rv = c.rv /\ r.rts = c.rts
  BY <1>0 DEF Calls
<1>4. ASSUME NEW t \in Stamps, Second(t) PROVE now' = t /\ t > 0
  BY <1>0, <1>4 DEF Second, Stamps
<1>5. ASSUME NEW rec \in Calls, Goto(d, s, rec), Dated(rec), now' > 0, server' = server PROVE InTime'
  BY <1>5, DatedMove
<1>6. Nothing \in Calls /\ Dated(Nothing)
  BY Blank, BlankDated
<1> HIDE DEF c
<1>7. CASE PushFire(d, s)
  <2>1. CASE ~Sendable(d)
    BY <1>7, <2>1 DEF PushFire, InTime
  <2>2. CASE Sendable(d)
    <3>1. PICK t \in Stamps :
            /\ Second(t)
            /\ Goto(d, s, [Nothing EXCEPT !.kind = "push", !.at = "sent", !.v = doc[d], !.ts = t, !.client = TRUE])
      BY <1>7, <2>2 DEF PushFire
    <3>2. doc[d] \in 0..MaxEdits /\ 0 \in 0..MaxEdits /\ 0 \in Stamps
      BY DEF TypeOK, Stamps
    <3>3. LET r == [Nothing EXCEPT !.kind = "push", !.at = "sent", !.v = doc[d], !.ts = t, !.client = TRUE]
          IN  r \in Calls /\ r.ts = t /\ r.rv = NoDoc
      BY <3>2 DEF Nothing, Calls
    <3>4. server' = server /\ now' > 0 /\ t > 0
      BY <1>4, <1>7, <3>1 DEF PushFire
    <3>5. QED
      BY <1>5, <3>1, <3>3, <3>4 DEF Dated
  <2>3. QED
    BY <2>1, <2>2
<1>8. CASE DataCompare(d, s)
  <2>1. c.at = "sent" /\ server' = server /\ now' > 0
    BY <1>0, <1>8 DEF DataCompare, c
  <2>2. CASE Stale(c)
    <3>1. Goto(d, s, [c EXCEPT !.at = "refused", !.rv = server.v, !.rts = server.ts])
      BY <1>8, <2>2 DEF DataCompare, c
    <3>2. QED
      BY <1>0, <1>2, <1>5, <2>1, <3>1 DEF Dated
  <2>3. CASE ~Stale(c)
    <3>1. Goto(d, s, [c EXCEPT !.at = "put"])
      BY <1>8, <2>3 DEF DataCompare, c
    <3>2. QED
      BY <1>0, <1>1, <1>5, <2>1, <3>1 DEF Dated
  <2>4. QED
    BY <2>2, <2>3
<1>9. CASE DataPut(d, s)
  <2>1. /\ c.at = "put" /\ server'.ts = c.ts /\ now' > 0
        /\ Goto(d, s, [c EXCEPT !.at = "stored"])
    BY <1>0, <1>9 DEF DataPut, c
  <2>2. QED
    BY <1>0, <1>1, <2>1, DatedMove DEF Dated, c
<1>10. CASE DataGet(d, s)
  <2>1. server' = server /\ now' > 0 /\ Goto(d, s, [c EXCEPT !.at = "answered", !.rv = server.v, !.rts = server.ts])
    BY <1>0, <1>10 DEF DataGet, c
  <2>2. QED
    BY <1>0, <1>2, <1>5, <2>1 DEF Dated
<1>11. CASE Accepted(d, s) \/ Taken(d, s) \/ Abandoned(d, s)
  <2>1. Goto(d, s, Nothing) /\ server' = server /\ now' = now
    BY <1>11 DEF Accepted, Taken, Abandoned
  <2>2. QED
    BY <1>0, <1>5, <1>6, <2>1
<1>12. CASE Refused(d, s) \/ PullTakes(d, s)
  <2>1. server' = server /\ now' = now
    BY <1>12 DEF Refused, PullTakes
  <2>2. Goto(d, s, Nothing) \/ Goto(d, s, [c EXCEPT !.at = "taken"])
    BY <1>12 DEF Refused, PullTakes, c
  <2>3. QED
    BY <1>0, <1>1, <1>5, <1>6, <2>1, <2>2 DEF Dated
<1>13. CASE PullSeeds(d, s)
  <2>1. server' = server
    BY <1>13 DEF PullSeeds
  <2>2. CASE ~Seeds(c)
    <3>1. Goto(d, s, Nothing) /\ now' = now
      BY <1>13, <2>2 DEF PullSeeds, c
    <3>2. QED
      BY <1>0, <1>5, <1>6, <2>1, <3>1
  <2>3. CASE Seeds(c) /\ c.ts # 0
    <3>1. Goto(d, s, [c EXCEPT !.at = "sent"]) /\ now' = now
      BY <1>13, <2>3 DEF PullSeeds, c
    <3>2. c.ts > 0
      BY <1>0, <2>3 DEF Calls, Stamps
    <3>3. QED
      BY <1>0, <1>1, <1>5, <2>1, <3>1, <3>2 DEF Dated
  <2>4. CASE Seeds(c) /\ c.ts = 0
    <3>1. PICK t \in Stamps : Second(t) /\ Goto(d, s, [c EXCEPT !.at = "sent", !.ts = t])
      BY <1>13, <2>4 DEF PullSeeds, c
    <3>2. now' > 0 /\ t > 0
      BY <1>4, <3>1
    <3>3. QED
      BY <1>0, <1>3, <1>5, <2>1, <3>1, <3>2 DEF Dated
  <2>5. QED
    BY <2>2, <2>3, <2>4
<1>14. QED
  BY <1>7, <1>8, <1>9, <1>10, <1>11, <1>12, <1>13 DEF Step

LEMMA DatedOutside ==
  ASSUME TypeOK, InTime, NEW d \in Devices, Outside(d)
  PROVE  InTime'
<1>0. call \in [Devices -> [Slots -> Calls]] /\ now > 0
  BY DEF TypeOK, InTime
<1>1. CASE Edit(d) \/ SignOut(d) \/ DeleteAccount(d)
  <2>1. UNCHANGED <<now, call>> /\ (server' = server \/ server' = Purged)
    BY <1>1 DEF Edit, SignOut, DeleteAccount
  <2>2. QED
    BY <2>1 DEF InTime, Purged, Dated
<1>2. CASE Restart(d)
  <2>1. UNCHANGED <<now, server>>
    BY <1>2 DEF Restart
  <2>2. ASSUME NEW c \in Calls, Dated(c) PROVE Dated(Dropped(c))
    <3>1. LET r == [c EXCEPT !.client = FALSE] IN r.at = c.at /\ r.ts = c.ts /\ r.rv = c.rv /\ r.rts = c.rts
      BY DEF Calls
    <3>2. QED
      BY <2>2, <3>1, BlankDated DEF Dropped, Dated
  <2>3. \A e \in Devices, s \in Slots : call'[e][s] \in {call[e][s], Dropped(call[e][s])}
    BY <1>0, <1>2 DEF Restart
  <2>4. \A e \in Devices, s \in Slots : Dated(call'[e][s])
    BY <1>0, <2>2, <2>3 DEF InTime
  <2>5. QED
    BY <2>1, <2>4 DEF InTime, Dated
<1>3. ASSUME NEW s \in Slots, SyncNow(d, s) \/ OnSignedIn(d, s) PROVE InTime'
  <2>1. UNCHANGED <<now, server>> /\ Goto(d, s, PullRecord(d))
    BY <1>3 DEF SyncNow, OnSignedIn, Pull
  <2>2. PullRecord(d) \in Calls /\ Dated(PullRecord(d))
    BY PullTyped DEF Dated
  <2>3. QED
    BY <1>0, <2>1, <2>2, DatedMove
<1>4. ASSUME NEW s \in Slots, Lose(d, s) \/ PushUnsigned(d, s) PROVE InTime'
  <2> DEFINE c == call[d][s]
  <2>0. c \in Calls /\ Dated(c) /\ 0 \in 0..MaxEdits /\ 0 \in Stamps
    BY <1>0 DEF InTime, Stamps
  <2>1. LET r == [c EXCEPT !.client = FALSE] IN r \in Calls /\ r.at = c.at /\ r.ts = c.ts /\ r.rv = c.rv /\ r.rts = c.rts
    BY <2>0 DEF Calls
  <2>2. LET r == [c EXCEPT !.at = "answered", !.rv = NoDoc, !.rts = 0] IN r \in Calls /\ r.at = "answered" /\ r.rv = NoDoc
    BY <2>0 DEF Calls
  <2>3. UNCHANGED <<now, server>>
    BY <1>4 DEF Lose, PushUnsigned
  <2> HIDE DEF c
  <2>4. \/ Goto(d, s, Nothing) \/ Goto(d, s, [c EXCEPT !.client = FALSE])
        \/ Goto(d, s, [c EXCEPT !.at = "answered", !.rv = NoDoc, !.rts = 0])
    BY <1>4 DEF Lose, PushUnsigned, c
  <2>5. PICK r \in Calls : Goto(d, s, r) /\ Dated(r)
    BY <2>0, <2>1, <2>2, <2>4, Blank, BlankDated DEF Dated
  <2>6. QED
    BY <1>0, <2>3, <2>5, DatedMove
<1>5. QED
  BY <1>1, <1>2, <1>3, <1>4 DEF Outside

LEMMA DatedInvariant == SyncSpec => []InTime
<1>1. SyncInit => InTime
  BY BlankDated DEF SyncInit, InTime
<1>2. TypeOK /\ InTime /\ [SyncNext]_vars => InTime'
  <2>1. InTime /\ UNCHANGED vars => InTime'
    BY DEF InTime, Dated, vars
  <2>2. QED
    BY <2>1, NextIs, DatedStep, DatedOutside
<1>3. Known => TypeOK
  BY DEF Known
<1>4. QED
  BY <1>1, <1>2, <1>3, KnownInvariant, PTL DEF SyncSpec

\* A device that never synced, answered a document, does nothing with the answer but take it.
LEMMA FreshTakes ==
  ASSUME TypeOK, InTime, [SyncNext]_vars, NEW d \in Devices, NEW s \in Slots,
         Here(d, s, "answered"), call[d][s].rv # NoDoc, call[d][s].ts = 0, call'[d][s] # call[d][s]
  PROVE  PullTakes(d, s) \/ Restart(d)
<1>1. /\ call[d][s].at = "answered" /\ RemoteWins(call[d][s])
      /\ call \in [Devices -> [Slots -> Calls]]
  BY DEF Here, InTime, Dated, RemoteWins, TypeOK
<1>2. ~Free(d, s)
  BY <1>1 DEF Free, Nothing
<1>3. ASSUME NEW e \in Devices, NEW u \in Slots, NEW rec, Goto(e, u, rec) PROVE e = d /\ u = s
  BY <1>1, <1>3 DEF Goto
<1>4. ASSUME NEW e \in Devices, NEW u \in Slots, Step(e, u) PROVE PullTakes(d, s)
  <2>1. e = d /\ u = s
    <3>1. (\E rec : Goto(e, u, rec)) \/ call' = call
      BY <1>4 DEF Step, PushFire, DataCompare, DataPut, DataGet, Accepted, Refused, Taken, PullTakes, PullSeeds, Abandoned
    <3>2. QED
      BY <1>3, <3>1
  <2>2. ~PushFire(d, s) /\ ~PullSeeds(d, s)
    BY <1>1, <1>2 DEF PushFire, PullSeeds
  <2>3. /\ ~DataCompare(d, s) /\ ~DataPut(d, s) /\ ~DataGet(d, s) /\ ~Accepted(d, s)
        /\ ~Refused(d, s) /\ ~Taken(d, s) /\ ~Abandoned(d, s)
    BY <1>1 DEF DataCompare, DataPut, DataGet, Accepted, Refused, Taken, Abandoned, Here
  <2>4. QED
    BY <1>4, <2>1, <2>2, <2>3 DEF Step
<1>5. ASSUME NEW e \in Devices, Outside(e) PROVE Restart(d)
  <2>1. ~Edit(e) /\ ~SignOut(e) /\ ~DeleteAccount(e)
    BY DEF Edit, SignOut, DeleteAccount
  <2>2. ASSUME NEW u \in Slots, SyncNow(e, u) \/ OnSignedIn(e, u) PROVE FALSE
    <3>1. Free(e, u) /\ Goto(e, u, PullRecord(e))
      BY <2>2 DEF SyncNow, OnSignedIn, Pull
    <3>2. QED
      BY <1>2, <1>3, <3>1
  <2>3. ASSUME NEW u \in Slots, Lose(e, u) \/ PushUnsigned(e, u) PROVE FALSE
    <3>1. (\E rec : Goto(e, u, rec)) /\ call[e][u].at # "answered"
      BY <2>3 DEF Lose, PushUnsigned, At
    <3>2. QED
      BY <1>1, <1>3, <3>1
  <2>4. Restart(e)
    BY <1>5, <2>1, <2>2, <2>3 DEF Outside
  <2>5. e = d
    BY <1>1, <2>4 DEF Restart
  <2>6. QED
    BY <2>4, <2>5
<1>6. QED
  BY <1>4, <1>5, NextIs DEF vars

(* A copy on the server goes away with the account and in no other way:    *)
(* nothing is sent but documents (session.ts, server.py:1472).  A device   *)
(* that never synced, answered a document, takes it, unless the app is     *)
(* closed first (session.ts:129-132).                                      *)
THEOREM CopyStays == SyncSpec => NeverEmptied
<1>1. Known /\ [SyncNext]_vars
      => (server.v # NoDoc /\ server'.v = NoDoc => \E d \in Devices : DeleteAccount(d))
  <2> SUFFICES ASSUME Known, [SyncNext]_vars, server.v # NoDoc, server'.v = NoDoc,
                      \A d \in Devices : ~DeleteAccount(d)
               PROVE  FALSE
    OBVIOUS
  <2>1. PICK d \in Devices, s \in Slots : DataPut(d, s)
    <3>1. ASSUME NEW d \in Devices, Outside(d) PROVE server' = server
      BY <3>1 DEF Outside, Edit, SignOut, Restart, SyncNow, OnSignedIn, Lose, PushUnsigned
    <3>2. ASSUME NEW d \in Devices, NEW s \in Slots, Step(d, s), ~DataPut(d, s) PROVE server' = server
      BY <3>2 DEF Step, PushFire, DataCompare, DataGet, Accepted, Refused, Taken, PullTakes, PullSeeds, Abandoned
    <3>3. QED
      BY <3>1, <3>2, NextIs DEF vars
  <2>2. QED
    BY <2>1 DEF DataPut, Known, Documents
<1>2. Known /\ InTime /\ [SyncNext]_vars
      => \A d \in Devices, s \in Slots :
           /\ Here(d, s, "answered") /\ call[d][s].rv # NoDoc /\ call[d][s].ts = 0
           /\ call'[d][s] # call[d][s]
           => PullTakes(d, s) \/ Restart(d)
  BY FreshTakes DEF Known
<1>3. QED
  BY <1>1, <1>2, KnownInvariant, DatedInvariant, PTL DEF SyncSpec, NeverEmptied

(* Equal stamps mean equal copies, which is what syncNow relies on when it *)
(* lets both be, for any number of devices as long as no request is lost   *)
(* and no copy put over another of its second (session.ts:129-138).        *)
THEOREM EqualStampsEqualCopies == SyncSpec => []StampTellsCopy
<1>1. IInv => StampTellsCopy
  <2> SUFFICES ASSUME IInv, ~muddled, ~(faults > 0), NEW d \in Devices,
                      Quiet(d), doc[d] \in stored, stamp[d] = server.ts
               PROVE  doc[d] = server.v
    BY DEF StampTellsCopy
  <2>1. Clear
    <3>1. faults \in Nat
      BY DEF IInv, Known, TypeOK
    <3>2. QED
      BY <3>1 DEF Clear
  <2>2. Waits(d)
    BY DEF Quiet, Free, Nothing, Waits
  <2>3. QED
    BY <2>1, <2>2 DEF IInv, Tidy
<1>2. QED
  BY <1>1, SyncInvariance, PTL
===============================================================================
