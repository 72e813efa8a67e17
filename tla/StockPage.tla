------------------------------ MODULE StockPage ------------------------------
(***************************************************************************)
(* The page of one stock (screens/StockScreen.tsx): opening it asks for    *)
(* the engines, the broker's quote, a fast quote, the technical row and    *)
(* the fundamentals at once; each answer fills its part if no other stock  *)
(* was opened meanwhile.  The patterns are asked for by their tab, and     *)
(* their answer is not checked.                                            *)
(***************************************************************************)
EXTENDS Client

CONSTANTS Stocks, NoStock, MaxRecent

Kinds == {"engines", "status", "ltp", "scan", "fund"}
Init ==
  /\ ui = [active |-> NoStock, token |-> 0, tab |-> "overview", price |-> "none", priceOf |-> NoStock, label |-> "delayed",
           spine |-> FALSE, facts |-> {}, pat |-> "none", patOf |-> NoStock, recent |-> <<>>,
           overtaken |-> FALSE]    \* history: a pattern answer came after another stock was opened
  /\ calls = {} /\ steps = 0

Request(kind, s, t) == [kind |-> kind, of |-> s, token |-> t]
First(s, n) == SubSeq(s, 1, IF Len(s) < n THEN Len(s) ELSE n)

\* run: a stock is searched for, tapped, or handed over by another screen.
Run(s) ==
  /\ Act
  /\ ui' = [ui EXCEPT !.active = s, !.token = @ + 1, !.tab = "overview", !.price = "none", !.priceOf = NoStock,
                      !.label = "delayed", !.spine = TRUE, !.facts = {}, !.pat = "none", !.patOf = NoStock,
                      !.recent = First(<<s>> \o SelectSeq(@, LAMBDA x : x # s), MaxRecent),
                      !.overtaken = @ \/ \E c \in Of({"patterns"}) : c.of # s]
  /\ calls' = calls \cup {Request(k, s, ui.token + 1) : k \in Kinds}
\* The patterns' tab asks once for the stock it finds.
SelectTab(t) ==
  /\ ui.active # NoStock /\ t # ui.tab /\ Act
  /\ LET asks == t = "patterns" /\ ui.pat = "none" IN
     /\ ui' = [ui EXCEPT !.tab = t, !.pat = IF asks THEN "loading" ELSE @]
     /\ calls' = calls \cup If(asks, {Request("patterns", ui.active, ui.token)})

\* Variant: an answer to an earlier stock is taken too.
FreshAny(c) == TRUE
Fresh(c) == c.token = ui.token
Take(c, u, more) ==
  /\ Net
  /\ IF Fresh(c) THEN ui' = u /\ calls' = (calls \ {c}) \cup more ELSE calls' = calls \ {c} /\ UNCHANGED ui
Fact(f, of) == [what |-> f, of |-> of]

EnginesAnswer(c, ok) ==      \* the house view, if any engine has a score
  c.kind = "engines" /\ Take(c, [ui EXCEPT !.facts = @ \cup If(ok, {Fact("house", c.of)})], {})
FundAnswer(c, ok) == c.kind = "fund" /\ Take(c, [ui EXCEPT !.facts = @ \cup If(ok, {Fact("name", c.of)})], {})
BrokerStatus(c, ok) == c.kind = "status" /\ Take(c, ui, If(ok, {Request("broker", c.of, c.token)}))
BrokerAnswer(c, ok) ==       \* the broker's price replaces what there is
  c.kind = "broker" /\ Take(c, IF ok THEN [ui EXCEPT !.price = "broker", !.priceOf = c.of, !.label = "LIVE"] ELSE ui, {})
LtpAnswer(c, ok) ==          \* the fast quote only where there is no price
  /\ c.kind = "ltp"
  /\ Take(c, IF ~ok THEN ui ELSE [ui EXCEPT !.spine = FALSE, !.price = IF @ = "none" THEN "quote" ELSE @,
                                            !.priceOf = IF ui.price = "none" THEN c.of ELSE @], {})
ScanAnswer(c, ok) ==         \* the row's price replaces the one shown, the label stays
  /\ c.kind = "scan"
  /\ Take(c, [ui EXCEPT !.spine = FALSE, !.price = IF ok THEN "row" ELSE @, !.priceOf = IF ok THEN c.of ELSE @], {})
PatternsAnswer(c) ==
  /\ c.kind = "patterns" /\ Net /\ calls' = calls \ {c} /\ ui' = [ui EXCEPT !.pat = "data", !.patOf = c.of]

Next ==
  \/ \E s \in Stocks : Run(s)
  \/ \E t \in {"overview", "technicals", "patterns"} : SelectTab(t)
  \/ \E c \in calls :
       \/ PatternsAnswer(c)
       \/ \E ok \in BOOLEAN : \/ EnginesAnswer(c, ok) \/ FundAnswer(c, ok) \/ BrokerStatus(c, ok)
                              \/ BrokerAnswer(c, ok) \/ LtpAnswer(c, ok) \/ ScanAnswer(c, ok)
Spec == Init /\ [][Next]_client

-------------------------------------------------------------------------------
\* What the page shows: nothing, a skeleton or the stock's own parts.
Spine == IF ui.spine /\ ui.price = "none" THEN "skeleton" ELSE ui.price
Body ==
  IF ui.active = NoStock THEN "recent"
  ELSE IF ui.tab # "patterns" THEN ui.tab
  ELSE IF ui.pat \in {"none", "loading"} THEN "skeleton" ELSE "patterns"

\* One stock at a time: the price, the house view, the name and the patterns are
\* those of the stock whose page it is; the patterns unless their answer was
\* overtaken (StockScreen.tsx:102-211).
ShownIsAsked ==
  /\ Spine \notin {"none", "skeleton"} => ui.priceOf = ui.active
  /\ \A f \in ui.facts : f.of = ui.active
  /\ Body = "patterns" => ui.patOf = ui.active \/ ui.overtaken

\* A skeleton stands for a request (StockScreen.tsx:186, 376).
LoadingIsAsked ==
  /\ Spine = "skeleton" => \E c \in Of({"scan"}) : c.token = ui.token
  /\ ui.tab = "patterns" /\ Body = "skeleton" => \E c \in Of({"patterns"}) : c.of = ui.active
==============================================================================
