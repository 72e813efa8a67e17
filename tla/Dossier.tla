-------------------------------- MODULE Dossier --------------------------------
(***************************************************************************)
(* The institutional dossier: one symbol, many requests at once, the       *)
(* report filling in as they answer, and a reading of screener.in that     *)
(* is begun by the symbol's change.                                        *)
(***************************************************************************)
EXTENDS Client

CONSTANTS Symbols, Nobody,
          Sources     \* those followed here, of the fourteen that are asked
DossierAssumptions == Nobody \notin Symbols /\ "mb" \in Sources

\* Any of these lets the report be shown at all.
Core == Sources \cap {"mb", "rec", "fund", "tech"}
Has(u, S) == \E s \in S \cap Sources : u.got[s] # Nobody
Nothing == [s \in Sources |-> Nobody]     \* of which symbol each answer is
HasScreener(u) == u.scr = "data"

-------------------------------------------------------------------------------
\* The sections of the report, by what they need.
Report(u) == u.sym # Nobody /\ Has(u, Core)
Overview(u) ==
  {"verdict"} \cup If(Has(u, {"mb"}), {"quality", "business"}) \cup If(Has(u, {"mb", "fund"}), {"fundamentals", "multiples"})
Worth(u) == If(Has(u, {"rep"}), {"fair value", "priced in", "methods", "limits"})
Accounts(u) ==
  If(Has(u, {"rep"}), {"years", "quarters", "cash flow"})
  \cup If(HasScreener(u) /\ ~Has(u, {"rep"}), {"years of screener.in"})
  \cup If(HasScreener(u) \/ Has(u, {"rep"}), {"balance sheet"})
Trading(u) == If(Has(u, {"tech"}), {"technicals"}) \cup If(Has(u, {"rec"}), {"setup"}) \cup If(Has(u, {"mc"}), {"probability"})
Ownership(u) == {IF Has(u, {"hold"}) THEN "shareholding" ELSE "insiders"} \cup {"screener.in"}
Risks(u) ==
  If(Has(u, {"flows"}), {"deals"}) \cup If(Has(u, {"risk", "mb", "tech"}), {"risk"}) \cup If(Has(u, {"ann"}), {"filings"})
  \cup If(Has(u, {"actions"}), {"actions"}) \cup If(Has(u, {"mb"}), {"strengths"})
Sections(u) == IF Report(u) THEN Overview(u) \cup Worth(u) \cup Accounts(u) \cup Trading(u) \cup Ownership(u) \cup Risks(u) ELSE {}
\* The exported document.
Document(u) ==
  {"verdict"} \cup If(Has(u, {"mb", "fund"}), {"fundamentals"}) \cup If(Has(u, {"tech"}), {"technicals"})
  \cup If(Has(u, {"rec"}), {"setup"}) \cup If(Has(u, {"hold"}), {"shareholding"})
  \cup If(Has(u, {"rep"}), {"fair value", "priced in", "methods"}) \cup If(Has(u, {"mb"}), {"strengths"}) \cup If(Has(u, {"ann"}), {"filings"})
Screener(u) == CASE u.scr \in {"none", "loading"} -> "loading" [] u.scr = "data" -> "data" [] OTHER -> "retry"

-------------------------------------------------------------------------------
Jobs(s, n) == {[kind |-> "job", of |-> s, n |-> n, source |-> x] : x \in Sources}
Reading(s) == [kind |-> "screener", of |-> s]
Init ==
  /\ ui = [sym |-> Nobody, got |-> Nothing, busy |-> FALSE, msg |-> FALSE, scr |-> "none", scrOf |-> Nobody, n |-> 0,
           again |-> FALSE, overtaken |-> FALSE]    \* history: run again for the same symbol; a reading was overtaken
  /\ calls = {} /\ steps = 0

\* A dossier is built, also while another is.  The change of its symbol begins the
\* reading of screener.in; the same symbol again does not.
Run(s) ==
  /\ Act
  /\ ui' = [ui EXCEPT !.sym = s, !.got = Nothing, !.busy = TRUE, !.msg = FALSE, !.n = @ + 1,
                      !.scr = IF s # ui.sym THEN "loading" ELSE "none", !.scrOf = Nobody, !.again = s = ui.sym,
                      !.overtaken = Of({"screener"}) # {}]
  /\ calls' = calls \cup Jobs(s, ui.n + 1) \cup If(s # ui.sym, {Reading(s)})
FetchScreener ==
  /\ Report(ui) /\ Screener(ui) = "retry" /\ Act
  /\ ui' = [ui EXCEPT !.scr = "loading"] /\ calls' = calls \cup {Reading(ui.sym)}
\* An answer goes to the dossier of its symbol.
Patch(u, c) == IF u.sym = c.of THEN [u EXCEPT !.got[c.source] = c.of] ELSE u
\* The last of a run's jobs: it is over, and without any of the core the dossier is dropped.
Settled(u, c) ==
  IF \E d \in Of({"job"}) \ {c} : d.n = c.n THEN u
  ELSE IF u.sym = c.of /\ ~Has(u, Core) THEN [u EXCEPT !.busy = FALSE, !.msg = TRUE, !.sym = Nobody, !.got = Nothing, !.again = FALSE] ELSE [u EXCEPT !.busy = FALSE]
Answer(c, ok) == Net /\ calls' = calls \ {c} /\ ui' = Settled(IF ok THEN Patch(ui, c) ELSE ui, c)
ScreenerAnswers(c, ok) ==
  /\ Net /\ calls' = calls \ {c}
  /\ ui' = [ui EXCEPT !.scr = IF ok THEN "data" ELSE "failed", !.scrOf = c.of]
Answers ==
  \/ \E c \in Of({"job"}), ok \in BOOLEAN : Answer(c, ok)
  \/ \E c \in Of({"screener"}), ok \in BOOLEAN : ScreenerAnswers(c, ok)
Next == Answers \/ FetchScreener \/ \E s \in Symbols : Run(s)
Spec == Init /\ [][Next]_client
-------------------------------------------------------------------------------
\* A section on show was answered for the symbol on show, and the one of screener.in
\* too unless its answer overtook or was overtaken by another symbol's
\* (AnalysisScreen.tsx:137-138, against 203).
ShownIsAsked ==
  /\ \A x \in Sources : ui.got[x] \in {Nobody, ui.sym}
  /\ Report(ui) /\ Screener(ui) = "data" => ui.scrOf = ui.sym \/ ui.overtaken
  /\ Report(ui) => Document(ui) \subseteq Sections(ui)
\* A dossier that is being built has requests under way, and while it is, no section
\* it holds is missing from what was asked; the reading of screener.in likewise, but for a
\* symbol that is asked again, whose sign of reading stays (AnalysisScreen.tsx:209-212, 777).
LoadingIsAsked ==
  /\ ui.busy => Of({"job"}) # {}
  /\ Report(ui) /\ Screener(ui) = "loading" => ui.again \/ ui.overtaken \/ \E c \in Of({"screener"}) : c.of = ui.sym
================================================================================
