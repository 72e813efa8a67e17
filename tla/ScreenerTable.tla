---------------------------- MODULE ScreenerTable ----------------------------
(***************************************************************************)
(* The custom screener (screens/ScreenerScreen.tsx): the members of the    *)
(* chosen universes become rows, technicals come for the page in view and, *)
(* behind it, for the rest, and fundamentals are asked for until none is   *)
(* pending.  Each stage may be overtaken by the next load.  Batches of one *)
(* scan are taken together.                                                *)
(***************************************************************************)
EXTENDS Client

CONSTANTS
  Universes, MembersOf,     \* indices, and the symbols (numbers) of each
  NoJob, PageSize, MaxRounds

New == [tech |-> FALSE, fund |-> "undefined"]
Exprs == {"none", "tech", "fund"}   \* a filter on nothing, a technical, a fundamental value

Start(sel) ==
  [restored |-> FALSE, sel |-> sel, rows |-> <<>>, rowsOf |-> {}, loading |-> TRUE, refreshing |-> FALSE,
   note |-> FALSE, seq |-> 0, job |-> NoJob, req |-> {}, expr |-> "none", asc |-> TRUE, page |-> 0,
   fundBusy |-> FALSE, lost |-> FALSE, emptied |-> FALSE]   \* the last two: history
Init == \E u \in Universes : ui = Start({u}) /\ calls = {} /\ steps = 0

-------------------------------------------------------------------------------
\* What is in view.
Passes(r, expr) == CASE expr = "tech" -> r.tech [] expr = "fund" -> r.fund = "data" [] OTHER -> TRUE
Filtered(u) == {s \in DOMAIN u.rows : Passes(u.rows[s], u.expr)}
Rank(u, s) == Cardinality({t \in Filtered(u) : IF u.asc THEN t < s ELSE t > s})
PageRows(u) == {s \in Filtered(u) : Rank(u, s) \div PageSize = u.page}
PageCount(u) == LET n == Cardinality(Filtered(u)) IN IF n = 0 THEN 1 ELSE (n + PageSize - 1) \div PageSize

\* The note under the table, and what an empty page says.
FundWaiting(u) == IF u.expr = "fund" THEN {s \in DOMAIN u.rows : u.rows[s].fund = "undefined"} ELSE {}
FundUsable(u) == {s \in DOMAIN u.rows : u.rows[s].fund = "data"}
EmptyMessage(u) ==
  CASE FundWaiting(u) # {} -> "fetching"
    [] FundWaiting(u) = {} /\ u.expr = "fund" /\ u.rows # <<>> /\ FundUsable(u) = {} -> "no financials"
    [] OTHER -> "no match"

\* The controls.
TopBar(u) == {"universe", "filters", "share", "save", "columns", "export"}
Pager(u) == If(u.page > 0, {"previous"}) \cup If(u.page < PageCount(u) - 1, {"next"})
Offered(u) == IF u.loading THEN {} ELSE TopBar(u) \cup Pager(u) \cup {"sort", "refresh"}

-------------------------------------------------------------------------------
Scan(kind, seq, want) == [kind |-> kind, seq |-> seq, want |-> want]
Poll(target, round, phase) == [kind |-> "poll", target |-> target, round |-> round, phase |-> phase]

\* Pass 1: the page in view is asked for at once, and remembered as asked before
\* the answer.  The step after a change runs with the old page, the next with
\* the page that change resets or that has gone out of range.
\* Variant: the symbols count as asked only when they are there.
TakenLate(u, want) == u
Taken(u, want) == [u EXCEPT !.req = @ \cup want]
PagePass(p) ==
  LET u == p.u
      want == IF u.job = NoJob \/ u.job.seq # u.seq THEN {} ELSE PageRows(u) \ u.req
  IN IF want = {} THEN p ELSE [u |-> Taken(u, want), cs |-> p.cs \cup {Scan("page", u.seq, want)}]
\* Variant: the page stays, whatever the filter leaves.
KeptPage(u, reset) == IF reset THEN 0 ELSE u.page
InRange(u, reset) == IF reset \/ u.page > PageCount(u) - 1 THEN 0 ELSE u.page
Show(u, reset, cs) ==
  LET p == PagePass([u |-> u, cs |-> cs])
      q == PagePass([p EXCEPT !.u.page = InRange(p.u, reset)])
  IN ui' = q.u /\ calls' = q.cs

\* load: the effects of the last job are cleaned up, and nothing comes of their
\* requests any more; the page's go on.
Cleaned(cs) == {c \in cs : c.kind \notin {"poll", "timer", "sweep"}}
Load(u, reset) ==
  Show([u EXCEPT !.seq = @ + 1, !.req = {}, !.job = NoJob, !.note = FALSE], reset,
       Cleaned(calls) \cup {[kind |-> "cons", seq |-> u.seq + 1, sel |-> u.sel]})

\* The stored or shared screen is restored, then the first load begins.
Restore ==
  /\ ~ui.restored /\ Net
  /\ \E sel \in (SUBSET Universes) \ {{}}, e \in Exprs :
       Load([ui EXCEPT !.restored = TRUE, !.sel = sel, !.expr = e], TRUE)

\* An answer to the newest load only.
\* Variant: any answer will do.
CurrentAny(c) == TRUE
Current(c) == c.seq = ui.seq
Members(us) == UNION {MembersOf[u] : u \in us}
Job(seq, syms) == [seq |-> seq, symbols |-> syms]
Loaded(c, ok) ==     \* ok: the universes whose request did not fail
  /\ Net
  /\ LET syms == Members(ok)
         u == [ui EXCEPT !.loading = FALSE, !.refreshing = FALSE, !.rowsOf = c.sel,
                         !.rows = [s \in syms |-> New], !.note = syms = {}, !.emptied = syms = {},
                         !.job = IF syms = {} THEN NoJob ELSE Job(c.seq, syms), !.fundBusy = @ \/ syms # {},
                         !.lost = FALSE]
     IN IF ~Current(c) THEN calls' = calls \ {c} /\ UNCHANGED ui
        ELSE Show(u, FALSE, (calls \ {c}) \cup
                  If(syms # {}, {Poll(syms, 0, "ask"), Scan("timer", c.seq, {})}))

\* Pass 2, a moment later: everything not asked for yet.
SweepStarts(c) ==
  /\ Net
  /\ LET rest == IF Current(c) /\ ui.job # NoJob THEN ui.job.symbols \ ui.req ELSE {} IN
     /\ ui' = [ui EXCEPT !.req = @ \cup rest]
     /\ calls' = (calls \ {c}) \cup If(rest # {}, {Scan("sweep", c.seq, rest)})
\* What a scan delivers, the rest of it lost, is merged into the rows of its load.
ScanAnswers(c, got) ==
  /\ Net
  /\ IF Current(c)
     THEN Show([ui EXCEPT !.rows = [s \in DOMAIN @ |-> IF s \in got THEN [@[s] EXCEPT !.tech = TRUE] ELSE @[s]],
                          !.lost = @ \/ got # c.want],
               FALSE, calls \ {c})
     ELSE calls' = calls \ {c} /\ UNCHANGED ui

\* The fundamentals' poll: rounds three seconds apart until nothing it asked for
\* is pending; then what never came is settled as unavailable.
WithFund(rows, syms, v) == [s \in DOMAIN rows |-> IF s \in syms /\ rows[s].fund # "data" THEN [rows[s] EXCEPT !.fund = v] ELSE rows[s]]
\* Variant: what never came is left as if it were still to come.
SettleQuietly(u) == [u EXCEPT !.fundBusy = FALSE]
Settle(u) == [u EXCEPT !.rows = WithFund(@, DOMAIN @, "null"), !.fundBusy = FALSE]
PollAnswers(c, got, pending) ==
  /\ c.phase = "ask" /\ Net
  /\ LET u == [ui EXCEPT !.rows = WithFund(@, got, "data")]
         left == pending \ got
     IN IF left = {} THEN Show(Settle(u), FALSE, calls \ {c})
        ELSE Show(u, FALSE, (calls \ {c}) \cup {Poll(left, c.round + 1, "wait")})
PollFails(c) ==
  /\ c.phase = "ask" /\ Net
  /\ Show(Settle(ui), FALSE, calls \ {c})
PollAgain(c) ==
  /\ c.phase = "wait" /\ Net
  /\ IF c.round < MaxRounds THEN calls' = (calls \ {c}) \cup {[c EXCEPT !.phase = "ask"]} /\ UNCHANGED ui
     ELSE Show(Settle(ui), FALSE, calls \ {c})

-------------------------------------------------------------------------------
\* The user.  A universe applied again is loaded again.
PickUniverse(sel) == "universe" \in Offered(ui) /\ Act /\ Load([ui EXCEPT !.sel = sel, !.loading = TRUE], sel # ui.sel)
Refresh == "refresh" \in Offered(ui) /\ Act /\ Load([ui EXCEPT !.refreshing = TRUE], FALSE)
SetExpr(e) == "filters" \in Offered(ui) /\ Act /\ e # ui.expr /\ Show([ui EXCEPT !.expr = e], TRUE, calls)
SetSort == "sort" \in Offered(ui) /\ Act /\ Show([ui EXCEPT !.asc = ~@], TRUE, calls)
TurnPage(d) ==
  /\ Act /\ (IF d > 0 THEN "next" ELSE "previous") \in Offered(ui)
  /\ Show([ui EXCEPT !.page = @ + d], FALSE, calls)

Next ==
  \/ Restore \/ Refresh \/ SetSort
  \/ \E c \in Of({"cons"}) : \E ok \in SUBSET c.sel : Loaded(c, ok)
  \/ \E c \in Of({"timer"}) : SweepStarts(c)
  \/ \E c \in Of({"page", "sweep"}) : \E got \in SUBSET c.want : ScanAnswers(c, got)
  \/ \E c \in Of({"poll"}) : PollFails(c) \/ PollAgain(c) \/ \E got, pending \in SUBSET c.target : PollAnswers(c, got, pending)
  \/ \E sel \in (SUBSET Universes) \ {{}} : PickUniverse(sel)
  \/ \E e \in Exprs : SetExpr(e)
  \/ \E d \in {1, -1} : TurnPage(d)
Spec == Init /\ [][Next]_client

-------------------------------------------------------------------------------
\* Once a load is over the rows are those of the universes chosen, however many
\* loads were overtaken (ScreenerScreen.tsx:605-668).
RowsOfSelection == ui.restored /\ ~ui.loading => ui.rowsOf = ui.sel /\ DOMAIN ui.rows \subseteq Members(ui.sel)

\* No symbol is under way in two scans of one load: "neither pass repeats work"
\* (ScreenerScreen.tsx:572).
AskedOnce ==
  \A c, d \in Of({"page", "sweep"}) : c # d /\ c.seq = d.seq => c.want \cap d.want = {}

\* A page that is shown has rows whenever any row passes (ScreenerScreen.tsx:804-814).
PageHasRows == Filtered(ui) # {} => PageRows(ui) # {}

\* The table is done when no scan is under way: every row has its technicals, but
\* for those a scan lost (ScreenerScreen.tsx:821-876).
NothingLeftOut ==
  ui.job # NoJob /\ ~ui.lost /\ {c \in Of({"page", "timer", "sweep"}) : c.seq = ui.seq} = {}
    => \A s \in DOMAIN ui.rows : ui.rows[s].tech

\* What is said to be loading is being loaded: the first load, the refresh, the
\* fundamentals; but a load that finds no row leaves the last poll's sign on
\* (ScreenerScreen.tsx:692-744).
LoadingIsAsked ==
  LET newest == \E c \in Of({"cons"}) : c.seq = ui.seq
      polled == Of({"poll"}) # {}
  IN /\ ui.restored /\ (ui.loading \/ ui.refreshing) => newest
     /\ ui.fundBusy => polled \/ newest \/ ui.emptied
     /\ ui.job # NoJob /\ EmptyMessage(ui) = "fetching" => polled
==============================================================================
