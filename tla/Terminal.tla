------------------------------ MODULE Terminal ------------------------------
(***************************************************************************)
(* The terminal (screens/TerminalScreen.tsx): a host that centres a        *)
(* company, keeps the trail back and asks the server for graphs, and the   *)
(* frame it embeds, a document of its own that is built anew whenever its  *)
(* key changes and keeps the workspace (window, tabs, comparison, news     *)
(* panel) in the browser's storage.  Drawing is left out; which company a  *)
(* drawing is about is not.                                                *)
(***************************************************************************)
EXTENDS Integers, Sequences, FiniteSets, Filters

CONSTANTS
  Symbols, Indices, Segments,  \* companies; index names; those ranked by market cap
  None, Cmp,                   \* null; the id of the comparison's tab
  MaxSteps, MaxRounds          \* bounds: what a user does; polls for market caps

\* What a run's constants must satisfy.
TerminalAssumptions ==
  Segments \subseteq Indices /\ None \notin Symbols \cup Indices \cup {Cmp} /\ Cmp \notin Symbols \cup Indices

VARIABLES
  graph,       \* what data is: "none", "curated", "minimal"; or "failed"
  centre, history, generating, genErr,
  idxCmd,      \* the index last asked for, and how often one was
  aiKey,       \* a key of the user's is set
  mobile,      \* the width when the frame was built
  W,           \* the workspace: every change is saved at once
  frame,       \* the frame is there
  body,        \* what the window shows: whose tab, its main part and its side part
  news,        \* what the news list shows
  cache,       \* of this frame: charts, fundamentals and index tables loaded
  calls,       \* of this frame: requests under way
  steps,
  failed,      \* history: a graph request failed
  strayed      \* history: an index could not be shown, or companies were
               \* compared while another comparison was under way

host  == <<graph, centre, history, generating, genErr, idxCmd, aiKey>>
inner == <<body, news, cache, calls>>
vars  == <<host, mobile, W, frame, inner, steps, failed, strayed>>

Tabs == Symbols \cup Indices \cup {Cmp}
Last(s) == IF s = <<>> THEN None ELSE s[Len(s)]
Without(s, t) == Places(s, {i \in DOMAIN s : s[i] # t})
Has(s, t) == \E i \in DOMAIN s : s[i] = t
Act == steps < MaxSteps /\ steps' = steps + 1

-------------------------------------------------------------------------------
\* The workspace.
NewWorkspace == [open |-> FALSE, tabs |-> <<>>, active |-> None, compare |-> {},
                 dock |-> "float", newsOn |-> TRUE, newsTab |-> "news"]
Added(w, t) == IF Has(w.tabs, t) THEN w.tabs ELSE Append(w.tabs, t)

\* openTab, openIdxTab, and the comparison's tab.
OpenedOn(w, t) == [w EXCEPT !.tabs = Added(w, t), !.active = t, !.open = TRUE]
DroppedTab(w, t) ==
  LET rest == Without(w.tabs, t) IN
  [w EXCEPT !.tabs = rest, !.active = IF @ = t THEN Last(rest) ELSE @, !.open = @ /\ rest # <<>>]
\* Variant: the comparison outlives its tab.
ClosedKeeping(w, t) == DroppedTab(w, t)
Closed(w, t) == [DroppedTab(w, t) EXCEPT !.compare = IF t = Cmp THEN {} ELSE @]
Compared(w, s) ==
  LET set == IF s \in w.compare THEN w.compare \ {s} ELSE w.compare \cup {s}
      w2  == [w EXCEPT !.compare = set]
  IN IF set # {} THEN OpenedOn(w2, Cmp) ELSE DroppedTab(w2, Cmp)

\* A phone starts docked and with the news panel on; a graph without edges opens
\* the company's workspace; an index asked for is opened by every frame.
Adapted(w) == IF mobile THEN [w EXCEPT !.dock = IF @ = "float" THEN "bottom" ELSE @, !.newsOn = TRUE] ELSE w
WithCompany(w, c, auto) ==
  IF ~auto THEN w ELSE IF mobile THEN [w EXCEPT !.newsTab = "chart"] ELSE OpenedOn(w, c)
WithIndex(w, name) == IF name = None THEN w ELSE OpenedOn(w, name)
Booted(w, c, auto, name) == WithIndex(WithCompany(Adapted(w), c, auto), name)

-------------------------------------------------------------------------------
\* The window's body.
Body(t, main, side, set) == [tab |-> t, main |-> main, side |-> side, set |-> set]
NoBody == Body(None, "none", "none", {})
Call(kind, of, set, round) == [kind |-> kind, of |-> of, set |-> set, round |-> round, node |-> TRUE]
Detached(cs) == {IF c.kind \in {"hist", "fund"} THEN [c EXCEPT !.node = FALSE] ELSE c : c \in cs}
Ready(t, set) == IF t \in set THEN "drawn" ELSE "loading"

CompanyBody(t, k) == Body(t, Ready(t, k.charts), Ready(t, k.funds), {})
CompanyCalls(t, k) ==
  (IF t \in k.charts THEN {} ELSE {Call("hist", t, {}, 0)})
  \cup (IF t \in k.funds THEN {} ELSE {Call("fund", t, {}, 0)})
IndexBody(t, k) == Body(t, Ready(t, k.tables), "none", {})
IndexCalls(t, k) == IF t \in k.tables THEN {} ELSE {Call("index", t, {}, 0)}
CompareBody(w) == Body(Cmp, IF Cardinality(w.compare) < 2 THEN "message" ELSE "loading", "none", {})
CompareCalls(w) == IF Cardinality(w.compare) < 2 THEN {} ELSE {Call("compare", Cmp, w.compare, 0)}

\* renderBody: what the active tab shows now and what it asks for.
Shown(w, b, k) ==
  IF ~w.open \/ w.active = None THEN b
  ELSE IF w.active = Cmp THEN CompareBody(w)
  ELSE IF w.active \in Indices THEN IndexBody(w.active, k)
  ELSE CompanyBody(w.active, k)
Asked(w, k) ==
  IF ~w.open \/ w.active = None THEN {}
  ELSE IF w.active = Cmp THEN CompareCalls(w)
  ELSE IF w.active \in Indices THEN IndexCalls(w.active, k)
  ELSE CompanyCalls(w.active, k)
NewsCall == Call("news", None, {}, 0)

Render(w, more) ==
  /\ W' = w /\ body' = Shown(w, body, cache)
  /\ calls' = (IF ~w.open \/ w.active = None THEN calls ELSE Detached(calls)) \cup Asked(w, cache) \cup more
  /\ strayed' = (strayed \/ (\E c \in calls : c.kind = "compare" /\ c.set # w.compare))

\* The frame is built: everything of the last one is gone.
NoCache == [charts |-> {}, funds |-> {}, tables |-> {}]
Build(c, auto, name) ==
  LET w == Booted(W, c, auto, name) IN
  /\ W' = w /\ frame' = TRUE /\ cache' = NoCache /\ body' = Shown(w, NoBody, NoCache)
  /\ calls' = Asked(w, NoCache) \cup IF w.newsOn /\ (~mobile \/ w.newsTab = "news") THEN {NewsCall} ELSE {}
  /\ news' = "loading"
Unbuild == frame' = FALSE /\ body' = NoBody /\ calls' = {} /\ news' = "none" /\ cache' = NoCache /\ UNCHANGED W

-------------------------------------------------------------------------------
Init ==
  /\ graph = "none" /\ centre = None /\ history = <<>> /\ generating = None /\ genErr = FALSE
  /\ idxCmd = None /\ aiKey = FALSE /\ mobile \in BOOLEAN
  /\ W = NewWorkspace /\ frame = FALSE /\ body = NoBody /\ news = "none"
  /\ cache = NoCache /\ calls = {} /\ steps = 0 /\ failed = FALSE /\ strayed = FALSE

\* The curated graph is loaded once.
Loaded ==
  /\ graph = "none" /\ \E g \in {"curated", "failed"} : graph' = g
  /\ UNCHANGED <<centre, history, generating, genErr, idxCmd, aiKey, mobile, W, frame, inner, steps, failed, strayed>>

\* What the host lets the user do.
Controls ==
  {"key"} \cup (IF graph \in {"none", "failed"} \/ generating # None THEN {} ELSE {"go"})
FrameShown == graph # "failed" /\ generating = None /\ graph # "none" /\ centre # None

\* saveKey and clearKey: whether there is any key, the server's or the user's, is
\* part of what the frame is made of.
SetKey ==
  /\ "key" \in Controls /\ Act /\ aiKey' = ~aiKey /\ genErr' = IF aiKey THEN genErr ELSE FALSE
  /\ \/ FrameShown /\ Build(centre, graph = "minimal", idxCmd)
     \/ UNCHANGED <<W, frame, inner>>
  /\ UNCHANGED <<graph, centre, history, generating, idxCmd, mobile, failed, strayed>>

\* select: an index goes to the frame, the centred company stays, any other is asked for.
\* Variant: the company already centred is asked for as well.
StaysNever(s) == FALSE
Stays(s) == s = centre
SelectIndex(i) ==
  /\ "go" \in Controls /\ Act /\ idxCmd' = i /\ genErr' = FALSE
  /\ IF FrameShown THEN Build(centre, graph = "minimal", i) ELSE UNCHANGED <<W, frame, inner>>
  /\ UNCHANGED <<graph, centre, history, generating, aiKey, mobile, failed, strayed>>
Ask(s, trail) ==
  /\ genErr' = FALSE
  /\ \/ /\ Stays(s) /\ history' = trail /\ UNCHANGED generating
        /\ IF trail = <<>> /\ history # <<>> THEN Build(centre, graph = "minimal", idxCmd)
           ELSE UNCHANGED <<W, frame, inner>>
     \/ /\ ~Stays(s) /\ generating' = s /\ Unbuild
        /\ history' = IF trail = history /\ centre # None THEN Append(history, centre) ELSE trail
Select(s) ==
  /\ "go" \in Controls /\ Act /\ Ask(s, history)
  /\ UNCHANGED <<graph, centre, idxCmd, aiKey, mobile, failed, strayed>>
GoBack ==
  /\ FrameShown /\ history # <<>> /\ Act
  /\ Ask(Last(history), SubSeq(history, 1, Len(history) - 1))
  /\ UNCHANGED <<graph, centre, idxCmd, aiKey, mobile, failed, strayed>>

\* The graph arrives and is centred, or the request fails and the centre stays.
Arrived ==
  /\ generating # None /\ generating' = None
  /\ \/ \E g \in {"curated", "minimal"} :
          /\ graph' = g /\ centre' = generating /\ Build(generating, g = "minimal", idxCmd)
          /\ UNCHANGED <<genErr, failed>>
     \/ /\ genErr' = TRUE /\ failed' = TRUE
        /\ IF centre = None THEN UNCHANGED <<W, frame, inner>> ELSE Build(centre, graph = "minimal", idxCmd)
        /\ UNCHANGED <<graph, centre>>
  /\ UNCHANGED <<history, idxCmd, aiKey, mobile, steps, strayed>>
\* Quotes are part of what the frame is made of, like the theme.
QuotesArrive ==
  /\ FrameShown /\ Act /\ Build(centre, graph = "minimal", idxCmd)
  /\ UNCHANGED <<host, mobile, failed, strayed>>

-------------------------------------------------------------------------------
\* In the frame.
InFrame == frame /\ Act /\ UNCHANGED <<host, mobile, frame, cache, failed>>
OpenTab(s) == InFrame /\ Render(OpenedOn(W, s), {}) /\ UNCHANGED news
CloseTab(t) == InFrame /\ W.open /\ Has(W.tabs, t) /\ Render(Closed(W, t), {}) /\ UNCHANGED news
SelTab(t) == InFrame /\ W.open /\ Has(W.tabs, t) /\ Render([W EXCEPT !.active = t], {}) /\ UNCHANGED news
ToggleCompare(s) == InFrame /\ Render(Compared(W, s), {}) /\ UNCHANGED news
SetDock(m) == InFrame /\ W.open /\ ~mobile /\ Render([W EXCEPT !.dock = m], {}) /\ UNCHANGED news
CloseWin == InFrame /\ W.open /\ W' = [W EXCEPT !.open = FALSE] /\ UNCHANGED <<body, calls, news, strayed>>

SetNewsTab(t) ==
  /\ InFrame /\ mobile /\ W' = [W EXCEPT !.newsTab = t] /\ UNCHANGED <<body, strayed>>
  /\ IF t = "chart" THEN UNCHANGED <<news, calls>> ELSE news' = "updating" /\ calls' = calls \cup {NewsCall}
ToggleNews ==
  /\ InFrame /\ ~mobile /\ W' = [W EXCEPT !.newsOn = ~@] /\ UNCHANGED <<body, strayed>>
  /\ IF W.newsOn THEN UNCHANGED <<news, calls>> ELSE news' = "updating" /\ calls' = calls \cup {NewsCall}
LoadNews ==   \* the button, and every hour
  /\ InFrame /\ W.newsOn /\ (~mobile \/ W.newsTab # "chart")
  /\ news' = "updating" /\ calls' = calls \cup {NewsCall} /\ UNCHANGED <<W, body, strayed>>
ToggleWin ==
  /\ InFrame /\ ~mobile
  /\ Render(IF W.open THEN [W EXCEPT !.open = FALSE]
            ELSE IF W.tabs = <<>> THEN OpenedOn(W, centre) ELSE [W EXCEPT !.open = TRUE], {})
  /\ UNCHANGED news

\* The answers.  Charts and fundamentals go into the nodes their tab was drawn
\* with, and only while it is active; an index table asks whether its tab is
\* active; the messages instead of a table do not.
Done(c) == calls' = calls \ {c}
Kept(field, t) == [cache EXCEPT ![field] = @ \cup {t}]
Answer == UNCHANGED <<host, mobile, W, frame, steps, failed>>

ChartArrives(c, ok) ==
  /\ c.kind = "hist" /\ Done(c) /\ Answer /\ UNCHANGED <<news, strayed>>
  /\ cache' = IF ok /\ W.active = c.of THEN Kept("charts", c.of) ELSE cache
  /\ body' = IF c.node /\ W.active = c.of THEN [body EXCEPT !.main = IF ok THEN "drawn" ELSE "message"] ELSE body
FundArrives(c, ok) ==
  /\ c.kind = "fund" /\ Done(c) /\ Answer /\ UNCHANGED <<news, strayed>>
  /\ cache' = IF ok THEN Kept("funds", c.of) ELSE cache
  /\ body' = IF c.node /\ W.active = c.of THEN [body EXCEPT !.side = IF ok THEN "drawn" ELSE "message"] ELSE body
CompareArrives(c) ==
  /\ c.kind = "compare" /\ Done(c) /\ Answer /\ UNCHANGED <<news, cache, strayed>>
  /\ body' = IF W.active = Cmp THEN Body(Cmp, "drawn", "none", c.set) ELSE body

\* Variant: the table is drawn whatever tab is active.
InPlaceAlways(t) == TRUE
InPlace(t) == W.active = t
Drawn(c) ==
  /\ cache' = Kept("tables", c.of) /\ body' = IF InPlace(c.of) THEN Body(c.of, "drawn", "none", {}) ELSE body
  /\ UNCHANGED strayed
NotDrawn(c) ==
  /\ body' = Body(c.of, "message", "none", {}) /\ calls' = Detached(calls) \ {c}
  /\ strayed' = TRUE /\ UNCHANGED cache
IndexArrives(c, ok) ==
  /\ c.kind = "index" /\ Answer /\ UNCHANGED news
  /\ \/ ok /\ c.of \notin Segments /\ Drawn(c) /\ Done(c)
     \/ /\ ok /\ c.of \in Segments /\ UNCHANGED <<body, cache, strayed>>
        /\ calls' = (calls \ {c}) \cup {Call("caps", c.of, {}, 0)}
     \/ ~ok /\ NotDrawn(c)
\* poll: market caps still pending are asked for again, eight times at most.
CapsArrive(c) ==
  /\ c.kind = "caps" /\ Answer /\ UNCHANGED news
  /\ \/ /\ c.round < MaxRounds /\ UNCHANGED <<body, cache, strayed>>
        /\ calls' = (calls \ {c}) \cup {[c EXCEPT !.round = @ + 1]}
     \/ Drawn(c) /\ Done(c)
     \/ NotDrawn(c)
NewsArrives(c, ok) ==
  /\ c.kind = "news" /\ Done(c) /\ Answer /\ news' = IF ok THEN "shown" ELSE "unavailable"
  /\ UNCHANGED <<body, cache, strayed>>

-------------------------------------------------------------------------------
HostNext ==
  \/ Loaded \/ SetKey \/ GoBack \/ Arrived \/ QuotesArrive
  \/ \E i \in Indices : SelectIndex(i)
  \/ \E s \in Symbols : Select(s)
FrameNext ==
  \/ CloseWin \/ ToggleNews \/ LoadNews \/ ToggleWin
  \/ \E s \in Symbols : OpenTab(s) \/ ToggleCompare(s)
  \/ \E t \in Tabs : CloseTab(t) \/ SelTab(t)
  \/ \E m \in {"float", "bottom", "right"} : SetDock(m)
  \/ \E t \in {"news", "chart"} : SetNewsTab(t)
AnswerNext ==
  \E c \in calls :
    \/ CompareArrives(c) \/ CapsArrive(c)
    \/ \E ok \in BOOLEAN : ChartArrives(c, ok) \/ FundArrives(c, ok) \/ IndexArrives(c, ok) \/ NewsArrives(c, ok)
Next == HostNext \/ FrameNext \/ AnswerNext
Spec == Init /\ [][Next]_vars

-------------------------------------------------------------------------------
\* The workspace is one a user can leave: the window is open only with a tab
\* to show, the active tab is one of them, and the comparison has its tab
\* exactly as long as it has companies; whatever is opened, closed, compared
\* and restored by the next frame (TerminalScreen.tsx:1039-1069).
Workspace ==
  /\ W.open => W.tabs # <<>>
  /\ (W.active = None) = (W.tabs = <<>>)
  /\ W.active # None => Has(W.tabs, W.active)
  /\ Has(W.tabs, Cmp) = (W.compare # {})
  /\ \A i, j \in DOMAIN W.tabs : W.tabs[i] = W.tabs[j] => i = j

\* The window shows the active tab's company or index, or the companies compared, however late
\* the answers come (TerminalScreen.tsx:1126-1129).  An index that could not be
\* loaded and overlapping comparisons are the exceptions.
BodyIsActiveTab ==
  ~strayed /\ frame /\ W.open =>
    body.tab = W.active /\ (body.tab = Cmp /\ body.main = "drawn" => body.set = W.compare)

\* Every step back leads to another company: no company follows itself on the
\* trail.  A request that fails leaves the centre on the trail (line 1420).
TrailMovesOn ==
  LET trail == IF generating # None \/ centre = None THEN history ELSE Append(history, centre) IN
  failed \/ \A i \in 1..(Len(trail) - 1) : trail[i] # trail[i + 1]
=============================================================================
