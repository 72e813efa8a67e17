----------------------------- MODULE GraphView -----------------------------
(***************************************************************************)
(* How the terminal's frame reads a relationship graph around its centre   *)
(* (screens/TerminalScreen.tsx, graphHtml): the filters of the toolbar,    *)
(* the sides of the web layout, the zones of the grid layout and the       *)
(* blocks of the side panel, four readings of the same edges.              *)
(***************************************************************************)
EXTENDS Integers, FiniteSets, Sequences

EdgeTypes == {"supplies", "finances", "invests", "group", "competitor"}
Flow == {"supplies", "finances"}

\* An edge is [src, dst, type].
Touching(edges, c) == {e \in edges : e.src = c \/ e.dst = c}
Ends(edges) == {e.src : e \in edges} \cup {e.dst : e \in edges}

\* The centre, what it touches, and how many edges each node has in the whole graph.
Subgraph(edges, c) ==
  LET links == Touching(edges, c)
      ids   == Ends(links) \cup {c}
  IN [nodes |-> {[id |-> n, deg |-> Cardinality(Touching(edges, n))] : n \in ids}, links |-> links]

-------------------------------------------------------------------------------
\* The filters.
EdgeIsIn(e, c)  == e.dst = c /\ e.type \in Flow
EdgeIsOut(e, c) == e.src = c /\ e.type \in Flow
\* Variant: who is held is not told from who holds.
EdgeMatchBothWays(e, c, mode) ==
  CASE mode = "in"        -> EdgeIsIn(e, c)
    [] mode = "out"       -> EdgeIsOut(e, c)
    [] mode = "group"     -> e.type = "group" /\ c \in {e.src, e.dst}
    [] mode = "comp"      -> e.type = "competitor" /\ c \in {e.src, e.dst}
    [] mode \in {"investors", "invested"} -> e.type = "invests" /\ c \in {e.src, e.dst}
    [] OTHER              -> TRUE
EdgeMatch(e, c, mode) ==
  CASE mode = "in"        -> EdgeIsIn(e, c)
    [] mode = "out"       -> EdgeIsOut(e, c)
    [] mode = "group"     -> e.type = "group" /\ c \in {e.src, e.dst}
    [] mode = "comp"      -> e.type = "competitor" /\ c \in {e.src, e.dst}
    [] mode = "investors" -> e.type = "invests" /\ e.dst = c
    [] mode = "invested"  -> e.type = "invests" /\ e.src = c
    [] OTHER              -> TRUE   \* all
HlModes == {"in", "out", "group", "comp", "investors", "invested"}

\* applyHl: the links and the nodes left bright.
Bright(edges, c, mode) ==
  LET links == {e \in Touching(edges, c) : EdgeMatch(e, c, mode)} IN
  [links |-> links, nodes |-> Ends(links) \cup {c}]

-------------------------------------------------------------------------------
\* Web layout: the colour of an edge, the order of drawing, the side of a node.
EdgeColor(e, c) ==
  IF e.type = "invests" THEN "invest"
  ELSE IF EdgeIsIn(e, c) THEN "in"
  ELSE IF EdgeIsOut(e, c) THEN "out"
  ELSE IF e.type = "group" THEN "group" ELSE "neutral"
Priority(e, c) ==
  IF EdgeIsIn(e, c) \/ EdgeIsOut(e, c) THEN 3 ELSE IF e.type = "invests" THEN 2 ELSE IF e.type = "group" THEN 1 ELSE 0
SideOf(edges, c, n) ==
  LET flows == {e \in edges : e.type \in Flow \cup {"invests"}}
      isIn  == \E e \in flows : e.src = n /\ e.dst = c
      isOut == \E e \in flows : e.src = c /\ e.dst = n
  IN IF n = c \/ isIn = isOut THEN 0 ELSE IF isIn THEN -1 ELSE 1

\* Grid layout: the zone of a node, the first that fits.
Links(edges, c, n, types, toC) ==
  \E e \in edges : e.type \in types /\ (IF toC THEN e.src = n /\ e.dst = c ELSE e.src = c /\ e.dst = n)
CatOf(edges, c, n) ==
  IF Links(edges, c, n, Flow, TRUE) THEN "sup"
  ELSE IF Links(edges, c, n, Flow, FALSE) THEN "cust"
  ELSE IF Links(edges, c, n, {"invests"}, TRUE) THEN "inv"
  ELSE IF Links(edges, c, n, {"invests"}, FALSE) THEN "hold"
  ELSE IF \E toC \in BOOLEAN : Links(edges, c, n, {"group"}, toC) THEN "grp" ELSE "comp"
\* Zones stacked to the left and the right of the centre, rows above and below.
ZoneSide(cat) == IF cat \in {"sup", "inv"} THEN -1 ELSE IF cat \in {"cust", "hold"} THEN 1 ELSE 0

-------------------------------------------------------------------------------
\* The blocks of the panel, in their order, with the companies each names.
Other(e, c) == IF e.src = c THEN e.dst ELSE e.src
PanelBlocks(edges, c) ==
  LET block(title, type, toC) ==
        [title |-> title, edges |-> {e \in edges : e.type = type /\ (IF toC THEN e.dst = c ELSE e.src = c)}]
      both(title, type) == [title |-> title, edges |-> {e \in Touching(edges, c) : e.type = type}]
  IN << block("Suppliers", "supplies", TRUE), block("Customers / demand", "supplies", FALSE),
        block("Financiers", "finances", TRUE), block("Finances purchases of", "finances", FALSE),
        block("Investors", "invests", TRUE), block("Holdings / investments", "invests", FALSE),
        both("Competitors", "competitor"), both("Group", "group") >>

-------------------------------------------------------------------------------
\* The four readings agree, for a graph without an edge from a company to itself:
\* every edge at the centre answers to exactly one filter and is in exactly one
\* block; a node the web puts on a side is in a zone of that side, and one that is
\* bright under a filter is named by an edge of it (TerminalScreen.tsx:345-416,
\* 602-667).
ReadingsAgree(edges, c) ==
  /\ \A e \in Touching(edges, c) :
       /\ Cardinality({m \in HlModes : EdgeMatch(e, c, m)}) = 1
       /\ Cardinality({b \in DOMAIN PanelBlocks(edges, c) : e \in PanelBlocks(edges, c)[b].edges}) = 1
  /\ \A n \in Ends(Touching(edges, c)) \ {c} :
       /\ SideOf(edges, c, n) \in {0, ZoneSide(CatOf(edges, c, n))}
       /\ \E m \in HlModes : n \in Bright(edges, c, m).nodes
       /\ \E e \in Touching(edges, c) : Other(e, c) = n
=============================================================================
