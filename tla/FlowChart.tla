------------------------------ MODULE FlowChart -------------------------------
(***************************************************************************)
(* js/mermaid.core.js 1126-1562 and 9515-9720: the statements of a         *)
(* flowchart, which fill graphDb while they are parsed, and the compound   *)
(* graph that draw() makes of it; js/mermaid.js has the class Graph of     *)
(* graphlib, and the renderer.  Styles, classes and clicks are left out.   *)
(*                                                                         *)
(* draw() catches what the parser throws and goes on with what has been    *)
(* read, so a text may end anywhere: at its end, at a parse error, or at a *)
(* linkStyle of a link that does not exist.  What the renderer and the     *)
(* layout do with the graph is left out, except where they throw.          *)
(***************************************************************************)
EXTENDS Naturals, Sequences, FiniteSets, SequencesExt

CONSTANTS
  Vertex,         \* the names that are written in the texts
  Links,          \* the pairs of them that are linked
  SubGraphIds,    \* the sequence of the names "subGraph0", "subGraph1", ...
  MaxStatements,  \* bound on the statements of a text, subgraphs not counted
  MaxSections     \* how often indexNodes2() may be called: 2001

Blank == "newline"  \* what an empty line or a second separator adds to a list
Top == "graph"      \* GRAPH_NODE, the parent of what is in no subgraph

ASSUME FlowAssumption ==
  /\ Links \subseteq Vertex \X Vertex /\ Top \notin Vertex
  /\ SubGraphIds \in Seq(STRING) /\ Blank \notin ToSet(SubGraphIds)
  /\ \A i, j \in DOMAIN SubGraphIds : SubGraphIds[i] = SubGraphIds[j] => i = j
  /\ MaxSections \in Nat \ {0}

VARIABLES
  vertices,   \* the names of the vertices
  edges,      \* the links
  subGraphs,  \* the subgraphs that have ended
  open,       \* those that have begun, the innermost last: what they name so far
  htmlLabels, \* conf.htmlLabels
  statements, \* how many statements and subgraphs have been read
  graph       \* what has been drawn

flowVars == <<vertices, edges, subGraphs, open, htmlLabels, statements, graph>>

NoGraph == [parent |-> << >>, edges |-> {}, how |-> "none"]

FlowInit ==
  /\ vertices = {} /\ edges = << >> /\ subGraphs = << >> /\ open = << >>
  /\ htmlLabels \in BOOLEAN
  /\ statements = [read |-> 0, begun |-> 0]
  /\ graph = NoGraph

-----------------------------------------------------------------------------
\* A statement adds what it names to the innermost subgraph.
Read(names) ==
  /\ graph = NoGraph /\ statements.read < MaxStatements
  /\ statements' = [statements EXCEPT !.read = @ + 1]
  /\ open' = IF open = << >> THEN open
             ELSE [open EXCEPT ![Len(open)].list = @ \o names]
  /\ UNCHANGED <<subGraphs, htmlLabels, graph>>

AddVertex(v) ==
  /\ Read(<<v>>)
  /\ vertices' = vertices \cup {v}
  /\ UNCHANGED edges

AddLink(link) ==
  /\ Read(link)
  /\ vertices' = vertices \cup ToSet(link)
  /\ edges' = Append(edges, link)

\* A line without a statement is an item of the list all the same.
EmptyLine == open # << >> /\ Read(<<Blank>>) /\ UNCHANGED <<vertices, edges>>

BeginSubGraph ==
  /\ graph = NoGraph /\ statements.begun < Len(SubGraphIds)
  /\ statements' = [statements EXCEPT !.begun = @ + 1]
  /\ open' = Append(open, [list |-> << >>, begun |-> statements.begun + 1])
  /\ UNCHANGED <<vertices, edges, subGraphs, htmlLabels, graph>>

\* addSubGraph() is called at the end of a subgraph, and gives it an id that the
\* one around it names.  uniq() keeps the first of each name.
Uniq(list) ==
  LET uniq[k \in 0 .. Len(list)] ==
        IF k = 0 THEN << >>
        ELSE LET u == uniq[k - 1]
             IN  IF list[k] \in ToSet(u) THEN u ELSE Append(u, list[k])
  IN  uniq[Len(list)]

AddSubGraph ==
  LET inner == Last(open)
      id == SubGraphIds[Len(subGraphs) + 1]
  IN  /\ graph = NoGraph /\ open # << >>
      /\ subGraphs' = Append(subGraphs,
           [id |-> id, nodes |-> Uniq(inner.list), begun |-> inner.begun,
            around |-> IF Len(open) = 1 THEN 0 ELSE open[Len(open) - 1].begun])
      /\ open' = [i \in 1 .. Len(open) - 1 |->
                    IF i = Len(open) - 1 THEN [open[i] EXCEPT !.list = Append(@, id)] ELSE open[i]]
      /\ UNCHANGED <<vertices, edges, htmlLabels, statements, graph>>

-----------------------------------------------------------------------------
\* Graph.setNode() of a node that may be new.
SetNode(parent, v) ==
  IF v \in DOMAIN parent THEN parent
  ELSE [w \in DOMAIN parent \cup {v} |-> IF w = v THEN Top ELSE parent[w]]

\* A node, its parent, the parent of that, and so on.
Ancestors(parent, v) ==
  LET names == DOMAIN parent \cup {v}
      Closed(S) == v \in S /\ \A a \in S \cap DOMAIN parent : parent[a] \in S \cup {Top}
  IN  {a \in names : \A S \in SUBSET names : Closed(S) => a \in S}

\* Graph.setParent() throws if that would make a cycle, and draw() with it.
SetParent(g, v, id) ==
  IF g.how # "none" THEN g
  ELSE IF v \in Ancestors(g.parent, id) THEN [parent |-> g.parent, how |-> "cycle"]
  ELSE [parent |-> [SetNode(SetNode(g.parent, id), v) EXCEPT ![v] = id], how |-> "none"]

\* The inner loop of draw(), for what the i-th subgraph names.
SetParentsOf(g, i) ==
  LET upTo[k \in 0 .. Len(subGraphs[i].nodes)] ==
        IF k = 0 THEN g ELSE SetParent(upTo[k - 1], subGraphs[i].nodes[k], subGraphs[i].id)
  IN  upTo[Len(subGraphs[i].nodes)]

NoParents == [parent |-> << >>, how |-> "none"]

\* Fault: the subgraphs are gone through in the order they have ended.
SetParentsForward ==
  LET upTo[i \in 0 .. Len(subGraphs)] ==
        IF i = 0 THEN NoParents ELSE SetParentsOf(upTo[i - 1], i)
  IN  upTo[Len(subGraphs)]

\* The loop over the subgraphs, the last one first.
SetParents ==
  LET from[k \in 0 .. Len(subGraphs)] ==
        IF k = 0 THEN NoParents ELSE SetParentsOf(from[k - 1], Len(subGraphs) + 1 - k)
  IN  from[Len(subGraphs)]

\* addVertices() sets a node with a label for each vertex, and subgraphs are
\* vertices by now.
Labelled == vertices \cup {subGraphs[i].id : i \in DOMAIN subGraphs}

AddVertices(parent) ==
  [v \in DOMAIN parent \cup Labelled |-> IF v \in DOMAIN parent THEN parent[v] ELSE Top]

\* addEdges() numbers the edges, so that those between the same nodes differ.
AddEdges == {<<edges[cnt], cnt>> : cnt \in DOMAIN edges}

\* render() sets a label for each node without children that has none, which
\* throws if the node is undefined.
Renders(parent) ==
  \A v \in DOMAIN parent \ Labelled : \E w \in DOMAIN parent : parent[w] = v

\* layout() leaves out the nodes with children, but setEdge() brings one that a
\* link ends at back, without a label; longestPath(), which comes to every node,
\* throws.  A link of such a node with itself is taken away before and not put back
\* after, as the node has no rank, so that updateInputGraph() throws.
LaidOut(parent) ==
  \A cnt \in DOMAIN edges : \A v \in ToSet(edges[cnt]) : \A w \in DOMAIN parent : parent[w] # v

\* The subgraphs that the one at pos names, in that order: getPosForId() for each.
Called(pos) ==
  LET nodes == subGraphs[pos].nodes
      called[k \in 0 .. Len(nodes)] ==
        IF k = 0 THEN << >>
        ELSE LET child == {i \in DOMAIN subGraphs : subGraphs[i].id = nodes[k]}
             IN  IF child = {} THEN called[k - 1]
                 ELSE Append(called[k - 1], CHOOSE i \in child : TRUE)
  IN  called[Len(nodes)]

\* The calls of indexNodes2() that are still to come after the first c of them;
\* one begins with those it makes itself.  The call after the last one that is
\* allowed returns nothing, and its caller throws.
IndexNodes2 ==
  LET todo[c \in 0 .. MaxSections] ==
        IF c = 0 THEN <<Len(subGraphs)>>
        ELSE LET t == todo[c - 1]
             IN  IF t = << >> THEN t ELSE Called(Head(t)) \o Tail(t)
  IN  todo[MaxSections]

Indexed == subGraphs = << >> \/ IndexNodes2 = << >>

\* The labels of the edges, if they are not html, get their boxes; the loop over
\* them takes the one at the index the loop over the subgraphs has ended with.
Boxed == htmlLabels \/ edges = << >> \/ Len(subGraphs) < Len(edges)

DrawFlowChart ==
  LET g == SetParents
      parent == AddVertices(g.parent)
  IN  /\ graph = NoGraph
      /\ graph' = IF g.how # "none" THEN [parent |-> g.parent, edges |-> {}, how |-> g.how]
                  ELSE [parent |-> parent, edges |-> AddEdges,
                        how |-> IF ~Renders(parent) THEN "unlabelled"
                                ELSE IF ~LaidOut(parent) THEN "rank"
                                ELSE IF ~Indexed THEN "index"
                                ELSE IF ~Boxed THEN "boxes" ELSE "drawn"]
      /\ UNCHANGED <<vertices, edges, subGraphs, open, htmlLabels, statements>>

\* The next diagram: clear() before its text is parsed.
ClearFlowChart ==
  /\ graph # NoGraph
  /\ vertices' = {} /\ edges' = << >> /\ subGraphs' = << >> /\ open' = << >>
  /\ statements' = [read |-> 0, begun |-> 0]
  /\ graph' = NoGraph
  /\ UNCHANGED htmlLabels

FlowNext ==
  \/ BeginSubGraph \/ AddSubGraph \/ EmptyLine \/ DrawFlowChart \/ ClearFlowChart
  \/ \E v \in Vertex : AddVertex(v)
  \/ \E link \in Links : AddLink(link)

FlowSpec == FlowInit /\ [][FlowNext]_flowVars

-----------------------------------------------------------------------------
Named(i) == ToSet(subGraphs[i].nodes)

\* The first subgraph to end that names v: the innermost one, if they are nested.
FirstNaming(v) ==
  LET naming == {i \in DOMAIN subGraphs : v \in Named(i)}
  IN  IF naming = {} THEN Top ELSE subGraphs[CHOOSE i \in naming : \A j \in naming : i <= j].id

\* The subgraphs that something is drawn in.
Filled == {FirstNaming(v) : v \in UNION {Named(i) : i \in DOMAIN subGraphs}}

\* A subgraph names itself, directly or through those it names: there are some
\* each of which names one of them.
Circular ==
  \E S \in (SUBSET DOMAIN subGraphs) \ {{}} :
    \A i \in S : \E j \in S : subGraphs[j].id \in Named(i)

\* The chains of subgraphs from the i-th on, each of which names the next one.
Chains(i) ==
  {chain \in UNION {[1 .. n -> DOMAIN subGraphs] : n \in 1 .. Len(subGraphs)} :
     chain[1] = i /\ \A k \in 2 .. Len(chain) : subGraphs[chain[k]].id \in Named(chain[k - 1])}

\* What the drawn graph is, whatever is named twice, inside and outside of
\* subgraphs, and wherever the text has ended.  Each vertex is there, in the
\* innermost of the subgraphs that name it, as is each link, though it be there
\* more than once; a subgraph is in the one around it unless its id is also
\* written as a name.  With labels in html draw() comes to its end unless a
\* subgraph contains itself by a written id, there are too many chains of
\* subgraphs from the last one on, one has an empty line, or a link ends at one
\* that something is drawn in; with any of the last three, and no circle, it
\* never does.
FlowRight ==
  graph # NoGraph =>
    LET ids == {subGraphs[i].id : i \in DOMAIN subGraphs}
        blank == Blank \notin vertices /\ \E i \in DOMAIN subGraphs : Blank \in Named(i)
        long == Cardinality(Chains(Len(subGraphs))) > MaxSections
        linked == \E cnt \in DOMAIN edges : ToSet(edges[cnt]) \cap Filled # {}
    IN  /\ htmlLabels /\ ~Circular /\ ~long /\ ~blank /\ ~linked => graph.how = "drawn"
        /\ blank \/ linked => graph.how # "drawn"
        /\ ~Circular /\ long => graph.how # "drawn"
        /\ graph.how = "cycle" => Circular
        /\ graph.how = "index" => Circular \/ long
        /\ graph.how # "cycle" =>
             /\ DOMAIN graph.parent \ {Blank} = (vertices \cup ids) \ {Blank}
             /\ \A v \in DOMAIN graph.parent : graph.parent[v] = FirstNaming(v)
             /\ \A i, j \in DOMAIN subGraphs :
                  subGraphs[i].id \notin vertices /\ subGraphs[i].around = subGraphs[j].begun
                    => graph.parent[subGraphs[i].id] = subGraphs[j].id
             /\ Cardinality(graph.edges) = Len(edges)
=============================================================================
