----------------------------- MODULE GraphTools -----------------------------
(***************************************************************************)
(* The graph primitives the exercises share                                *)
(* (subjects/discrete-math/components/tasks/taskkit.tsx and                *)
(* components/GT01/GraphVisuals.tsx).  A drawing is a sequence of nodes    *)
(* and a sequence of edges, each a pair <<source, target>>; an edge is     *)
(* named by its place.  Coordinates and colours are left out.              *)
(***************************************************************************)
EXTENDS Integers, Sequences, FiniteSets, SequencesExt, FiniteSetsExt, Functions

Infinity == 1000

GraphData(nodes, edges) == [nodes |-> nodes, edges |-> edges, directed |-> FALSE]
Digraph(nodes, edges) == [nodes |-> nodes, edges |-> edges, directed |-> TRUE]

NodesOf(g) == Range(g.nodes)
Count(i, P(_)) == Cardinality({j \in i : P(j)})

(* An undirected edge between two vertices of a drawing.                   *)
edgeKey(u, v) == {u, v}
completeEdges(nodes) == kSubset(2, Range(nodes))
Pairs(n) == kSubset(2, 1..n)

(* Degrees, of a drawing and of a set of edge keys.                        *)
OutDegree(g, v) == Count(DOMAIN g.edges, LAMBDA i : g.edges[i][1] = v)
InDegree(g, v) == Count(DOMAIN g.edges, LAMBDA i : g.edges[i][2] = v)
computeDegrees(g) == [v \in NodesOf(g) |-> OutDegree(g, v) + InDegree(g, v)]
Degree(E, v) == Cardinality({e \in E : v \in e})
SumDegrees(E, V) == MapThenSumSet(LAMBDA v : Degree(E, v), V)

(* An edge of an undirected drawing leads both ways.                       *)
Leads(g, i, u, v) == g.edges[i] \in {<<u, v>>} \cup (IF g.directed THEN {} ELSE {<<v, u>>})
adjacencyMap(g) ==
    [v \in NodesOf(g) |->
        {w \in NodesOf(g) : \E i \in DOMAIN g.edges : Leads(g, i, v, w)}]

(* The first edge that leads from u to v, 0 if there is none.              *)
edgeBetween(g, u, v) ==
    LET S == {i \in DOMAIN g.edges : Leads(g, i, u, v)}
    IN  IF S = {} THEN 0 ELSE Min(S)

(* What the two searches return (GraphSearch has their loops): the ball of *)
(* each radius round a vertex, and the vertices that can be reached.       *)
Ball(adj, v) ==
    LET ball[k \in 0..Cardinality(DOMAIN adj)] ==
            IF k = 0 THEN {v}
            ELSE ball[k - 1] \cup UNION {adj[u] : u \in ball[k - 1]}
    IN  ball
Reach(adj, v) == Ball(adj, v)[Cardinality(DOMAIN adj)]
bfsDistances(g, v) ==
    LET ball == Ball(adjacencyMap(g), v)
    IN  [w \in Reach(adjacencyMap(g), v) |-> Min({k \in DOMAIN ball : w \in ball[k]})]
distance(g, u, v) ==
    LET dist == bfsDistances(g, u) IN IF v \in DOMAIN dist THEN dist[v] ELSE Infinity

eccentricity(g, v) ==
    LET dist == bfsDistances(g, v)
    IN  IF Cardinality(DOMAIN dist) < Len(g.nodes) THEN Infinity ELSE Max(Range(dist))
radiusDiameterCenter(g) ==
    LET ecc == [v \in NodesOf(g) |-> eccentricity(g, v)]
        finite == Range(ecc) \ {Infinity}
        radius == IF finite = {} THEN Infinity ELSE Min(finite)
    IN  [radius |-> radius,
         diameter |-> IF finite = {} THEN Infinity ELSE Max(finite),
         center |-> {v \in NodesOf(g) : ecc[v] = radius}]

components(g) == {Reach(adjacencyMap(g), v) : v \in NodesOf(g)}
isConnected(g) == Len(g.nodes) <= 1 \/ Cardinality(components(g)) = 1

WithoutVertex(g, v) ==
    [g EXCEPT !.nodes = SelectSeq(@, LAMBDA w : w # v),
              !.edges = SelectSeq(@, LAMBDA e : e[1] # v /\ e[2] # v)]
WithoutEdge(g, i) == [g EXCEPT !.edges = RemoveAt(@, i)]
isCutVertex(g, v) == Cardinality(components(WithoutVertex(g, v))) > Cardinality(components(g))
isBridge(g, i) == Cardinality(components(WithoutEdge(g, i))) > Cardinality(components(g))

=============================================================================
