----------------------------- MODULE GraphFacts -----------------------------
(***************************************************************************)
(* What is true of the graphs the tasks ask about, found by enumeration    *)
(* from the wording of each task and from nothing the exercises compute:   *)
(* the reference their answer keys and their engines are checked against.  *)
(* A graph is a set of edges {u, v}; the parameters n, m, k of a formula   *)
(* range over the values TaskBank gives them.                              *)
(***************************************************************************)
EXTENDS TaskBank

YesNo(b) == IF b THEN "yes" ELSE "no"
TheOne(S) == CHOOSE x \in S : S = {x}       \* S has exactly one member

Sharing(E, V) == {v \in V : \E w \in V \ {v} : Degree(E, v) = Degree(E, w)}

(* A regular graph on a ring: the nearest neighbours on both sides and,    *)
(* for an odd degree, the vertex opposite.  There is a regular graph of a  *)
(* degree if and only if this one is; the assumption enumerates up to 5.   *)
Ring(n, r) ==
    {edgeKey(v, 1 + ((v - 1 + j) % n)) : v \in 1..n,
        j \in (1..(r \div 2)) \cup {x \in {n \div 2} : r % 2 = 1}}
Regular(n, r) == r < n /\ \A v \in 1..n : Degree(Ring(n, r), v) = r
ASSUME RingSuffices ==
    \A n \in 2..5, r \in 1..4 :
        Regular(n, r) <=> \E E \in SUBSET Pairs(n) : \A v \in 1..n : Degree(E, v) = r

(* Isomorphism, and the classes of a set of graphs.                        *)
Image(E, f) == {{f[x] : x \in e} : e \in E}
Isomorphic(V, E, F) ==
    /\ Cardinality(E) = Cardinality(F)
    /\ \E f \in Permutations(V) : Image(E, f) = F
Classes(V, S) ==
    LET AddNew(E, reps) ==
            IF \E F \in reps : Isomorphic(V, E, F) THEN reps ELSE reps \cup {E}
    IN  FoldSet(AddNew, {}, S)

(* Every tree grows leaf by leaf, every graph edge by edge.                *)
Trees ==
    LET tree[n \in 1..6] ==
            IF n = 1 THEN {{}}
            ELSE Classes(1..n, {E \cup {edgeKey(v, n)} : E \in tree[n - 1], v \in 1..(n - 1)})
    IN  tree
GraphsWith(n, k) ==
    LET graph[j \in 0..k] ==
            IF j = 0 THEN {{}}
            ELSE Classes(1..n, {E \cup {e} : E \in graph[j - 1], e \in Pairs(n)}
                                  \ graph[j - 1])
    IN  graph[k]

SelfComplementary(n, m) ==
    /\ Cardinality(Pairs(n)) = 2 * m
    /\ \E E \in kSubset(m, Pairs(n)) : Isomorphic(1..n, E, Pairs(n) \ E)
HalfOf(n) == Cardinality(Pairs(n)) \div 2

-----------------------------------------------------------------------------
(* Walks of a drawing.                                                     *)
Joined(g, u, v) == \E i \in DOMAIN g.edges : {g.edges[i][1], g.edges[i][2]} = {u, v}
Grow(g, S) ==
    {Append(pv[1], pv[2]) : pv \in {x \in S \X NodesOf(g) :
        x[2] \notin Range(x[1]) /\ Joined(g, Last(x[1]), x[2])}}
Paths(g, s) ==
    LET path[n \in 1..Len(g.nodes)] == IF n = 1 THEN {<<s>>} ELSE Grow(g, path[n - 1])
    IN  UNION Range(path)
Shortest(g, s, t) == Min({Len(p) - 1 : p \in {q \in Paths(g, s) : Last(q) = t}})
Farthest(g, v) == Max({Shortest(g, v, w) : w \in NodesOf(g)})

(* No part of the vertices V is cut off from the rest.                     *)
Linked(g, V) ==
    \A S \in SUBSET V \ {{}, V} : \E u \in S, v \in V \ S : Joined(g, u, v)

(* A trail that has used some edges and is at a vertex can be completed.   *)
HasEulerCycle(ends, s) ==
    LET closes[p \in (SUBSET DOMAIN ends) \X UNION Range(ends)] ==
            IF p[1] = DOMAIN ends THEN p[2] = s
            ELSE \E i \in DOMAIN ends \ p[1] :
                    /\ p[2] \in ends[i]
                    /\ closes[<<p[1] \cup {i}, TheOne(ends[i] \ {p[2]})>>]
    IN  closes[<<{}, s>>]
Bridges == << {"A", "B"}, {"A", "B"}, {"A", "C"}, {"A", "C"}, {"A", "D"}, {"B", "D"}, {"C", "D"} >>
IsEulerian(n) == HasEulerCycle([e \in Pairs(n) |-> e], 1)

(* Arcs of a digraph.                                                      *)
Arcs(g) == Range(g.edges)
OutOf(g, v) == Cardinality({w \in NodesOf(g) : <<v, w>> \in Arcs(g)})
Into(g, v) == Cardinality({w \in NodesOf(g) : <<w, v>> \in Arcs(g)})
Strong(g) ==
    \A S \in SUBSET NodesOf(g) \ {{}, NodesOf(g)} :
        \E u \in S, v \in NodesOf(g) \ S : <<u, v>> \in Arcs(g)

-----------------------------------------------------------------------------
(* The true answers, part by part.                                         *)
ComplementDegree(n, d) ==
    TheOne({Degree(Pairs(n) \ E, 1) : E \in {F \in SUBSET Pairs(n) : Degree(F, 1) = d[n]}})
Relations == SUBSET ((1..3) \X (1..3))
Loopless(R) == \A x \in 1..3 : <<x, x>> \notin R
PropertyOf == [reflexive |-> {R \in Relations : \A x \in 1..3 : <<x, x>> \in R},
               irreflexive |-> {R \in Relations : ~\E x \in 1..3 : <<x, x>> \in R},
               symmetric |-> {R \in Relations : \A p \in R : <<p[2], p[1]>> \in R}]
Reciprocal(n, m) ==         \* the complement of K_{n,m} is K_n and K_m side by side
    LET cross == {edgeKey(i, n + j) : i \in 1..n, j \in 1..m}
    IN  Pairs(n + m) \ cross = kSubset(2, 1..n) \cup kSubset(2, (n + 1)..(n + m))

TrueValues ==
    "1.6" :> << [p \in Small \X Small |->
                    Cardinality({edgeKey(<<0, i>>, <<1, j>>) : i \in 1..p[1], j \in 1..p[2]})] >>
 @@ "1.16" :> << [p \in (2..4) \X (0..1) |->
                    TheOne({Cardinality(Pairs(p[1]) \ E) : E \in kSubset(p[2], Pairs(p[1]))})] >>
 @@ "1.15" :> << [n \in 2..4 |-> ComplementDegree(n, [i \in 2..4 |-> 1])],
                 [n \in 2..4 |-> ComplementDegree(n, [i \in 2..4 |-> i - 1])],
                 [n \in 2..4 |-> ComplementDegree(n, [i \in 2..4 |-> 0])] >>
 @@ "1.19" :> << Value(TheOne(UNION
                    {{Cardinality(Sharing(Pairs(n) \ E, 1..n)) :
                        E \in {F \in SUBSET Pairs(n) : Cardinality(Sharing(F, 1..n)) = 2}} :
                     n \in 2..4})) >>
 @@ "1.1" :> << Value(CHOOSE p \in DOMAIN PropertyOf :
                        PropertyOf[p] = {R \in Relations : Loopless(R)}) >>
 @@ "4.1" :> << Value(Cardinality(Trees[5])), Value(Cardinality(Trees[6])) >>
 @@ "4.11" :> << Value(Cardinality(GraphsWith(6, 21 - 18))),
                 [n \in {4, 5} |-> Cardinality(GraphsWith(n, 2))] >>
 @@ "rdc" :> (LET e == [v \in NodesOf(rdcGraph) |-> Farthest(rdcGraph, v)]
             IN  << Value(Min(Range(e))), Value(Max(Range(e))),
                    Value({v \in DOMAIN e : e[v] = Min(Range(e))}) >>)
 @@ "dist" :> << Value(Shortest(skipGraph, "1", "7")), Value(Shortest(skipGraph, "1", "4")) >>
 @@ "semidegrees" :> << Value(MapThenSumSet(LAMBDA v : OutOf(digraph, v), NodesOf(digraph))),
                        Value(OutOf(digraph, "A")), Value(Into(digraph, "B")) >>

TrueDecisions ==
    "1.8" :> << YesNo(\E n \in 2..8 : Cardinality(Pairs(n)) = 15),
                YesNo(\E n \in 2..8 : Cardinality(Pairs(n)) = 18),
                YesNo(\E n \in 2..8 : Cardinality(Pairs(n)) = 21),
                YesNo(\A k \in Small : \E n \in 2..13 : Cardinality(Pairs(n)) = 8 * k * k + 2 * k) >>
 @@ "1.11" :> << YesNo(\E k \in 1..3 : Regular(2 * k - 1, 1)), YesNo(\A k \in 1..3 : Regular(2 * k, 1)) >>
 @@ "1.12" :> << YesNo(Regular(17, 15)), YesNo(Regular(17, 2)), YesNo(Regular(17, 1)) >>
 @@ "1.14" :> << YesNo(Regular(100, 3)), YesNo(Regular(101, 3)), YesNo(Regular(102, 3)) >>
 @@ "1.7" :> << YesNo(\A k \in 1..12 : \E n \in 1..k, m \in 1..k :
                          Cardinality((1..n) \X (1..m)) = k) >>
 @@ "1.13" :> << YesNo(Regular(5, 2)), YesNo(Regular(5, 3)), YesNo(\A m \in Small : Regular(2 * m, 1)) >>
 @@ "1.18" :> << YesNo(\A n \in Small, m \in Small : Reciprocal(n, m)) >>
 @@ "iso-detect" :>
       (LET E == {Range(hexagonAndTriangles.edges[i]) : i \in 1..6}
            F == {Range(hexagonAndTriangles.edges[i]) : i \in 7..12}
            f == [x \in {"r1", "r2", "r3", "r4", "r5", "r6"} |->
                    CASE x = "r1" -> "l1" [] x = "r2" -> "l2" [] x = "r3" -> "l3"
                      [] x = "r4" -> "l4" [] x = "r5" -> "l5" [] x = "r6" -> "l6"]
        IN  << YesNo(Isomorphic(UNION E, E, Image(F, f))) >>)
 @@ "4.12" :> << YesNo(SelfComplementary(6, HalfOf(6))), YesNo(SelfComplementary(7, HalfOf(7))),
                 YesNo(\E k \in 1..3 : SelfComplementary(4 * k - 1, HalfOf(4 * k - 1))) >>
 @@ "4.14" :> << YesNo(\E n \in 2..8 : SelfComplementary(n, 5)),
                 YesNo(\E n \in 2..8 : SelfComplementary(n, 7)) >>
 @@ "connected" :> << YesNo(Linked(twoTriangles, NodesOf(twoTriangles))) >>
 @@ "konigsberg" :> << YesNo(HasEulerCycle(Bridges, "A")) >>
 @@ "kn-euler" :> << YesNo(IsEulerian(3)), YesNo(IsEulerian(4)), YesNo(IsEulerian(5)) >>
 @@ "dag" :> << YesNo(\E v \in NodesOf(dag) : Into(dag, v) = 0),
                YesNo(\E v \in NodesOf(dag) : OutOf(dag, v) = 0), YesNo(Strong(dag)) >>

=============================================================================
