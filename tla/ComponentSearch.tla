--------------------------- MODULE ComponentSearch ---------------------------
(***************************************************************************)
(* The loops of `components' (taskkit.tsx): for every vertex not seen yet, *)
(* a depth-first search with a stack collects one component.               *)
(***************************************************************************)
EXTENDS GraphTools

CONSTANT Order          \* the vertices in the order of the drawing

VARIABLES
    adjacent,           \* adjacencyMap
    at,                 \* how many vertices of the outer loop are behind
    seen,
    stack,
    comp,               \* the component being collected, an array
    todo,               \* neighbours of the vertex popped last
    out                 \* the array of components

compVars == <<adjacent, at, seen, stack, comp, todo, out>>
Vertices == {Order[i] : i \in DOMAIN Order}
ASSUME OrderAssumption == Order \in Seq(Vertices)

CompInit ==
    /\ adjacent \in [Vertices -> SUBSET Vertices]
    /\ at = 0 /\ seen = {} /\ stack = <<>> /\ comp = <<>> /\ todo = {} /\ out = <<>>

Collected == IF comp = <<>> THEN out ELSE Append(out, comp)
NextNode ==
    /\ stack = <<>> /\ todo = {} /\ at < Len(Order)
    /\ LET node == Order[at + 1]
       IN  IF node \in seen THEN stack' = <<>> /\ UNCHANGED seen
           ELSE stack' = <<node>> /\ seen' = seen \cup {node}
    /\ at' = at + 1
    /\ out' = Collected /\ comp' = <<>>
    /\ UNCHANGED <<adjacent, todo>>
Pop ==
    /\ todo = {} /\ stack # <<>>
    /\ LET x == stack[Len(stack)]
       IN  comp' = Append(comp, x) /\ todo' = adjacent[x]
    /\ stack' = SubSeq(stack, 1, Len(stack) - 1)
    /\ UNCHANGED <<adjacent, at, seen, out>>
PushesTwice ==                                                     \* mutant
    /\ \E v \in todo :
        /\ todo' = todo \ {v}
        /\ IF v \in Range(comp) THEN UNCHANGED <<seen, stack>>
           ELSE seen' = seen \cup {v} /\ stack' = Append(stack, v)
    /\ UNCHANGED <<adjacent, at, comp, out>>
Push ==
    /\ \E v \in todo :
        /\ todo' = todo \ {v}
        /\ IF v \in seen THEN UNCHANGED <<seen, stack>>
           ELSE seen' = seen \cup {v} /\ stack' = Append(stack, v)
    /\ UNCHANGED <<adjacent, at, comp, out>>

Returned == at = Len(Order) /\ stack = <<>> /\ todo = {}
CompNext == NextNode \/ Pop \/ Push
CompSpec == CompInit /\ [][CompNext]_compVars

(* What `components' returns on an undirected drawing are the parts of the  *)
(* graph that no edge leaves and that cannot be cut in two; no part is in   *)
(* the array twice, and no vertex twice in a part (taskkit.tsx:343).  So    *)
(* the length of the array, which isConnected, isBridge and isCutVertex     *)
(* compare, is the number of the parts.                                     *)
Undirected == \A v, w \in Vertices : w \in adjacent[v] => v \in adjacent[w]
ComponentsExact ==
    Returned /\ Undirected =>
        /\ {Range(Collected[i]) : i \in DOMAIN Collected}
              = {Reach(adjacent, v) : v \in Vertices}
        /\ \A i, j \in DOMAIN Collected :
              i # j => Range(Collected[i]) # Range(Collected[j])
        /\ \A i \in DOMAIN Collected : IsInjective(Collected[i])

=============================================================================
