----------------------------- MODULE GraphSearch -----------------------------
(***************************************************************************)
(* The two searches the exercises rest on, loop by loop: bfsDistances and  *)
(* components (subjects/discrete-math/components/tasks/taskkit.tsx).  The  *)
(* neighbours of a vertex come in the order of the edges; here in any.     *)
(***************************************************************************)
EXTENDS GraphTools

CONSTANT Vertex
ASSUME VertexAssumption == IsFiniteSet(Vertex)   \* a drawing is finite

VARIABLES
    adj,                \* adjacencyMap
    source,
    dist,               \* the vertices met, each with its distance
    queue,
    u,                  \* the vertex being expanded
    rest                \* its neighbours that are still to be looked at

searchVars == <<adj, source, dist, queue, u, rest>>

QueueOf(s) == {s[i] : i \in 1..Len(s)}

BfsInit ==
    /\ adj \in [Vertex -> SUBSET Vertex]
    /\ source \in Vertex
    /\ dist = [v \in {source} |-> 0]
    /\ queue = <<source>>
    /\ u = source /\ rest = {}

Shift ==
    /\ rest = {} /\ queue # <<>>
    /\ u' = Head(queue)
    /\ queue' = Tail(queue)
    /\ rest' = adj[u']
    /\ UNCHANGED <<adj, source, dist>>
SameLevel(v) == [w \in DOMAIN dist \cup {v} |-> IF w = v THEN dist[u] ELSE dist[w]]   \* mutant
Label(v) == [w \in DOMAIN dist \cup {v} |-> IF w = v THEN dist[u] + 1 ELSE dist[w]]
NewestFirst ==                                                     \* mutant
    /\ \E v \in rest :
        /\ rest' = rest \ {v}
        /\ IF v \in DOMAIN dist THEN UNCHANGED <<dist, queue>>
           ELSE dist' = Label(v) /\ queue' = <<v>> \o queue
    /\ UNCHANGED <<adj, source, u>>
Look ==
    /\ \E v \in rest :
        /\ rest' = rest \ {v}
        /\ IF v \in DOMAIN dist THEN UNCHANGED <<dist, queue>>
           ELSE dist' = Label(v) /\ queue' = Append(queue, v)
    /\ UNCHANGED <<adj, source, u>>

Done == rest = {} /\ queue = <<>>
BfsNext == Shift \/ Look
BfsSpec == BfsInit /\ [][BfsNext]_searchVars

-----------------------------------------------------------------------------
(* The search labels and queues vertices only, and labels are naturals     *)
(* (bfsDistances).                                                         *)
BfsTypeOK ==
    /\ adj \in [Vertex -> SUBSET Vertex]
    /\ source \in Vertex
    /\ dist \in [DOMAIN dist -> Nat] /\ DOMAIN dist \subseteq Vertex
    /\ queue \in Seq(Vertex)
    /\ u \in Vertex /\ rest \subseteq Vertex

(* When bfsDistances returns, its answer carries the proof that it is      *)
(* right: the source is at 0, every neighbour of a vertex met is met and   *)
(* at most one further, and every other vertex met is one further than     *)
(* some vertex it is a neighbour of (taskkit.tsx:308-322).                 *)
Certificate ==
    Done =>
        /\ source \in DOMAIN dist /\ dist[source] = 0
        /\ \A x \in DOMAIN dist : \A w \in adj[x] : w \in DOMAIN dist /\ dist[w] <= dist[x] + 1
        /\ \A x \in DOMAIN dist \ {source} :
              \E p \in DOMAIN dist : x \in adj[p] /\ dist[x] = dist[p] + 1

(* What bfsDistances returns is the distance from the source to each vertex *)
(* that can be reached, and says nothing of the others (taskkit.tsx:308).   *)
BfsExact ==
    Done =>
        LET ball == Ball(adj, source)
        IN  /\ DOMAIN dist = Reach(adj, source)
            /\ \A v \in DOMAIN dist : dist[v] = Min({k \in DOMAIN ball : v \in ball[k]})

=============================================================================
