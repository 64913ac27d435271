---------------------------- MODULE MCExercises ----------------------------
(***************************************************************************)
(* The exercises for TLC.  A corner of the state space each: the desk with *)
(* one task, a laboratory, the two searches on every small graph.          *)
(*                                                                         *)
(* Bounds.  On a drawing of six vertices at most two edges stand beside    *)
(* the solution's, in a matrix at most one 1 is wrong.  DegreeLab stays    *)
(* within three pairs of its first graph; ColorLab uses its colours 3 and  *)
(* 4 once each (the wheel's proper colourings with 3 and with 4 colours    *)
(* are within); EulerLab is started MaxPlays times, and once it has been,  *)
(* no other laboratory is opened.  bfsDistances runs on the undirected     *)
(* graphs of five vertices, from one of them (the first where a stack for  *)
(* a queue would go wrong), components on those of four.                   *)
(***************************************************************************)
EXTENDS TaskEngines, Labs, GraphSearch, ComponentSearch

VARIABLE corner
MCVars == <<corner, deskVars, labVars, searchVars, compVars>>

SearchVertex == 1..5
SearchOrder == <<1, 2, 3, 4>>

NoDesk == card = 1 /\ work = 0 /\ shown = <<>> /\ feedback = "idle" /\ about = "nothing"
NoLab == open = "none" /\ lab = 0 /\ plays = 0 /\ intervals = {}
NoBfs ==
    adj = [v \in Vertex |-> {}] /\ source = 1 /\ dist = <<0>> /\ queue = <<1>> /\ u = 1 /\ rest = {}
NoComp == /\ adjacent = <<>> /\ at = 0 /\ seen = {} /\ stack = <<>> /\ comp = <<>>
          /\ todo = {} /\ out = <<>>

AdjacencyOf(V, E) == [v \in V |-> {w \in V : v # w /\ edgeKey(v, w) \in E}]
MCInit ==
    \/ corner = "desk" /\ DeskInit /\ NoLab /\ NoBfs /\ NoComp
    \/ corner = "labs" /\ LabInit /\ NoDesk /\ NoBfs /\ NoComp
    \/ /\ corner = "bfs" /\ NoDesk /\ NoLab /\ NoComp
       /\ source = 1 /\ \E E \in SUBSET kSubset(2, Vertex) : adj = AdjacencyOf(Vertex, E)
       /\ BfsInit
    \/ /\ corner = "components" /\ NoDesk /\ NoLab /\ NoBfs
       /\ \E E \in SUBSET kSubset(2, Vertices) : adjacent = AdjacencyOf(Vertices, E)
       /\ CompInit

MCDesk ==
    /\ corner = "desk" /\ DeskNext
    /\ IsOf(EdgeTasks) /\ Len(task.nodes) = 6
          => Cardinality(work' \ EdgeSet(task.solution)) <= 2
    /\ IsOf({"matrix-fill"}) => Cardinality(work' \ Ones) <= 1
    /\ UNCHANGED <<corner, labVars, searchVars, compVars>>
Once(c, k) == Cardinality({v \in DOMAIN c : c[v] = k}) <= 1
MCLabs ==
    /\ corner = "labs" /\ LabNext
    /\ open' = "degree" => Cardinality(SymDiff(lab'.edges, DegreeEdges)) <= 3
    /\ open' = "color" => Once(lab'.col, 3) /\ Once(lab'.col, 4)
    /\ plays > 0 => open' \in {"euler", "left"}
    /\ UNCHANGED <<corner, deskVars, searchVars, compVars>>
MCBfs ==
    /\ corner = "bfs" /\ BfsNext
    /\ UNCHANGED <<corner, deskVars, labVars, compVars>>
MCComp ==
    /\ corner = "components" /\ CompNext
    /\ UNCHANGED <<corner, deskVars, labVars, searchVars>>
MCNext == MCDesk \/ MCLabs \/ MCBfs \/ MCComp

MCSpec ==
    /\ MCInit /\ [][MCNext]_MCVars
    /\ WF_MCVars(corner = "labs" /\ Tick /\ UNCHANGED <<corner, deskVars, searchVars, compVars>>)

=============================================================================
