---------------------------- MODULE TaskEngines ----------------------------
(***************************************************************************)
(* The engines that run the tasks (components/tasks/engines.tsx, chosen by *)
(* TaskCard.tsx) and the pages of GT-01 that run their own                 *)
(* (components/GT01/GT01Pages.tsx).  One task is open at a time; each card *)
(* keeps its state to itself.  `work' is what the student has built, in    *)
(* the form the task's type calls for; `feedback' is the coloured verdict. *)
(*                                                                         *)
(* A cell, an answer or an edge outside the task's own cannot be entered.  *)
(* A typed answer is blank, an accepted one, the true one or none of them. *)
(***************************************************************************)
EXTENDS GraphFacts

VARIABLES
    card,               \* the place of the open task in AllTasks
    work,
    shown,              \* what a check has left beside the parts
    feedback,
    about               \* history: what the verdict is a verdict on

task == AllTasks[card]
deskVars == <<card, work, shown, feedback, about>>
Verdicts == {"idle", "ok", "bad"}
IsOf(types) == task.type \in types

(* What has been built: edges, cells, vertices, answers, steps or a walk.  *)
EdgeTasks == {"graph-build", "page-sequence", "page-repair", "page-regular"}
Blank == [p \in {} |-> 0]
Cells == (1..Len(task.expectedMatrix)) \X (1..Len(task.expectedMatrix))
EmptyWork(t) ==
    CASE t.type \in EdgeTasks -> t.preset
      [] t.type = "compute" -> [i \in DOMAIN t.parts |-> Blank]
      [] t.type = "impossibility" -> [i \in DOMAIN t.parts |-> "none"]
      [] t.type \in {"path-trace", "hamilton-trace"} -> <<t.start>>
      [] t.type = "euler-trace" -> [trail |-> <<>>, current |-> t.start]
      [] t.type = "edge-click" -> 0
      [] t.type = "page-directed" -> [v \in NodesOf(t.graph) |-> [out |-> 0, in |-> 0]]
      [] t.type = "matrix-fill" -> {}
      [] OTHER -> <<>>
NothingShown(t) ==
    IF t.type \in {"compute", "impossibility"} THEN [i \in DOMAIN t.parts |-> "nothing"]
    ELSE <<>>

(* What the engines take for granted of the tasks of the banks.            *)
ASSUME BankSound ==
    \A c \in DOMAIN AllTasks :
        LET t == AllTasks[c]
        IN  /\ t.type \in EdgeTasks =>
                  /\ t.preset \subseteq completeEdges(t.nodes)
                  /\ "solution" \in DOMAIN t => EdgeSet(t.solution) \subseteq completeEdges(t.nodes)
            /\ t.type = "node-click" => t.requiredCount \in Nat \ {0}
            /\ t.type = "page-equal" => t.requiredCount = 2
            /\ t.type \in {"path-trace", "hamilton-trace", "euler-trace"} =>
                  t.start \in NodesOf(t.graph)
            /\ t.type = "hamilton-trace" =>
                  t.graph.nodes \in Seq(NodesOf(t.graph)) /\ IsInjective(t.graph.nodes)
            /\ t.type = "euler-trace" =>
                  \A i \in DOMAIN t.graph.edges :
                      /\ t.graph.edges[i] \in NodesOf(t.graph) \X NodesOf(t.graph)
                      /\ t.graph.edges[i][1] # t.graph.edges[i][2]

DeskInit ==
    /\ card \in DOMAIN AllTasks
    /\ work = EmptyWork(task)
    /\ shown = NothingShown(task)
    /\ feedback = "idle"
    /\ about = "nothing"

-----------------------------------------------------------------------------
(* An edit leaves the verdict where it is, or wipes it.                    *)
Keeping(w) ==
    /\ work' = w
    /\ about' = IF w = work \/ about = "nothing" THEN about ELSE "past"
    /\ UNCHANGED <<card, shown, feedback>>
Wiping(w) ==
    /\ work' = w
    /\ feedback' = "idle"
    /\ about' = "nothing"
    /\ UNCHANGED <<card, shown>>
StartOver ==
    /\ shown' = NothingShown(task)
    /\ work' = EmptyWork(task)
    /\ feedback' = "idle"
    /\ about' = "nothing"
    /\ UNCHANGED card
Judge(v, what) ==
    /\ feedback' = v
    /\ about' = what
    /\ UNCHANGED <<card, work>>
Verdict(b) == IF b THEN "ok" ELSE "bad"

(* GraphBuildEngine, and the pages that let edges be drawn.                *)
DegreeIn(v) == Degree(work, v)
sameMultiset(f, g) == SortSeq(f, >) = SortSeq(g, >)
SumMet == SumDegrees(work, Range(task.nodes)) = 6                  \* mutant
goalMet ==
    LET current == [i \in DOMAIN task.nodes |-> DegreeIn(task.nodes[i])]
    IN  CASE task.goal.kind = "degreeSequence" -> sameMultiset(current, task.goal.sequence)
          [] task.goal.kind = "regular" -> \A i \in DOMAIN current : current[i] = task.goal.k
ToggleEdge ==
    /\ IsOf(EdgeTasks)
    /\ \E e \in completeEdges(task.nodes) :
          Keeping(IF e \in work THEN work \ {e} ELSE work \cup {e})
ShowExample ==
    /\ IsOf(EdgeTasks) /\ "solution" \in DOMAIN task
    /\ Keeping(EdgeSet(task.solution))
ClearEdges == IsOf(EdgeTasks) /\ Keeping(task.preset)
declareImpossible ==
    /\ IsOf({"graph-build", "page-sequence"})
    /\ Judge("bad", "claim")
    /\ UNCHANGED shown
SequenceRight ==
    \A i \in DOMAIN task.nodes : DegreeIn(task.nodes[i]) = task.degreeSequence[i]
RepairRight ==
    /\ Cardinality(work) = task.claimedEdgeCount
    /\ SumDegrees(work, Range(task.nodes)) = task.targetDegreeSum
RegularRight == \A i \in DOMAIN task.nodes : DegreeIn(task.nodes[i]) = task.k
EdgesRight ==
    \/ IsOf({"graph-build"}) /\ goalMet
    \/ IsOf({"page-sequence"}) /\ SequenceRight
    \/ IsOf({"page-regular"}) /\ RegularRight
    \/ IsOf({"page-repair"}) /\ RepairRight
CheckEdges ==
    /\ IsOf(EdgeTasks)
    /\ Judge(Verdict(EdgesRight), "work")
    /\ UNCHANGED shown

(* MatrixFillEngine and GT01TaskMatrix: `work' has the cells that hold 1.  *)
Ones == {c \in Cells : task.expectedMatrix[c[1]][c[2]] = 1}
ToggleCell ==
    /\ IsOf({"matrix-fill"})
    /\ \E c \in Cells :
          Keeping(IF c \in work THEN work \ {c} ELSE work \cup {c})
ClearMatrix == IsOf({"matrix-fill"}) /\ Keeping({})
CheckMatrix ==
    /\ IsOf({"matrix-fill"})
    /\ Judge(Verdict(work = Ones), "work")
    /\ UNCHANGED shown

(* NodeClickEngine drops the oldest pick, GT01TaskEqual keeps the newest.  *)
(* No vertex is picked twice, so that the filter takes out one place.      *)
KeepingNewest(v) == IF work = <<>> THEN <<v>> ELSE <<Last(work), v>>
Unpick(v) == \E i \in DOMAIN work : work[i] = v /\ Keeping(RemoveAt(work, i))
PickToo(v) ==
    /\ v \notin Range(work)
    /\ IF IsOf({"page-equal"}) THEN Keeping(KeepingNewest(v))
       ELSE IF Len(work) >= task.requiredCount THEN Keeping(Append(Tail(work), v))
       ELSE Keeping(Append(work, v))
choose(v) == Unpick(v) \/ PickToo(v)
ChooseNode ==
    /\ IsOf({"node-click", "page-equal"})
    /\ \E v \in NodesOf(task.graph) : choose(v)
ClearNodes == IsOf({"node-click", "page-equal"}) /\ Keeping(<<>>)
NodesRight ==
    /\ Len(work) = task.requiredCount
    /\ IF task.check = "cut-vertex" THEN \A v \in Range(work) : isCutVertex(task.graph, v)
       ELSE LET deg == computeDegrees(task.graph) IN deg[work[1]] = deg[work[2]]
CheckNodes ==
    /\ IsOf({"node-click", "page-equal"})
    /\ Judge(Verdict(NodesRight), "work")
    /\ UNCHANGED shown

(* ComputeEngine: the marks stay beside the parts until the next check.    *)
Wrong == [p \in 1..4 |-> 0]        \* a formula that no part asks for
Type ==
    /\ IsOf({"compute"})
    /\ \E i \in DOMAIN task.parts :
          \/ Keeping([work EXCEPT ![i] = Blank])
          \/ Keeping([work EXCEPT ![i] = task.parts[i]])
          \/ Keeping([work EXCEPT ![i] = TrueValues[task.id][i]])
          \/ Keeping([work EXCEPT ![i] = Wrong])
Accepted(i) == work[i] = task.parts[i]
CheckAnswers ==
    /\ IsOf({"compute"})
    /\ shown' = [i \in DOMAIN task.parts |-> IF Accepted(i) THEN "right" ELSE "wrong"]
    /\ Judge(Verdict(\A i \in DOMAIN task.parts : Accepted(i)), "work")
ClearAnswers == IsOf({"compute"}) /\ StartOver

(* DecisionEngine: the explanations come with the first complete check.    *)
Pick ==
    /\ IsOf({"impossibility"})
    /\ \E i \in DOMAIN task.parts, opt \in {"yes", "no"} : Keeping([work EXCEPT ![i] = opt])
CheckDecisions ==
    /\ IsOf({"impossibility"})
    /\ IF "none" \in Range(work) THEN Judge("bad", "work") /\ UNCHANGED shown
       ELSE /\ shown' = [i \in DOMAIN task.parts |-> "why"]
            /\ Judge(Verdict(work = task.parts), "work")
ClearDecisions == IsOf({"impossibility"}) /\ StartOver

(* ProofOrderEngine: the steps are numbered in their right order, the      *)
(* distractor is 0; the shuffle of the pool only places them.              *)
AddStep ==
    /\ IsOf({"order-steps"})
    /\ \E x \in 0..task.steps : Keeping(IF x \in Range(work) THEN work ELSE Append(work, x))
RemoveStep ==
    /\ IsOf({"order-steps"})
    /\ \E i \in DOMAIN work : Keeping(RemoveAt(work, i))
CheckSteps ==
    /\ IsOf({"order-steps"})
    /\ LET noDistractors == 0 \notin Range(work)
           rightOrder == /\ noDistractors /\ Len(work) = task.steps
                         /\ \A i \in DOMAIN work : work[i] = i
       IN  Judge(Verdict(rightOrder), "work")
    /\ UNCHANGED shown
ResetSteps == IsOf({"order-steps"}) /\ StartOver

-----------------------------------------------------------------------------
(* The tracing engines wipe the verdict with every edit.                   *)
Before(p) == IF Len(p) >= 2 THEN {p[Len(p) - 1]} ELSE {}
EdgeTo(p, v) == edgeBetween(task.graph, Last(p), v) # 0
JumpsTo(p, v) ==                                                   \* mutant
    IF v # Last(p) /\ v \in Before(p) THEN Front(p)
    ELSE IF v \notin Range(p) THEN Append(p, v)
    ELSE p
PathTo(p, v) ==
    IF v # Last(p) /\ v \in Before(p) THEN Front(p)
    ELSE IF v \notin Range(p) /\ EdgeTo(p, v) THEN Append(p, v)
    ELSE p
CycleTo(p, v) ==
    LET n == Len(task.graph.nodes)
    IN  IF v # Last(p) /\ v \in Before(p) THEN Front(p)
        ELSE IF v # Last(p) /\ EdgeTo(p, v) /\ (v \notin Range(p) \/ (v = task.start /\ Len(p) = n))
        THEN Append(p, v) ELSE p
ClickNode ==
    /\ IsOf({"path-trace", "hamilton-trace"})
    /\ \E v \in NodesOf(task.graph) :
        \/ IsOf({"path-trace"}) /\ Wiping(PathTo(work, v))
        \/ IsOf({"hamilton-trace"}) /\ Wiping(CycleTo(work, v))

(* PathTraceEngine and HamiltonTraceEngine.                                *)
target == distance(task.graph, task.start, task.end)
PathRight == Last(work) = task.end /\ (task.requireShortest => Len(work) - 1 <= target)
CycleRight ==
    LET n == Len(task.graph.nodes)
    IN  /\ Cardinality(Range(work)) = n
        /\ Len(work) = n + 1 /\ Last(work) = task.start
CheckWalk ==
    /\ \/ IsOf({"path-trace"}) /\ Judge(Verdict(PathRight), "work")
       \/ IsOf({"hamilton-trace"}) /\ Judge(Verdict(CycleRight), "work")
    /\ UNCHANGED shown
ClearWalk ==
    /\ IsOf({"path-trace", "hamilton-trace", "euler-trace", "edge-click"})
    /\ StartOver

(* EdgeClickEngine.                                                        *)
SelectEdge ==
    /\ IsOf({"edge-click"})
    /\ \E i \in DOMAIN task.graph.edges : Wiping(i)
CheckEdge ==
    /\ IsOf({"edge-click"})
    /\ Judge(Verdict(work # 0 /\ isBridge(task.graph, work)), "work")
    /\ UNCHANGED shown

(* EulerTraceEngine: an edge that does not leave the current vertex is     *)
(* refused with a red verdict, one already walked is ignored.              *)
Walk(i, next) == Wiping([trail |-> Append(work.trail, i), current |-> next])
ClickEdge ==
    /\ IsOf({"euler-trace"})
    /\ \E i \in DOMAIN task.graph.edges :
          LET e == task.graph.edges[i]
          IN  /\ i \notin Range(work.trail)
              /\ \/ /\ work.current \notin Range(e)
                    /\ Judge("bad", "click") /\ UNCHANGED shown
                 \/ /\ work.current \in Range(e)
                    /\ Walk(i, IF e[1] = work.current THEN e[2] ELSE e[1])
CheckTrail ==
    /\ IsOf({"euler-trace"})
    /\ LET all == Len(work.trail) >= Len(task.graph.edges)
           home == task.requireCycle => work.current = task.start
       IN  Judge(Verdict(all /\ home), "work")
    /\ UNCHANGED shown

(* GT01TaskDirected: an empty field counts as 0.                           *)
Enter ==
    /\ IsOf({"page-directed"})
    /\ \E v \in NodesOf(task.graph), field \in {"out", "in"}, x \in 0..2 :
          Keeping([work EXCEPT ![v][field] = x])
ClearDegrees == IsOf({"page-directed"}) /\ Keeping(EmptyWork(task))
CheckDegrees ==
    /\ IsOf({"page-directed"})
    /\ Judge(Verdict(\A v \in NodesOf(task.graph) :
                        /\ work[v].out = task.expectedOutDegrees[v]
                        /\ work[v].in = task.expectedInDegrees[v]), "work")
    /\ UNCHANGED shown

DeskNext ==
    \/ ToggleEdge \/ ShowExample \/ ClearEdges \/ declareImpossible \/ CheckEdges
    \/ ToggleCell \/ ClearMatrix \/ CheckMatrix
    \/ ChooseNode \/ ClearNodes \/ CheckNodes
    \/ Type \/ CheckAnswers \/ ClearAnswers
    \/ Pick \/ CheckDecisions \/ ClearDecisions
    \/ AddStep \/ RemoveStep \/ CheckSteps \/ ResetSteps
    \/ ClickNode \/ CheckWalk \/ ClearWalk
    \/ SelectEdge \/ CheckEdge \/ ClickEdge \/ CheckTrail
    \/ Enter \/ ClearDegrees \/ CheckDegrees

DeskSpec == DeskInit /\ [][DeskNext]_deskVars

-----------------------------------------------------------------------------
(* The tasks as their prompts put them.  4.18 asks for a graph isomorphic  *)
(* to its complement (its engine compares degrees), T1 for the degree on   *)
(* each vertex's chip, a matrix is to agree with the drawing, a bridge is  *)
(* alone between two parts of the graph.                                   *)
DrawnSolves(t, E) ==
    LET V == Range(t.nodes)
    IN  CASE t.id = "4.18" -> Isomorphic(V, E, completeEdges(t.nodes) \ E)
          [] t.id \in {"cubic6", "T4"} -> \A v \in V : Degree(E, v) = 3
          [] t.id = "T1" -> [i \in DOMAIN t.nodes |-> Degree(E, t.nodes[i])] = t.degreeSequence
          [] t.id = "T3" -> Cardinality(E) = 4
DrawnRight == DrawnSolves(task, work)
MatrixTrue ==
    LET name == task.graph.nodes
    IN  work = {c \in Cells : Joined(task.graph, name[c[1]], name[c[2]])}
(* T2's second step asks for a drawing of reverseMatrix, but its page has  *)
(* only the matrix: nothing can be drawn on it (GT01Pages.tsx:494-523).    *)
Drawing == {}
ReverseTrue ==
    LET name == task.graph.nodes
        ones == {c \in Cells : task.reverseMatrix[c[1]][c[2]] = 1}
    IN  task.checkReverseIsomorphism =>
            Isomorphic(NodesOf(task.graph), Drawing, {edgeKey(name[c[1]], name[c[2]]) : c \in ones})
NodesTrue ==
    CASE task.id = "cutvertex" ->
            Len(work) = 1 /\ ~Linked(task.graph, NodesOf(task.graph) \ Range(work))
      [] task.id = "T5" ->
            /\ Cardinality(Range(work)) = 2
            /\ task.expectedDegrees[work[1]] = task.expectedDegrees[work[2]]
Crosses(e, S) == Cardinality(Range(e) \cap S) = 1
CutsInTwo(g, i) ==
    \E S \in SUBSET NodesOf(g) : {j \in DOMAIN g.edges : Crosses(g.edges[j], S)} = {i}
EdgeTrue == CutsInTwo(task.graph, work)
LeastLength == Shortest(task.graph, task.start, task.end)
IsWalk(p) == \A i \in 1..(Len(p) - 1) : Joined(task.graph, p[i], p[i + 1])
CycleTrue ==
    /\ IsWalk(work) /\ work[1] = Last(work)
    /\ Cardinality(Range(work)) = Len(task.graph.nodes)
    /\ Len(work) = Len(task.graph.nodes) + 1
(* Where a trail of edges leads from the start, {} if it breaks off.       *)
Leading(t, trail) ==
    LET at[k \in 0..Len(trail)] ==
            IF k = 0 THEN {t.start}
            ELSE UNION {Range(t.graph.edges[trail[k]]) \ {v} :
                           v \in at[k - 1] \cap Range(t.graph.edges[trail[k]])}
    IN  at[Len(trail)]
TrailTrue ==
    /\ {work.trail[i] : i \in DOMAIN work.trail} = DOMAIN task.graph.edges
    /\ Leading(task, work.trail) = {task.start}

Solved ==
    CASE IsOf(EdgeTasks) -> DrawnRight
      [] IsOf({"matrix-fill"}) -> MatrixTrue /\ (task.id = "T2" => ReverseTrue)
      [] IsOf({"node-click", "page-equal"}) -> NodesTrue
      [] IsOf({"edge-click"}) -> EdgeTrue
      [] IsOf({"compute"}) -> work = TrueValues[task.id]
      [] IsOf({"impossibility"}) -> work = TrueDecisions[task.id]
      [] IsOf({"order-steps"}) -> work = [i \in 1..task.steps |-> i]
      [] IsOf({"path-trace"}) ->
            IsWalk(work) /\ Last(work) = task.end /\ Len(work) - 1 = LeastLength
      [] IsOf({"hamilton-trace"}) -> CycleTrue
      [] IsOf({"euler-trace"}) -> TrailTrue
      [] IsOf({"page-directed"}) ->
            \A v \in NodesOf(task.graph) : work[v] = [out |-> OutOf(task.graph, v),
                                                      in |-> Into(task.graph, v)]

(* The keys of the banks agree with their drawings: what an engine takes   *)
(* for the solution of a task is what the prompt asks for.  4.18 compares  *)
(* degrees, which is enough on four vertices.                              *)
ASSUME KeysRight ==
    \A c \in DOMAIN AllTasks :
        LET t == AllTasks[c]
            g == t.graph
            n == Len(t.expectedMatrix)
        IN  /\ "solution" \in DOMAIN t => t.type \in EdgeTasks /\ DrawnSolves(t, EdgeSet(t.solution))
            /\ t.type \in EdgeTasks => t.nodes \in Seq(Range(t.nodes))
            /\ t.type = "graph-build" =>
                  \/ t.id = "cubic6" /\ t.goal = RegularGoal(3)
                  \/ /\ t.id = "4.18" /\ t.goal.kind = "degreeSequence"
                     /\ \A E \in SUBSET completeEdges(t.nodes) :
                           sameMultiset([i \in DOMAIN t.nodes |-> Degree(E, t.nodes[i])],
                                        t.goal.sequence) <=> DrawnSolves(t, E)
            /\ t.type = "page-sequence" =>
                  /\ t.id = "T1"
                  /\ t.degreeSequence \in Seq(Nat) /\ Len(t.degreeSequence) = Len(t.nodes)
            /\ t.type = "page-regular" => t.id = "T4" /\ t.k = 3
            /\ t.type = "page-repair" =>
                  t.id = "T3" /\ t.claimedEdgeCount = 4 /\ t.targetDegreeSum = 8
            /\ t.type = "matrix-fill" =>
                  \A i, j \in 1..n : t.expectedMatrix[i][j] = 1 <=> Joined(g, g.nodes[i], g.nodes[j])
            /\ t.type = "node-click" =>
                  /\ t.id = "cutvertex" /\ t.check = "cut-vertex" /\ t.requiredCount = 1
                  /\ \A v \in NodesOf(g) : isCutVertex(g, v) <=> ~Linked(g, NodesOf(g) \ {v})
            /\ t.type = "page-equal" =>
                  t.id = "T5" /\ t.check = "equal-degree" /\ computeDegrees(g) = t.expectedDegrees
            /\ t.type = "edge-click" =>
                  /\ DOMAIN g.edges = 1..Len(g.edges)
                  /\ \A i \in DOMAIN g.edges : isBridge(g, i) <=> CutsInTwo(g, i)
            /\ t.type = "compute" =>
                  /\ t.parts = [i \in 1..Len(t.parts) |-> t.parts[i]]
                  /\ t.id = "rdc" \/ t.parts = TrueValues[t.id]
            /\ t.type = "impossibility" => t.parts = TrueDecisions[t.id] /\ "none" \notin Range(t.parts)
            /\ t.type = "order-steps" => t.steps \in Nat
            /\ t.type = "path-trace" =>
                  /\ t.requireShortest /\ g.nodes \in Seq(NodesOf(g)) /\ IsInjective(g.nodes)
                  /\ distance(g, t.start, t.end) = Shortest(g, t.start, t.end)
            /\ t.type = "euler-trace" => t.requireCycle /\ g.edges \in Seq(Range(g.edges))
            /\ t.type = "page-directed" =>
                  \A v \in NodesOf(g) : /\ t.expectedOutDegrees[v] = OutOf(g, v)
                                        /\ t.expectedInDegrees[v] = Into(g, v)

(* A verdict on what stands on the screen is right: it is green exactly    *)
(* when the student has done what the prompt asks (check of every engine   *)
(* in engines.tsx and GT01Pages.tsx, with the answer keys of the banks).   *)
(* The engines that trace a walk never show one on an older walk, and the  *)
(* example that an engine offers solves the task (solutionEdgeIds of the   *)
(* banks, GT01Pages.tsx:431 and :579).                                     *)
(* Two tasks are left out.  The centre in GT-42-rdc is keyed wrongly (the  *)
(* run answer_key).  T2 is green after the first of the two steps that its *)
(* prompt asks for (GT-01-foundations.ts:198-200, GT01Pages.tsx:485-490):  *)
(* only the matrix that this step fills is said to be judged rightly.      *)
Disputed == {"rdc", "T2"}
VerdictTrue ==
    /\ about = "work" /\ task.id \notin Disputed => (feedback = "ok") = Solved
    /\ about = "work" /\ IsOf({"matrix-fill"}) => (feedback = "ok") = MatrixTrue
    /\ IsOf({"path-trace", "hamilton-trace", "euler-trace", "edge-click"}) => about # "past"
    /\ "solution" \in DOMAIN task /\ work = EdgeSet(task.solution) => Solved

(* The right answer to GT-42-rdc is accepted: its prompt calls the centre   *)
(* the set of the vertices of least eccentricity (module42.ts:104).        *)
CentreAccepted ==
    about = "work" /\ task.id = "rdc" /\ Solved => feedback = "ok"

(* No clicking makes work that could not stand on the screen: edges are    *)
(* slots of the drawing, no more vertices are picked than asked for, none  *)
(* twice, a step of a proof is used once; a path follows edges and meets   *)
(* no vertex twice, a cycle only its start, a trail repeats no edge and    *)
(* `current' is where it leads (choose, append, clickNode and clickEdge,   *)
(* engines.tsx).                                                           *)
WorkLegal ==
    /\ IsOf(EdgeTasks) => work \subseteq completeEdges(task.nodes)
    /\ IsOf({"node-click", "page-equal"}) =>
          Len(work) <= task.requiredCount /\ Cardinality(Range(work)) = Len(work)
    /\ IsOf({"order-steps"}) => Cardinality(Range(work)) = Len(work)
    /\ IsOf({"path-trace"}) => IsWalk(work) /\ Cardinality(Range(work)) = Len(work)
    /\ IsOf({"hamilton-trace"}) =>
          /\ IsWalk(work)
          /\ Cardinality(Range(Front(work))) = Len(work) - 1
          /\ Last(work) \in Range(Front(work)) => CycleTrue
    /\ IsOf({"euler-trace"}) =>
          /\ Cardinality(Range(work.trail)) = Len(work.trail)
          /\ Leading(task, work.trail) = {work.current}

=============================================================================
