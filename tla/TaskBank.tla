------------------------------ MODULE TaskBank ------------------------------
(***************************************************************************)
(* The tasks of the lessons: the banks of modules 4.1, 4.2 and 4.3         *)
(* (subjects/discrete-math/data/tasks) and the six tasks of GT-01          *)
(* (data/topics/GT-01-foundations.ts), with what the engines read of them  *)
(* and what their prompts ask for.  The wording, the coordinates and the   *)
(* points are left out.                                                    *)
(*                                                                         *)
(* The accepted answers of a part are spellings of one value, a number or  *)
(* a formula: the value as a function of the parameters it is given for    *)
(* (n, m, k up to a small bound).                                          *)
(***************************************************************************)
EXTENDS GraphTools, TLC

Value(x) == [p \in {<<>>} |-> x]
Small == 1..3

Compute(id, parts) == [id |-> id, type |-> "compute", parts |-> parts]
Decide(id, answers) == [id |-> id, type |-> "impossibility", parts |-> answers]
OrderSteps(id, steps) ==
    [id |-> id, type |-> "order-steps", steps |-> steps, distractors |-> 1]
Build(id, nodes, goal, solution) ==
    [id |-> id, type |-> "graph-build", nodes |-> nodes, preset |-> {}, goal |-> goal,
     solution |-> solution]
DegreeGoal(s) == [kind |-> "degreeSequence", sequence |-> s]
RegularGoal(k) == [kind |-> "regular", k |-> k]
EdgeSet(s) == {edgeKey(s[i][1], s[i][2]) : i \in DOMAIN s}

-----------------------------------------------------------------------------
(* Module 4.1.                                                             *)
section41A ==
    << Compute("1.6", << [p \in Small \X Small |-> p[1] * p[2]] >>),
       Compute("1.16", << [p \in (2..4) \X (0..1) |-> (p[1] * (p[1] - 1)) \div 2 - p[2]] >>),
       Compute("1.15", << [n \in 2..4 |-> n - 2], [n \in 2..4 |-> 0], [n \in 2..4 |-> n - 1] >>),
       Compute("1.19", << Value(2) >>) >>

section41B ==
    << Decide("1.8", <<"yes", "no", "yes", "yes">>),
       Decide("1.11", <<"no", "yes">>),
       Decide("1.12", <<"no", "yes", "no">>),
       Decide("1.14", <<"yes", "no", "yes">>),
       Decide("1.7", <<"yes">>),
       Decide("1.13", <<"yes", "no", "yes">>),
       Decide("1.18", <<"yes">>) >>

cubic6Solution ==
    << <<"1", "2">>, <<"2", "3">>, <<"3", "4">>, <<"4", "5">>, <<"5", "6">>, <<"1", "6">>,
       <<"1", "4">>, <<"2", "5">>, <<"3", "6">> >>
matrix4 == GraphData(<<"1", "2", "3", "4">>,
    << <<"1", "2">>, <<"2", "3">>, <<"3", "4">>, <<"4", "1">>, <<"1", "3">> >>)
section41C ==
    << Build("cubic6", <<"1", "2", "3", "4", "5", "6">>, RegularGoal(3), cubic6Solution),
       [id |-> "matrix4", type |-> "matrix-fill", graph |-> matrix4,
        expectedMatrix |-> << <<0, 1, 1, 1>>, <<1, 0, 1, 0>>, <<1, 1, 0, 1>>, <<1, 0, 1, 0>> >>] >>

section41D ==
    << OrderSteps("1.10", 5), OrderSteps("1.4", 5), OrderSteps("1.17", 5),
       OrderSteps("1.9", 5), OrderSteps("1.5", 5) >>
section41E == << Compute("1.1", << Value("irreflexive") >>) >>

hexagonAndTriangles == GraphData(
    <<"l1", "l2", "l3", "l4", "l5", "l6", "r1", "r2", "r3", "r4", "r5", "r6">>,
    << <<"l1", "l2">>, <<"l2", "l3">>, <<"l3", "l4">>, <<"l4", "l5">>, <<"l5", "l6">>,
       <<"l6", "l1">>, <<"r1", "r2">>, <<"r2", "r3">>, <<"r3", "r1">>, <<"r4", "r5">>,
       <<"r5", "r6">>, <<"r6", "r4">> >>)
section41F ==
    << Decide("iso-detect", <<"no">>),
       OrderSteps("4.2", 5), OrderSteps("4.4", 5),
       Compute("4.1", << Value(3), Value(6) >>),
       Compute("4.11", << Value(5), [n \in {4, 5} |-> 2] >>) >>
section41G ==
    << Decide("4.12", <<"no", "no", "no">>),
       Decide("4.14", <<"yes", "no">>),
       Build("4.18", <<"1", "2", "3", "4">>, DegreeGoal(<<2, 2, 1, 1>>),
             << <<"1", "2">>, <<"2", "3">>, <<"3", "4">> >>),
       OrderSteps("4.15", 5), OrderSteps("4.20", 5) >>
MODULE_41_TASK_BANK ==
    section41A \o section41B \o section41C \o section41D \o section41E
        \o section41F \o section41G

-----------------------------------------------------------------------------
(* Module 4.2.                                                             *)
skipGraph == GraphData(<<"1", "2", "3", "4", "5", "6", "7">>,
    << <<"1", "2">>, <<"2", "3">>, <<"3", "4">>, <<"4", "5">>, <<"5", "6">>, <<"6", "7">>,
       <<"1", "3">>, <<"3", "5">>, <<"5", "7">>, <<"2", "4">>, <<"4", "6">> >>)
ladder == GraphData(<<"s", "a", "b", "c", "d", "t">>,
    << <<"s", "a">>, <<"s", "b">>, <<"a", "c">>, <<"b", "d">>, <<"c", "t">>, <<"d", "t">>,
       <<"a", "b">>, <<"c", "d">> >>)
PathTrace(id, graph, start, end) ==
    [id |-> id, type |-> "path-trace", graph |-> graph, start |-> start, end |-> end,
     requireShortest |-> TRUE]
section42A ==
    << PathTrace("trace-skip", skipGraph, "1", "7"), PathTrace("trace-ladder", ladder, "s", "t") >>

rdcGraph == GraphData(<<"1", "2", "3", "4", "5", "6", "7">>,
    << <<"1", "3">>, <<"1", "2">>, <<"3", "4">>, <<"2", "4">>, <<"4", "5">>, <<"5", "6">>,
       <<"5", "7">>, <<"6", "7">> >>)
section42B ==
    << Compute("rdc", << Value(2), Value(4), Value({"4", "5"}) >>),
       Compute("dist", << Value(3), Value(2) >>) >>

twoTriangles == GraphData(<<"1", "2", "3", "4", "5", "6">>,
    << <<"1", "2">>, <<"2", "3">>, <<"3", "1">>, <<"4", "5">>, <<"5", "6">>, <<"6", "4">> >>)
bowtie == GraphData(<<"1", "2", "3", "4", "5">>,
    << <<"1", "2">>, <<"2", "3">>, <<"3", "1">>, <<"3", "4">>, <<"4", "5">>, <<"5", "3">> >>)
barbell == GraphData(<<"1", "2", "3", "4", "5", "6">>,
    << <<"1", "2">>, <<"2", "3">>, <<"3", "1">>, <<"3", "4">>, <<"4", "5">>, <<"5", "6">>,
       <<"6", "4">> >>)
NodeClick(id, graph, count, check) ==
    [id |-> id, type |-> "node-click", graph |-> graph, requiredCount |-> count, check |-> check]
section42C ==
    << Decide("connected", <<"no">>),
       NodeClick("cutvertex", bowtie, 1, "cut-vertex"),
       [id |-> "bridge", type |-> "edge-click", graph |-> barbell] >>
section42D ==
    << OrderSteps("triangle", 5), OrderSteps("walks", 5), OrderSteps("min-edges", 4),
       OrderSteps("disconn-compl", 5) >>
MODULE_42_TASK_BANK == section42A \o section42B \o section42C \o section42D

-----------------------------------------------------------------------------
(* Module 4.3.                                                             *)
section43A ==
    << [id |-> "euler-trace", type |-> "euler-trace", graph |-> bowtie, start |-> "1",
        requireCycle |-> TRUE],
       Decide("konigsberg", <<"no">>),
       Decide("kn-euler", <<"yes", "no", "yes">>) >>

pentagon == GraphData(<<"1", "2", "3", "4", "5">>,
    << <<"1", "2">>, <<"2", "3">>, <<"3", "4">>, <<"4", "5">>, <<"5", "1">>, <<"1", "3">>,
       <<"2", "5">> >>)
section43B ==
    << [id |-> "hamilton", type |-> "hamilton-trace", graph |-> pentagon, start |-> "1"] >>

digraph == Digraph(<<"A", "B", "C", "D">>,
    << <<"A", "B">>, <<"B", "C">>, <<"C", "A">>, <<"A", "D">>, <<"D", "B">> >>)
dag == Digraph(<<"1", "2", "3", "4">>,
    << <<"1", "2">>, <<"1", "3">>, <<"2", "4">>, <<"3", "4">> >>)
section43C ==
    << Compute("semidegrees", << Value(5), Value(2), Value(2) >>),
       Decide("dag", <<"yes", "yes", "no">>) >>
section43D ==
    << OrderSteps("euler-criterion", 5), OrderSteps("digraph-handshake", 5),
       OrderSteps("tournament", 5), OrderSteps("acyclic-source", 5) >>
MODULE_43_TASK_BANK == section43A \o section43B \o section43C \o section43D

-----------------------------------------------------------------------------
(* The tasks of GT-01, as GT01Pages.tsx shows them: the pages have their   *)
(* own checks.  T2 fills the same kind of matrix as matrix4, and asks for  *)
(* a drawing of a second matrix besides.                                   *)
T1 == [id |-> "T1", type |-> "page-sequence", nodes |-> <<"1", "2", "3", "4", "5">>,
       degreeSequence |-> <<3, 2, 2, 2, 1>>, preset |-> {},
       solution |-> << <<"1", "2">>, <<"1", "3">>, <<"1", "4">>, <<"2", "3">>, <<"4", "5">> >>]
T2graph == GraphData(<<"1", "2", "3", "4">>,
    << <<"1", "3">>, <<"2", "3">>, <<"3", "4">>, <<"4", "1">>, <<"4", "2">> >>)
T2 == [id |-> "T2", type |-> "matrix-fill", graph |-> T2graph,
       expectedMatrix |-> << <<0, 0, 1, 1>>, <<0, 0, 1, 1>>, <<1, 1, 0, 1>>, <<1, 1, 1, 0>> >>,
       reverseMatrix |-> << <<0, 1, 1, 0>>, <<1, 0, 0, 1>>, <<1, 0, 0, 1>>, <<0, 1, 1, 0>> >>,
       checkReverseIsomorphism |-> TRUE]
T3 == [id |-> "T3", type |-> "page-repair", nodes |-> <<"1", "2", "3", "4">>,
       preset |-> EdgeSet(<< <<"1", "2">>, <<"2", "3">>, <<"3", "4">> >>),
       claimedEdgeCount |-> 4, targetDegreeSum |-> 8]
T4 == [id |-> "T4", type |-> "page-regular", nodes |-> <<"1", "2", "3", "4", "5", "6">>,
       k |-> 3, preset |-> {}, solution |-> cubic6Solution]
T5graph == GraphData(<<"1", "2", "3", "4", "5">>,
    << <<"1", "2">>, <<"2", "3">>, <<"3", "4">>, <<"4", "5">>, <<"5", "1">>, <<"1", "3">> >>)
T5 == [id |-> "T5", type |-> "page-equal", graph |-> T5graph, requiredCount |-> 2,
       check |-> "equal-degree",
       expectedDegrees |-> [v \in NodesOf(T5graph) |-> IF v \in {"1", "3"} THEN 3 ELSE 2]]
T6 == [id |-> "T6", type |-> "page-directed", graph |-> digraph,
       expectedOutDegrees |-> [v \in NodesOf(digraph) |-> IF v = "A" THEN 2 ELSE 1],
       expectedInDegrees |-> [v \in NodesOf(digraph) |-> IF v = "B" THEN 2 ELSE 1],
       edgeCount |-> 5]
GT01_TASKS == <<T1, T2, T3, T4, T5, T6>>

AllTasks == MODULE_41_TASK_BANK \o MODULE_42_TASK_BANK \o MODULE_43_TASK_BANK \o GT01_TASKS

=============================================================================
