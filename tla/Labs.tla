-------------------------------- MODULE Labs --------------------------------
(***************************************************************************)
(* The laboratories (subjects/discrete-math/tasks/Labs.tsx) and the        *)
(* pictures of GT-01 that can be played with (components/GT01/             *)
(* GT01Pages.tsx).  Each is a page of a lesson of its own, so at most one  *)
(* is open at a time; `lab' is its state, which is lost when the page is   *)
(* left.  Only the walk of EulerLab moves by itself, driven by an interval *)
(* of the browser, which does not know of the page.                        *)
(***************************************************************************)
EXTENDS GraphFacts

CONSTANT MaxPlays       \* how often the walk is started

VARIABLES
    open,               \* the page that is open, or "left"
    lab,                \* its state
    plays,              \* how often EulerLab has been started
    intervals           \* the starts whose interval is still running

labVars == <<open, lab, plays, intervals>>

DegreeIds == 1..6
DegreeEdges == { <<1, 2>>, <<2, 3>>, <<1, 3>>, <<3, 4>>, <<4, 5>>, <<4, 6>> }
Colors == 0..4          \* 0 wipes
Rim == 1..6
Hub == 7
WheelEdges == {edgeKey(v, 1 + (v % 6)) : v \in Rim} \cup {edgeKey(v, Hub) : v \in Rim}
seq == <<1, 2, 3, 4, 5, 3, 1>>
LoopEdges == { edgeKey(1, 2), edgeKey(2, 3), edgeKey(3, 1),
               edgeKey(3, 4), edgeKey(4, 5), edgeKey(5, 3) }
kdeg == [A |-> 5, B |-> 3, C |-> 3, D |-> 3]
handshakingEdges ==
    << edgeKey(1, 2), edgeKey(2, 3), edgeKey(3, 4), edgeKey(1, 4), edgeKey(1, 3) >>
Ring6 == 1..6
RingPairs ==            \* in the order of the two loops
    << <<1, 2>>, <<1, 3>>, <<1, 4>>, <<1, 5>>, <<1, 6>>, <<2, 3>>, <<2, 4>>, <<2, 5>>,
       <<2, 6>>, <<3, 4>>, <<3, 5>>, <<3, 6>>, <<4, 5>>, <<4, 6>>, <<5, 6>> >>

Start(page) ==
    CASE page = "degree" -> [edges |-> DegreeEdges, sel |-> 0]
      [] page = "color" -> [col |-> [v \in Rim \cup {Hub} |-> 0], pick |-> 1]
      [] page = "euler" -> [tab |-> "k", step |-> 0, timer |-> 0]
      [] page = "matrix" -> [active |-> 1]
      [] page = "handshaking" -> [count |-> Len(handshakingEdges)]
      [] page = "pigeonhole" -> [drawn |-> 0, edges |-> {}]
Pages == {"degree", "color", "euler", "matrix", "handshaking", "pigeonhole"}
LabInit ==
    /\ open \in Pages
    /\ lab = Start(open)
    /\ plays = 0 /\ intervals = {}

Becomes(next) == lab' = next /\ UNCHANGED <<open, plays, intervals>>

(* No page has a clean-up: its state goes, an interval it has set stays,   *)
(* and its ticks find no page to change (Labs.tsx:194-215).                *)
LeavePage ==
    /\ open # "left"
    /\ open' = "left" /\ lab' = <<>>
    /\ UNCHANGED <<plays, intervals>>
OpenPage ==
    /\ open = "left"
    /\ \E page \in Pages : open' = page /\ lab' = Start(page)
    /\ UNCHANGED <<plays, intervals>>

-----------------------------------------------------------------------------
(* DegreeLab: an edge keeps the order of the two clicks.                   *)
key(e) == edgeKey(e[1], e[2])
Join(v) ==
    IF \E e \in lab.edges : key(e) = edgeKey(lab.sel, v)
    THEN {e \in lab.edges : key(e) # edgeKey(lab.sel, v)}
    ELSE lab.edges \cup {<<lab.sel, v>>}
clickNode ==
    /\ open = "degree"
    /\ \E v \in DegreeIds :
        \/ lab.sel = 0 /\ Becomes([lab EXCEPT !.sel = v])
        \/ lab.sel = v /\ Becomes([lab EXCEPT !.sel = 0])
        \/ lab.sel \notin {0, v} /\ Becomes([edges |-> Join(v), sel |-> 0])
deg(v) == Cardinality({e \in lab.edges : e[1] = v}) + Cardinality({e \in lab.edges : e[2] = v})
sum == MapThenSumSet(deg, DegreeIds)

(* ColorLab.                                                               *)
SetPick == open = "color" /\ \E p \in Colors : Becomes([lab EXCEPT !.pick = p])
Paint == open = "color" /\ \E v \in Rim \cup {Hub} : Becomes([lab EXCEPT !.col[v] = lab.pick])
WipeAll == open = "color" /\ Becomes([lab EXCEPT !.col = [v \in Rim \cup {Hub} |-> 0]])
used == Range(lab.col) \ {0}
allColored == 0 \notin Range(lab.col)
RimConflict ==                                                     \* mutant
    \E v \in Rim : lab.col[v] # 0 /\ lab.col[v] = lab.col[1 + (v % 6)]
conflict == \E v, w \in Rim \cup {Hub} :
                {v, w} \in WheelEdges /\ lab.col[v] # 0 /\ lab.col[v] = lab.col[w]
proper == allColored /\ ~conflict

(* EulerLab: `timer' is the start whose interval the page holds, 0 none.   *)
(* Leaving the tab stops a walk that is on its way; a finished walk has no *)
(* interval any more and its last step stays.                              *)
Clearing(next) ==
    lab' = next /\ intervals' = intervals \ {lab.timer} /\ UNCHANGED <<open, plays>>
setTab(t) ==
    /\ open = "euler"
    /\ IF t # "e" /\ lab.timer # 0
       THEN Clearing([tab |-> t, step |-> 0, timer |-> 0])
       ELSE Becomes([lab EXCEPT !.tab = t])
PlaysOver ==                                                       \* mutant
    /\ open = "euler" /\ lab.tab = "e" /\ plays < MaxPlays
    /\ lab' = [lab EXCEPT !.step = 0, !.timer = plays + 1]
    /\ intervals' = intervals \cup {plays + 1}
    /\ plays' = plays + 1
    /\ UNCHANGED open
play ==
    /\ open = "euler" /\ lab.tab = "e" /\ plays < MaxPlays
    /\ lab' = [lab EXCEPT !.step = 0, !.timer = plays + 1]
    /\ intervals' = (intervals \ {lab.timer}) \cup {plays + 1}
    /\ plays' = plays + 1
    /\ UNCHANGED open
Tick ==
    /\ open = "euler" /\ lab.timer # 0
    /\ IF lab.step >= Len(seq) - 1
       THEN Clearing([lab EXCEPT !.timer = 0])
       ELSE Becomes([lab EXCEPT !.step = @ + 1])
traversed == {edgeKey(seq[i], seq[i + 1]) : i \in 1..lab.step}
SaysDone == lab.tab = "e" /\ lab.step >= Len(seq) - 1

(* GT01TheoryMatrix and GT01TheoryHandshaking.                             *)
setActive == open = "matrix" /\ \E i \in DOMAIN T2.graph.edges : Becomes([active |-> i])
isActiveCell(row, column) ==
    LET e == T2.graph.edges[lab.active]
    IN  e = <<row, column>> \/ (~T2.graph.directed /\ e = <<column, row>>)
setEdgeCount ==
    open = "handshaking" /\ \E n \in 0..Len(handshakingEdges) : Becomes([count |-> n])
degreeSum == SumDegrees({handshakingEdges[i] : i \in 1..lab.count}, 1..4)

(* GT01TheoryPigeonhole: a coin for every pair of the ring.                *)
Toss ==
    /\ open = "pigeonhole" /\ lab.drawn < Len(RingPairs)
    /\ LET p == RingPairs[lab.drawn + 1]
       IN  \E E \in {lab.edges, lab.edges \cup {edgeKey(p[1], p[2])}} :
              Becomes([drawn |-> lab.drawn + 1, edges |-> E])
Regenerate ==
    open = "pigeonhole" /\ lab.drawn = Len(RingPairs) /\ Becomes(Start("pigeonhole"))
WithDegree(d) == {v \in Ring6 : Degree(lab.edges, v) = d}
duplicateNodeIds ==
    LET shared == {d \in 0..5 : Cardinality(WithDegree(d)) >= 2}
    IN  IF shared = {} THEN {}
        ELSE LET S == WithDegree(Min(shared)) IN {Min(S), Min(S \ {Min(S)})}

LabNext ==
    \/ LeavePage \/ OpenPage
    \/ clickNode
    \/ SetPick \/ Paint \/ WipeAll
    \/ \E t \in {"k", "e"} : setTab(t)
    \/ play \/ Tick
    \/ setActive \/ setEdgeCount \/ Toss \/ Regenerate

(* setInterval keeps calling until it is cleared.                          *)
LabSpec == LabInit /\ [][LabNext]_labVars /\ WF_labVars(Tick)

-----------------------------------------------------------------------------
Chromatic == Min({k \in 1..4 : \E f \in [Rim \cup {Hub} -> 1..k] :
                    \A v, w \in Rim \cup {Hub} : {v, w} \in WheelEdges => f[v] # f[w]})

(* What the laboratories say of the graph on the screen is true of it: the *)
(* degree sum is twice the number of edges and no edge is doubled; a       *)
(* colouring is called right exactly when it is, and minimal when no       *)
(* colouring of the wheel has fewer colours; the walk has met a new edge   *)
(* with every step, and is an Euler cycle when the page says so; there is  *)
(* none over the bridges, whose degrees are as written (Labs.tsx); the lit *)
(* cells are those of the edge, the slider keeps the lemma, and the two    *)
(* lit vertices share a degree (GT01Pages.tsx).                            *)
LabsTellTruth ==
    /\ open = "degree" =>
          /\ sum = 2 * Cardinality(lab.edges)
          /\ Cardinality({key(e) : e \in lab.edges}) = Cardinality(lab.edges)
    /\ open = "color" =>
          /\ proper <=> \A e \in WheelEdges : /\ \A v \in e : lab.col[v] # 0
                                              /\ \A v, w \in e : v # w => lab.col[v] # lab.col[w]
          /\ proper /\ Cardinality(used) <= 3 => Cardinality(used) = Chromatic
    /\ open = "euler" =>
          /\ Cardinality(traversed) = lab.step /\ traversed \subseteq LoopEdges
          /\ SaysDone => traversed = LoopEdges /\ seq[lab.step + 1] = seq[1]
          /\ \A v \in DOMAIN kdeg : kdeg[v] = Cardinality({i \in DOMAIN Bridges : v \in Bridges[i]})
          /\ ~HasEulerCycle(Bridges, "A")
    /\ open = "matrix" =>
          LET name == T2.graph.nodes
              lit == {c \in (DOMAIN name) \X (DOMAIN name) : isActiveCell(name[c[1]], name[c[2]])}
          IN  /\ Cardinality(lit) = 2
              /\ \A c \in lit : T2.expectedMatrix[c[1]][c[2]] = 1
    /\ open = "handshaking" => degreeSum = 2 * lab.count
    /\ open = "pigeonhole" /\ lab.drawn = Len(RingPairs) =>
          /\ Cardinality(duplicateNodeIds) = 2
          /\ \A v, w \in duplicateNodeIds : Degree(lab.edges, v) = Degree(lab.edges, w)

(* The interval of every start ends, whatever is clicked meanwhile, unless *)
(* the page is left: it runs out, or its tab or the next start clears it   *)
(* (play and the effect on `tab', Labs.tsx:194-215).  Once the page is     *)
(* left nothing clears it any more, and it runs as long as the browser.    *)
LabWalkEnds ==
    \A n \in 1..MaxPlays :
        (open = "euler" /\ lab.timer = n) ~> (n \notin intervals \/ open = "left")

=============================================================================
