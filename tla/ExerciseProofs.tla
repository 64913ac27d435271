---------------------------- MODULE ExerciseProofs ----------------------------
(***************************************************************************)
(* The exercises.  On every finite graph the two searches return what the  *)
(* rest takes them to return: bfsDistances the distances from its source,  *)
(* `components' the connected components.  At the desk of every task,      *)
(* after any clicks, the engines hold only work the task allows, and what  *)
(* they say of it is right.  What the laboratories say of the graph on the *)
(* screen is true of it.                                                   *)
(***************************************************************************)
EXTENDS TaskEngines, Labs, GraphSearch, ComponentSearch,
        FiniteSetTheorems, WellFoundedInduction, TLAPS

-----------------------------------------------------------------------------
(* Induction, as a fact about sets of naturals: from the well-foundedness  *)
(* of < follows that a set which holds 0 and with n also n + 1 holds all.  *)

Below == {p \in Nat \X Nat : p[1] < p[2]}

(* A non-empty set of naturals has a least element.                       *)
LEMMA Least ==
    ASSUME NEW T \in SUBSET Nat, T # {}
    PROVE  \E m \in T : \A n \in T : m <= n
<1>1. OpToRel(<, Nat) = Below
  BY DEF OpToRel, Below
<1>2. IsWellFoundedOn(Below, Nat)
  BY <1>1, NatLessThanWellFounded
<1>3. PICK m \in T : \A y \in T : ~(<<y, m>> \in Below)
  BY <1>2, WFMin
<1>4. ASSUME NEW n \in T PROVE m <= n
  <2>1. m \in Nat /\ n \in Nat
    OBVIOUS
  <2>2. <<n, m>> \in Below <=> n < m
    BY <2>1 DEF Below
  <2>. QED
    BY <1>3, <2>1, <2>2
<1>. QED
  BY <1>3, <1>4

LEMMA SetInduction ==
    ASSUME NEW S, 0 \in S, \A n \in Nat : n \in S => n + 1 \in S
    PROVE  Nat \subseteq S
<1>1. SUFFICES ASSUME Nat \ S # {} PROVE FALSE
  OBVIOUS
<1>2. PICK m \in Nat \ S : \A n \in Nat \ S : m <= n
  BY <1>1, Least
<1>3. m - 1 \in Nat /\ m - 1 \in S
  BY <1>2
<1>. QED
  BY <1>2, <1>3

-----------------------------------------------------------------------------
(* Ball and Reach (GraphTools): on a finite graph the ball of the largest  *)
(* radius is the least set of vertices that holds its centre and is closed *)
(* under `adjacent'.                                                       *)

Widened(a, X) == X \cup UNION {a[w] : w \in X}
BallTo(a, v, n, g) ==
    g = [k \in 0..n |-> IF k = 0 THEN {v} ELSE g[k - 1] \cup UNION {a[w] : w \in g[k - 1]}]

(* The recursion of Ball defines a function, for every largest radius.     *)
LEMMA BallsExist ==
    ASSUME NEW a, NEW v
    PROVE  \A n \in Nat : \E g : BallTo(a, v, n, g)
<1>. DEFINE S == {n \in Nat : \E g : BallTo(a, v, n, g)}
<1>1. 0 \in S
  <2>1. BallTo(a, v, 0, [k \in 0..0 |-> {v}])
    BY DEF BallTo
  <2>. QED
    BY <2>1
<1>2. ASSUME NEW n \in Nat, n \in S PROVE n + 1 \in S
  <2>1. PICK g : BallTo(a, v, n, g)
    BY <1>2
  <2>. DEFINE f == [k \in 0..(n + 1) |-> IF k = n + 1 THEN g[n] \cup UNION {a[w] : w \in g[n]} ELSE g[k]]
  <2>2. ASSUME NEW k \in 0..(n + 1)
        PROVE  f[k] = IF k = 0 THEN {v} ELSE f[k - 1] \cup UNION {a[w] : w \in f[k - 1]}
    <3>1. CASE k = n + 1
      BY <3>1
    <3>2. CASE k \in 0..n
      <4>1. f[k] = g[k] /\ (k # 0 => f[k - 1] = g[k - 1])
        BY <3>2
      <4>2. g[k] = IF k = 0 THEN {v} ELSE g[k - 1] \cup UNION {a[w] : w \in g[k - 1]}
        BY <2>1, <3>2 DEF BallTo
      <4>. QED
        BY <3>2, <4>1, <4>2
    <3>. QED
      BY <3>1, <3>2
  <2>3. BallTo(a, v, n + 1, f)
    BY <2>2 DEF BallTo
  <2>. QED
    BY <2>3
<1>. QED
  BY <1>1, <1>2, SetInduction

LEMMA BallGrows ==
    ASSUME NEW a, NEW v, NEW N \in Nat, N = Cardinality(DOMAIN a)
    PROVE  /\ DOMAIN Ball(a, v) = 0..N
           /\ Ball(a, v)[0] = {v}
           /\ \A k \in 0..(N - 1) : Ball(a, v)[k + 1] = Widened(a, Ball(a, v)[k])
<1>1. BallTo(a, v, N, Ball(a, v))
  <2>1. \E g : BallTo(a, v, N, g)
    BY BallsExist
  <2>2. Ball(a, v) = CHOOSE g : BallTo(a, v, N, g)
    BY DEF Ball, BallTo
  <2>. QED
    BY <2>1, <2>2
<1>2. DOMAIN Ball(a, v) = 0..N /\ Ball(a, v)[0] = {v}
  BY <1>1 DEF BallTo
<1>3. ASSUME NEW k \in 0..(N - 1) PROVE Ball(a, v)[k + 1] = Widened(a, Ball(a, v)[k])
  BY <1>1 DEF BallTo, Widened
<1>. QED
  BY <1>2, <1>3

ClosedUnder(a, S) == \A x \in S : a[x] \subseteq S

LEMMA BallsInside ==
    ASSUME NEW V, IsFiniteSet(V), NEW a \in [V -> SUBSET V], NEW v \in V
    PROVE  \A k \in 0..Cardinality(V) : v \in Ball(a, v)[k] /\ Ball(a, v)[k] \subseteq V
<1>. DEFINE N == Cardinality(V)
            B == Ball(a, v)
            S == {k \in Nat : k <= N => v \in B[k] /\ B[k] \subseteq V}
<1>0. N \in Nat
  BY FS_CardinalityType
<1>1. B[0] = {v} /\ \A k \in 0..(N - 1) : B[k + 1] = Widened(a, B[k])
  BY <1>0, BallGrows
<1>. HIDE DEF B, N
<1>2. 0 \in S
  BY <1>0, <1>1
<1>3. ASSUME NEW n \in Nat, n \in S PROVE n + 1 \in S
  <2>1. CASE n + 1 <= N
    <3>1. v \in B[n] /\ B[n] \subseteq V
      BY <1>0, <1>3, <2>1
    <3>2. B[n + 1] = Widened(a, B[n])
      BY <1>0, <1>1, <2>1
    <3>. QED
      BY <3>1, <3>2 DEF Widened
  <2>2. CASE ~(n + 1 <= N)
    BY <2>2
  <2>. QED
    BY <2>1, <2>2
<1>4. Nat \subseteq S
  <2>. HIDE DEF S
  <2>. QED
    BY <1>2, <1>3, SetInduction
<1>. QED
  BY <1>0, <1>4 DEF N, B

(* While a ball is not closed the next one is larger, and it cannot grow   *)
(* beyond the vertices there are.                                          *)
LEMMA ReachClosed ==
    ASSUME NEW V, IsFiniteSet(V), NEW a \in [V -> SUBSET V], NEW v \in V
    PROVE  v \in Reach(a, v) /\ Reach(a, v) \subseteq V /\ ClosedUnder(a, Reach(a, v))
<1>. DEFINE N == Cardinality(V)
            B == Ball(a, v)
            S == {k \in Nat : k <= N => ClosedUnder(a, B[k]) \/ Cardinality(B[k]) >= k + 1}
<1>0. N \in Nat /\ Reach(a, v) = B[N]
  BY FS_CardinalityType DEF Reach
<1>1. B[0] = {v} /\ \A k \in 0..(N - 1) : B[k + 1] = Widened(a, B[k])
  BY <1>0, BallGrows
<1>2. \A k \in 0..N : v \in B[k] /\ B[k] \subseteq V
  BY BallsInside
<1>. HIDE DEF B, N
<1>3. \A k \in 0..N : IsFiniteSet(B[k]) /\ Cardinality(B[k]) \in Nat /\ Cardinality(B[k]) <= N
  BY <1>2, FS_Subset, FS_CardinalityType DEF N
<1>4. 0 \in S
  BY <1>0, <1>1, FS_Singleton
<1>5. ASSUME NEW n \in Nat, n \in S PROVE n + 1 \in S
  <2>1. CASE n + 1 <= N
    <3>0. n \in 0..N /\ n + 1 \in 0..N
      BY <1>0, <2>1
    <3>1. B[n + 1] = Widened(a, B[n])
      BY <1>0, <1>1, <2>1
    <3>2. CASE ClosedUnder(a, B[n])
      <4>1. B[n + 1] = B[n]
        BY <3>1, <3>2 DEF Widened, ClosedUnder
      <4>. QED
        BY <3>2, <4>1
    <3>3. CASE ~ClosedUnder(a, B[n])
      <4>1. Cardinality(B[n]) >= n + 1
        BY <1>5, <3>0, <3>3
      <4>2. B[n] \subseteq B[n + 1] /\ B[n + 1] # B[n]
        BY <3>1, <3>3 DEF Widened, ClosedUnder
      <4>3. Cardinality(B[n]) <= Cardinality(B[n + 1]) /\ Cardinality(B[n]) # Cardinality(B[n + 1])
        BY <1>3, <3>0, <4>2, FS_Subset
      <4>4. Cardinality(B[n + 1]) >= n + 2
        BY <1>3, <3>0, <4>1, <4>3
      <4>. QED
        BY <4>4
    <3>. QED
      BY <3>2, <3>3
  <2>2. CASE ~(n + 1 <= N)
    BY <2>2
  <2>. QED
    BY <2>1, <2>2
<1>6. N \in S
  <2>. HIDE DEF S
  <2>. QED
    BY <1>0, <1>4, <1>5, SetInduction
<1>. QED
  BY <1>0, <1>2, <1>3, <1>6

LEMMA ReachLeast ==
    ASSUME NEW V, IsFiniteSet(V), NEW a \in [V -> SUBSET V], NEW v \in V,
           NEW C, v \in C, ClosedUnder(a, C)
    PROVE  Reach(a, v) \subseteq C
<1>. DEFINE N == Cardinality(V)
            B == Ball(a, v)
            S == {k \in Nat : k <= N => B[k] \subseteq C}
<1>0. N \in Nat /\ Reach(a, v) = B[N]
  BY FS_CardinalityType DEF Reach
<1>1. B[0] = {v} /\ \A k \in 0..(N - 1) : B[k + 1] = Widened(a, B[k])
  BY <1>0, BallGrows
<1>. HIDE DEF B, N
<1>2. 0 \in S
  BY <1>0, <1>1
<1>3. ASSUME NEW n \in Nat, n \in S PROVE n + 1 \in S
  <2>1. CASE n + 1 <= N
    BY <1>0, <1>1, <1>3, <2>1 DEF Widened, ClosedUnder
  <2>2. CASE ~(n + 1 <= N)
    BY <2>2
  <2>. QED
    BY <2>1, <2>2
<1>4. N \in S
  <2>. HIDE DEF S
  <2>. QED
    BY <1>0, <1>2, <1>3, SetInduction
<1>. QED
  BY <1>0, <1>4

(* In an undirected graph vertices that reach one another reach the same.  *)
LEMMA ReachSymmetric ==
    ASSUME NEW V, IsFiniteSet(V), NEW a \in [V -> SUBSET V],
           \A x, y \in V : y \in a[x] => x \in a[y],
           NEW v \in V, NEW w \in Reach(a, v)
    PROVE  Reach(a, w) = Reach(a, v)
<1>1. /\ v \in Reach(a, v) /\ Reach(a, v) \subseteq V /\ ClosedUnder(a, Reach(a, v))
  BY ReachClosed
<1>2. w \in Reach(a, w) /\ Reach(a, w) \subseteq V /\ ClosedUnder(a, Reach(a, w))
  BY <1>1, ReachClosed
<1>3. Reach(a, w) \subseteq Reach(a, v)
  BY <1>1, <1>2, ReachLeast
<1>4. v \in Reach(a, w)
  <2>. DEFINE C == Reach(a, v) \ Reach(a, w)
  <2>1. SUFFICES ASSUME v \notin Reach(a, w) PROVE FALSE
    OBVIOUS
  <2>2. ClosedUnder(a, C)
    BY <1>1, <1>2 DEF ClosedUnder
  <2>3. Reach(a, v) \subseteq C
    BY <1>1, <2>1, <2>2, ReachLeast
  <2>. QED
    BY <1>2, <2>3
<1>5. Reach(a, v) \subseteq Reach(a, w)
  BY <1>2, <1>4, ReachLeast
<1>. QED
  BY <1>3, <1>5

-----------------------------------------------------------------------------
(* bfsDistances.  The certificate is about the end of the search; its      *)
(* inductive form is about every step.  The queue is sorted by distance,   *)
(* and nothing met is more than one further than the vertex being          *)
(* expanded: so a vertex met later never gets a smaller distance, and the  *)
(* neighbours of a vertex that is neither in the queue nor being expanded  *)
(* are settled.                                                            *)

Met == DOMAIN dist

(* The queue holds vertices met, in the order of their distances, none     *)
(* nearer than the vertex being expanded.                                  *)
QueueSorted ==
    /\ \A i \in 1..Len(queue) : queue[i] \in Met /\ dist[u] <= dist[queue[i]]
    /\ \A i, j \in 1..Len(queue) : i <= j => dist[queue[i]] <= dist[queue[j]]

Waiting(x) == \E i \in 1..Len(queue) : queue[i] = x

(* Of a vertex that has left the queue, every neighbour is met, unless it  *)
(* is one of those still to be looked at.                                  *)
Settled(x) ==
    \A w \in adj[x] : \/ w \in Met /\ dist[w] <= dist[x] + 1
                      \/ x = u /\ w \in rest

HasPredecessor(x) == \E p \in Met : x \in adj[p] /\ dist[x] = dist[p] + 1

SearchInv ==
    /\ BfsTypeOK
    /\ source \in Met /\ dist[source] = 0
    /\ u \in Met /\ rest \subseteq adj[u]
    /\ QueueSorted
    /\ \A x \in Met : dist[x] <= dist[u] + 1
    /\ \A x \in Met : Waiting(x) \/ Settled(x)
    /\ \A x \in Met \ {source} : HasPredecessor(x)

LEMMA InitSearch == BfsInit => SearchInv
<1>1. SUFFICES ASSUME BfsInit PROVE SearchInv
  OBVIOUS
<1>2. BfsTypeOK
  BY <1>1 DEF BfsInit, BfsTypeOK
<1>3. Met = {source} /\ dist[source] = 0 /\ u = source /\ rest = {}
  BY <1>1 DEF BfsInit, Met
<1>4. queue = <<source>> /\ Len(queue) = 1 /\ queue[1] = source
  BY <1>1 DEF BfsInit
<1>5. QueueSorted
  BY <1>3, <1>4 DEF QueueSorted
<1>6. \A x \in Met : Waiting(x)
  BY <1>3, <1>4 DEF Waiting
<1> QED
  BY <1>2, <1>3, <1>5, <1>6 DEF SearchInv

LEMMA ShiftSearch == SearchInv /\ Shift => SearchInv'
<1>1. SUFFICES ASSUME SearchInv, Shift PROVE SearchInv'
  OBVIOUS
<1>2. /\ BfsTypeOK /\ QueueSorted /\ rest = {} /\ queue # <<>>
      /\ u' = Head(queue) /\ queue' = Tail(queue) /\ rest' = adj[u']
      /\ adj' = adj /\ source' = source /\ dist' = dist /\ Met' = Met
  BY <1>1 DEF SearchInv, Shift, Met
<1>3. /\ Len(queue) \in Nat \ {0} /\ u' = queue[1] /\ u' \in Met /\ u' \in Vertex
      /\ Len(queue') = Len(queue) - 1
      /\ \A i \in 1..Len(queue') : queue'[i] = queue[i + 1]
  BY <1>2 DEF BfsTypeOK, QueueSorted
<1>4. BfsTypeOK'
  BY <1>2, <1>3 DEF BfsTypeOK, Met
<1>5. QueueSorted'
  <2>1. ASSUME NEW i \in 1..Len(queue') PROVE queue'[i] \in Met /\ dist[u'] <= dist[queue'[i]]
    BY <1>2, <1>3 DEF QueueSorted
  <2>2. ASSUME NEW i \in 1..Len(queue'), NEW j \in 1..Len(queue'), i <= j
        PROVE  dist[queue'[i]] <= dist[queue'[j]]
    BY <1>2, <1>3, <2>2 DEF QueueSorted
  <2> QED
    BY <1>2, <2>1, <2>2 DEF QueueSorted
<1>6. ASSUME NEW x \in Met PROVE dist[x] <= dist[u'] + 1
  <2>1. u \in Met /\ dist[x] <= dist[u] + 1 /\ dist[u] <= dist[u']
    BY <1>1, <1>2, <1>3 DEF SearchInv, QueueSorted
  <2> QED
    BY <1>2, <1>3, <2>1 DEF BfsTypeOK, Met
<1>7. ASSUME NEW x \in Met PROVE Waiting(x)' \/ Settled(x)'
  <2>1. CASE x = u'
    BY <1>2, <2>1 DEF Settled
  <2>2. CASE x # u' /\ Waiting(x)
    <3>1. PICK i \in 1..Len(queue) : queue[i] = x
      BY <2>2 DEF Waiting
    <3>2. i # 1 /\ i - 1 \in 1..Len(queue') /\ queue'[i - 1] = x
      BY <1>3, <2>2, <3>1
    <3> QED
      BY <3>2 DEF Waiting
  <2>3. CASE x # u' /\ ~Waiting(x)
    BY <1>1, <1>2, <2>3 DEF SearchInv, Settled, Met
  <2> QED
    BY <2>1, <2>2, <2>3
<1>8. ASSUME NEW x \in Met \ {source} PROVE HasPredecessor(x)'
  BY <1>1, <1>2, <1>8 DEF SearchInv, HasPredecessor
<1> QED
  BY <1>1, <1>2, <1>3, <1>4, <1>5, <1>6, <1>7, <1>8 DEF SearchInv

LEMMA LookSearch == SearchInv /\ Look => SearchInv'
<1>1. SUFFICES ASSUME SearchInv, Look PROVE SearchInv'
  OBVIOUS
<1>2. PICK v \in rest :
        /\ rest' = rest \ {v}
        /\ IF v \in DOMAIN dist THEN UNCHANGED <<dist, queue>>
           ELSE dist' = Label(v) /\ queue' = Append(queue, v)
  BY <1>1 DEF Look
<1>3. adj' = adj /\ source' = source /\ u' = u
  BY <1>1 DEF Look
<1>4. /\ BfsTypeOK /\ QueueSorted /\ u \in Met /\ source \in Met /\ dist[source] = 0
      /\ v \in adj[u] /\ rest \subseteq adj[u] /\ v \in Vertex
  BY <1>1, <1>2 DEF SearchInv, BfsTypeOK
<1>5. CASE v \in Met
  <2>1. dist' = dist /\ queue' = queue /\ Met' = Met
    BY <1>2, <1>5 DEF Met
  <2>2. BfsTypeOK' /\ QueueSorted'
    BY <1>2, <1>3, <1>4, <2>1 DEF BfsTypeOK, QueueSorted, Met
  <2>3. ASSUME NEW x \in Met PROVE Waiting(x)' \/ Settled(x)'
    <3>1. CASE Waiting(x)
      BY <2>1, <3>1 DEF Waiting
    <3>2. CASE Settled(x)
      <4>1. dist[v] <= dist[u] + 1
        BY <1>1, <1>5 DEF SearchInv
      <4> QED
        BY <1>2, <1>3, <1>5, <2>1, <3>2, <4>1 DEF Settled, Met
    <3> QED
      BY <1>1, <3>1, <3>2 DEF SearchInv
  <2>4. \A x \in Met \ {source} : HasPredecessor(x)'
    BY <1>1, <1>3, <2>1 DEF SearchInv, HasPredecessor
  <2> QED
    BY <1>1, <1>2, <1>3, <1>4, <2>1, <2>2, <2>3, <2>4 DEF SearchInv
<1>6. CASE v \notin Met
  <2>1. /\ dist' = Label(v) /\ queue' = Append(queue, v)
        /\ Met' = Met \cup {v} /\ dist'[v] = dist[u] + 1
        /\ \A x \in Met : dist'[x] = dist[x]
    BY <1>2, <1>6 DEF Label, Met
  <2>2. /\ Len(queue) \in Nat /\ Len(queue') = Len(queue) + 1 /\ queue'[Len(queue) + 1] = v
        /\ \A i \in 1..Len(queue) : queue'[i] = queue[i] /\ queue[i] \in Met
    BY <1>4, <2>1 DEF BfsTypeOK, QueueSorted
  <2>3. \A x \in Met : dist[x] \in Nat
    BY <1>4 DEF BfsTypeOK, Met
  <2>4. BfsTypeOK'
    <3>1. dist' \in [DOMAIN dist' -> Nat] /\ DOMAIN dist' \subseteq Vertex
      BY <1>4, <2>1, <2>3 DEF BfsTypeOK, Label, Met
    <3>2. queue' \in Seq(Vertex)
      BY <1>4, <2>1 DEF BfsTypeOK
    <3> QED
      BY <1>2, <1>3, <1>4, <3>1, <3>2 DEF BfsTypeOK
  <2>5. ASSUME NEW x \in Met PROVE dist[x] <= dist[u] + 1
    BY <1>1 DEF SearchInv
  <2>6. QueueSorted'
    <3>1. ASSUME NEW i \in 1..Len(queue')
          PROVE  queue'[i] \in Met' /\ dist'[u] <= dist'[queue'[i]]
      <4>1. CASE i = Len(queue) + 1
        BY <1>4, <2>1, <2>2, <2>3, <4>1
      <4>2. CASE i \in 1..Len(queue)
        BY <1>4, <2>1, <2>2, <4>2 DEF QueueSorted
      <4> QED
        BY <2>2, <4>1, <4>2
    <3>2. ASSUME NEW i \in 1..Len(queue'), NEW j \in 1..Len(queue'), i <= j
          PROVE  dist'[queue'[i]] <= dist'[queue'[j]]
      <4>1. CASE j \in 1..Len(queue)
        <5>1. i \in 1..Len(queue)
          BY <2>2, <3>2, <4>1
        <5> QED
          BY <1>4, <2>1, <2>2, <3>2, <4>1, <5>1 DEF QueueSorted
      <4>2. CASE j = Len(queue) + 1 /\ i \in 1..Len(queue)
        BY <2>1, <2>2, <2>5, <4>2
      <4>3. CASE j = Len(queue) + 1 /\ i = Len(queue) + 1
        BY <1>4, <2>1, <2>2, <2>3, <4>3
      <4> QED
        BY <2>2, <4>1, <4>2, <4>3
    <3> QED
      BY <1>3, <3>1, <3>2 DEF QueueSorted
  <2>7. ASSUME NEW x \in Met' PROVE dist'[x] <= dist'[u] + 1
    BY <1>4, <2>1, <2>3, <2>5
  <2>8. ASSUME NEW x \in Met' PROVE Waiting(x)' \/ Settled(x)'
    <3>1. CASE x = v
      <4>1. Len(queue) + 1 \in 1..Len(queue') /\ queue'[Len(queue) + 1] = x
        BY <2>2, <3>1
      <4> QED
        BY <4>1 DEF Waiting
    <3>2. CASE x \in Met /\ Waiting(x)
      <4>1. PICK i \in 1..Len(queue) : queue[i] = x
        BY <3>2 DEF Waiting
      <4>2. i \in 1..Len(queue') /\ queue'[i] = x
        BY <2>2, <4>1
      <4> QED
        BY <4>2 DEF Waiting
    <3>3. CASE x \in Met /\ Settled(x)
      <4>1. ASSUME NEW w \in adj[x]
            PROVE  (w \in Met' /\ dist'[w] <= dist'[x] + 1) \/ (x = u /\ w \in rest')
        <5>1. CASE w \in Met /\ dist[w] <= dist[x] + 1
          BY <2>1, <3>3, <5>1
        <5>2. CASE x = u /\ w \in rest /\ w # v
          BY <1>2, <5>2
        <5>3. CASE x = u /\ w = v
          BY <1>4, <2>1, <2>3, <5>3
        <5> QED
          BY <3>3, <4>1, <5>1, <5>2, <5>3 DEF Settled
      <4> QED
        BY <1>3, <4>1 DEF Settled
    <3> QED
      BY <1>1, <2>1, <2>8, <3>1, <3>2, <3>3 DEF SearchInv
  <2>9. ASSUME NEW x \in Met' \ {source} PROVE HasPredecessor(x)'
    <3>1. CASE x = v
      BY <1>3, <1>4, <2>1, <3>1 DEF HasPredecessor
    <3>2. CASE x \in Met
      <4>1. PICK p \in Met : x \in adj[p] /\ dist[x] = dist[p] + 1
        BY <1>1, <2>9, <3>2 DEF SearchInv, HasPredecessor
      <4> QED
        BY <1>3, <2>1, <3>2, <4>1 DEF HasPredecessor
    <3> QED
      BY <2>1, <2>9, <3>1, <3>2
  <2> QED
    BY <1>2, <1>3, <1>4, <2>1, <2>4, <2>6, <2>7, <2>8, <2>9 DEF SearchInv
<1> QED
  BY <1>5, <1>6

LEMMA SearchInvariant == BfsSpec => []SearchInv
<1>1. SearchInv /\ [BfsNext]_searchVars => SearchInv'
  <2>1. CASE UNCHANGED searchVars
    BY <2>1 DEF searchVars, SearchInv, BfsTypeOK, Met, QueueSorted, Waiting, Settled,
                HasPredecessor
  <2> QED
    BY <2>1, ShiftSearch, LookSearch DEF BfsNext
<1> QED
  BY <1>1, InitSearch, PTL DEF BfsSpec

(* The variables of the search keep their types.                           *)
THEOREM SearchTyped == BfsSpec => []BfsTypeOK
<1>1. SearchInv => BfsTypeOK
  BY DEF SearchInv
<1> QED
  BY <1>1, SearchInvariant, PTL

(* Whatever the graph and the order of its edges, the distances returned   *)
(* carry their certificate (bfsDistances, taskkit.tsx:308-322).            *)
THEOREM DistancesCertified == BfsSpec => []Certificate
<1>1. SearchInv => Certificate
  <2>1. SUFFICES ASSUME SearchInv, Done PROVE Certificate
    BY DEF Certificate
  <2>2. Len(queue) = 0 /\ rest = {}
    BY <2>1 DEF Done
  <2>3. \A x \in Met : ~Waiting(x)
    BY <2>2 DEF Waiting
  <2>4. \A x \in Met : \A w \in adj[x] : w \in Met /\ dist[w] <= dist[x] + 1
    BY <2>1, <2>2, <2>3 DEF SearchInv, Settled
  <2> QED
    BY <2>1, <2>4 DEF SearchInv, HasPredecessor, Certificate, Met
<1> QED
  BY <1>1, SearchInvariant, PTL

(* A labelling with the certificate is the distance: the ball of radius k  *)
(* holds the vertices labelled k or less, by induction on k, and a vertex  *)
(* labelled k can be reached, by induction along the predecessors.         *)
LEMMA CertifiedIsExact ==
    ASSUME BfsTypeOK, Done, Certificate
    PROVE  BfsExact
<1>. DEFINE N == Cardinality(Vertex)
            B == Ball(adj, source)
            D == DOMAIN dist
            S == {k \in Nat : k <= N => B[k] = {w \in D : dist[w] <= k}}
            T == {k \in Nat : \A w \in D : dist[w] = k => w \in Reach(adj, source)}
<1>0. /\ N \in Nat /\ Reach(adj, source) = B[N] /\ DOMAIN B = 0..N
      /\ B[0] = {source} /\ \A k \in 0..(N - 1) : B[k + 1] = Widened(adj, B[k])
  BY VertexAssumption, FS_CardinalityType, BallGrows DEF Reach, BfsTypeOK
<1>. HIDE DEF B, N
<1>1. /\ source \in D /\ dist[source] = 0
      /\ \A x \in D : \A w \in adj[x] : w \in D /\ dist[w] <= dist[x] + 1
      /\ \A x \in D \ {source} : \E p \in D : x \in adj[p] /\ dist[x] = dist[p] + 1
  BY DEF Certificate
<1>2. /\ \A w \in D : dist[w] \in Nat
      /\ adj \in [Vertex -> SUBSET Vertex] /\ source \in Vertex /\ D \subseteq Vertex
  BY DEF BfsTypeOK
<1>. HIDE DEF D
<1>3. 0 \in S
  <2>1. ASSUME NEW x \in D \ {source} PROVE ~(dist[x] <= 0)
    BY <1>1, <1>2
  <2>. QED
    BY <1>0, <1>1, <2>1
<1>4. ASSUME NEW n \in Nat, n \in S PROVE n + 1 \in S
  <2>. SUFFICES ASSUME n + 1 <= N PROVE B[n + 1] = {w \in D : dist[w] <= n + 1}
    OBVIOUS
  <2>1. B[n] = {w \in D : dist[w] <= n} /\ B[n + 1] = Widened(adj, B[n])
    BY <1>0, <1>4
  <2>2. ASSUME NEW w \in B[n + 1] PROVE w \in D /\ dist[w] <= n + 1
    <3>1. CASE w \in B[n]
      BY <1>2, <2>1, <3>1
    <3>2. CASE w \notin B[n]
      <4>1. PICK x \in B[n] : w \in adj[x]
        BY <2>1, <2>2, <3>2 DEF Widened
      <4>2. x \in D /\ dist[x] <= n /\ w \in D /\ dist[w] <= dist[x] + 1
        BY <1>1, <2>1, <4>1
      <4>. QED
        BY <1>2, <4>2
    <3>. QED
      BY <3>1, <3>2
  <2>3. ASSUME NEW w \in D, dist[w] <= n + 1 PROVE w \in B[n + 1]
    <3>1. CASE dist[w] <= n
      BY <2>1, <3>1 DEF Widened
    <3>2. CASE dist[w] = n + 1
      <4>1. PICK p \in D : w \in adj[p] /\ dist[w] = dist[p] + 1
        BY <1>1, <3>2
      <4>2. p \in B[n]
        BY <1>2, <2>1, <3>2, <4>1
      <4>. QED
        BY <2>1, <4>1, <4>2 DEF Widened
    <3>. QED
      BY <1>2, <2>3, <3>1, <3>2
  <2>. QED
    BY <2>2, <2>3
<1>5. \A k \in 0..N : B[k] = {w \in D : dist[w] <= k}
  <2>1. Nat \subseteq S
    <3>. HIDE DEF S
    <3>. QED
      BY <1>3, <1>4, SetInduction
  <2>. QED
    BY <1>0, <2>1
<1>6. source \in Reach(adj, source) /\ ClosedUnder(adj, Reach(adj, source))
  BY <1>2, VertexAssumption, ReachClosed
<1>7. D \subseteq Reach(adj, source)
  <2>1. 0 \in T
    <3>1. ASSUME NEW x \in D \ {source} PROVE dist[x] # 0
      BY <1>1, <1>2
    <3>. QED
      BY <1>6, <3>1
  <2>2. ASSUME NEW n \in Nat, n \in T PROVE n + 1 \in T
    <3>. SUFFICES ASSUME NEW w \in D, dist[w] = n + 1 PROVE w \in Reach(adj, source)
      OBVIOUS
    <3>1. PICK p \in D : w \in adj[p] /\ dist[w] = dist[p] + 1
      BY <1>1
    <3>2. p \in Reach(adj, source)
      BY <1>2, <2>2, <3>1
    <3>. QED
      BY <1>6, <3>1, <3>2 DEF ClosedUnder
  <2>3. Nat \subseteq T
    <3>. HIDE DEF T
    <3>. QED
      BY <2>1, <2>2, SetInduction
  <2>. QED
    BY <1>2, <2>3
<1>8. D = Reach(adj, source)
  <2>1. N \in 0..N
    BY <1>0
  <2>2. B[N] \subseteq D
    BY <1>5, <2>1
  <2>. QED
    BY <1>0, <1>7, <2>2
<1>9. ASSUME NEW v \in D PROVE dist[v] = Min({k \in DOMAIN B : v \in B[k]})
  <2>. DEFINE K == {k \in DOMAIN B : v \in B[k]}
  <2>1. dist[v] \in 0..N
    BY <1>0, <1>2, <1>5, <1>8
  <2>2. \A k \in 0..N : k \in K <=> dist[v] <= k
    BY <1>0, <1>5
  <2>3. K \subseteq 0..N
    BY <1>0
  <2>. HIDE DEF K
  <2>4. dist[v] \in K /\ \A k \in K : dist[v] <= k
    BY <1>2, <2>1, <2>2, <2>3
  <2>5. Min(K) \in K /\ \A k \in K : Min(K) <= k
    BY <2>4 DEF Min
  <2>6. Min(K) <= dist[v] /\ dist[v] <= Min(K)
    BY <2>4, <2>5
  <2>7. Min(K) \in 0..N
    BY <2>3, <2>5
  <2>8. Min(K) = dist[v]
    BY <2>1, <2>6, <2>7
  <2>. QED
    BY <2>8 DEF K
<1>. QED
  BY <1>8, <1>9 DEF BfsExact, B, D

(* On every finite graph, directed or not, bfsDistances returns the        *)
(* distances, to the vertices that can be reached and to no others.        *)
THEOREM DistancesExact == BfsSpec => []BfsExact
<1>1. BfsTypeOK /\ Certificate => BfsExact
  BY CertifiedIsExact DEF BfsExact
<1>. QED
  BY <1>1, SearchTyped, DistancesCertified, PTL

-----------------------------------------------------------------------------
(* Sequences without repetition: picks, steps of a proof, walks.           *)
LEMMA CountIndices ==
    ASSUME NEW n \in Nat PROVE IsFiniteSet(1..n) /\ Cardinality(1..n) = n
BY FS_Interval

LEMMA DistinctCounted ==
    ASSUME NEW S, NEW s \in Seq(S), IsInjective(s)
    PROVE  IsFiniteSet(Range(s)) /\ Cardinality(Range(s)) = Len(s)
<1>. DEFINE D == DOMAIN s
<1>1. Len(s) \in Nat /\ D = 1..Len(s)
  OBVIOUS
<1>2. IsFiniteSet(D) /\ Cardinality(D) = Len(s)
  BY <1>1, CountIndices
<1>3. s \in Surjection(D, Range(s)) /\ s \in Injection(D, Range(s))
  BY DEF Range, Surjection, Injection
<1>. HIDE DEF D
<1>. QED
  BY <1>2, <1>3, FS_Surjection

LEMMA AppendDistinct ==
    ASSUME NEW S, NEW s \in Seq(S), NEW v \in S, IsInjective(s), v \notin Range(s)
    PROVE  Append(s, v) \in Seq(S) /\ IsInjective(Append(s, v))
<1>1. ASSUME NEW i \in DOMAIN Append(s, v), NEW j \in DOMAIN Append(s, v),
             Append(s, v)[i] = Append(s, v)[j]
      PROVE  i = j
  <2>1. /\ i \in 1..(Len(s) + 1) /\ j \in 1..(Len(s) + 1) /\ Len(s) \in Nat
        /\ \A k \in 1..Len(s) : k \in DOMAIN s /\ Append(s, v)[k] = s[k] /\ s[k] # v
        /\ Append(s, v)[Len(s) + 1] = v
    BY DEF Range
  <2>2. CASE i \in 1..Len(s) /\ j \in 1..Len(s)
    BY <1>1, <2>1, <2>2 DEF IsInjective
  <2>3. CASE i = Len(s) + 1 \/ j = Len(s) + 1
    <3>1. i \in 1..Len(s) => Append(s, v)[i] # v
      BY <2>1
    <3>2. j \in 1..Len(s) => Append(s, v)[j] # v
      BY <2>1
    <3>. QED
      BY <1>1, <2>1, <2>3, <3>1, <3>2
  <2>. QED
    BY <2>1, <2>2, <2>3
<1>. QED
  BY <1>1 DEF IsInjective

LEMMA PartDistinct ==
    ASSUME NEW S, NEW s \in Seq(S), NEW m \in Nat, NEW n \in Nat, 1 <= m, n <= Len(s),
           IsInjective(s)
    PROVE  /\ SubSeq(s, m, n) \in Seq(S) /\ IsInjective(SubSeq(s, m, n))
           /\ Range(SubSeq(s, m, n)) \subseteq Range(s)
<1>. DEFINE t == SubSeq(s, m, n)
<1>1. t \in Seq(S) /\ Len(t) = IF m <= n THEN n - m + 1 ELSE 0
  OBVIOUS
<1>2. \A k \in 1..Len(t) : t[k] = s[m + k - 1] /\ m + k - 1 \in DOMAIN s
  OBVIOUS
<1>3. DOMAIN t = 1..Len(t) /\ Len(t) \in Nat
  BY <1>1
<1>. HIDE DEF t
<1>4. ASSUME NEW i \in DOMAIN t, NEW j \in DOMAIN t, t[i] = t[j] PROVE i = j
  <2>1. m + i - 1 = m + j - 1
    BY <1>2, <1>3, <1>4 DEF IsInjective
  <2>. QED
    BY <1>3, <2>1
<1>5. Range(t) \subseteq Range(s)
  BY <1>2, <1>3 DEF Range
<1>. QED
  BY <1>1, <1>4, <1>5 DEF IsInjective, t

LEMMA AppendRange ==
    ASSUME NEW S, NEW s \in Seq(S), NEW v \in S
    PROVE  Append(s, v) \in Seq(S) /\ Range(Append(s, v)) = Range(s) \cup {v}
<1>1. /\ Len(s) \in Nat /\ DOMAIN s = 1..Len(s) /\ DOMAIN Append(s, v) = 1..(Len(s) + 1)
      /\ \A i \in 1..Len(s) : Append(s, v)[i] = s[i]
      /\ Append(s, v)[Len(s) + 1] = v
  OBVIOUS
<1>2. /\ \A i \in 1..(Len(s) + 1) : i \in 1..Len(s) \/ i = Len(s) + 1
      /\ \A i \in 1..Len(s) : i \in 1..(Len(s) + 1)
      /\ Len(s) + 1 \in 1..(Len(s) + 1)
  BY <1>1
<1>. DEFINE t == Append(s, v)
<1>. HIDE DEF t
<1>3. Range(t) \subseteq Range(s) \cup {v}
  BY <1>1, <1>2 DEF Range, t
<1>4. Range(s) \subseteq Range(t) /\ v \in Range(t)
  BY <1>1, <1>2 DEF Range, t
<1>. QED
  BY <1>3, <1>4 DEF t

(* Popping takes the last element away, and it was there only once.        *)
LEMMA PoppedOnce ==
    ASSUME NEW S, NEW s \in Seq(S), s # <<>>, IsInjective(s)
    PROVE  /\ SubSeq(s, 1, Len(s) - 1) \in Seq(S)
           /\ IsInjective(SubSeq(s, 1, Len(s) - 1))
           /\ Range(s) = Range(SubSeq(s, 1, Len(s) - 1)) \cup {s[Len(s)]}
           /\ s[Len(s)] \notin Range(SubSeq(s, 1, Len(s) - 1))
<1>. DEFINE n == Len(s)
            f == SubSeq(s, 1, n - 1)
            x == s[n]
<1>1. n \in Nat \ {0} /\ DOMAIN s = 1..n
  OBVIOUS
<1>2. f \in Seq(S) /\ DOMAIN f = 1..(n - 1) /\ \A i \in 1..(n - 1) : f[i] = s[i]
  BY <1>1
<1>3. /\ \A i \in 1..n : i \in 1..(n - 1) \/ i = n
      /\ \A i \in 1..(n - 1) : i \in 1..n /\ i # n
      /\ n \in 1..n
  <2>. HIDE DEF n
  <2>1. \A i \in 1..n : i \in 1..(n - 1) \/ i = n
    BY <1>1
  <2>2. \A i \in 1..(n - 1) : i \in 1..n /\ i # n
    BY <1>1
  <2>3. n \in 1..n
    BY <1>1
  <2>. QED
    BY <2>1, <2>2, <2>3
<1>. HIDE DEF n, f
<1>4. \A i, j \in 1..n : s[i] = s[j] => i = j
  BY <1>1 DEF IsInjective
<1>5. \A i, j \in 1..(n - 1) : f[i] = f[j] => i = j
  BY <1>2, <1>3, <1>4
<1>6. IsInjective(f)
  BY <1>2, <1>5 DEF IsInjective
<1>7. Range(s) = {s[i] : i \in 1..n} /\ Range(f) = {f[i] : i \in 1..(n - 1)}
  BY <1>1, <1>2 DEF Range
<1>8. x \notin Range(f)
  BY <1>2, <1>3, <1>4, <1>7
<1>9. Range(s) = Range(f) \cup {x}
  BY <1>2, <1>3, <1>7
<1>. QED
  BY <1>2, <1>6, <1>8, <1>9 DEF f, n

-----------------------------------------------------------------------------
(* components.                                                             *)

Parts == {Reach(adjacent, v) : v \in Vertices}
Members == Range(comp)
OnStack == Range(stack)
Current == Members \cup OnStack
RangesOf(parts) == {Range(parts[i]) : i \in DOMAIN parts}
Found == RangesOf(out)

CompTypeOK ==
    /\ adjacent \in [Vertices -> SUBSET Vertices]
    /\ at \in 0..Len(Order)
    /\ stack \in Seq(Vertices) /\ comp \in Seq(Vertices)
    /\ out \in Seq(Seq(Vertices))
    /\ todo \subseteq Vertices

(* The component being collected: connected, apart from those found, and   *)
(* left by no edge that is not still to be looked at.                      *)
CurrentOK ==
    /\ \A S \in Found : S \cap Current = {}
    /\ Current # {} => \E r \in Current : Current \subseteq Reach(adjacent, r)
    /\ \A x \in Members : adjacent[x] \subseteq Current \cup todo
    /\ todo # {} => \E x \in Members : todo \subseteq adjacent[x]

(* No vertex waits or was collected twice, no component was found twice.   *)
NoneTwice == IsInjective(comp) /\ IsInjective(stack) /\ Members \cap OnStack = {}
Apart(parts) ==
    /\ \A i, j \in DOMAIN parts : i # j => Range(parts[i]) # Range(parts[j])
    /\ \A i \in DOMAIN parts : IsInjective(parts[i])

CompInv ==
    /\ CompTypeOK
    /\ Undirected =>
          /\ Found \subseteq Parts
          /\ seen = (UNION Found) \cup Current
          /\ \A i \in 1..at : Order[i] \in seen
          /\ CurrentOK
          /\ NoneTwice /\ Apart(out)

LEMMA VerticesFinite == IsFiniteSet(Vertices) /\ Len(Order) \in Nat
<1>1. Len(Order) \in Nat /\ DOMAIN Order = 1..Len(Order)
  BY OrderAssumption
<1>2. Order \in Surjection(1..Len(Order), Vertices)
  BY <1>1, OrderAssumption DEF Surjection, Vertices
<1>3. IsFiniteSet(1..Len(Order))
  BY <1>1, FS_Interval
<1>. QED
  BY <1>1, <1>2, <1>3, FS_Surjection

(* No edge leaves a component, and each of its vertices reaches all of it. *)
LEMMA PartsApart ==
    ASSUME CompTypeOK, Undirected, NEW S \in Parts, NEW v \in S
    PROVE  /\ S \subseteq Vertices /\ S = Reach(adjacent, v) /\ adjacent[v] \subseteq S
           /\ \A w \in Vertices : v \in adjacent[w] => w \in S
<1>1. PICK r \in Vertices : S = Reach(adjacent, r)
  BY DEF Parts
<1>2. adjacent \in [Vertices -> SUBSET Vertices] /\ IsFiniteSet(Vertices)
  BY VerticesFinite DEF CompTypeOK
<1>3. \A x, y \in Vertices : y \in adjacent[x] => x \in adjacent[y]
  BY DEF Undirected
<1>4. S \subseteq Vertices /\ ClosedUnder(adjacent, S)
  BY <1>1, <1>2, ReachClosed
<1>5. Reach(adjacent, v) = S
  BY <1>1, <1>2, <1>3, ReachSymmetric
<1>. QED
  BY <1>3, <1>4, <1>5 DEF ClosedUnder

LEMMA InitComp == CompInit => CompInv
<1>1. SUFFICES ASSUME CompInit PROVE CompInv
  OBVIOUS
<1>2. comp = <<>> /\ stack = <<>> /\ out = <<>> /\ todo = {} /\ seen = {} /\ at = 0
  BY <1>1 DEF CompInit
<1>3. Members = {} /\ OnStack = {} /\ Found = {}
  BY <1>2 DEF Members, OnStack, Found, RangesOf, Range
<1>4. NoneTwice /\ Apart(out)
  BY <1>2, <1>3 DEF NoneTwice, Apart, IsInjective
<1>5. CompTypeOK
  BY <1>1, VerticesFinite DEF CompInit, CompTypeOK
<1>. QED
  BY <1>2, <1>3, <1>4, <1>5 DEF CompInv, CurrentOK, Current

(* A part that is not in the array yet keeps it free of repetition.        *)
LEMMA AppendApart ==
    ASSUME NEW parts \in Seq(Seq(Vertices)), NEW c \in Seq(Vertices),
           Apart(parts), IsInjective(c), Range(c) \notin RangesOf(parts)
    PROVE  /\ Append(parts, c) \in Seq(Seq(Vertices)) /\ Apart(Append(parts, c))
           /\ RangesOf(Append(parts, c)) = RangesOf(parts) \cup {Range(c)}
<1>. DEFINE n == Len(parts)
            more == Append(parts, c)
<1>1. /\ n \in Nat /\ DOMAIN parts = 1..n /\ DOMAIN more = 1..(n + 1)
      /\ (\A i \in 1..n : more[i] = parts[i]) /\ more[n + 1] = c
      /\ more \in Seq(Seq(Vertices))
  OBVIOUS
<1>2. /\ \A i \in 1..(n + 1) : i \in 1..n \/ i = n + 1
      /\ \A i \in 1..n : i \in 1..(n + 1)
      /\ n + 1 \in 1..(n + 1)
  BY <1>1
<1>. HIDE DEF n, more
<1>3. /\ \A i \in 1..n : Range(more[i]) # Range(c) /\ Range(more[i]) \in RangesOf(parts)
      /\ \A i, j \in 1..n : i # j => Range(more[i]) # Range(more[j])
      /\ \A i \in 1..n : IsInjective(more[i])
  BY <1>1 DEF Apart, RangesOf
<1>4. Apart(more)
  <2>1. \A i, j \in 1..(n + 1) : i # j => Range(more[i]) # Range(more[j])
    BY <1>1, <1>2, <1>3
  <2>2. \A i \in 1..(n + 1) : IsInjective(more[i])
    BY <1>1, <1>2, <1>3
  <2>. QED
    BY <1>1, <2>1, <2>2 DEF Apart
<1>5. RangesOf(more) = RangesOf(parts) \cup {Range(c)}
  BY <1>1, <1>2 DEF RangesOf
<1>. QED
  BY <1>1, <1>4, <1>5 DEF more

(* When the stack is empty, what was collected is a component, and one     *)
(* that was not found before.                                              *)
LEMMA CollectedParts ==
    ASSUME CompInv, Undirected, stack = <<>>, todo = {}
    PROVE  /\ Collected \in Seq(Seq(Vertices)) /\ Apart(Collected)
           /\ RangesOf(Collected) \subseteq Parts
           /\ UNION RangesOf(Collected) = seen
<1>0. /\ CompTypeOK /\ CurrentOK /\ NoneTwice /\ Apart(out)
      /\ Found \subseteq Parts /\ seen = (UNION Found) \cup Current
  BY DEF CompInv
<1>1. OnStack = {} /\ Current = Members
  BY DEF OnStack, Current, Range
<1>2. CASE comp = <<>>
  <2>1. Members = {} /\ Collected = out
    BY <1>2 DEF Members, Collected, Range
  <2>. QED
    BY <1>0, <1>1, <2>1 DEF Found, CompTypeOK
<1>3. CASE comp # <<>>
  <2>0. Collected = Append(out, comp) /\ Members # {}
    <3>1. comp \in Seq(Vertices) /\ Len(comp) # 0
      BY <1>0, <1>3 DEF CompTypeOK
    <3>2. 1 \in DOMAIN comp
      BY <3>1
    <3>. QED
      BY <1>3, <3>2 DEF Collected, Members, Range
  <2>1. PICK r \in Members : Members \subseteq Reach(adjacent, r)
    BY <1>0, <1>1, <2>0 DEF CurrentOK
  <2>2. Members \subseteq Vertices
    BY <1>0 DEF Members, Range, CompTypeOK
  <2>3. ClosedUnder(adjacent, Members)
    BY <1>0, <1>1 DEF CurrentOK, ClosedUnder
  <2>4. r \in Vertices /\ adjacent \in [Vertices -> SUBSET Vertices]
    BY <1>0, <2>1, <2>2 DEF CompTypeOK
  <2>5. Reach(adjacent, r) \subseteq Members
    BY <2>1, <2>2, <2>3, <2>4, VerticesFinite, ReachLeast
  <2>6. Members \in Parts
    BY <2>1, <2>4, <2>5 DEF Parts
  <2>7. Members \notin Found
    BY <1>0, <1>1, <2>0 DEF CurrentOK
  <2>8. /\ Collected \in Seq(Seq(Vertices)) /\ Apart(Collected)
        /\ RangesOf(Collected) = Found \cup {Members}
    BY <1>0, <2>0, <2>7, AppendApart DEF CompTypeOK, NoneTwice, Members, Found
  <2>. QED
    BY <1>0, <1>1, <2>6, <2>8
<1>. QED
  BY <1>2, <1>3

LEMMA NextNodeComp == CompInv /\ NextNode => CompInv'
<1>1. SUFFICES ASSUME CompInv, NextNode PROVE CompInv'
  OBVIOUS
<1>. DEFINE node == Order[at + 1]
<1>2. /\ stack = <<>> /\ todo = {} /\ todo' = {} /\ at' = at + 1 /\ out' = Collected
      /\ comp' = <<>> /\ adjacent' = adjacent /\ CompTypeOK
      /\ at \in Nat /\ at + 1 \in 1..Len(Order) /\ node \in Vertices
  BY <1>1, OrderAssumption, VerticesFinite DEF NextNode, CompInv, CompTypeOK
<1>3. /\ stack' = IF node \in seen THEN <<>> ELSE <<node>>
      /\ seen' = IF node \in seen THEN seen ELSE seen \cup {node}
  BY <1>1 DEF NextNode
<1>4. stack' \in Seq(Vertices) /\ comp' \in Seq(Vertices) /\ out' \in Seq(Seq(Vertices))
  BY <1>2, <1>3 DEF Collected, CompTypeOK
<1>5. CompTypeOK'
  BY <1>2, <1>4, VerticesFinite DEF CompTypeOK
<1>6. /\ Members' = {} /\ OnStack' = IF node \in seen THEN {} ELSE {node}
      /\ IsInjective(comp') /\ IsInjective(stack')
  BY <1>2, <1>3 DEF Members, OnStack, Range, IsInjective
<1>7. Current' = IF node \in seen THEN {} ELSE {node}
  BY <1>6 DEF Current
<1>8. SUFFICES ASSUME Undirected
               PROVE  /\ Found' \subseteq Parts'
                      /\ seen' = (UNION Found') \cup Current'
                      /\ \A i \in 1..at' : Order[i] \in seen'
                      /\ CurrentOK'
                      /\ NoneTwice' /\ Apart(out')
  BY <1>2, <1>5 DEF CompInv, Undirected
<1>9. Found' \subseteq Parts' /\ UNION Found' = seen /\ Apart(out')
  BY <1>1, <1>2, <1>8, CollectedParts DEF Parts, Found
<1>10. \A i \in 1..at' : Order[i] \in seen'
  <2>1. ASSUME NEW i \in 1..(at + 1) PROVE i \in 1..at \/ i = at + 1
    BY <1>2
  <2>2. \A i \in 1..at : Order[i] \in seen
    BY <1>1, <1>8 DEF CompInv
  <2>. QED
    BY <1>2, <1>3, <2>1, <2>2
<1>11. CurrentOK'
  <2>1. node \in Reach(adjacent, node)
    BY <1>1, <1>2, VerticesFinite, ReachClosed DEF CompInv, CompTypeOK
  <2>. QED
    BY <1>2, <1>6, <1>7, <1>9, <2>1 DEF CurrentOK
<1>12. NoneTwice'
  BY <1>6 DEF NoneTwice
<1>. QED
  BY <1>3, <1>7, <1>9, <1>10, <1>11, <1>12

LEMMA PopComp == CompInv /\ Pop => CompInv'
<1>1. SUFFICES ASSUME CompInv, Pop PROVE CompInv'
  OBVIOUS
<1>. DEFINE x == stack[Len(stack)]
<1>2. /\ todo = {} /\ comp' = Append(comp, x) /\ todo' = adjacent[x]
      /\ stack' = SubSeq(stack, 1, Len(stack) - 1) /\ stack # <<>>
      /\ UNCHANGED <<adjacent, at, seen, out>> /\ CompTypeOK
      /\ stack \in Seq(Vertices) /\ comp \in Seq(Vertices) /\ x \in Vertices
  BY <1>1 DEF Pop, CompInv, CompTypeOK
<1>3. comp' \in Seq(Vertices) /\ Members' = Members \cup {x}
  BY <1>2, AppendRange DEF Members
<1>4. stack' \in Seq(Vertices)
  BY <1>2
<1>5. CompTypeOK'
  BY <1>2, <1>3, <1>4 DEF CompTypeOK
<1>6. SUFFICES ASSUME Undirected
               PROVE  /\ Current' = Current
                      /\ CurrentOK'
                      /\ NoneTwice'
  BY <1>1, <1>2, <1>5 DEF CompInv, Undirected, Parts, Found
<1>7. CurrentOK /\ NoneTwice
  BY <1>1, <1>6 DEF CompInv
<1>8. /\ OnStack = OnStack' \cup {x} /\ x \notin OnStack' /\ IsInjective(stack')
  <2>1. stack # <<>> /\ IsInjective(stack) /\ stack \in Seq(Vertices)
    BY <1>2, <1>7 DEF NoneTwice
  <2>. DEFINE front == SubSeq(stack, 1, Len(stack) - 1)
  <2>2. /\ Range(stack) = Range(front) \cup {x} /\ x \notin Range(front)
        /\ IsInjective(front)
    BY <2>1, PoppedOnce
  <2>3. stack' = front
    BY <1>2
  <2>. QED
    BY <2>2, <2>3 DEF OnStack
<1>9. Current' = Current
  BY <1>3, <1>8 DEF Current
<1>10. NoneTwice'
  <2>1. x \notin Members /\ Members \cap OnStack = {}
    BY <1>7, <1>8 DEF NoneTwice
  <2>2. IsInjective(comp')
    BY <1>2, <1>7, <2>1, AppendDistinct DEF NoneTwice, Members
  <2>3. Members' \cap OnStack' = {}
    BY <1>3, <1>8, <2>1
  <2>. QED
    BY <1>8, <2>2, <2>3 DEF NoneTwice
<1>11. CurrentOK'
  <2>1. x \in Members'
    BY <1>3
  <2>2. \A y \in Members' : adjacent[y] \subseteq Current \cup todo'
    BY <1>2, <1>3, <1>7 DEF CurrentOK
  <2>. QED
    BY <1>2, <1>7, <1>9, <2>1, <2>2 DEF CurrentOK, Found
<1>. QED
  BY <1>9, <1>10, <1>11

LEMMA PushComp == CompInv /\ Push => CompInv'
<1>1. SUFFICES ASSUME CompInv, Push PROVE CompInv'
  OBVIOUS
<1>2. PICK v \in todo :
        /\ todo' = todo \ {v}
        /\ IF v \in seen THEN UNCHANGED <<seen, stack>>
           ELSE seen' = seen \cup {v} /\ stack' = Append(stack, v)
  BY <1>1 DEF Push
<1>3. UNCHANGED <<adjacent, at, comp, out>> /\ v \in Vertices /\ stack \in Seq(Vertices)
  BY <1>1, <1>2 DEF Push, CompInv, CompTypeOK
<1>4. /\ Append(stack, v) \in Seq(Vertices)
      /\ Range(Append(stack, v)) = Range(stack) \cup {v}
  BY <1>3, AppendRange
<1>5. /\ v \in seen => OnStack' = OnStack
      /\ v \notin seen => OnStack' = OnStack \cup {v}
      /\ CompTypeOK'
  <2>1. CASE v \in seen
    BY <1>1, <1>2, <1>3, <2>1 DEF CompInv, CompTypeOK, OnStack
  <2>2. CASE v \notin seen
    <3>. stack' = Append(stack, v)
      BY <1>2, <2>2
    <3>1. CompTypeOK'
      BY <1>1, <1>2, <1>3, <1>4 DEF CompInv, CompTypeOK
    <3>. QED
      BY <1>4, <2>2, <3>1 DEF OnStack
  <2>. QED
    BY <2>1, <2>2
<1>6. Members' = Members /\ Found' = Found
  BY <1>3 DEF Members, Found
<1>7. Current' = IF v \in seen THEN Current ELSE Current \cup {v}
  BY <1>5, <1>6 DEF Current
<1>8. SUFFICES ASSUME Undirected
               PROVE  /\ Found \subseteq Parts
                      /\ seen' = (UNION Found) \cup Current'
                      /\ \A i \in 1..at : Order[i] \in seen'
                      /\ CurrentOK'
                      /\ NoneTwice' /\ Apart(out)
  BY <1>3, <1>5, <1>6 DEF CompInv, Undirected, Parts
<1>9. /\ Found \subseteq Parts /\ seen = (UNION Found) \cup Current
      /\ (\A i \in 1..at : Order[i] \in seen) /\ CurrentOK /\ CompTypeOK
      /\ NoneTwice /\ Apart(out)
  BY <1>1, <1>8 DEF CompInv
<1>10. PICK x \in Members : v \in adjacent[x] /\ x \in Vertices
  BY <1>2, <1>9 DEF CurrentOK, CompTypeOK, Members, Range
<1>11. \A S \in Found : v \notin S
  <2>. SUFFICES ASSUME NEW S \in Found, v \in S PROVE FALSE
    OBVIOUS
  <2>1. x \in S
    BY <1>8, <1>9, <1>10, PartsApart
  <2>. QED
    BY <1>9, <1>10, <2>1 DEF CurrentOK, Current
<1>12. v \in Current'
  BY <1>7, <1>9, <1>11
<1>13. PICK r \in Current : Current \subseteq Reach(adjacent, r)
  BY <1>9, <1>10 DEF CurrentOK, Current
<1>14. Current' \subseteq Reach(adjacent, r) /\ r \in Current'
  <2>1. r \in Vertices
    BY <1>9, <1>13 DEF Current, OnStack, Members, Range, CompTypeOK
  <2>2. ClosedUnder(adjacent, Reach(adjacent, r))
    BY <1>9, <2>1, VerticesFinite, ReachClosed DEF CompTypeOK
  <2>3. x \in Reach(adjacent, r)
    BY <1>10, <1>13 DEF Current
  <2>4. v \in Reach(adjacent, r)
    BY <1>10, <2>2, <2>3 DEF ClosedUnder
  <2>. QED
    BY <1>7, <1>13, <2>4
<1>15. CurrentOK'
  <2>1. \A S \in Found : S \cap Current' = {}
    BY <1>7, <1>9, <1>11 DEF CurrentOK
  <2>2. \A y \in Members : adjacent[y] \subseteq Current' \cup todo'
    BY <1>2, <1>7, <1>9, <1>12 DEF CurrentOK
  <2>3. todo' # {} => \E y \in Members : todo' \subseteq adjacent[y]
    BY <1>2, <1>9 DEF CurrentOK
  <2>. QED
    BY <1>3, <1>6, <1>14, <2>1, <2>2, <2>3 DEF CurrentOK
<1>16. NoneTwice'
  <2>1. CASE v \in seen
    BY <1>2, <1>3, <1>5, <1>6, <1>9, <2>1 DEF NoneTwice
  <2>2. CASE v \notin seen
    <3>1. v \notin Members /\ v \notin OnStack
      BY <1>9, <2>2 DEF Current
    <3>2. IsInjective(stack')
      <4>1. IsInjective(stack) /\ v \notin Range(stack)
        BY <1>9, <3>1 DEF NoneTwice, OnStack
      <4>2. IsInjective(Append(stack, v))
        BY <1>3, <4>1, AppendDistinct
      <4>. QED
        BY <1>2, <2>2, <4>2
    <3>3. Members' \cap OnStack' = {}
      BY <1>5, <1>6, <1>9, <2>2, <3>1 DEF NoneTwice
    <3>. QED
      BY <1>3, <1>9, <3>2, <3>3 DEF NoneTwice
  <2>. QED
    BY <2>1, <2>2
<1>. QED
  BY <1>2, <1>7, <1>9, <1>15, <1>16

(* On every finite undirected graph, and for every order of its vertices   *)
(* and edges, `components' returns the connected components, each once and *)
(* each vertex once in its component.                                      *)
THEOREM ComponentsFound == CompSpec => []ComponentsExact
<1>1. CompInv /\ [CompNext]_compVars => CompInv'
  <2>1. CASE UNCHANGED compVars
    <3>1. /\ CompTypeOK' = CompTypeOK /\ Undirected' = Undirected /\ Parts' = Parts
          /\ Found' = Found /\ Current' = Current /\ CurrentOK' = CurrentOK
          /\ NoneTwice' = NoneTwice /\ Apart(out)' = Apart(out)
      BY <2>1 DEF compVars, CompTypeOK, Undirected, Parts, Found, RangesOf, Current,
                  Members, OnStack, CurrentOK, NoneTwice, Apart
    <3>. QED
      BY <2>1, <3>1 DEF compVars, CompInv
  <2>. QED
    BY <2>1, NextNodeComp, PopComp, PushComp DEF CompNext
<1>2. CompInv => ComponentsExact
  <2>. SUFFICES ASSUME CompInv, Returned, Undirected
                PROVE  RangesOf(Collected) = Parts /\ Apart(Collected)
    BY DEF ComponentsExact, Parts, RangesOf, Apart
  <2>1. /\ RangesOf(Collected) \subseteq Parts /\ Apart(Collected)
        /\ UNION RangesOf(Collected) = seen
    BY CollectedParts DEF Returned
  <2>2. \A v \in Vertices : v \in seen
    BY OrderAssumption, VerticesFinite DEF CompInv, Returned, Vertices
  <2>3. ASSUME NEW v \in Vertices PROVE Reach(adjacent, v) \in RangesOf(Collected)
    <3>1. PICK S \in RangesOf(Collected) : v \in S
      BY <2>1, <2>2
    <3>2. S = Reach(adjacent, v)
      BY <2>1, <3>1, PartsApart DEF CompInv
    <3>. QED
      BY <3>1, <3>2
  <2>. QED
    BY <2>1, <2>3 DEF Parts
<1>. QED
  BY <1>1, <1>2, InitComp, PTL DEF CompSpec

-----------------------------------------------------------------------------
LEMMA SecondHalf ==
    ASSUME NEW S, NEW s \in Seq(S), NEW t \in Seq(S), NEW k \in Nat, Len(s) < k, k <= Len(s) + Len(t)
    PROVE  (s \o t)[k] = t[k - Len(s)]
OBVIOUS

LEMMA RemoveDistinct ==
    ASSUME NEW S, NEW s \in Seq(S), NEW i \in DOMAIN s, IsInjective(s)
    PROVE  /\ RemoveAt(s, i) \in Seq(S) /\ IsInjective(RemoveAt(s, i))
           /\ Len(RemoveAt(s, i)) = Len(s) - 1
<1>. DEFINE t == RemoveAt(s, i)
            old(k) == IF k < i THEN k ELSE k + 1
            A == SubSeq(s, 1, i - 1)
            B == SubSeq(s, i + 1, Len(s))
<1>1. i \in 1..Len(s) /\ Len(s) \in Nat
  OBVIOUS
<1>2. A \in Seq(S) /\ Len(A) = i - 1 /\ \A k \in 1..Len(A) : A[k] = s[k]
  BY <1>1
<1>3. B \in Seq(S) /\ Len(B) = Len(s) - i /\ \A k \in 1..Len(B) : B[k] = s[i + k]
  BY <1>1
<1>4. t = A \o B
  BY DEF RemoveAt
<1>. HIDE DEF t, A, B
<1>5. t \in Seq(S) /\ Len(t) = Len(s) - 1 /\ DOMAIN t = 1..Len(t) /\ Len(t) \in Nat
  BY <1>1, <1>2, <1>3, <1>4
<1>6. ASSUME NEW k \in 1..Len(t) PROVE t[k] = s[old(k)] /\ old(k) \in DOMAIN s
  <2>1. k \in 1..(Len(s) - 1)
    BY <1>5
  <2>2. CASE k < i
    BY <1>1, <1>2, <1>3, <1>4, <2>1, <2>2
  <2>3. CASE ~(k < i)
    <3>1. k - (i - 1) \in 1..Len(B) /\ i + (k - (i - 1)) = k + 1
      BY <1>1, <1>3, <2>1, <2>3
    <3>2. k \in Nat /\ Len(A) < k /\ k <= Len(A) + Len(B)
      BY <1>1, <1>2, <1>3, <2>1, <2>3
    <3>3. (A \o B)[k] = B[k - Len(A)]
      BY <1>2, <1>3, <3>2, SecondHalf
    <3>4. t[k] = B[k - (i - 1)]
      BY <1>2, <1>4, <3>3
    <3>. QED
      BY <1>1, <1>3, <2>1, <2>3, <3>1, <3>4
  <2>. QED
    BY <2>2, <2>3
<1>7. ASSUME NEW j \in DOMAIN t, NEW k \in DOMAIN t, t[j] = t[k] PROVE j = k
  <2>1. old(j) = old(k)
    BY <1>5, <1>6, <1>7 DEF IsInjective
  <2>. QED
    BY <1>1, <1>5, <2>1
<1>. QED
  BY <1>5, <1>7 DEF IsInjective, t

-----------------------------------------------------------------------------
(* Walks of a drawing.                                                     *)
Walks(g) == {p \in Seq(NodesOf(g)) : /\ Len(p) > 0
                                     /\ \A i \in 1..(Len(p) - 1) : Joined(g, p[i], p[i + 1])}

LEMMA EdgeJoins ==
    ASSUME NEW g, NEW a, NEW b, edgeBetween(g, a, b) # 0 PROVE Joined(g, a, b)
<1>1. PICK i \in DOMAIN g.edges : Leads(g, i, a, b)
  BY DEF edgeBetween
<1>2. g.edges[i] = <<a, b>> \/ g.edges[i] = <<b, a>>
  BY <1>1 DEF Leads
<1>3. {g.edges[i][1], g.edges[i][2]} = {a, b}
  BY <1>2
<1>. QED
  BY <1>3 DEF Joined

LEMMA WalkOn ==
    ASSUME NEW g, NEW p \in Walks(g), NEW v \in NodesOf(g), Joined(g, Last(p), v)
    PROVE  Append(p, v) \in Walks(g)
<1>1. p \in Seq(NodesOf(g)) /\ Len(p) \in Nat /\ Len(p) > 0
  BY DEF Walks
<1>2. /\ Append(p, v) \in Seq(NodesOf(g)) /\ Len(Append(p, v)) = Len(p) + 1
      /\ \A k \in 1..Len(p) : Append(p, v)[k] = p[k]
      /\ Append(p, v)[Len(p) + 1] = v
  BY <1>1
<1>3. ASSUME NEW i \in 1..Len(p) PROVE Joined(g, Append(p, v)[i], Append(p, v)[i + 1])
  <2>1. CASE i = Len(p)
    BY <1>1, <1>2, <2>1 DEF Last
  <2>2. CASE i # Len(p)
    <3>1. i \in 1..(Len(p) - 1) /\ i + 1 \in 1..Len(p)
      BY <1>1, <2>2
    <3>. QED
      BY <1>2, <3>1 DEF Walks
  <2>. QED
    BY <2>1, <2>2
<1>. DEFINE q == Append(p, v)
<1>. HIDE DEF q
<1>4. Len(q) > 0 /\ Len(q) - 1 = Len(p)
  BY <1>1, <1>2 DEF q
<1>5. \A i \in 1..(Len(q) - 1) : Joined(g, q[i], q[i + 1])
  BY <1>3, <1>4 DEF q
<1>6. q \in Walks(g)
  BY <1>2, <1>4, <1>5 DEF Walks, q
<1>. QED
  BY <1>6 DEF q

LEMMA WalkBack ==
    ASSUME NEW g, NEW p \in Walks(g), Len(p) >= 2
    PROVE  /\ Front(p) \in Walks(g) /\ Len(Front(p)) = Len(p) - 1
           /\ \A k \in 1..(Len(p) - 1) : Front(p)[k] = p[k]
<1>1. p \in Seq(NodesOf(g)) /\ Len(p) \in Nat
  BY DEF Walks
<1>2. /\ Front(p) \in Seq(NodesOf(g)) /\ Len(Front(p)) = Len(p) - 1
      /\ \A k \in 1..(Len(p) - 1) : Front(p)[k] = p[k]
  BY <1>1 DEF Front
<1>3. ASSUME NEW i \in 1..(Len(p) - 2) PROVE Joined(g, Front(p)[i], Front(p)[i + 1])
  <2>1. i \in 1..(Len(p) - 1) /\ i + 1 \in 1..(Len(p) - 1)
    BY <1>1
  <2>. QED
    BY <1>2, <2>1 DEF Walks
<1>. QED
  BY <1>1, <1>2, <1>3 DEF Walks

-----------------------------------------------------------------------------
(* Trails of edges.                                                        *)
Across(g, i, S) == UNION {Range(g.edges[i]) \ {v} : v \in S \cap Range(g.edges[i])}
TrailTo(g, v, trail, n, f) ==
    f = [k \in 0..n |-> IF k = 0 THEN {v} ELSE Across(g, trail[k], f[k - 1])]

LEMMA TrailsExist ==
    ASSUME NEW g, NEW v, NEW trail
    PROVE  \A n \in Nat : \E f : TrailTo(g, v, trail, n, f)
<1>. DEFINE S == {n \in Nat : \E f : TrailTo(g, v, trail, n, f)}
<1>1. 0 \in S
  <2>1. TrailTo(g, v, trail, 0, [k \in 0..0 |-> {v}])
    BY DEF TrailTo
  <2>. QED
    BY <2>1
<1>2. ASSUME NEW n \in Nat, n \in S PROVE n + 1 \in S
  <2>1. PICK f : TrailTo(g, v, trail, n, f)
    BY <1>2
  <2>. DEFINE h == [k \in 0..(n + 1) |-> IF k = n + 1 THEN Across(g, trail[n + 1], f[n]) ELSE f[k]]
  <2>2. ASSUME NEW k \in 0..(n + 1)
        PROVE  h[k] = IF k = 0 THEN {v} ELSE Across(g, trail[k], h[k - 1])
    <3>1. CASE k = n + 1
      BY <3>1
    <3>2. CASE k \in 0..n
      <4>1. h[k] = f[k] /\ (k # 0 => h[k - 1] = f[k - 1])
        BY <3>2
      <4>2. f[k] = IF k = 0 THEN {v} ELSE Across(g, trail[k], f[k - 1])
        BY <2>1, <3>2 DEF TrailTo
      <4>. QED
        BY <3>2, <4>1, <4>2
    <3>. QED
      BY <3>1, <3>2
  <2>3. TrailTo(g, v, trail, n + 1, h)
    BY <2>2 DEF TrailTo
  <2>. QED
    BY <2>3
<1>. HIDE DEF S
<1>3. Nat \subseteq S
  BY <1>1, <1>2, SetInduction
<1>. QED
  BY <1>3 DEF S

LEMMA LeadingFound ==
    ASSUME NEW t, NEW trail, Len(trail) \in Nat
    PROVE  \E f : /\ TrailTo(t.graph, t.start, trail, Len(trail), f)
                  /\ Leading(t, trail) = f[Len(trail)]
<1>. DEFINE f == CHOOSE f : TrailTo(t.graph, t.start, trail, Len(trail), f)
<1>1. TrailTo(t.graph, t.start, trail, Len(trail), f)
  BY TrailsExist
<1>2. Leading(t, trail) = f[Len(trail)]
  BY DEF Leading, TrailTo, Across
<1>. QED
  BY <1>1, <1>2

LEMMA TrailGoes ==
    ASSUME NEW g, NEW v, NEW trail, NEW n \in Nat, NEW f, TrailTo(g, v, trail, n, f),
           NEW k \in Nat, k < n
    PROVE  f[k + 1] = Across(g, trail[k + 1], f[k])
<1>1. k + 1 \in 0..n /\ k + 1 # 0 /\ (k + 1) - 1 = k
  OBVIOUS
<1>. DEFINE m == k + 1
<1>. HIDE DEF m
<1>2. f[m] = IF m = 0 THEN {v} ELSE Across(g, trail[m], f[m - 1])
  BY <1>1 DEF TrailTo, m
<1>3. m # 0 /\ m - 1 = k
  BY <1>1 DEF m
<1>. QED
  BY <1>2, <1>3 DEF m

(* A longer trail leads where the last edge takes the shorter one.         *)
LEMMA LeadingOn ==
    ASSUME NEW t, NEW S, NEW trail \in Seq(S), NEW i \in S
    PROVE  Leading(t, Append(trail, i)) = Across(t.graph, i, Leading(t, trail))
<1>. DEFINE n == Len(trail)
            longer == Append(trail, i)
<1>1. /\ n \in Nat /\ Len(longer) = n + 1 /\ longer[n + 1] = i
      /\ \A k \in 1..n : longer[k] = trail[k]
  OBVIOUS
<1>. HIDE DEF n, longer
<1>2. PICK f : TrailTo(t.graph, t.start, trail, n, f) /\ Leading(t, trail) = f[n]
  BY <1>1, LeadingFound DEF n
<1>3. PICK h : TrailTo(t.graph, t.start, longer, n + 1, h) /\ Leading(t, longer) = h[n + 1]
  BY <1>1, LeadingFound
<1>4. h[n + 1] = Across(t.graph, i, h[n])
  BY <1>1, <1>3 DEF TrailTo
<1>5. h[n] = f[n]
  <2>. DEFINE T == {k \in Nat : k <= n => h[k] = f[k]}
  <2>1. 0 \in T
    BY <1>1, <1>2, <1>3 DEF TrailTo
  <2>2. ASSUME NEW k \in Nat, k \in T PROVE k + 1 \in T
    <3>1. SUFFICES ASSUME k + 1 <= n PROVE h[k + 1] = f[k + 1]
      OBVIOUS
    <3>2. k < n /\ k < n + 1 /\ n + 1 \in Nat /\ k + 1 \in 1..n
      BY <1>1, <3>1
    <3>3. h[k] = f[k]
      BY <1>1, <2>2, <3>1
    <3>4. h[k + 1] = Across(t.graph, longer[k + 1], h[k])
      BY <1>3, <3>2, TrailGoes
    <3>5. f[k + 1] = Across(t.graph, trail[k + 1], f[k])
      BY <1>1, <1>2, <3>2, TrailGoes
    <3>. QED
      BY <1>1, <3>2, <3>3, <3>4, <3>5
  <2>. HIDE DEF T
  <2>3. n \in T
    BY <1>1, <2>1, <2>2, SetInduction
  <2>. QED
    BY <1>1, <2>3 DEF T
<1>. QED
  BY <1>2, <1>3, <1>4, <1>5 DEF longer

LEMMA NoTrail == ASSUME NEW t PROVE Leading(t, <<>>) = {t.start}
<1>1. PICK f : TrailTo(t.graph, t.start, <<>>, 0, f) /\ Leading(t, <<>>) = f[0]
  BY LeadingFound
<1>. QED
  BY <1>1 DEF TrailTo

LEMMA EdgeAcross ==
    ASSUME NEW g, NEW i, NEW V, g.edges[i] \in V \X V, g.edges[i][1] # g.edges[i][2],
           NEW c \in Range(g.edges[i])
    PROVE  LET e == g.edges[i]
               next == IF e[1] = c THEN e[2] ELSE e[1]
           IN  next \in V /\ Across(g, i, {c}) = {next}
<1>. DEFINE e == g.edges[i]
            next == IF e[1] = c THEN e[2] ELSE e[1]
<1>1. Range(e) = {e[1], e[2]} /\ e[1] \in V /\ e[2] \in V /\ e[1] # e[2]
  BY DEF Range
<1>. HIDE DEF e
<1>2. Across(g, i, {c}) = Range(e) \ {c}
  BY DEF Across, e
<1>3. c = e[1] \/ c = e[2]
  BY <1>1 DEF e
<1>. QED
  BY <1>1, <1>2, <1>3 DEF e

-----------------------------------------------------------------------------
(* The desk: what an action may make of the work, by the type of the task. *)
Trace == {"path-trace", "hamilton-trace"}
Clicks == {"node-click", "page-equal"}
NextStop(i) ==
    LET e == task.graph.edges[i] IN IF e[1] = work.current THEN e[2] ELSE e[1]
Edits(next) ==
    \/ next = work
    \/ /\ IsOf(EdgeTasks)
       /\ \/ next = task.preset
          \/ "solution" \in DOMAIN task /\ next = EdgeSet(task.solution)
          \/ \E e \in completeEdges(task.nodes) : next = work \ {e} \/ next = work \cup {e}
    \/ /\ IsOf(Clicks)
       /\ \/ next = <<>>
          \/ \E i \in DOMAIN work : next = RemoveAt(work, i)
          \/ \E v \in NodesOf(task.graph) :
                /\ v \notin Range(work)
                /\ next = IF IsOf({"page-equal"}) THEN KeepingNewest(v)
                          ELSE IF Len(work) >= task.requiredCount THEN Append(Tail(work), v)
                          ELSE Append(work, v)
    \/ /\ IsOf({"order-steps"})
       /\ \/ next = <<>>
          \/ \E x \in 0..task.steps : x \notin Range(work) /\ next = Append(work, x)
          \/ \E i \in DOMAIN work : next = RemoveAt(work, i)
    \/ /\ IsOf(Trace)
       /\ \/ next = <<task.start>>
          \/ \E v \in NodesOf(task.graph) :
                \/ IsOf({"path-trace"}) /\ next = PathTo(work, v)
                \/ IsOf({"hamilton-trace"}) /\ next = CycleTo(work, v)
    \/ /\ IsOf({"euler-trace"})
       /\ \/ next = [trail |-> <<>>, current |-> task.start]
          \/ \E i \in DOMAIN task.graph.edges :
                /\ i \notin Range(work.trail) /\ work.current \in Range(task.graph.edges[i])
                /\ next = [trail |-> Append(work.trail, i), current |-> NextStop(i)]
    \/ ~IsOf(EdgeTasks \cup Clicks \cup Trace \cup {"order-steps", "euler-trace"})

LEMMA DeskEdits == ASSUME [DeskNext]_deskVars PROVE card' = card /\ Edits(work')
<1>1. CASE UNCHANGED <<card, work>>
  BY <1>1 DEF Edits
<1>2. CASE ToggleEdge \/ ShowExample \/ ClearEdges
  BY <1>2 DEF ToggleEdge, ShowExample, ClearEdges, Keeping, IsOf, Edits
<1>3. CASE declareImpossible \/ CheckEdges \/ CheckMatrix \/ CheckNodes \/ CheckDecisions
           \/ CheckSteps \/ CheckWalk \/ CheckEdge \/ CheckTrail \/ CheckDegrees \/ CheckAnswers
  <2>1. UNCHANGED <<card, work>>
    BY <1>3 DEF declareImpossible, CheckEdges, CheckMatrix, CheckNodes, CheckDecisions,
       CheckSteps, CheckWalk, CheckEdge, CheckTrail, CheckDegrees, CheckAnswers, Judge
  <2>. QED
    BY <1>1, <2>1
<1>4. CASE ToggleCell \/ ClearMatrix \/ Type \/ ClearAnswers \/ Pick \/ ClearDecisions
           \/ SelectEdge \/ Enter \/ ClearDegrees
  <2>1. card' = card
    BY <1>4 DEF ToggleCell, ClearMatrix, Type, ClearAnswers, Pick, ClearDecisions,
       SelectEdge, Enter, ClearDegrees, Keeping, Wiping, StartOver
  <2>2. IsOf({"matrix-fill", "compute", "impossibility", "edge-click", "page-directed"})
    BY <1>4 DEF ToggleCell, ClearMatrix, Type, ClearAnswers, Pick, ClearDecisions,
       SelectEdge, Enter, ClearDegrees, IsOf
  <2>3. ~IsOf(EdgeTasks \cup Clicks \cup Trace \cup {"order-steps", "euler-trace"})
    BY <2>2 DEF IsOf, EdgeTasks, Clicks, Trace
  <2>. QED
    BY <2>1, <2>3 DEF Edits
<1>5. CASE ChooseNode \/ ClearNodes
  <2>1. IsOf(Clicks) /\ card' = card
    BY <1>5 DEF ChooseNode, ClearNodes, choose, Unpick, PickToo, Keeping, Clicks
  <2>2. CASE ClearNodes
    BY <2>1, <2>2 DEF ClearNodes, Keeping, Edits
  <2>3. CASE ChooseNode
    <3>1. PICK v \in NodesOf(task.graph) : Unpick(v) \/ PickToo(v)
      BY <2>3 DEF ChooseNode, choose
    <3>2. CASE Unpick(v)
      BY <2>1, <3>2 DEF Unpick, Keeping, Edits
    <3>3. CASE PickToo(v)
      BY <2>1, <3>3 DEF PickToo, Keeping, Edits
    <3>. QED
      BY <3>1, <3>2, <3>3
  <2>. QED
    BY <1>5, <2>2, <2>3
<1>6. CASE AddStep \/ RemoveStep \/ ResetSteps
  <2>1. IsOf({"order-steps"}) /\ card' = card
    BY <1>6 DEF AddStep, RemoveStep, ResetSteps, Keeping, StartOver
  <2>2. CASE ResetSteps
    <3>1. work' = <<>>
      BY <2>1, <2>2 DEF ResetSteps, StartOver, EmptyWork, IsOf, EdgeTasks
    <3>. QED
      BY <2>1, <3>1 DEF Edits
  <2>3. CASE AddStep \/ RemoveStep
    BY <2>1, <2>3 DEF AddStep, RemoveStep, Keeping, Edits
  <2>. QED
    BY <1>6, <2>2, <2>3
<1>7. CASE ClickNode
  <2>1. IsOf(Trace) /\ card' = card
    BY <1>7 DEF ClickNode, Wiping, Trace
  <2>2. PICK v \in NodesOf(task.graph) :
            \/ IsOf({"path-trace"}) /\ work' = PathTo(work, v)
            \/ IsOf({"hamilton-trace"}) /\ work' = CycleTo(work, v)
    BY <1>7 DEF ClickNode, Wiping
  <2>. QED
    BY <2>1, <2>2 DEF Edits
<1>8. CASE ClearWalk
  <2>1. card' = card /\ work' = EmptyWork(task)
        /\ IsOf({"path-trace", "hamilton-trace", "euler-trace", "edge-click"})
    BY <1>8 DEF ClearWalk, StartOver
  <2>2. CASE IsOf(Trace)
    <3>1. work' = <<task.start>>
      BY <2>1, <2>2 DEF EmptyWork, IsOf, Trace, EdgeTasks
    <3>. QED
      BY <2>1, <2>2, <3>1 DEF Edits
  <2>3. CASE IsOf({"euler-trace"})
    <3>1. work' = [trail |-> <<>>, current |-> task.start]
      BY <2>1, <2>3 DEF EmptyWork, IsOf, EdgeTasks
    <3>. QED
      BY <2>1, <2>3, <3>1 DEF Edits
  <2>4. CASE IsOf({"edge-click"})
    <3>1. ~IsOf(EdgeTasks \cup Clicks \cup Trace \cup {"order-steps", "euler-trace"})
      BY <2>4 DEF IsOf, EdgeTasks, Clicks, Trace
    <3>. QED
      BY <2>1, <3>1 DEF Edits
  <2>. QED
    BY <2>1, <2>2, <2>3, <2>4 DEF IsOf, Trace
<1>9. CASE ClickEdge
  <2>1. IsOf({"euler-trace"})
    BY <1>9 DEF ClickEdge
  <2>2. PICK i \in DOMAIN task.graph.edges :
            /\ i \notin Range(work.trail)
            /\ \/ Judge("bad", "click")
               \/ /\ work.current \in Range(task.graph.edges[i])
                  /\ Walk(i, NextStop(i))
    BY <1>9 DEF ClickEdge, NextStop
  <2>3. CASE Judge("bad", "click")
    BY <1>1, <2>3 DEF Judge
  <2>4. CASE work.current \in Range(task.graph.edges[i]) /\ Walk(i, NextStop(i))
    BY <2>1, <2>2, <2>4 DEF Walk, Wiping, Edits
  <2>. QED
    BY <2>2, <2>3, <2>4
<1>. QED
  BY <1>1, <1>2, <1>3, <1>4, <1>5, <1>6, <1>7, <1>8, <1>9 DEF DeskNext, deskVars

-----------------------------------------------------------------------------
(* What WorkLegal needs to be inductive: the walks of Hamilton's engine    *)
(* are simple, or closed and simple up to their last step.                 *)
EdgesOK == IsOf(EdgeTasks) => work \subseteq completeEdges(task.nodes)
PicksOK ==
    IsOf(Clicks) =>
        /\ work \in Seq(NodesOf(task.graph)) /\ IsInjective(work)
        /\ Len(work) <= task.requiredCount
StepsOK ==
    IsOf({"order-steps"}) => work \in Seq(0..task.steps) /\ IsInjective(work)
PathOK ==
    IsOf({"path-trace"}) =>
        work \in Walks(task.graph) /\ IsInjective(work) /\ work[1] = task.start
Closed(p) ==
    /\ Len(p) = Len(task.graph.nodes) + 1 /\ Last(p) = task.start
    /\ IsInjective(Front(p))
CycleOK ==
    IsOf({"hamilton-trace"}) =>
        /\ work \in Walks(task.graph) /\ work[1] = task.start
        /\ IsInjective(work) \/ Closed(work)
TrailOK ==
    IsOf({"euler-trace"}) =>
        /\ work.trail \in Seq(DOMAIN task.graph.edges) /\ IsInjective(work.trail)
        /\ Leading(task, work.trail) = {work.current}
DeskInv ==
    card \in DOMAIN AllTasks
    /\ EdgesOK /\ PicksOK /\ StepsOK /\ PathOK /\ CycleOK /\ TrailOK

LEMMA Sound ==
    ASSUME card \in DOMAIN AllTasks
    PROVE  /\ IsOf(EdgeTasks) =>
                /\ task.preset \subseteq completeEdges(task.nodes)
                /\ "solution" \in DOMAIN task => EdgeSet(task.solution) \subseteq completeEdges(task.nodes)
           /\ IsOf({"node-click"}) => task.requiredCount \in Nat \ {0}
           /\ IsOf({"page-equal"}) => task.requiredCount = 2
           /\ IsOf({"path-trace", "hamilton-trace", "euler-trace"}) => task.start \in NodesOf(task.graph)
           /\ IsOf({"hamilton-trace"}) =>
                task.graph.nodes \in Seq(NodesOf(task.graph)) /\ IsInjective(task.graph.nodes)
           /\ IsOf({"euler-trace"}) =>
                \A i \in DOMAIN task.graph.edges :
                    /\ task.graph.edges[i] \in NodesOf(task.graph) \X NodesOf(task.graph)
                    /\ task.graph.edges[i][1] # task.graph.edges[i][2]
BY BankSound DEF task, IsOf

LEMMA SingleDistinct ==
    ASSUME NEW S, NEW v \in S
    PROVE  <<v>> \in Seq(S) /\ IsInjective(<<v>>) /\ <<>> \in Seq(S) /\ IsInjective(<<>>)
BY DEF IsInjective

LEMMA StartWalk ==
    ASSUME NEW g, NEW v \in NodesOf(g) PROVE <<v>> \in Walks(g)
BY DEF Walks

LEMMA EdgesStep ==
    ASSUME DeskInv, card' = card, Edits(work') PROVE EdgesOK'
<1>1. SUFFICES ASSUME IsOf(EdgeTasks)
               PROVE  work' \subseteq completeEdges(task.nodes)
  BY DEF EdgesOK, task, IsOf
<1>2. ~IsOf(Clicks) /\ ~IsOf(Trace) /\ ~IsOf({"order-steps"}) /\ ~IsOf({"euler-trace"})
  BY <1>1 DEF IsOf, EdgeTasks, Clicks, Trace
<1>3. IsOf(EdgeTasks \cup Clicks \cup Trace \cup {"order-steps", "euler-trace"})
  BY <1>1 DEF IsOf
<1>. QED
  BY <1>1, <1>2, <1>3, Sound DEF Edits, DeskInv, EdgesOK

LEMMA StepsStep ==
    ASSUME DeskInv, card' = card, Edits(work') PROVE StepsOK'
<1>1. SUFFICES ASSUME IsOf({"order-steps"})
               PROVE  work' \in Seq(0..task.steps) /\ IsInjective(work')
  BY DEF StepsOK, task, IsOf
<1>2. ~IsOf(Clicks) /\ ~IsOf(Trace) /\ ~IsOf(EdgeTasks) /\ ~IsOf({"euler-trace"})
  BY <1>1 DEF IsOf, EdgeTasks, Clicks, Trace
<1>3. IsOf(EdgeTasks \cup Clicks \cup Trace \cup {"order-steps", "euler-trace"})
  BY <1>1 DEF IsOf
<1>4. work \in Seq(0..task.steps) /\ IsInjective(work)
  BY <1>1 DEF DeskInv, StepsOK
<1>5. \/ work' = work \/ work' = <<>>
      \/ \E x \in 0..task.steps : x \notin Range(work) /\ work' = Append(work, x)
      \/ \E i \in DOMAIN work : work' = RemoveAt(work, i)
  BY <1>2, <1>3 DEF Edits
<1>6. <<>> \in Seq(0..task.steps) /\ IsInjective(<<>>)
  BY DEF IsInjective
<1>. QED
  BY <1>4, <1>5, <1>6, AppendDistinct, RemoveDistinct

LEMMA PicksStep ==
    ASSUME DeskInv, card' = card, Edits(work') PROVE PicksOK'
<1>. DEFINE V == NodesOf(task.graph)
            r == task.requiredCount
<1>1. SUFFICES ASSUME IsOf(Clicks)
               PROVE  work' \in Seq(V) /\ IsInjective(work') /\ Len(work') <= r
  BY DEF PicksOK, task, IsOf
<1>2. ~IsOf(EdgeTasks) /\ ~IsOf(Trace) /\ ~IsOf({"order-steps"}) /\ ~IsOf({"euler-trace"})
  BY <1>1 DEF IsOf, EdgeTasks, Clicks, Trace
<1>3. IsOf(EdgeTasks \cup Clicks \cup Trace \cup {"order-steps", "euler-trace"})
  BY <1>1 DEF IsOf
<1>4. work \in Seq(V) /\ IsInjective(work) /\ Len(work) <= r /\ Len(work) \in Nat
  BY <1>1 DEF DeskInv, PicksOK
<1>5. r \in Nat \ {0} /\ (IsOf({"page-equal"}) => r = 2)
  BY <1>1, Sound DEF DeskInv, IsOf, Clicks
<1>6. \/ work' = work \/ work' = <<>>
      \/ \E i \in DOMAIN work : work' = RemoveAt(work, i)
      \/ \E v \in V :
            /\ v \notin Range(work)
            /\ work' = IF IsOf({"page-equal"}) THEN KeepingNewest(v)
                       ELSE IF Len(work) >= task.requiredCount THEN Append(Tail(work), v)
                       ELSE Append(work, v)
  BY <1>2, <1>3 DEF Edits
<1>. HIDE DEF V, r
<1>7. CASE work' = work
  BY <1>4, <1>7
<1>8. CASE work' = <<>>
  BY <1>5, <1>8 DEF IsInjective
<1>9. ASSUME NEW i \in DOMAIN work, work' = RemoveAt(work, i)
      PROVE  work' \in Seq(V) /\ IsInjective(work') /\ Len(work') <= r
  <2>1. work' \in Seq(V) /\ IsInjective(work') /\ Len(work') = Len(work) - 1
    BY <1>4, <1>9, RemoveDistinct
  <2>. QED
    BY <1>4, <1>5, <2>1
<1>10. ASSUME NEW v \in V, v \notin Range(work),
              work' = IF IsOf({"page-equal"}) THEN KeepingNewest(v)
                      ELSE IF Len(work) >= r THEN Append(Tail(work), v)
                      ELSE Append(work, v)
       PROVE  work' \in Seq(V) /\ IsInjective(work') /\ Len(work') <= r
  <2>1. CASE IsOf({"page-equal"})
    <3>1. work' = IF work = <<>> THEN <<v>> ELSE <<Last(work), v>>
      BY <1>10, <2>1 DEF KeepingNewest
    <3>2. CASE work = <<>>
      <4>1. work' = <<v>>
        BY <3>1, <3>2
      <4>. QED
        BY <1>5, <2>1, <4>1, SingleDistinct
    <3>3. CASE work # <<>>
      <4>1. Last(work) \in V /\ Last(work) # v
        BY <1>4, <1>10, <3>3 DEF Last, Range
      <4>2. work' = <<Last(work), v>>
        BY <3>1, <3>3
      <4>3. work' \in Seq(V) /\ Len(work') = 2
        BY <4>1, <4>2
      <4>4. IsInjective(work')
        BY <4>1, <4>2 DEF IsInjective
      <4>. QED
        BY <1>5, <2>1, <4>3, <4>4
    <3>. QED
      BY <3>2, <3>3
  <2>2. CASE ~IsOf({"page-equal"}) /\ Len(work) >= r
    <3>1. work' = Append(Tail(work), v) /\ Len(work) >= 1 /\ Len(work) = r
      BY <1>4, <1>5, <1>10, <2>2
    <3>2. Tail(work) = SubSeq(work, 2, Len(work))
      BY <1>4, <3>1
    <3>3. Tail(work) \in Seq(V) /\ Len(Tail(work)) = Len(work) - 1
      BY <1>4, <3>1
    <3>. DEFINE m == Len(work)
    <3>. HIDE DEF m
    <3>4. IsInjective(SubSeq(work, 2, m)) /\ Range(SubSeq(work, 2, m)) \subseteq Range(work)
      BY <1>4, PartDistinct DEF m
    <3>5. IsInjective(Tail(work)) /\ Range(Tail(work)) \subseteq Range(work)
      BY <3>2, <3>4 DEF m
    <3>6. work' \in Seq(V) /\ IsInjective(work')
      BY <1>10, <3>1, <3>3, <3>5, AppendDistinct
    <3>7. Len(work') = Len(work)
      BY <1>4, <3>1, <3>3
    <3>. QED
      BY <1>4, <3>6, <3>7
  <2>3. CASE ~IsOf({"page-equal"}) /\ ~(Len(work) >= r)
    <3>1. work' = Append(work, v) /\ Len(work) < r
      BY <1>4, <1>5, <1>10, <2>3
    <3>2. work' \in Seq(V) /\ IsInjective(work')
      BY <1>4, <1>10, <3>1, AppendDistinct
    <3>3. Len(work') = Len(work) + 1
      BY <1>4, <3>1
    <3>. QED
      BY <1>4, <1>5, <3>1, <3>2, <3>3
  <2>. QED
    BY <2>1, <2>2, <2>3
<1>. QED
  BY <1>6, <1>7, <1>8, <1>9, <1>10 DEF V, r

LEMMA FrontDistinct ==
    ASSUME NEW S, NEW p \in Seq(S), Len(p) > 0
    PROVE  /\ Front(p) \in Seq(S) /\ Len(Front(p)) = Len(p) - 1
           /\ Range(Front(p)) \subseteq Range(p)
           /\ Range(p) = Range(Front(p)) \cup {Last(p)}
           /\ IsInjective(p) => IsInjective(Front(p)) /\ Last(p) \notin Range(Front(p))
<1>1. Len(p) \in Nat /\ DOMAIN p = 1..Len(p)
  OBVIOUS
<1>2. /\ Front(p) \in Seq(S) /\ Len(Front(p)) = Len(p) - 1
      /\ \A k \in 1..(Len(p) - 1) : Front(p)[k] = p[k]
  <2>. DEFINE m == Len(p) - 1
  <2>1. m \in Nat /\ m <= Len(p)
    BY <1>1
  <2>. HIDE DEF m
  <2>2. /\ SubSeq(p, 1, m) \in Seq(S) /\ Len(SubSeq(p, 1, m)) = m
        /\ \A k \in 1..m : SubSeq(p, 1, m)[k] = p[k]
    BY <1>1, <2>1
  <2>. QED
    BY <2>2 DEF Front, m
<1>3. DOMAIN Front(p) = 1..(Len(p) - 1)
  BY <1>1, <1>2
<1>4. 1..Len(p) = (1..(Len(p) - 1)) \cup {Len(p)} /\ Len(p) \notin 1..(Len(p) - 1)
  BY <1>1
<1>5. Range(p) = Range(Front(p)) \cup {Last(p)}
  BY <1>1, <1>2, <1>3, <1>4 DEF Range, Last
<1>6. ASSUME IsInjective(p) PROVE IsInjective(Front(p)) /\ Last(p) \notin Range(Front(p))
  BY <1>1, <1>2, <1>3, <1>4, <1>6 DEF IsInjective, Range, Last
<1>. QED
  BY <1>2, <1>5, <1>6

LEMMA PathStep ==
    ASSUME DeskInv, card' = card, Edits(work') PROVE PathOK'
<1>. DEFINE g == task.graph
<1>1. SUFFICES ASSUME IsOf({"path-trace"})
               PROVE  work' \in Walks(g) /\ IsInjective(work') /\ work'[1] = task.start
  BY DEF PathOK, task, IsOf
<1>2. /\ ~IsOf(Clicks) /\ ~IsOf(EdgeTasks) /\ ~IsOf({"order-steps"}) /\ ~IsOf({"euler-trace"})
      /\ ~IsOf({"hamilton-trace"})
  BY <1>1 DEF IsOf, EdgeTasks, Clicks
<1>3. IsOf(EdgeTasks \cup Clicks \cup Trace \cup {"order-steps", "euler-trace"})
  BY <1>1 DEF IsOf, Trace
<1>4. work \in Walks(g) /\ IsInjective(work) /\ work[1] = task.start
  BY <1>1 DEF DeskInv, PathOK
<1>5. task.start \in NodesOf(g)
  BY <1>1, Sound DEF DeskInv, IsOf
<1>6. \/ work' = work \/ work' = <<task.start>>
      \/ \E v \in NodesOf(g) : work' = PathTo(work, v)
  BY <1>2, <1>3 DEF Edits
<1>7. ASSUME NEW v \in NodesOf(g), work' = PathTo(work, v)
      PROVE  work' \in Walks(g) /\ IsInjective(work') /\ work'[1] = task.start
  <2>1. work \in Seq(NodesOf(g)) /\ Len(work) \in Nat /\ Len(work) > 0
    BY <1>4 DEF Walks
  <2>2. CASE v # Last(work) /\ v \in Before(work)
    <3>1. work' = Front(work) /\ Len(work) >= 2
      BY <1>7, <2>2 DEF PathTo, Before
    <3>. QED
      BY <1>4, <2>1, <3>1, WalkBack, FrontDistinct
  <2>3. CASE v \notin Range(work) /\ EdgeTo(work, v) /\ work' = Append(work, v)
    <3>1. Joined(g, Last(work), v)
      BY <2>3, EdgeJoins DEF EdgeTo
    <3>2. Append(work, v)[1] = work[1]
      BY <2>1
    <3>. QED
      BY <1>4, <2>1, <2>3, <3>1, <3>2, WalkOn, AppendDistinct
  <2>4. CASE work' = work
    BY <1>4, <2>4
  <2>. QED
    BY <1>7, <2>2, <2>3, <2>4 DEF PathTo
<1>8. <<task.start>>[1] = task.start
  OBVIOUS
<1>. QED
  BY <1>4, <1>5, <1>6, <1>7, <1>8, StartWalk, SingleDistinct

(* A simple closed walk has met every vertex before its last step.         *)
LEMMA AllMet ==
    ASSUME DeskInv, IsOf({"hamilton-trace"}), Closed(work)
    PROVE  Range(work) = NodesOf(task.graph)
<1>. DEFINE V == NodesOf(task.graph)
            n == Len(task.graph.nodes)
            p == Front(work)
<1>1. task.graph.nodes \in Seq(V) /\ IsInjective(task.graph.nodes)
  BY Sound DEF DeskInv
<1>2. IsFiniteSet(V) /\ Cardinality(V) = n /\ n \in Nat
  BY <1>1, DistinctCounted DEF NodesOf
<1>3. work \in Seq(V) /\ Len(work) > 0 /\ Len(work) = n + 1 /\ IsInjective(p)
  BY DEF DeskInv, CycleOK, Closed, Walks
<1>4. p \in Seq(V) /\ Len(p) = n /\ Range(p) \subseteq Range(work)
  BY <1>2, <1>3, FrontDistinct
<1>5. Range(work) \subseteq V /\ Range(p) \subseteq V
  BY <1>3, <1>4 DEF Range
<1>. HIDE DEF V, p
<1>6. Cardinality(Range(p)) = n
  BY <1>3, <1>4, DistinctCounted
<1>7. Range(p) = V
  BY <1>2, <1>5, <1>6, FS_Subset
<1>. QED
  BY <1>4, <1>5, <1>7 DEF V

LEMMA CycleStep ==
    ASSUME DeskInv, card' = card, Edits(work') PROVE CycleOK'
<1>. DEFINE g == task.graph
            n == Len(task.graph.nodes)
            Good == work' \in Walks(g) /\ work'[1] = task.start /\ (IsInjective(work') \/ Closed(work'))
<1>1. SUFFICES ASSUME IsOf({"hamilton-trace"})
               PROVE  Good
  BY DEF CycleOK, task, IsOf, Closed
<1>2. /\ ~IsOf(Clicks) /\ ~IsOf(EdgeTasks) /\ ~IsOf({"order-steps"}) /\ ~IsOf({"euler-trace"})
      /\ ~IsOf({"path-trace"})
  BY <1>1 DEF IsOf, EdgeTasks, Clicks
<1>3. IsOf(EdgeTasks \cup Clicks \cup Trace \cup {"order-steps", "euler-trace"})
  BY <1>1 DEF IsOf, Trace
<1>4. /\ work \in Walks(g) /\ work[1] = task.start
      /\ IsInjective(work) \/ Closed(work)
  BY <1>1 DEF DeskInv, CycleOK
<1>5. task.start \in NodesOf(g)
  BY <1>1, Sound DEF DeskInv, IsOf
<1>6. \/ work' = work \/ work' = <<task.start>>
      \/ \E v \in NodesOf(g) : work' = CycleTo(work, v)
  BY <1>2, <1>3 DEF Edits
<1>7. ASSUME NEW v \in NodesOf(g), work' = CycleTo(work, v) PROVE Good
  <2>1. work \in Seq(NodesOf(g)) /\ Len(work) \in Nat /\ Len(work) > 0
    BY <1>4 DEF Walks
  <2>2. CASE v # Last(work) /\ v \in Before(work)
    <3>1. work' = Front(work) /\ Len(work) >= 2
      BY <1>7, <2>2 DEF CycleTo, Before
    <3>2. work' \in Walks(g) /\ work'[1] = work[1]
      BY <1>4, <2>1, <3>1, WalkBack
    <3>3. IsInjective(work')
      BY <1>4, <2>1, <3>1, FrontDistinct DEF Closed
    <3>. QED
      BY <1>4, <3>2, <3>3
  <2>3. CASE /\ EdgeTo(work, v) /\ work' = Append(work, v)
             /\ v \notin Range(work) \/ (v = task.start /\ Len(work) = n)
    <3>1. Joined(g, Last(work), v)
      BY <2>3, EdgeJoins DEF EdgeTo
    <3>2. work' \in Walks(g)
      BY <1>4, <2>3, <3>1, WalkOn
    <3>3. work'[1] = work[1] /\ Len(work') = Len(work) + 1 /\ Last(work') = v
      BY <2>1, <2>3 DEF Last
    <3>4. CASE v \notin Range(work)
      <4>1. v \in NodesOf(g)
        OBVIOUS
      <4>2. IsInjective(work)
        BY <1>1, <1>4, <3>4, <4>1, AllMet
      <4>3. IsInjective(work')
        BY <2>1, <2>3, <3>4, <4>1, <4>2, AppendDistinct
      <4>. QED
        BY <1>4, <3>2, <3>3, <4>3
    <3>5. CASE v = task.start /\ Len(work) = n
      <4>1. IsInjective(work)
        BY <1>4, <2>1, <3>5 DEF Closed
      <4>2. Front(work') = work
        <5>1. work' \in Seq(NodesOf(g)) /\ work' = Append(work, v)
          BY <2>3, <3>2 DEF Walks
        <5>. QED
          BY <2>1, <3>3, <5>1 DEF Front
      <4>3. Closed(work')
        BY <3>3, <3>5, <4>1, <4>2 DEF Closed
      <4>. QED
        BY <1>4, <3>2, <3>3, <4>3
    <3>. QED
      BY <2>3, <3>4, <3>5
  <2>4. CASE work' = work
    BY <1>4, <2>4
  <2>. QED
    BY <1>7, <2>2, <2>3, <2>4 DEF CycleTo
<1>8. CASE work' = <<task.start>>
  <2>1. work' \in Walks(g) /\ IsInjective(work') /\ work'[1] = task.start
    BY <1>5, <1>8, StartWalk, SingleDistinct
  <2>. QED
    BY <2>1
<1>. QED
  BY <1>4, <1>6, <1>7, <1>8

LEMMA TrailStep ==
    ASSUME DeskInv, card' = card, Edits(work') PROVE TrailOK'
<1>. DEFINE E == DOMAIN task.graph.edges
            Good == /\ work'.trail \in Seq(E) /\ IsInjective(work'.trail)
                    /\ Leading(task, work'.trail) = {work'.current}
<1>1. SUFFICES ASSUME IsOf({"euler-trace"}) PROVE Good
  BY DEF TrailOK, task, IsOf
<1>2. ~IsOf(Clicks) /\ ~IsOf(EdgeTasks) /\ ~IsOf({"order-steps"}) /\ ~IsOf(Trace)
  BY <1>1 DEF IsOf, EdgeTasks, Clicks, Trace
<1>3. IsOf(EdgeTasks \cup Clicks \cup Trace \cup {"order-steps", "euler-trace"})
  BY <1>1 DEF IsOf
<1>4. /\ work.trail \in Seq(E) /\ IsInjective(work.trail)
      /\ Leading(task, work.trail) = {work.current}
  BY <1>1 DEF DeskInv, TrailOK
<1>5. \/ work' = work
      \/ work' = [trail |-> <<>>, current |-> task.start]
      \/ \E i \in E :
            /\ i \notin Range(work.trail) /\ work.current \in Range(task.graph.edges[i])
            /\ work' = [trail |-> Append(work.trail, i), current |-> NextStop(i)]
  BY <1>2, <1>3 DEF Edits
<1>6. CASE work' = [trail |-> <<>>, current |-> task.start]
  BY <1>6, NoTrail DEF IsInjective
<1>7. ASSUME NEW i \in E, i \notin Range(work.trail), work.current \in Range(task.graph.edges[i]),
             work' = [trail |-> Append(work.trail, i), current |-> NextStop(i)]
      PROVE  Good
  <2>1. /\ task.graph.edges[i] \in NodesOf(task.graph) \X NodesOf(task.graph)
        /\ task.graph.edges[i][1] # task.graph.edges[i][2]
    BY <1>1, Sound DEF DeskInv
  <2>2. Leading(task, Append(work.trail, i)) = Across(task.graph, i, {work.current})
    BY <1>4, LeadingOn
  <2>3. Across(task.graph, i, {work.current}) = {NextStop(i)}
    BY <1>7, <2>1, EdgeAcross DEF NextStop
  <2>4. Append(work.trail, i) \in Seq(E) /\ IsInjective(Append(work.trail, i))
    BY <1>4, <1>7, AppendDistinct
  <2>5. work'.trail = Append(work.trail, i) /\ work'.current = NextStop(i)
    BY <1>7
  <2>. QED
    BY <2>2, <2>3, <2>4, <2>5
<1>. QED
  BY <1>4, <1>5, <1>6, <1>7

LEMMA DeskStart == DeskInit => DeskInv
<1>1. SUFFICES ASSUME DeskInit PROVE DeskInv
  OBVIOUS
<1>2. card \in DOMAIN AllTasks /\ work = EmptyWork(task)
  BY <1>1 DEF DeskInit
<1>3. EdgesOK
  <2>1. SUFFICES ASSUME IsOf(EdgeTasks) PROVE EdgesOK
    BY DEF EdgesOK
  <2>2. work = task.preset
    BY <1>2, <2>1 DEF EmptyWork, IsOf, EdgeTasks
  <2>. QED
    BY <1>2, <2>1, <2>2, Sound DEF EdgesOK
<1>4. PicksOK
  <2>1. SUFFICES ASSUME IsOf(Clicks) PROVE PicksOK
    BY DEF PicksOK
  <2>2. work = <<>>
    BY <1>2, <2>1 DEF EmptyWork, IsOf, Clicks, EdgeTasks
  <2>3. task.requiredCount \in Nat
    BY <1>2, <2>1, Sound DEF IsOf, Clicks
  <2>. QED
    BY <2>2, <2>3 DEF PicksOK, IsInjective
<1>5. StepsOK
  <2>1. SUFFICES ASSUME IsOf({"order-steps"}) PROVE StepsOK
    BY DEF StepsOK
  <2>2. work = <<>>
    BY <1>2, <2>1 DEF EmptyWork, IsOf, EdgeTasks
  <2>. QED
    BY <2>2 DEF StepsOK, IsInjective
<1>6. PathOK /\ CycleOK
  <2>1. SUFFICES ASSUME IsOf(Trace) PROVE PathOK /\ CycleOK
    BY DEF PathOK, CycleOK, IsOf, Trace
  <2>2. work = <<task.start>> /\ task.start \in NodesOf(task.graph)
    BY <1>2, <2>1, Sound DEF EmptyWork, IsOf, Trace, EdgeTasks
  <2>3. work \in Walks(task.graph) /\ IsInjective(work) /\ work[1] = task.start
    BY <2>2, StartWalk, SingleDistinct
  <2>. QED
    BY <2>3 DEF PathOK, CycleOK
<1>7. TrailOK
  <2>1. SUFFICES ASSUME IsOf({"euler-trace"}) PROVE TrailOK
    BY DEF TrailOK
  <2>2. work = [trail |-> <<>>, current |-> task.start]
    BY <1>2, <2>1 DEF EmptyWork, IsOf, EdgeTasks
  <2>. QED
    BY <2>2, NoTrail DEF TrailOK, IsInjective
<1>. QED
  BY <1>2, <1>3, <1>4, <1>5, <1>6, <1>7 DEF DeskInv

LEMMA DeskStep == ASSUME DeskInv, [DeskNext]_deskVars PROVE DeskInv'
<1>1. card' = card /\ Edits(work')
  BY DeskEdits
<1>. QED
  BY <1>1, EdgesStep, PicksStep, StepsStep, PathStep, CycleStep, TrailStep DEF DeskInv

LEMMA DeskInvariant == DeskSpec => []DeskInv
<1>1. ASSUME DeskInv, [DeskNext]_deskVars PROVE DeskInv'
  BY <1>1, DeskStep
<1>. QED
  BY <1>1, DeskStart, PTL DEF DeskSpec

(* Whatever is clicked, and however often, what stands on the desk is work *)
(* a student could have done (choose, append, clickNode and clickEdge of   *)
(* engines.tsx), for the tasks of the banks, sound as BankSound says.      *)
THEOREM WorkStaysLegal == DeskSpec => []WorkLegal
<1>1. ASSUME DeskInv PROVE WorkLegal
  <2>1. IsOf(EdgeTasks) => work \subseteq completeEdges(task.nodes)
    BY <1>1 DEF DeskInv, EdgesOK
  <2>2. ASSUME IsOf(Clicks) PROVE Len(work) <= task.requiredCount /\ Cardinality(Range(work)) = Len(work)
    BY <1>1, <2>2, DistinctCounted DEF DeskInv, PicksOK
  <2>3. ASSUME IsOf({"order-steps"}) PROVE Cardinality(Range(work)) = Len(work)
    BY <1>1, <2>3, DistinctCounted DEF DeskInv, StepsOK
  <2>4. ASSUME IsOf({"path-trace"}) PROVE IsWalk(work) /\ Cardinality(Range(work)) = Len(work)
    BY <1>1, <2>4, DistinctCounted DEF DeskInv, PathOK, Walks, IsWalk
  <2>5. ASSUME IsOf({"hamilton-trace"})
        PROVE  /\ IsWalk(work) /\ Cardinality(Range(Front(work))) = Len(work) - 1
               /\ Last(work) \in Range(Front(work)) => CycleTrue
    <3>. DEFINE V == NodesOf(task.graph)
    <3>1. /\ work \in Seq(V) /\ Len(work) > 0 /\ IsWalk(work) /\ work[1] = task.start
          /\ IsInjective(work) \/ Closed(work)
      BY <1>1, <2>5 DEF DeskInv, CycleOK, Walks, IsWalk
    <3>2. Front(work) \in Seq(V) /\ Len(Front(work)) = Len(work) - 1 /\ IsInjective(Front(work))
      BY <3>1, FrontDistinct DEF Closed
    <3>3. Cardinality(Range(Front(work))) = Len(work) - 1
      BY <3>2, DistinctCounted
    <3>4. ASSUME Last(work) \in Range(Front(work)) PROVE CycleTrue
      <4>1. Closed(work)
        BY <3>1, <3>4, FrontDistinct
      <4>2. Range(work) = Range(Front(work))
        <5>1. Range(work) = Range(Front(work)) \cup {Last(work)}
          BY <3>1, FrontDistinct
        <5>. QED
          BY <3>4, <5>1
      <4>3. Len(work) - 1 = Len(task.graph.nodes) /\ Len(work) = Len(task.graph.nodes) + 1
        <5>1. task.graph.nodes \in Seq(V)
          BY <1>1, <2>5, Sound DEF DeskInv
        <5>2. Len(task.graph.nodes) \in Nat
          BY <5>1
        <5>. QED
          BY <4>1, <5>2 DEF Closed
      <4>4. work[1] = Last(work)
        BY <3>1, <4>1 DEF Closed
      <4>. QED
        BY <3>1, <3>3, <4>2, <4>3, <4>4 DEF CycleTrue
    <3>. QED
      BY <3>1, <3>3, <3>4
  <2>6. ASSUME IsOf({"euler-trace"})
        PROVE  /\ Cardinality(Range(work.trail)) = Len(work.trail)
               /\ Leading(task, work.trail) = {work.current}
    BY <1>1, <2>6, DistinctCounted DEF DeskInv, TrailOK
  <2>. QED
    BY <2>1, <2>2, <2>3, <2>4, <2>5, <2>6 DEF WorkLegal, Clicks
<1>. QED
  BY <1>1, DeskInvariant, PTL

-----------------------------------------------------------------------------
(* A sum over a finite set, as MapThenSumSet computes it: member by member.*)
Rest(s) == s \ {CHOOSE x \in s : TRUE}
AddsFor(f, s, g) == g[s] = IF s = {} THEN 0 ELSE f[CHOOSE x \in s : TRUE] + g[Rest(s)]
Adds(f, V, g) ==
    g = [s \in SUBSET V |->
            IF s = {} THEN 0 ELSE f[CHOOSE x \in s : TRUE] + g[s \ {CHOOSE x \in s : TRUE}]]

LEMMA DisjointSum ==
    ASSUME NEW A, NEW B, IsFiniteSet(A), IsFiniteSet(B), A \cap B = {}
    PROVE  /\ IsFiniteSet(A \cup B)
           /\ Cardinality(A \cup B) = Cardinality(A) + Cardinality(B)
<1>1. Cardinality(A \cup B) = Cardinality(A) + Cardinality(B) - Cardinality({}) /\ IsFiniteSet(A \cup B)
  BY FS_Union
<1>2. Cardinality(A) \in Nat /\ Cardinality(B) \in Nat /\ Cardinality({}) = 0
  BY FS_CardinalityType, FS_EmptySet
<1>. QED
  BY <1>1, <1>2

LEMMA Smaller ==
    ASSUME NEW s, IsFiniteSet(s), s # {}
    PROVE  /\ (CHOOSE x \in s : TRUE) \in s
           /\ IsFiniteSet(Rest(s)) /\ Cardinality(Rest(s)) = Cardinality(s) - 1
           /\ Cardinality(s) \in Nat \ {0} /\ Rest(s) \subseteq s
<1>1. (CHOOSE x \in s : TRUE) \in s
  OBVIOUS
<1>. QED
  BY <1>1, FS_RemoveElement, FS_EmptySet, FS_CardinalityType DEF Rest

LEMMA SumsExist ==
    ASSUME NEW V, IsFiniteSet(V), NEW f
    PROVE  \E g : Adds(f, V, g)
<1>. DEFINE Upto(n, g) == /\ DOMAIN g = SUBSET V /\ g = [s \in SUBSET V |-> g[s]]
                          /\ \A s \in SUBSET V : Cardinality(s) <= n => AddsFor(f, s, g)
            S == {n \in Nat : \E g : Upto(n, g)}
<1>1. \A s \in SUBSET V : IsFiniteSet(s) /\ Cardinality(s) \in Nat
                          /\ Cardinality(s) <= Cardinality(V) /\ (Cardinality(s) = 0 <=> s = {})
  BY FS_Subset, FS_CardinalityType, FS_EmptySet
<1>2. 0 \in S
  <2>1. Upto(0, [s \in SUBSET V |-> 0])
    BY <1>1 DEF AddsFor
  <2>. QED
    BY <2>1
<1>3. ASSUME NEW n \in Nat, n \in S PROVE n + 1 \in S
  <2>1. PICK g : Upto(n, g)
    BY <1>3
  <2>. DEFINE h == [s \in SUBSET V |->
                      IF s = {} THEN 0 ELSE f[CHOOSE x \in s : TRUE] + g[Rest(s)]]
  <2>2. ASSUME NEW s \in SUBSET V, Cardinality(s) <= n PROVE h[s] = g[s]
    BY <2>1, <2>2 DEF AddsFor
  <2>3. ASSUME NEW s \in SUBSET V, Cardinality(s) <= n + 1 PROVE AddsFor(f, s, h)
    <3>1. CASE s = {}
      BY <3>1 DEF AddsFor
    <3>2. CASE s # {}
      <4>1. Rest(s) \in SUBSET V /\ Cardinality(Rest(s)) <= n
        BY <1>1, <2>3, <3>2, Smaller
      <4>2. h[Rest(s)] = g[Rest(s)]
        BY <2>2, <4>1
      <4>. QED
        BY <3>2, <4>2 DEF AddsFor
    <3>. QED
      BY <3>1, <3>2
  <2>4. Upto(n + 1, h)
    <3>. HIDE DEF h
    <3>1. DOMAIN h = SUBSET V /\ h = [s \in SUBSET V |-> h[s]]
      BY DEF h
    <3>2. \A s \in SUBSET V : Cardinality(s) <= n + 1 => AddsFor(f, s, h)
      BY <2>3
    <3>. QED
      BY <3>1, <3>2, Zenon
  <2>. HIDE DEF h, Upto
  <2>. QED
    BY <2>4
<1>4. Cardinality(V) \in S
  <2>. HIDE DEF S
  <2>. QED
    BY <1>2, <1>3, FS_CardinalityType, SetInduction
<1>5. PICK g : Upto(Cardinality(V), g)
  BY <1>4
<1>6. \A s \in SUBSET V : AddsFor(f, s, g)
  BY <1>1, <1>5
<1>7. Adds(f, V, g)
  BY <1>5, <1>6 DEF Adds, AddsFor, Rest
<1>. QED
  BY <1>7

Hits(E, f, v) == Cardinality({e \in E : f[e] = v})

(* Every edge has two ends, so that the sum of the degrees is twice the    *)
(* number of edges.                                                        *)
LEMMA Handshake ==
    ASSUME NEW V, IsFiniteSet(V), NEW E, IsFiniteSet(E),
           NEW lo \in [E -> V], NEW hi \in [E -> V], NEW d, NEW g, Adds(d, V, g),
           \A v \in V : d[v] = Hits(E, lo, v) + Hits(E, hi, v)
    PROVE  g[V] = 2 * Cardinality(E)
<1>. DEFINE At(f, s) == {e \in E : f[e] \in s}
            Ends(s) == Cardinality(At(lo, s)) + Cardinality(At(hi, s))
            S == {n \in Nat : \A s \in SUBSET V : Cardinality(s) = n => g[s] = Ends(s)}
<1>1. \A f, s : IsFiniteSet(At(f, s)) /\ Cardinality(At(f, s)) \in Nat
  BY FS_Subset, FS_CardinalityType
<1>2. \A s \in SUBSET V : IsFiniteSet(s) /\ Cardinality(s) \in Nat
                          /\ (Cardinality(s) = 0 <=> s = {})
  BY FS_Subset, FS_CardinalityType, FS_EmptySet
<1>3. 0 \in S
  <2>1. Ends({}) = 0
    BY FS_EmptySet
  <2>2. g[{}] = 0
    BY DEF Adds
  <2>. QED
    BY <1>2, <2>1, <2>2
<1>4. ASSUME NEW n \in Nat, n \in S PROVE n + 1 \in S
  <2>1. SUFFICES ASSUME NEW s \in SUBSET V, Cardinality(s) = n + 1 PROVE g[s] = Ends(s)
    OBVIOUS
  <2>. DEFINE x == CHOOSE y \in s : TRUE
  <2>2. s # {} /\ x \in s /\ x \in V /\ Rest(s) \in SUBSET V /\ Cardinality(Rest(s)) = n
    BY <1>2, <2>1, Smaller
  <2>3. g[s] = d[x] + g[Rest(s)]
    BY <2>2 DEF Adds, Rest
  <2>4. g[Rest(s)] = Ends(Rest(s))
    BY <1>4, <2>2
  <2>5. ASSUME NEW f \in [E -> V]
        PROVE  Cardinality(At(f, s)) = Cardinality({e \in E : f[e] = x}) + Cardinality(At(f, Rest(s)))
    <3>1. At(f, s) = {e \in E : f[e] = x} \cup At(f, Rest(s))
      BY <2>2 DEF Rest
    <3>2. {e \in E : f[e] = x} \cap At(f, Rest(s)) = {}
      BY DEF Rest
    <3>3. IsFiniteSet({e \in E : f[e] = x})
      BY FS_Subset
    <3>. HIDE DEF At, x
    <3>. QED
      BY <1>1, <3>1, <3>2, <3>3, DisjointSum
  <2>6. /\ d[x] = Cardinality({e \in E : lo[e] = x}) + Cardinality({e \in E : hi[e] = x})
        /\ Cardinality({e \in E : lo[e] = x}) \in Nat /\ Cardinality({e \in E : hi[e] = x}) \in Nat
    <3>1. IsFiniteSet({e \in E : lo[e] = x}) /\ IsFiniteSet({e \in E : hi[e] = x})
      BY FS_Subset
    <3>. QED
      BY <2>2, <3>1, FS_CardinalityType DEF Hits
  <2>. HIDE DEF At, x
  <2>7. /\ Cardinality(At(lo, s)) = Cardinality({e \in E : lo[e] = x}) + Cardinality(At(lo, Rest(s)))
        /\ Cardinality(At(hi, s)) = Cardinality({e \in E : hi[e] = x}) + Cardinality(At(hi, Rest(s)))
    BY <2>5
  <2>. QED
    BY <1>1, <2>3, <2>4, <2>6, <2>7
<1>5. Cardinality(V) \in S
  <2>. HIDE DEF S
  <2>. QED
    BY <1>3, <1>4, FS_CardinalityType, SetInduction
<1>6. g[V] = Ends(V)
  <2>. HIDE DEF Ends
  <2>. QED
    BY <1>5
<1>7. At(lo, V) = E /\ At(hi, V) = E
  OBVIOUS
<1>8. Cardinality(E) \in Nat
  BY FS_CardinalityType
<1>. HIDE DEF At
<1>. QED
  BY <1>6, <1>7, <1>8

LEMMA PairSum ==
    ASSUME NEW V, IsFiniteSet(V), NEW E \in SUBSET (V \X V), IsFiniteSet(E),
           NEW d, NEW g, Adds(d, V, g),
           \A v \in V : d[v] = Cardinality({e \in E : e[1] = v}) + Cardinality({e \in E : e[2] = v})
    PROVE  g[V] = 2 * Cardinality(E)
<1>. DEFINE lo == [e \in E |-> e[1]]
            hi == [e \in E |-> e[2]]
<1>1. lo \in [E -> V] /\ hi \in [E -> V]
  OBVIOUS
<1>2. \A v \in V : {e \in E : e[1] = v} = {e \in E : lo[e] = v} /\ {e \in E : e[2] = v} = {e \in E : hi[e] = v}
  OBVIOUS
<1>. HIDE DEF lo, hi
<1>3. \A v \in V : d[v] = Hits(E, lo, v) + Hits(E, hi, v)
  BY <1>2 DEF Hits
<1>. QED
  BY <1>1, <1>3, Handshake

LEMMA AsManyImages ==
    ASSUME NEW E, IsFiniteSet(E), NEW k, \A e, f \in E : k[e] = k[f] => e = f
    PROVE  /\ IsFiniteSet({k[e] : e \in E})
           /\ Cardinality({k[e] : e \in E}) = Cardinality(E)
<1>. DEFINE K == {k[e] : e \in E}
            h == [e \in E |-> k[e]]
<1>1. h \in [E -> K] /\ \A e \in E : h[e] = k[e]
  OBVIOUS
<1>2. \A y \in K : \E e \in E : k[e] = y
  OBVIOUS
<1>. HIDE DEF h, K
<1>3. h \in Surjection(E, K) /\ h \in Injection(E, K)
  BY <1>1, <1>2 DEF Surjection, Injection, IsInjective
<1>. QED
  BY <1>3, FS_Surjection DEF K

(* A sum of degrees, computed over any finite set of vertices.             *)
LEMMA DegreeSum ==
    ASSUME NEW V, IsFiniteSet(V), NEW E, IsFiniteSet(E),
           \A e \in E : \E a, b \in V : a # b /\ e = {a, b}
    PROVE  SumDegrees(E, V) = 2 * Cardinality(E)
<1>. DEFINE d == [v \in V |-> Degree(E, v)]
            Q(g) == g = [s \in SUBSET V |->
                           IF s = {} THEN 0
                           ELSE Degree(E, CHOOSE x \in s : TRUE) + g[s \ {CHOOSE x \in s : TRUE}]]
            L(e) == CHOOSE a \in V : \E b \in V : a # b /\ e = {a, b}
            H(e) == CHOOSE b \in V : b # L(e) /\ e = {L(e), b}
            lo == [e \in E |-> L(e)]
            hi == [e \in E |-> H(e)]
<1>1. \A s \in SUBSET V : s # {} => d[CHOOSE x \in s : TRUE] = Degree(E, CHOOSE x \in s : TRUE)
  OBVIOUS
<1>2. \A g : Adds(d, V, g) <=> Q(g)
  BY <1>1 DEF Adds
<1>3. \E g : Q(g)
  <2>. HIDE DEF d, Q
  <2>. QED
    BY <1>2, SumsExist
<1>4. Q(CHOOSE g : Q(g))
  <2>. HIDE DEF Q
  <2>. QED
    BY <1>3
<1>5. SumDegrees(E, V) = (CHOOSE g : Q(g))[V]
  BY DEF SumDegrees, MapThenSumSet, MapThenFoldSet
<1>6. \A e \in E : L(e) \in V /\ \E b \in V : L(e) # b /\ e = {L(e), b}
  OBVIOUS
<1>7. \A e \in E : H(e) \in V /\ L(e) # H(e) /\ e = {L(e), H(e)}
  <2>. HIDE DEF L
  <2>. QED
    BY <1>6
<1>. HIDE DEF L, H
<1>8. \A e \in E : lo[e] # hi[e] /\ e = {lo[e], hi[e]}
  BY <1>7
<1>9. lo \in [E -> V] /\ hi \in [E -> V]
  BY <1>6, <1>7
<1>. HIDE DEF lo, hi
<1>10. ASSUME NEW v \in V
      PROVE  d[v] = Hits(E, lo, v) + Hits(E, hi, v)
  <2>. DEFINE A == {e \in E : lo[e] = v}
              B == {e \in E : hi[e] = v}
  <2>1. {e \in E : v \in e} = A \cup B
    BY <1>8
  <2>2. A \cap B = {}
    BY <1>8
  <2>3. IsFiniteSet(A) /\ IsFiniteSet(B)
    BY FS_Subset
  <2>4. d[v] = Cardinality({e \in E : v \in e})
    BY DEF Degree
  <2>. HIDE DEF A, B, d
  <2>5. Cardinality(A \cup B) = Cardinality(A) + Cardinality(B)
    BY <2>2, <2>3, DisjointSum
  <2>6. d[v] = Cardinality(A) + Cardinality(B)
    BY <2>1, <2>4, <2>5
  <2>. QED
    BY <2>6 DEF A, B, Hits
<1>. HIDE DEF Q, d
<1>11. Adds(d, V, CHOOSE g : Q(g))
  BY <1>2, <1>4
<1>12. ASSUME NEW g, Adds(d, V, g) PROVE g[V] = 2 * Cardinality(E)
  BY <1>9, <1>10, <1>12, Handshake
<1>. QED
  BY <1>5, <1>11, <1>12

-----------------------------------------------------------------------------
(* What the pages of the laboratories keep, whatever is clicked.           *)
RingEdge(e) == \E v, w \in Ring6 : v # w /\ e = {v, w}
LabShape ==
    /\ open \in Pages \cup {"left"} /\ plays \in Nat
    /\ open = "degree" => lab \in [edges : SUBSET (DegreeIds \X DegreeIds), sel : {0} \cup DegreeIds]
    /\ open = "color" => lab \in [col : [Rim \cup {Hub} -> Colors], pick : Colors]
    /\ open = "euler" => lab \in [tab : {"k", "e"}, step : 0..6, timer : Nat]
    /\ open = "matrix" => lab \in [active : 1..5]
    /\ open = "handshaking" => lab \in [count : 0..5]
    /\ open = "pigeonhole" => /\ lab \in [drawn : 0..15, edges : SUBSET SUBSET Ring6]
                              /\ \A e \in lab.edges : RingEdge(e)
(* No two edges of DegreeLab join the same vertices.                       *)
NotDoubled == open = "degree" => \A e, f \in lab.edges : key(e) = key(f) => e = f
LabInv == LabShape /\ NotDoubled

LEMMA StartFits ==
    ASSUME NEW page \in Pages
    PROVE  /\ page = "degree" =>
                 /\ Start(page) \in [edges : SUBSET (DegreeIds \X DegreeIds), sel : {0} \cup DegreeIds]
                 /\ \A e, f \in Start(page).edges : key(e) = key(f) => e = f
           /\ page = "color" => Start(page) \in [col : [Rim \cup {Hub} -> Colors], pick : Colors]
           /\ page = "euler" => Start(page) \in [tab : {"k", "e"}, step : 0..6, timer : Nat]
           /\ page = "matrix" => Start(page) \in [active : 1..5]
           /\ page = "handshaking" => Start(page) \in [count : 0..5]
           /\ page = "pigeonhole" =>
                 /\ Start(page) \in [drawn : 0..15, edges : SUBSET SUBSET Ring6]
                 /\ \A e \in Start(page).edges : RingEdge(e)
<1>. USE DEF Start
<1>1. CASE page = "degree"
  <2>1. Start(page) = [edges |-> DegreeEdges, sel |-> 0]
    BY <1>1
  <2>2. DegreeEdges \subseteq DegreeIds \X DegreeIds
    BY DEF DegreeEdges, DegreeIds
  <2>3. \A e, f \in DegreeEdges : key(e) = key(f) => e = f
    BY DEF DegreeEdges, key, edgeKey
  <2>. QED
    BY <1>1, <2>1, <2>2, <2>3
<1>2. CASE page = "color"
  BY <1>2 DEF Colors
<1>3. CASE page = "euler"
  <2>1. Start(page) = [tab |-> "k", step |-> 0, timer |-> 0]
    BY <1>3
  <2>2. 0 \in 0..6 /\ 0 \in Nat
    OBVIOUS
  <2>. QED
    BY <1>3, <2>1, <2>2
<1>4. CASE page = "matrix"
  BY <1>4
<1>5. CASE page = "handshaking"
  BY <1>5 DEF handshakingEdges
<1>6. CASE page = "pigeonhole"
  BY <1>6
<1>. QED
  BY <1>1, <1>2, <1>3, <1>4, <1>5, <1>6 DEF Pages

LEMMA LabStart == LabInit => LabInv
<1>. SUFFICES ASSUME LabInit PROVE LabInv
  OBVIOUS
<1>1. open \in Pages /\ lab = Start(open) /\ plays \in Nat
  BY DEF LabInit
<1>. QED
  BY <1>1, StartFits DEF LabInv, LabShape, NotDoubled

LEMMA PageStep == LabInv /\ (LeavePage \/ OpenPage) => LabInv'
<1>. SUFFICES ASSUME LabInv, LeavePage \/ OpenPage PROVE LabInv'
  OBVIOUS
<1>1. CASE LeavePage
  <2>1. open' = "left" /\ plays' = plays
    BY <1>1 DEF LeavePage
  <2>. QED
    BY <2>1 DEF LabInv, LabShape, NotDoubled
<1>2. CASE OpenPage
  <2>1. open' \in Pages /\ lab' = Start(open') /\ plays' = plays
    BY <1>2 DEF OpenPage
  <2>2. plays \in Nat
    BY DEF LabInv, LabShape
  <2>. QED
    BY <2>1, <2>2, StartFits DEF LabInv, LabShape, NotDoubled
<1>. QED
  BY <1>1, <1>2

LEMMA DegreeStep == LabInv /\ clickNode => LabInv'
<1>. SUFFICES ASSUME LabInv, clickNode PROVE LabInv'
  OBVIOUS
<1>. USE DEF LabInv, LabShape, NotDoubled
<1>1. PICK v \in DegreeIds :
        \/ lab.sel = 0 /\ Becomes([lab EXCEPT !.sel = v])
        \/ lab.sel = v /\ Becomes([lab EXCEPT !.sel = 0])
        \/ lab.sel \notin {0, v} /\ Becomes([edges |-> Join(v), sel |-> 0])
  BY DEF clickNode
<1>2. open = "degree" /\ open' = "degree" /\ plays' \in Nat
  BY <1>1 DEF clickNode, Becomes
<1>3. lab \in [edges : SUBSET (DegreeIds \X DegreeIds), sel : {0} \cup DegreeIds]
  BY <1>2
<1>4. CASE lab'.edges = lab.edges /\ lab' \in [edges : {lab.edges}, sel : {0} \cup DegreeIds]
  BY <1>2, <1>3, <1>4 DEF Pages
<1>5. CASE lab.sel \notin {0, v} /\ lab' = [edges |-> Join(v), sel |-> 0]
  <2>1. Join(v) \subseteq lab.edges \/
          (Join(v) = lab.edges \cup {<<lab.sel, v>>} /\ \A e \in lab.edges : key(e) # edgeKey(lab.sel, v))
    BY DEF Join
  <2>2. Join(v) \subseteq DegreeIds \X DegreeIds
    BY <1>3, <1>5, <2>1
  <2>3. key(<<lab.sel, v>>) = edgeKey(lab.sel, v)
    BY DEF key
  <2>4. \A e, f \in Join(v) : key(e) = key(f) => e = f
    BY <1>2, <2>1, <2>3
  <2>. QED
    BY <1>2, <1>5, <2>2, <2>4 DEF Pages
<1>. QED
  BY <1>1, <1>3, <1>4, <1>5 DEF Becomes

LEMMA ColorStep == LabInv /\ (SetPick \/ Paint \/ WipeAll) => LabInv'
<1>. SUFFICES ASSUME LabInv, SetPick \/ Paint \/ WipeAll PROVE LabInv'
  OBVIOUS
<1>. USE DEF LabInv, LabShape, NotDoubled, Becomes
<1>1. open = "color" /\ open' = "color" /\ plays' \in Nat
  BY DEF SetPick, Paint, WipeAll
<1>2. lab \in [col : [Rim \cup {Hub} -> Colors], pick : Colors] /\ 0 \in Colors
  BY <1>1 DEF Colors
<1>3. lab' \in [col : [Rim \cup {Hub} -> Colors], pick : Colors]
  BY <1>2 DEF SetPick, Paint, WipeAll
<1>. QED
  BY <1>1, <1>3 DEF Pages

LEMMA SevenMet == seq = <<1, 2, 3, 4, 5, 3, 1>> /\ Len(seq) = 7
BY DEF seq

LEMMA EulerStep == LabInv /\ (play \/ Tick \/ \E t \in {"k", "e"} : setTab(t)) => LabInv'
<1>. SUFFICES ASSUME LabInv, play \/ Tick \/ \E t \in {"k", "e"} : setTab(t) PROVE LabInv'
  OBVIOUS
<1>. USE DEF LabInv, LabShape, NotDoubled, Becomes, Clearing
<1>1. /\ open = "euler" /\ open' = "euler"
      /\ plays \in Nat /\ plays' \in Nat
  BY DEF play, Tick, setTab
<1>2. lab \in [tab : {"k", "e"}, step : 0..6, timer : Nat]
  BY <1>1
<1>3. lab = [tab |-> lab.tab, step |-> lab.step, timer |-> lab.timer]
      /\ lab.tab \in {"k", "e"} /\ lab.step \in 0..6 /\ lab.timer \in Nat
  BY <1>2
<1>4. \E t \in {"k", "e"}, n \in 0..6, b \in Nat : lab' = [tab |-> t, step |-> n, timer |-> b]
  <2>1. CASE play
    <3>1. lab' = [tab |-> lab.tab, step |-> 0, timer |-> plays + 1]
      BY <1>2, <2>1 DEF play
    <3>2. 0 \in 0..6 /\ plays + 1 \in Nat
      BY <1>1
    <3>. QED
      BY <1>3, <3>1, <3>2, Zenon
  <2>2. CASE Tick
    <3>1. CASE lab.step >= 6
      <4>1. lab' = [tab |-> lab.tab, step |-> lab.step, timer |-> 0]
        BY <1>2, <2>2, <3>1, SevenMet DEF Tick
      <4>2. 0 \in Nat
        OBVIOUS
      <4>. QED
        BY <1>3, <4>1, <4>2, Zenon
    <3>2. CASE ~(lab.step >= 6)
      <4>1. lab' = [tab |-> lab.tab, step |-> lab.step + 1, timer |-> lab.timer]
        BY <1>2, <2>2, <3>2, SevenMet DEF Tick
      <4>2. lab.step + 1 \in 0..6
        BY <1>3, <3>2
      <4>. QED
        BY <1>3, <4>1, <4>2
    <3>. QED
      BY <3>1, <3>2
  <2>3. ASSUME NEW t \in {"k", "e"}, setTab(t)
        PROVE  \E n \in 0..6, b \in Nat : lab' = [tab |-> t, step |-> n, timer |-> b]
    <3>1. \/ lab' = [tab |-> t, step |-> 0, timer |-> 0]
          \/ lab' = [tab |-> t, step |-> lab.step, timer |-> lab.timer]
      BY <1>2, <2>3 DEF setTab
    <3>2. 0 \in 0..6 /\ 0 \in Nat
      OBVIOUS
    <3>. QED
      BY <1>3, <3>1, <3>2, Zenon
  <2>. QED
    BY <2>1, <2>2, <2>3
<1>5. lab' \in [tab : {"k", "e"}, step : 0..6, timer : Nat]
  BY <1>4
<1>. QED
  BY <1>1, <1>5 DEF Pages

LEMMA PictureStep == LabInv /\ (setActive \/ setEdgeCount) => LabInv'
<1>. SUFFICES ASSUME LabInv, setActive \/ setEdgeCount PROVE LabInv'
  OBVIOUS
<1>. USE DEF LabInv, LabShape, NotDoubled, Becomes, Pages
<1>1. DOMAIN T2.graph.edges = 1..5
  BY DEF T2, T2graph, GraphData
<1>2. Len(handshakingEdges) = 5
  BY DEF handshakingEdges
<1>3. CASE setActive
  BY <1>1, <1>3 DEF setActive
<1>4. CASE setEdgeCount
  BY <1>2, <1>4 DEF setEdgeCount
<1>. QED
  BY <1>3, <1>4

(* Every pair of the two loops joins two vertices of the ring.             *)
LEMMA RingPairsJoin ==
    /\ Len(RingPairs) = 15
    /\ \A i \in 1..15 : RingPairs[i] \in Ring6 \X Ring6 /\ RingPairs[i][1] # RingPairs[i][2]
BY DEF RingPairs, Ring6

LEMMA CoinStep == LabInv /\ (Toss \/ Regenerate) => LabInv'
<1>. SUFFICES ASSUME LabInv, Toss \/ Regenerate PROVE LabInv'
  OBVIOUS
<1>1. open = "pigeonhole" /\ open' = "pigeonhole" /\ plays' \in Nat
  BY DEF Toss, Regenerate, Becomes, LabInv, LabShape
<1>2. lab \in [drawn : 0..15, edges : SUBSET SUBSET Ring6] /\ \A e \in lab.edges : RingEdge(e)
  BY <1>1 DEF LabInv, LabShape
<1>3. CASE Regenerate
  <2>1. lab' = [drawn |-> 0, edges |-> {}]
    BY <1>3 DEF Regenerate, Becomes, Start
  <2>. QED
    BY <1>1, <2>1 DEF LabInv, LabShape, NotDoubled, Pages
<1>4. CASE Toss
  <2>. DEFINE p == RingPairs[lab.drawn + 1]
  <2>1. PICK E \in {lab.edges, lab.edges \cup {edgeKey(p[1], p[2])}} :
           lab' = [drawn |-> lab.drawn + 1, edges |-> E]
    BY <1>4 DEF Toss, Becomes
  <2>2. lab.drawn + 1 \in 1..15
    BY <1>2, <1>4, RingPairsJoin DEF Toss
  <2>3. p[1] \in Ring6 /\ p[2] \in Ring6 /\ p[1] # p[2]
    BY <2>2, RingPairsJoin
  <2>. HIDE DEF p
  <2>4. RingEdge(edgeKey(p[1], p[2])) /\ edgeKey(p[1], p[2]) \in SUBSET Ring6
    BY <2>3 DEF RingEdge, edgeKey
  <2>5. E \in SUBSET SUBSET Ring6 /\ \A e \in E : RingEdge(e)
    BY <1>2, <2>1, <2>4
  <2>. QED
    BY <1>1, <2>1, <2>2, <2>5 DEF LabInv, LabShape, NotDoubled, Pages
<1>. QED
  BY <1>3, <1>4

LEMMA LabStays == LabInv /\ [LabNext]_labVars => LabInv'
<1>. SUFFICES ASSUME LabInv, [LabNext]_labVars PROVE LabInv'
  OBVIOUS
<1>1. CASE UNCHANGED labVars
  BY <1>1 DEF labVars, LabInv, LabShape, NotDoubled
<1>. QED
  BY <1>1, PageStep, DegreeStep, ColorStep, EulerStep, PictureStep, CoinStep DEF LabNext

LEMMA LabInvariant == LabSpec => []LabInv
BY LabStart, LabStays, PTL DEF LabSpec

-----------------------------------------------------------------------------
(* DegreeLab.                                                              *)
DegreesTrue ==
    /\ sum = 2 * Cardinality(lab.edges)
    /\ Cardinality({key(e) : e \in lab.edges}) = Cardinality(lab.edges)

LEMMA DegreeLabRight == LabInv /\ open = "degree" => DegreesTrue
<1>. SUFFICES ASSUME LabInv, open = "degree" PROVE DegreesTrue
  OBVIOUS
<1>. DEFINE V == DegreeIds
            E == lab.edges
            d == [v \in V |-> deg(v)]
            Q(g) == g = [s \in SUBSET V |->
                           IF s = {} THEN 0
                           ELSE deg(CHOOSE x \in s : TRUE) + g[s \ {CHOOSE x \in s : TRUE}]]
<1>1. E \subseteq V \X V /\ \A e, f \in E : key(e) = key(f) => e = f
  BY DEF LabInv, LabShape, NotDoubled
<1>2. IsFiniteSet(V) /\ IsFiniteSet(E)
  <2>1. IsFiniteSet(V)
    BY CountIndices DEF DegreeIds
  <2>. HIDE DEF V
  <2>. QED
    BY <1>1, <2>1, FS_Product, FS_Subset
<1>3. sum = 2 * Cardinality(E)
  <2>1. \A s \in SUBSET V : s # {} => d[CHOOSE x \in s : TRUE] = deg(CHOOSE x \in s : TRUE)
    OBVIOUS
  <2>2. \A g : Adds(d, V, g) <=> Q(g)
    BY <2>1 DEF Adds
  <2>3. \E g : Q(g)
    <3>. HIDE DEF d, Q
    <3>. QED
      BY <1>2, <2>2, SumsExist
  <2>4. Q(CHOOSE g : Q(g))
    <3>. HIDE DEF Q
    <3>. QED
      BY <2>3
  <2>5. sum = (CHOOSE g : Q(g))[V]
    BY DEF sum, MapThenSumSet, MapThenFoldSet
  <2>6. \A v \in V : d[v] = Cardinality({e \in E : e[1] = v}) + Cardinality({e \in E : e[2] = v})
    BY DEF deg
  <2>. HIDE DEF d, Q, V, E
  <2>7. Adds(d, V, CHOOSE g : Q(g))
    BY <2>2, <2>4
  <2>8. ASSUME NEW g, Adds(d, V, g) PROVE g[V] = 2 * Cardinality(E)
    BY <1>1, <1>2, <2>6, <2>8, PairSum
  <2>. QED
    BY <2>5, <2>7, <2>8
<1>4. Cardinality({key(e) : e \in E}) = Cardinality(E)
  <2>. DEFINE k == [e \in E |-> key(e)]
  <2>1. {key(e) : e \in E} = {k[e] : e \in E} /\ \A e, f \in E : k[e] = k[f] => e = f
    BY <1>1
  <2>. HIDE DEF k, E
  <2>. QED
    BY <1>2, <2>1, AsManyImages
<1>. QED
  BY <1>3, <1>4 DEF DegreesTrue

-----------------------------------------------------------------------------
(* EulerLab.  A place of a walk: the edges used, the vertex it stands at.  *)
Places(ends) == (SUBSET DOMAIN ends) \X UNION Range(ends)
Onward(ends, s, c, p) ==
    IF p[1] = DOMAIN ends THEN p[2] = s
    ELSE \E i \in DOMAIN ends \ p[1] :
            /\ p[2] \in ends[i]
            /\ c[<<p[1] \cup {i}, TheOne(ends[i] \ {p[2]})>>]
Follows(ends, s, c) ==
    c = [p \in Places(ends) |-> Onward(ends, s, c, p)]
Drawn(ends) ==
    IsFiniteSet(DOMAIN ends) /\ \A i \in DOMAIN ends : \E a, b : a # b /\ ends[i] = {a, b}
LeftOver(ends, p) == DOMAIN ends \ p[1]

LEMMA OtherEnd ==
    ASSUME NEW ends, Drawn(ends), NEW i \in DOMAIN ends, NEW x \in ends[i]
    PROVE  LET y == TheOne(ends[i] \ {x})
           IN  y \in UNION Range(ends) /\ y # x /\ ends[i] = {x, y}
<1>1. PICK a, b : a # b /\ ends[i] = {a, b}
  BY DEF Drawn
<1>2. PICK z : z # x /\ ends[i] = {x, z}
  BY <1>1
<1>3. ends[i] \ {x} = {z}
  BY <1>2
<1>4. TheOne({z}) = z
  BY DEF TheOne
<1>5. z \in UNION Range(ends)
  BY <1>2 DEF Range
<1>. QED
  BY <1>2, <1>3, <1>4, <1>5

LEMMA OneOn ==
    ASSUME NEW ends, Drawn(ends), NEW p \in Places(ends), NEW i \in LeftOver(ends, p), p[2] \in ends[i]
    PROVE  LET q == <<p[1] \cup {i}, TheOne(ends[i] \ {p[2]})>>
           IN  /\ q \in Places(ends)
               /\ Cardinality(LeftOver(ends, q)) = Cardinality(LeftOver(ends, p)) - 1
               /\ Cardinality(LeftOver(ends, p)) \in Nat
<1>. DEFINE y == TheOne(ends[i] \ {p[2]})
            q == <<p[1] \cup {i}, y>>
<1>1. y \in UNION Range(ends)
  BY OtherEnd DEF LeftOver
<1>. HIDE DEF y
<1>2. q \in Places(ends) /\ q[1] = p[1] \cup {i}
  BY <1>1 DEF Places, LeftOver
<1>3. LeftOver(ends, q) = LeftOver(ends, p) \ {i}
  BY <1>2 DEF LeftOver
<1>4. IsFiniteSet(LeftOver(ends, p))
  BY FS_Subset DEF LeftOver, Drawn
<1>. HIDE DEF q
<1>5. /\ Cardinality(LeftOver(ends, q)) = Cardinality(LeftOver(ends, p)) - 1
      /\ Cardinality(LeftOver(ends, p)) \in Nat
  BY <1>3, <1>4, FS_RemoveElement, FS_CardinalityType
<1>. QED
  BY <1>2, <1>5 DEF q, y

LEMMA StepBack ==
    ASSUME NEW ends, NEW s, NEW g
    PROVE  \E h : /\ h = [p \in Places(ends) |-> h[p]]
                  /\ \A p \in Places(ends) : h[p] = Onward(ends, s, g, p)
<1>. DEFINE h == [p \in Places(ends) |-> Onward(ends, s, g, p)]
<1>1. \A p \in Places(ends) : h[p] = Onward(ends, s, g, p)
  OBVIOUS
<1>2. h = [p \in Places(ends) |-> h[p]]
  OBVIOUS
<1>. HIDE DEF h
<1>. QED
  BY <1>1, <1>2

(* The recursion of HasEulerCycle defines a function.                      *)
LEMMA SearchExists ==
    ASSUME NEW ends, Drawn(ends), NEW s
    PROVE  \E c : Follows(ends, s, c)
<1>. DEFINE N(p) == Cardinality(LeftOver(ends, p))
            Upto(n, g) == /\ g = [p \in Places(ends) |-> g[p]]
                          /\ \A p \in Places(ends) : N(p) <= n => g[p] = Onward(ends, s, g, p)
            S == {n \in Nat : \E g : Upto(n, g)}
<1>1. \A p \in Places(ends) : /\ N(p) \in Nat /\ N(p) <= Cardinality(DOMAIN ends)
                              /\ (N(p) = 0 => p[1] = DOMAIN ends)
  <2>1. \A p \in Places(ends) : LeftOver(ends, p) \subseteq DOMAIN ends /\ p[1] \subseteq DOMAIN ends
    BY DEF Places, LeftOver
  <2>2. \A p \in Places(ends) : IsFiniteSet(LeftOver(ends, p)) /\ N(p) <= Cardinality(DOMAIN ends)
    BY <2>1, FS_Subset DEF Drawn
  <2>3. \A p \in Places(ends) : N(p) \in Nat /\ (N(p) = 0 => LeftOver(ends, p) = {})
    BY <2>2, FS_CardinalityType, FS_EmptySet
  <2>. QED
    BY <2>1, <2>2, <2>3 DEF LeftOver
<1>2. 0 \in S
  <2>1. PICK h : /\ h = [p \in Places(ends) |-> h[p]]
                 /\ \A p \in Places(ends) : h[p] = Onward(ends, s, <<>>, p)
    BY StepBack
  <2>2. ASSUME NEW p \in Places(ends), N(p) <= 0 PROVE h[p] = Onward(ends, s, h, p)
    <3>1. p[1] = DOMAIN ends
      BY <1>1, <2>2
    <3>. QED
      BY <2>1, <3>1 DEF Onward
  <2>3. Upto(0, h)
    <3>. HIDE DEF N
    <3>. QED
      BY <2>1, <2>2
  <2>. HIDE DEF Upto
  <2>. QED
    BY <2>3
<1>3. ASSUME NEW n \in Nat, n \in S PROVE n + 1 \in S
  <2>1. PICK g : Upto(n, g)
    BY <1>3
  <2>2. PICK h : /\ h = [p \in Places(ends) |-> h[p]]
                 /\ \A p \in Places(ends) : h[p] = Onward(ends, s, g, p)
    BY StepBack
  <2>3. ASSUME NEW p \in Places(ends), N(p) <= n + 1 PROVE h[p] = Onward(ends, s, h, p)
    <3>1. ASSUME NEW i \in LeftOver(ends, p), p[2] \in ends[i]
          PROVE  LET q == <<p[1] \cup {i}, TheOne(ends[i] \ {p[2]})>> IN h[q] = g[q]
      <4>. DEFINE q == <<p[1] \cup {i}, TheOne(ends[i] \ {p[2]})>>
      <4>1. q \in Places(ends) /\ N(q) = N(p) - 1 /\ N(p) \in Nat
        BY <3>1, OneOn
      <4>. HIDE DEF q, N
      <4>2. g[q] = Onward(ends, s, g, q)
        BY <2>1, <2>3, <4>1
      <4>3. h[q] = g[q]
        BY <2>2, <4>1, <4>2
      <4>. QED
        BY <4>3 DEF q
    <3>2. Onward(ends, s, g, p) = Onward(ends, s, h, p)
      BY <3>1 DEF Onward, LeftOver
    <3>. QED
      BY <2>2, <3>2
  <2>4. Upto(n + 1, h)
    <3>. HIDE DEF N
    <3>. QED
      BY <2>2, <2>3
  <2>. HIDE DEF Upto
  <2>. QED
    BY <2>4
<1>4. PICK g : Upto(Cardinality(DOMAIN ends), g)
  <2>. HIDE DEF Upto
  <2>1. Cardinality(DOMAIN ends) \in S
    <3>. HIDE DEF S
    <3>. QED
      BY <1>2, <1>3, FS_CardinalityType, SetInduction DEF Drawn
  <2>. QED
    BY <2>1
<1>5. Follows(ends, s, g)
  <2>1. \A p \in Places(ends) : g[p] = Onward(ends, s, g, p)
    BY <1>1, <1>4
  <2>2. g = [p \in Places(ends) |-> g[p]]
    BY <1>4
  <2>. QED
    BY <2>1, <2>2 DEF Follows
<1>. QED
  BY <1>5

Even(n) == \E k \in Int : n = 2 * k

(* Euler's condition: where a closed trail over all edges does not start,  *)
(* an even number of edges meet.                                           *)
LEMMA EvenEverywhere ==
    ASSUME NEW ends, Drawn(ends), NEW s \in UNION Range(ends), HasEulerCycle(ends, s), NEW v, v # s
    PROVE  Even(Cardinality({i \in DOMAIN ends : v \in ends[i]}))
<1>1. PICK c : Follows(ends, s, c) /\ c[<<{}, s>>]
  <2>. DEFINE c == CHOOSE c : Follows(ends, s, c)
  <2>1. Follows(ends, s, c)
    BY SearchExists
  <2>2. HasEulerCycle(ends, s) = c[<<{}, s>>]
    BY DEF HasEulerCycle, Follows, Onward, Places
  <2>. QED
    BY <2>1, <2>2
<1>. DEFINE N(p) == Cardinality(LeftOver(ends, p))
            Meet(p) == {i \in LeftOver(ends, p) : v \in ends[i]}
            Due(p) == Cardinality(Meet(p)) + IF p[2] = v THEN 1 ELSE 0
            S == {n \in Nat : \A p \in Places(ends) : N(p) = n /\ c[p] => Even(Due(p))}
<1>2. \A p \in Places(ends) : c[p] = Onward(ends, s, c, p)
  BY <1>1 DEF Follows
<1>3. \A p \in Places(ends) : /\ p[1] \subseteq DOMAIN ends
                              /\ IsFiniteSet(Meet(p)) /\ Cardinality(Meet(p)) \in Nat
                              /\ N(p) \in Nat /\ (N(p) = 0 <=> LeftOver(ends, p) = {})
  <2>1. \A p \in Places(ends) : /\ LeftOver(ends, p) \subseteq DOMAIN ends
                                /\ Meet(p) \subseteq DOMAIN ends /\ p[1] \subseteq DOMAIN ends
    BY DEF Places, LeftOver
  <2>2. \A p \in Places(ends) : IsFiniteSet(Meet(p)) /\ IsFiniteSet(LeftOver(ends, p))
    BY <2>1, FS_Subset DEF Drawn
  <2>. HIDE DEF Meet
  <2>. QED
    BY <2>1, <2>2, FS_CardinalityType, FS_EmptySet
<1>4. 0 \in S
  <2>1. SUFFICES ASSUME NEW p \in Places(ends), N(p) = 0, c[p] PROVE Even(Due(p))
    OBVIOUS
  <2>2. p[1] = DOMAIN ends /\ LeftOver(ends, p) = {}
    BY <1>3, <2>1 DEF LeftOver
  <2>3. p[2] = s
    BY <1>2, <2>1, <2>2 DEF Onward
  <2>4. Meet(p) = {}
    BY <2>2
  <2>5. Due(p) = 0
    BY <2>3, <2>4, FS_EmptySet
  <2>. QED
    BY <2>5 DEF Even
<1>5. ASSUME NEW n \in Nat, n \in S PROVE n + 1 \in S
  <2>1. SUFFICES ASSUME NEW p \in Places(ends), N(p) = n + 1, c[p] PROVE Even(Due(p))
    OBVIOUS
  <2>2. p[1] # DOMAIN ends
    <3>1. p[1] = DOMAIN ends => LeftOver(ends, p) = {}
      BY DEF LeftOver
    <3>. HIDE DEF N, Meet
    <3>2. LeftOver(ends, p) # {}
      BY <1>3, <2>1
    <3>. QED
      BY <3>1, <3>2
  <2>3. PICK i \in LeftOver(ends, p) :
           p[2] \in ends[i] /\ c[<<p[1] \cup {i}, TheOne(ends[i] \ {p[2]})>>]
    BY <1>2, <2>1, <2>2 DEF Onward, LeftOver
  <2>. DEFINE y == TheOne(ends[i] \ {p[2]})
              q == <<p[1] \cup {i}, y>>
  <2>4. y # p[2] /\ ends[i] = {p[2], y}
    BY <2>3, OtherEnd DEF LeftOver
  <2>5. q \in Places(ends) /\ N(q) = n
    BY <2>1, <2>3, OneOn
  <2>. HIDE DEF y
  <2>6. q[1] = p[1] \cup {i} /\ q[2] = y
    OBVIOUS
  <2>7. c[q]
    BY <2>3 DEF y
  <2>. HIDE DEF q
  <2>8. Even(Due(q))
    BY <1>5, <2>5, <2>7
  <2>9. LeftOver(ends, q) = LeftOver(ends, p) \ {i}
    BY <2>6 DEF LeftOver
  <2>10. CASE v \notin ends[i]
    <3>1. Meet(q) = Meet(p)
      BY <2>9, <2>10
    <3>. QED
      BY <2>4, <2>6, <2>8, <2>10, <3>1
  <2>11. CASE v \in ends[i]
    <3>1. Meet(q) = Meet(p) \ {i} /\ i \in Meet(p)
      BY <2>3, <2>9, <2>11
    <3>. HIDE DEF Meet
    <3>2. Cardinality(Meet(q)) = Cardinality(Meet(p)) - 1 /\ Cardinality(Meet(p)) \in Nat
      BY <1>3, <3>1, FS_RemoveElement
    <3>3. PICK k \in Int : Due(q) = 2 * k
      BY <2>8 DEF Even
    <3>4. CASE p[2] = v
      <4>1. Due(p) = 2 * (k + 1)
        BY <2>4, <2>6, <3>2, <3>3, <3>4
      <4>. HIDE DEF Due
      <4>. QED
        BY <4>1 DEF Even
    <3>5. CASE p[2] # v
      <4>1. Due(p) = 2 * k
        BY <2>4, <2>6, <2>11, <3>2, <3>3, <3>5
      <4>. HIDE DEF Due
      <4>. QED
        BY <4>1 DEF Even
    <3>. QED
      BY <3>4, <3>5
  <2>. QED
    BY <2>10, <2>11
<1>. DEFINE first == <<{}, s>>
<1>6. first \in Places(ends) /\ first[1] = {} /\ first[2] = s
  BY DEF Places
<1>. HIDE DEF first
<1>7. N(first) \in S
  <2>. HIDE DEF S
  <2>. QED
    BY <1>3, <1>4, <1>5, <1>6, SetInduction
<1>8. Even(Due(first))
  BY <1>1, <1>6, <1>7 DEF first
<1>9. Meet(first) = {i \in DOMAIN ends : v \in ends[i]}
  BY <1>6 DEF LeftOver
<1>10. Due(first) = Cardinality(Meet(first))
  <2>. HIDE DEF Meet
  <2>. QED
    BY <1>3, <1>6
<1>. QED
  BY <1>8, <1>9, <1>10

LEMMA ThreeCounted ==
    ASSUME NEW a, NEW b, NEW c, a # b, a # c, b # c PROVE Cardinality({a, b, c}) = 3
<1>1. {a, b, c} = ({a} \cup {b}) \cup {c}
  OBVIOUS
<1>2. IsFiniteSet({a}) /\ Cardinality({a}) = 1
  BY FS_Singleton
<1>3. IsFiniteSet({a} \cup {b}) /\ Cardinality({a} \cup {b}) = 2
  BY <1>2, FS_AddElement
<1>. QED
  BY <1>1, <1>3, FS_AddElement

(* Three of the bridges of Koenigsberg end on the bank B.                  *)
LEMMA NoWalkOverTheBridges == ~HasEulerCycle(Bridges, "A")
<1>1. DOMAIN Bridges = 1..7 /\ Drawn(Bridges)
  <2>1. DOMAIN Bridges = 1..7
    BY DEF Bridges
  <2>2. /\ \A i \in 1..2 : Bridges[i] = {"A", "B"}
        /\ \A i \in 3..4 : Bridges[i] = {"A", "C"}
        /\ Bridges[5] = {"A", "D"} /\ Bridges[6] = {"B", "D"} /\ Bridges[7] = {"C", "D"}
    BY DEF Bridges
  <2>3. \A i \in 1..7 : \E a, b : a # b /\ Bridges[i] = {a, b}
    <3>1. "A" # "B" /\ "A" # "C" /\ "A" # "D" /\ "B" # "D" /\ "C" # "D"
      OBVIOUS
    <3>2. \A i \in 1..7 : i \in 1..2 \/ i \in 3..4 \/ i = 5 \/ i = 6 \/ i = 7
      OBVIOUS
    <3>. QED
      BY <2>2, <3>1, <3>2, Zenon
  <2>. QED
    BY <2>1, <2>3, CountIndices DEF Drawn
<1>2. "A" \in UNION Range(Bridges)
  BY <1>1 DEF Bridges, Range
<1>3. {i \in DOMAIN Bridges : "B" \in Bridges[i]} = {1, 2, 6}
  BY <1>1 DEF Bridges
<1>4. Cardinality({1, 2, 6}) = 3
  <2>1. 1 # 2 /\ 1 # 6 /\ 2 # 6
    OBVIOUS
  <2>. QED
    BY <2>1, ThreeCounted, Zenon
<1>5. ~Even(3)
  BY DEF Even
<1>. QED
  BY <1>1, <1>2, <1>3, <1>4, <1>5, EvenEverywhere

DistinctUpto(n, k) == \A i, j \in 1..n : k[i] = k[j] => i = j
LEMMA FirstOnes ==
    ASSUME NEW m \in Nat, NEW n \in 0..m, NEW k, DistinctUpto(m, k)
    PROVE  Cardinality({k[i] : i \in 1..n}) = n /\ IsFiniteSet({k[i] : i \in 1..n})
<1>1. IsFiniteSet(1..n) /\ Cardinality(1..n) = n
  BY CountIndices
<1>2. \A i, j \in 1..n : k[i] = k[j] => i = j
  BY DEF DistinctUpto
<1>. QED
  BY <1>1, <1>2, AsManyImages

WalkTrue ==
    /\ Cardinality(traversed) = lab.step /\ traversed \subseteq LoopEdges
    /\ SaysDone => traversed = LoopEdges /\ seq[lab.step + 1] = seq[1]
    /\ \A v \in DOMAIN kdeg : kdeg[v] = Cardinality({i \in DOMAIN Bridges : v \in Bridges[i]})
    /\ ~HasEulerCycle(Bridges, "A")

SeqEdges == [i \in 1..6 |-> edgeKey(seq[i], seq[i + 1])]
LEMMA WalkOfLoops == DistinctUpto(6, SeqEdges) /\ {SeqEdges[i] : i \in 1..6} = LoopEdges
<1>1. /\ SeqEdges[1] = {1, 2} /\ SeqEdges[2] = {2, 3} /\ SeqEdges[3] = {3, 4}
      /\ SeqEdges[4] = {4, 5} /\ SeqEdges[5] = {5, 3} /\ SeqEdges[6] = {3, 1}
  BY DEF SeqEdges, seq, edgeKey
<1>2. /\ {1, 2} # {2, 3} /\ {1, 2} # {3, 4} /\ {1, 2} # {4, 5} /\ {1, 2} # {5, 3} /\ {1, 2} # {3, 1}
      /\ {2, 3} # {3, 4} /\ {2, 3} # {4, 5} /\ {2, 3} # {5, 3} /\ {2, 3} # {3, 1}
      /\ {3, 4} # {4, 5} /\ {3, 4} # {5, 3} /\ {3, 4} # {3, 1}
      /\ {4, 5} # {5, 3} /\ {4, 5} # {3, 1} /\ {5, 3} # {3, 1}
  OBVIOUS
<1>3. /\ SeqEdges[1] # SeqEdges[2] /\ SeqEdges[1] # SeqEdges[3] /\ SeqEdges[1] # SeqEdges[4]
      /\ SeqEdges[1] # SeqEdges[5] /\ SeqEdges[1] # SeqEdges[6] /\ SeqEdges[2] # SeqEdges[3]
      /\ SeqEdges[2] # SeqEdges[4] /\ SeqEdges[2] # SeqEdges[5] /\ SeqEdges[2] # SeqEdges[6]
      /\ SeqEdges[3] # SeqEdges[4] /\ SeqEdges[3] # SeqEdges[5] /\ SeqEdges[3] # SeqEdges[6]
      /\ SeqEdges[4] # SeqEdges[5] /\ SeqEdges[4] # SeqEdges[6] /\ SeqEdges[5] # SeqEdges[6]
  BY <1>1, <1>2, Zenon
<1>4. DistinctUpto(6, SeqEdges)
  BY <1>3 DEF DistinctUpto
<1>5. {SeqEdges[i] : i \in 1..6} =
        {SeqEdges[1], SeqEdges[2], SeqEdges[3], SeqEdges[4], SeqEdges[5], SeqEdges[6]}
  OBVIOUS
<1>6. LoopEdges = {{1, 2}, {2, 3}, {3, 4}, {4, 5}, {5, 3}, {3, 1}}
  BY DEF LoopEdges, edgeKey
<1>. QED
  BY <1>1, <1>4, <1>5, <1>6

LEMMA BridgeDegrees ==
    \A v \in DOMAIN kdeg : kdeg[v] = Cardinality({i \in DOMAIN Bridges : v \in Bridges[i]})
<1>1. DOMAIN Bridges = 1..7 /\ DOMAIN kdeg = {"A", "B", "C", "D"}
  BY DEF Bridges, kdeg
<1>2. /\ {i \in DOMAIN Bridges : "A" \in Bridges[i]} = 1..5
      /\ {i \in DOMAIN Bridges : "B" \in Bridges[i]} = {1, 2, 6}
      /\ {i \in DOMAIN Bridges : "C" \in Bridges[i]} = {3, 4, 7}
      /\ {i \in DOMAIN Bridges : "D" \in Bridges[i]} = {5, 6, 7}
  BY <1>1 DEF Bridges
<1>3. Cardinality(1..5) = 5
  BY CountIndices
<1>4. Cardinality({1, 2, 6}) = 3 /\ Cardinality({3, 4, 7}) = 3 /\ Cardinality({5, 6, 7}) = 3
  <2>1. 1 # 2 /\ 1 # 6 /\ 2 # 6 /\ 3 # 4 /\ 3 # 7 /\ 4 # 7 /\ 5 # 6 /\ 5 # 7 /\ 6 # 7
    OBVIOUS
  <2>2. Cardinality({1, 2, 6}) = 3
    BY <2>1, ThreeCounted, Zenon
  <2>3. Cardinality({3, 4, 7}) = 3
    BY <2>1, ThreeCounted, Zenon
  <2>4. Cardinality({5, 6, 7}) = 3
    BY <2>1, ThreeCounted, Zenon
  <2>. QED
    BY <2>2, <2>3, <2>4
<1>5. kdeg["A"] = 5 /\ kdeg["B"] = 3 /\ kdeg["C"] = 3 /\ kdeg["D"] = 3
  BY DEF kdeg
<1>. DEFINE AtBank(v) == {i \in DOMAIN Bridges : v \in Bridges[i]}
<1>6. AtBank("A") = 1..5 /\ AtBank("B") = {1, 2, 6} /\ AtBank("C") = {3, 4, 7} /\ AtBank("D") = {5, 6, 7}
  BY <1>2
<1>. HIDE DEF AtBank
<1>7. /\ kdeg["A"] = Cardinality(AtBank("A")) /\ kdeg["B"] = Cardinality(AtBank("B"))
      /\ kdeg["C"] = Cardinality(AtBank("C")) /\ kdeg["D"] = Cardinality(AtBank("D"))
  BY <1>3, <1>4, <1>5, <1>6, Zenon
<1>8. \A v \in DOMAIN kdeg : kdeg[v] = Cardinality(AtBank(v))
  BY <1>1, <1>7, Zenon
<1>. QED
  BY <1>8 DEF AtBank

LEMMA EulerLabRight == LabInv /\ open = "euler" => WalkTrue
<1>. SUFFICES ASSUME LabInv, open = "euler" PROVE WalkTrue
  OBVIOUS
<1>. DEFINE n == lab.step
<1>1. n \in 0..6
  BY DEF LabInv, LabShape
<1>2. SaysDone => n = 6
  BY <1>1, SevenMet DEF SaysDone
<1>3. traversed = {SeqEdges[i] : i \in 1..n}
  <2>1. traversed = {edgeKey(seq[i], seq[i + 1]) : i \in 1..n}
    BY DEF traversed
  <2>. HIDE DEF n
  <2>2. \A i \in 1..n : SeqEdges[i] = edgeKey(seq[i], seq[i + 1])
    BY <1>1 DEF SeqEdges
  <2>. QED
    BY <2>1, <2>2
<1>. HIDE DEF n
<1>4. Cardinality(traversed) = n
  BY <1>1, <1>3, FirstOnes, WalkOfLoops
<1>5. traversed \subseteq {SeqEdges[i] : i \in 1..6}
  BY <1>1, <1>3
<1>6. SaysDone => traversed = LoopEdges /\ seq[n + 1] = seq[1]
  BY <1>2, <1>3, WalkOfLoops, SevenMet
<1>. QED
  BY <1>4, <1>5, <1>6, WalkOfLoops, BridgeDegrees, NoWalkOverTheBridges DEF WalkTrue, n

-----------------------------------------------------------------------------
(* The slider and the matrix of GT-01.                                     *)
HandTrue == degreeSum = 2 * lab.count

LEMMA SliderRight == LabInv /\ open = "handshaking" => HandTrue
<1>. SUFFICES ASSUME LabInv, open = "handshaking" PROVE HandTrue
  OBVIOUS
<1>. DEFINE h == handshakingEdges
            n == lab.count
            E == {h[i] : i \in 1..n}
<1>1. n \in 0..5
  BY DEF LabInv, LabShape
<1>2. /\ h[1] = {1, 2} /\ h[2] = {2, 3} /\ h[3] = {3, 4} /\ h[4] = {1, 4} /\ h[5] = {1, 3}
  BY DEF handshakingEdges, edgeKey
<1>3. DistinctUpto(5, h)
  <2>1. /\ {1, 2} # {2, 3} /\ {1, 2} # {3, 4} /\ {1, 2} # {1, 4} /\ {1, 2} # {1, 3}
        /\ {2, 3} # {3, 4} /\ {2, 3} # {1, 4} /\ {2, 3} # {1, 3}
        /\ {3, 4} # {1, 4} /\ {3, 4} # {1, 3} /\ {1, 4} # {1, 3}
    OBVIOUS
  <2>. HIDE DEF h
  <2>2. /\ h[1] # h[2] /\ h[1] # h[3] /\ h[1] # h[4] /\ h[1] # h[5] /\ h[2] # h[3]
        /\ h[2] # h[4] /\ h[2] # h[5] /\ h[3] # h[4] /\ h[3] # h[5] /\ h[4] # h[5]
    BY <1>2, <2>1, Zenon
  <2>. QED
    BY <2>2 DEF DistinctUpto
<1>4. \A i \in 1..5 : \E a, b \in 1..4 : a # b /\ h[i] = {a, b}
  <2>. DEFINE a == <<1, 2, 3, 1, 1>>
              b == <<2, 3, 4, 4, 3>>
  <2>. HIDE DEF h
  <2>1. \A i \in 1..5 : a[i] \in 1..4 /\ b[i] \in 1..4 /\ a[i] # b[i] /\ h[i] = {a[i], b[i]}
    BY <1>2
  <2>. HIDE DEF a, b
  <2>. QED
    BY <2>1
<1>. HIDE DEF h, n
<1>5. Cardinality(E) = n /\ IsFiniteSet(E)
  BY <1>1, <1>3, FirstOnes
<1>6. \A e \in E : \E a, b \in 1..4 : a # b /\ e = {a, b}
  BY <1>1, <1>4
<1>. HIDE DEF E
<1>7. SumDegrees(E, 1..4) = 2 * Cardinality(E)
  BY <1>5, <1>6, CountIndices, DegreeSum
<1>. QED
  BY <1>5, <1>7 DEF HandTrue, degreeSum, E, n, h

MatrixRight ==
    LET name == T2.graph.nodes
        lit == {c \in (DOMAIN name) \X (DOMAIN name) : isActiveCell(name[c[1]], name[c[2]])}
    IN  /\ Cardinality(lit) = 2
        /\ \A c \in lit : T2.expectedMatrix[c[1]][c[2]] = 1

LEMMA TwoCounted == ASSUME NEW a, NEW b, a # b PROVE IsFiniteSet({a, b}) /\ Cardinality({a, b}) = 2
<1>1. IsFiniteSet({a}) /\ Cardinality({a}) = 1
  BY FS_Singleton
<1>2. {a, b} = {a} \cup {b}
  OBVIOUS
<1>. QED
  BY <1>1, <1>2, FS_AddElement

LEMMA MatrixPageRight == LabInv /\ open = "matrix" => MatrixRight
<1>. SUFFICES ASSUME LabInv, open = "matrix" PROVE MatrixRight
  OBVIOUS
<1>. DEFINE name == <<"1", "2", "3", "4">>
            M == << <<0, 0, 1, 1>>, <<0, 0, 1, 1>>, <<1, 1, 0, 1>>, <<1, 1, 1, 0>> >>
            n == lab.active
<1>1. n \in 1..5
  BY DEF LabInv, LabShape
<1>2. /\ T2.graph = T2graph /\ T2graph.nodes = name /\ T2graph.directed = FALSE
      /\ T2.expectedMatrix = M /\ DOMAIN name = 1..4
  BY DEF T2, T2graph, GraphData
<1>3. T2graph.edges = << <<"1", "3">>, <<"2", "3">>, <<"3", "4">>, <<"4", "1">>, <<"4", "2">> >>
  BY DEF T2graph, GraphData
<1>4. \E a, b \in 1..4 : /\ a # b /\ T2graph.edges[n] = <<name[a], name[b]>>
                         /\ M[a][b] = 1 /\ M[b][a] = 1
  <2>1. n = 1 \/ n = 2 \/ n = 3 \/ n = 4 \/ n = 5
    BY <1>1
  <2>. QED
    BY <1>3, <2>1
<1>5. PICK a \in 1..4, b \in 1..4 : /\ a # b /\ T2graph.edges[n] = <<name[a], name[b]>>
                                    /\ M[a][b] = 1 /\ M[b][a] = 1
  BY <1>4
<1>6. \A i, j \in 1..4 : name[i] = name[j] => i = j
  OBVIOUS
<1>. DEFINE lit == {c \in (1..4) \X (1..4) : isActiveCell(name[c[1]], name[c[2]])}
<1>. HIDE DEF name, M, n
<1>7. lit = {<<a, b>>, <<b, a>>}
  BY <1>2, <1>5, <1>6 DEF isActiveCell, n
<1>8. Cardinality(lit) = 2
  <2>1. <<a, b>> # <<b, a>>
    BY <1>5
  <2>. QED
    BY <1>7, <2>1, TwoCounted, Zenon
<1>9. \A c \in lit : M[c[1]][c[2]] = 1
  BY <1>5, <1>7
<1>. QED
  BY <1>2, <1>8, <1>9 DEF MatrixRight

-----------------------------------------------------------------------------
(* The pigeonhole page.                                                    *)
Meeting(E, v) == {e \in E : v \in e}
Star(v) == {{v, x} : x \in Ring6 \ {v}}

LEMMA StarCounted ==
    ASSUME NEW v \in Ring6 PROVE IsFiniteSet(Star(v)) /\ Cardinality(Star(v)) = 5
<1>. DEFINE X == Ring6 \ {v}
            k == [x \in X |-> {v, x}]
<1>1. IsFiniteSet(Ring6) /\ Cardinality(Ring6) = 6
  BY CountIndices DEF Ring6
<1>2. IsFiniteSet(X) /\ Cardinality(X) = 5
  BY <1>1, FS_RemoveElement
<1>3. \A x, y \in X : k[x] = k[y] => x = y
  OBVIOUS
<1>4. Star(v) = {k[x] : x \in X}
  BY DEF Star
<1>. HIDE DEF k, X
<1>. QED
  BY <1>2, <1>3, <1>4, AsManyImages

LEMMA RingDegrees ==
    ASSUME NEW E, \A e \in E : RingEdge(e), NEW v \in Ring6
    PROVE  /\ Degree(E, v) \in 0..5
           /\ Degree(E, v) = 0 => Meeting(E, v) = {}
           /\ Degree(E, v) = 5 => Meeting(E, v) = Star(v)
<1>1. Meeting(E, v) \subseteq Star(v)
  BY DEF Meeting, Star, RingEdge
<1>2. Degree(E, v) = Cardinality(Meeting(E, v))
  BY DEF Degree, Meeting
<1>3. /\ IsFiniteSet(Meeting(E, v)) /\ Cardinality(Meeting(E, v)) <= 5
      /\ Cardinality(Meeting(E, v)) = 5 => Meeting(E, v) = Star(v)
  BY <1>1, StarCounted, FS_Subset
<1>. QED
  BY <1>2, <1>3, FS_CardinalityType, FS_EmptySet

(* In a graph on six vertices two have the same degree.                    *)
LEMMA TwoShare ==
    ASSUME NEW E, \A e \in E : RingEdge(e)
    PROVE  \E v, w \in Ring6 : v # w /\ Degree(E, v) = Degree(E, w)
<1>. DEFINE d == [v \in Ring6 |-> Degree(E, v)]
<1>1. d \in [Ring6 -> 0..5]
  BY RingDegrees
<1>2. IsFiniteSet(Ring6) /\ Cardinality(Ring6) = 6
  BY CountIndices DEF Ring6
<1>3. IsFiniteSet(1..5) /\ Cardinality(1..5) = 5
  BY CountIndices
<1>4. \A v \in Ring6 : d[v] = Degree(E, v)
  OBVIOUS
<1>. HIDE DEF d
<1>5. CASE \A v \in Ring6 : d[v] # 0
  <2>1. d \in [Ring6 -> 1..5]
    BY <1>1, <1>5
  <2>. QED
    BY <1>2, <1>3, <1>4, <2>1, FS_PigeonHole
<1>6. CASE \A v \in Ring6 : d[v] # 5
  <2>. DEFINE f == [v \in Ring6 |-> d[v] + 1]
  <2>1. f \in [Ring6 -> 1..5]
    BY <1>1, <1>6
  <2>2. \A v, w \in Ring6 : f[v] = f[w] => d[v] = d[w]
    BY <1>1
  <2>. HIDE DEF f
  <2>. QED
    BY <1>2, <1>3, <1>4, <2>1, <2>2, FS_PigeonHole
<1>7. ASSUME NEW v \in Ring6, NEW w \in Ring6, d[v] = 0, d[w] = 5 PROVE FALSE
  <2>1. v # w
    BY <1>7
  <2>2. Meeting(E, v) = {} /\ Meeting(E, w) = Star(w)
    BY <1>4, <1>7, RingDegrees
  <2>3. {w, v} \in Star(w)
    BY <2>1 DEF Star
  <2>. QED
    BY <2>2, <2>3 DEF Meeting
<1>. QED
  BY <1>5, <1>6, <1>7

LEMMA MinIs == ASSUME NEW T \in SUBSET Nat, T # {} PROVE Min(T) \in T
BY Least DEF Min

CoinsTrue ==
    /\ Cardinality(duplicateNodeIds) = 2
    /\ \A v, w \in duplicateNodeIds : Degree(lab.edges, v) = Degree(lab.edges, w)

LEMMA PigeonholeRight == LabInv /\ open = "pigeonhole" => CoinsTrue
<1>. SUFFICES ASSUME LabInv, open = "pigeonhole" PROVE CoinsTrue
  OBVIOUS
<1>. DEFINE E == lab.edges
            shared == {d \in 0..5 : Cardinality(WithDegree(d)) >= 2}
            S == WithDegree(Min(shared))
<1>1. \A e \in E : RingEdge(e)
  BY DEF LabInv, LabShape
<1>2. PICK v \in Ring6, w \in Ring6 : v # w /\ Degree(E, v) = Degree(E, w)
  BY <1>1, TwoShare
<1>3. \A d : IsFiniteSet(WithDegree(d)) /\ WithDegree(d) \subseteq Ring6
  <2>1. IsFiniteSet(Ring6)
    BY CountIndices DEF Ring6
  <2>. QED
    BY <2>1, FS_Subset DEF WithDegree
<1>4. Degree(E, v) \in shared
  <2>. DEFINE d == Degree(E, v)
  <2>1. d \in 0..5
    BY <1>1, RingDegrees
  <2>2. {v, w} \subseteq WithDegree(d)
    BY <1>2 DEF WithDegree
  <2>3. Cardinality({v, w}) = 2
    BY <1>2, TwoCounted
  <2>. HIDE DEF d
  <2>4. Cardinality(WithDegree(d)) >= 2
    BY <1>3, <2>2, <2>3, FS_Subset, FS_CardinalityType
  <2>. QED
    BY <2>1, <2>4 DEF d
<1>5. Min(shared) \in shared
  BY <1>4, MinIs
<1>6. IsFiniteSet(S) /\ Cardinality(S) >= 2 /\ S \subseteq Nat
  BY <1>3, <1>5 DEF Ring6
<1>7. \A x \in S : Degree(E, x) = Min(shared)
  BY DEF WithDegree
<1>8. duplicateNodeIds = {Min(S), Min(S \ {Min(S)})}
  BY <1>4 DEF duplicateNodeIds
<1>. HIDE DEF S, shared
<1>9. S # {} /\ Min(S) \in S
  BY <1>6, MinIs, FS_EmptySet
<1>10. S \ {Min(S)} # {}
  <2>1. Cardinality(S \ {Min(S)}) = Cardinality(S) - 1
    BY <1>6, <1>9, FS_RemoveElement
  <2>2. Cardinality(S) \in Nat
    BY <1>6, FS_CardinalityType
  <2>. QED
    BY <1>6, <2>1, <2>2, FS_EmptySet
<1>11. Min(S \ {Min(S)}) \in S \ {Min(S)}
  BY <1>6, <1>10, MinIs
<1>12. Cardinality(duplicateNodeIds) = 2
  BY <1>8, <1>11, TwoCounted
<1>13. duplicateNodeIds \subseteq S
  BY <1>8, <1>9, <1>11
<1>. QED
  BY <1>7, <1>12, <1>13 DEF CoinsTrue, E

-----------------------------------------------------------------------------
(* ColorLab.                                                               *)
Wheel == Rim \cup {Hub}

LEMMA WheelShape ==
    /\ \A e \in WheelEdges : \E v, w \in Wheel : v # w /\ e = {v, w}
    /\ \A v \in Wheel : \E w \in Wheel : {v, w} \in WheelEdges
    /\ {1, 2} \in WheelEdges /\ {1, 7} \in WheelEdges /\ {2, 7} \in WheelEdges
    /\ 1 \in Wheel /\ 2 \in Wheel /\ 7 \in Wheel
<1>1. \A v \in 1..6 : 1 + (v % 6) \in 1..6 /\ 1 + (v % 6) # v
  OBVIOUS
<1>2. 1 + (1 % 6) = 2
  OBVIOUS
<1>. USE DEF Wheel, Rim, Hub
<1>3. \A v \in 1..6 : {v, 7} \in WheelEdges /\ {v, 1 + (v % 6)} \in WheelEdges
  BY DEF WheelEdges, edgeKey
<1>4. {1, 2} \in WheelEdges /\ {1, 7} \in WheelEdges /\ {2, 7} \in WheelEdges
  BY <1>2, <1>3
<1>5. ASSUME NEW e \in WheelEdges PROVE \E v, w \in Wheel : v # w /\ e = {v, w}
  <2>1. CASE \E v \in 1..6 : e = {v, 1 + (v % 6)}
    BY <1>1, <2>1
  <2>2. CASE \E v \in 1..6 : e = {v, 7}
    BY <2>2
  <2>. QED
    BY <2>1, <2>2 DEF WheelEdges, edgeKey
<1>6. ASSUME NEW v \in Wheel PROVE \E w \in Wheel : {v, w} \in WheelEdges
  <2>1. CASE v \in 1..6
    BY <1>3, <2>1
  <2>2. CASE v = 7
    <3>1. {v, 1} = {1, 7}
      BY <2>2
    <3>. QED
      BY <1>4, <3>1
  <2>. QED
    BY <2>1, <2>2
<1>. QED
  BY <1>4, <1>5, <1>6

(* The rim and the hub need three colours, and three will do.              *)
LEMMA ThreeColours == Chromatic = 3
<1>. DEFINE Right(f) == \A v, w \in Wheel : {v, w} \in WheelEdges => f[v] # f[w]
            T == {k \in 1..4 : \E f \in [Wheel -> 1..k] : Right(f)}
<1>1. 3 \in T
  <2>. DEFINE f == [v \in Wheel |-> IF v = 7 THEN 3 ELSE 1 + (v % 2)]
  <2>1. \A v \in Wheel : f[v] \in 1..3
    BY DEF Wheel, Rim, Hub
  <2>2. ASSUME NEW v \in Wheel, NEW w \in Wheel, {v, w} \in WheelEdges PROVE f[v] # f[w]
    <3>1. CASE \E x \in 1..6 : {v, w} = {x, 1 + (x % 6)}
      <4>1. PICK x \in 1..6 : {v, w} = {x, 1 + (x % 6)}
        BY <3>1
      <4>2. /\ x \in Wheel /\ 1 + (x % 6) \in Wheel /\ x # 1 + (x % 6)
            /\ f[x] # f[1 + (x % 6)]
        BY DEF Wheel, Rim, Hub
      <4>3. \/ v = x /\ w = 1 + (x % 6)
            \/ w = x /\ v = 1 + (x % 6)
        BY <4>1, <4>2
      <4>. QED
        BY <4>2, <4>3
    <3>2. CASE \E x \in 1..6 : {v, w} = {x, 7}
      <4>1. PICK x \in 1..6 : {v, w} = {x, 7}
        BY <3>2
      <4>2. (v = 7 /\ w # 7) \/ (w = 7 /\ v # 7)
        BY <4>1
      <4>3. \A y \in Wheel : y # 7 => f[y] # 3
        BY DEF Wheel, Rim, Hub
      <4>4. f[7] = 3
        BY WheelShape
      <4>. HIDE DEF f
      <4>. QED
        BY <4>2, <4>3, <4>4
    <3>. QED
      BY <2>2, <3>1, <3>2 DEF WheelEdges, edgeKey, Rim, Hub
  <2>3. f \in [Wheel -> 1..3]
    BY <2>1
  <2>. HIDE DEF f
  <2>4. Right(f)
    BY <2>2
  <2>. HIDE DEF Right
  <2>. QED
    BY <2>3, <2>4
<1>2. ASSUME NEW k \in T PROVE k >= 3
  <2>1. PICK f \in [Wheel -> 1..k] : Right(f)
    OBVIOUS
  <2>2. f[1] # f[2] /\ f[1] # f[7] /\ f[2] # f[7]
    BY <2>1, WheelShape
  <2>3. f[1] \in 1..k /\ f[2] \in 1..k /\ f[7] \in 1..k
    BY WheelShape
  <2>. QED
    BY <2>2, <2>3
<1>3. T \subseteq Nat /\ Chromatic = Min(T)
  BY DEF Chromatic, Wheel
<1>. HIDE DEF T
<1>4. Min(T) \in T /\ \A y \in T : Min(T) <= y
  <2>1. \E x \in T : \A y \in T : x <= y
    BY <1>1, <1>2, <1>3
  <2>. QED
    BY <2>1 DEF Min
<1>5. Min(T) <= 3 /\ Min(T) >= 3 /\ Min(T) \in Nat
  BY <1>1, <1>2, <1>3, <1>4
<1>6. Min(T) = 3
  BY <1>5
<1>. QED
  BY <1>3, <1>6, Zenon

ColouringTrue ==
    /\ proper <=> \A e \in WheelEdges : /\ \A v \in e : lab.col[v] # 0
                                        /\ \A v, w \in e : v # w => lab.col[v] # lab.col[w]
    /\ proper /\ Cardinality(used) <= 3 => Cardinality(used) = Chromatic

LEMMA ColorLabRight == LabInv /\ open = "color" => ColouringTrue
<1>. SUFFICES ASSUME LabInv, open = "color" PROVE ColouringTrue
  OBVIOUS
<1>. DEFINE c == lab.col
<1>1. c \in [Wheel -> Colors]
  BY DEF LabInv, LabShape, Wheel
<1>2. proper <=> /\ \A v \in Wheel : c[v] # 0
                 /\ \A v, w \in Wheel : {v, w} \in WheelEdges => c[v] # c[w]
  BY <1>1 DEF proper, allColored, conflict, Range, Wheel
<1>3. used \subseteq Colors /\ \A v \in Wheel : c[v] # 0 => c[v] \in used
  BY <1>1 DEF used, Range
<1>. HIDE DEF c
<1>4. proper <=> \A e \in WheelEdges : /\ \A v \in e : c[v] # 0
                                       /\ \A v, w \in e : v # w => c[v] # c[w]
  <2>1. ASSUME proper, NEW e \in WheelEdges
        PROVE  /\ \A v \in e : c[v] # 0
               /\ \A v, w \in e : v # w => c[v] # c[w]
    <3>1. PICK x, y \in Wheel : x # y /\ e = {x, y}
      BY WheelShape
    <3>2. c[x] # 0 /\ c[y] # 0 /\ c[x] # c[y]
      BY <1>2, <2>1, <3>1
    <3>. QED
      BY <3>1, <3>2
  <2>2. ASSUME \A e \in WheelEdges : /\ \A v \in e : c[v] # 0
                                     /\ \A v, w \in e : v # w => c[v] # c[w]
        PROVE  proper
    <3>1. ASSUME NEW v \in Wheel PROVE c[v] # 0
      <4>1. PICK w \in Wheel : {v, w} \in WheelEdges
        BY WheelShape
      <4>. QED
        BY <2>2, <4>1
    <3>2. ASSUME NEW v \in Wheel, NEW w \in Wheel, {v, w} \in WheelEdges PROVE c[v] # c[w]
      <4>1. v # w
        BY <3>2, WheelShape
      <4>. QED
        BY <2>2, <3>2, <4>1
    <3>. QED
      BY <1>2, <3>1, <3>2
  <2>. QED
    BY <2>1, <2>2
<1>5. ASSUME proper, Cardinality(used) <= 3 PROVE Cardinality(used) = 3
  <2>1. /\ c[1] \in used /\ c[2] \in used /\ c[7] \in used
        /\ c[1] # c[2] /\ c[1] # c[7] /\ c[2] # c[7]
    BY <1>2, <1>3, <1>5, WheelShape
  <2>2. Cardinality({c[1], c[2], c[7]}) = 3
    BY <2>1, ThreeCounted
  <2>3. IsFiniteSet(Colors)
    <3>1. IsFiniteSet(1..4)
      BY CountIndices
    <3>2. IsFiniteSet((1..4) \cup {0})
      BY <3>1, FS_AddElement
    <3>3. Colors = (1..4) \cup {0}
      BY DEF Colors
    <3>. QED
      BY <3>2, <3>3
  <2>4. IsFiniteSet(used) /\ {c[1], c[2], c[7]} \subseteq used
    BY <1>3, <2>1, <2>3, FS_Subset
  <2>. QED
    BY <1>5, <2>2, <2>4, FS_Subset, FS_CardinalityType
<1>. QED
  BY <1>4, <1>5, ThreeColours DEF ColouringTrue, c

-----------------------------------------------------------------------------
(* What the laboratories say of the graph on the screen is true of it      *)
(* (Labs.tsx, GT01Pages.tsx): in every reachable state, for every graph    *)
(* drawn and every colouring, however often the walk is started and        *)
(* whenever a page is left and opened again.                               *)
THEOREM LabsRight == LabSpec => []LabsTellTruth
<1>1. LabInv => LabsTellTruth
  <2>. SUFFICES ASSUME LabInv PROVE LabsTellTruth
    OBVIOUS
  <2>1. open = "degree" => DegreesTrue
    BY DegreeLabRight
  <2>2. open = "color" => ColouringTrue
    BY ColorLabRight
  <2>3. open = "euler" => WalkTrue
    BY EulerLabRight
  <2>4. open = "matrix" => MatrixRight
    BY MatrixPageRight
  <2>5. open = "handshaking" => HandTrue
    BY SliderRight
  <2>6. open = "pigeonhole" => CoinsTrue
    BY PigeonholeRight
  <2>. QED
    BY <2>1, <2>2, <2>3, <2>4, <2>5, <2>6, Zenon
    DEF LabsTellTruth, DegreesTrue, ColouringTrue, WalkTrue, MatrixRight, HandTrue, CoinsTrue
<1>. QED
  BY <1>1, LabInvariant, PTL

-----------------------------------------------------------------------------
(* What each engine accepts is what the prompt asks for, whatever stands   *)
(* on the desk.                                                            *)
LEMMA SolvedIs ==
    /\ IsOf(EdgeTasks) => Solved = DrawnSolves(task, work)
    /\ IsOf({"matrix-fill"}) => Solved = (MatrixTrue /\ (task.id = "T2" => ReverseTrue))
    /\ IsOf(Clicks) => Solved = NodesTrue
    /\ IsOf({"edge-click"}) => Solved = EdgeTrue
    /\ IsOf({"compute"}) => Solved = (work = TrueValues[task.id])
    /\ IsOf({"impossibility"}) => Solved = (work = TrueDecisions[task.id])
    /\ IsOf({"order-steps"}) => Solved = (work = [i \in 1..task.steps |-> i])
    /\ IsOf({"path-trace"}) =>
          Solved = (IsWalk(work) /\ Last(work) = task.end /\ Len(work) - 1 = LeastLength)
    /\ IsOf({"hamilton-trace"}) => Solved = CycleTrue
    /\ IsOf({"euler-trace"}) => Solved = TrailTrue
    /\ IsOf({"page-directed"}) =>
          Solved = \A v \in NodesOf(task.graph) : work[v] = [out |-> OutOf(task.graph, v),
                                                             in |-> Into(task.graph, v)]
BY DEF Solved, DrawnRight, IsOf, EdgeTasks, Clicks

LEMMA KeyFacts ==
    ASSUME card \in DOMAIN AllTasks
    PROVE  /\ "solution" \in DOMAIN task =>
                IsOf(EdgeTasks) /\ DrawnSolves(task, EdgeSet(task.solution))
           /\ IsOf(EdgeTasks) => task.nodes \in Seq(Range(task.nodes))
           /\ IsOf({"graph-build"}) =>
                 \/ task.id = "cubic6" /\ task.goal = RegularGoal(3)
                 \/ /\ task.id = "4.18" /\ task.goal.kind = "degreeSequence"
                    /\ \A E \in SUBSET completeEdges(task.nodes) :
                           sameMultiset([i \in DOMAIN task.nodes |-> Degree(E, task.nodes[i])],
                                        task.goal.sequence) <=> DrawnSolves(task, E)
           /\ IsOf({"page-sequence"}) =>
                 /\ task.id = "T1"
                 /\ task.degreeSequence \in Seq(Nat) /\ Len(task.degreeSequence) = Len(task.nodes)
           /\ IsOf({"page-regular"}) => task.id = "T4" /\ task.k = 3
           /\ IsOf({"page-repair"}) =>
                 task.id = "T3" /\ task.claimedEdgeCount = 4 /\ task.targetDegreeSum = 8
BY KeysRight DEF task, IsOf

LEMMA MoreKeyFacts ==
    ASSUME card \in DOMAIN AllTasks
    PROVE  /\ IsOf({"matrix-fill"}) =>
                 \A i, j \in 1..Len(task.expectedMatrix) :
                    task.expectedMatrix[i][j] = 1
                       <=> Joined(task.graph, task.graph.nodes[i], task.graph.nodes[j])
           /\ IsOf({"node-click"}) =>
                 /\ task.id = "cutvertex" /\ task.check = "cut-vertex" /\ task.requiredCount = 1
                 /\ \A v \in NodesOf(task.graph) :
                       isCutVertex(task.graph, v) <=> ~Linked(task.graph, NodesOf(task.graph) \ {v})
           /\ IsOf({"page-equal"}) =>
                 /\ task.id = "T5" /\ task.check = "equal-degree"
                 /\ computeDegrees(task.graph) = task.expectedDegrees
           /\ IsOf({"edge-click"}) =>
                 /\ DOMAIN task.graph.edges = 1..Len(task.graph.edges)
                 /\ \A i \in DOMAIN task.graph.edges :
                       isBridge(task.graph, i) <=> CutsInTwo(task.graph, i)
           /\ IsOf({"compute"}) =>
                 /\ task.parts = [i \in 1..Len(task.parts) |-> task.parts[i]]
                 /\ task.id = "rdc" \/ task.parts = TrueValues[task.id]
           /\ IsOf({"impossibility"}) =>
                 task.parts = TrueDecisions[task.id] /\ "none" \notin Range(task.parts)
           /\ IsOf({"order-steps"}) => task.steps \in Nat
           /\ IsOf({"path-trace"}) =>
                 /\ task.requireShortest
                 /\ task.graph.nodes \in Seq(NodesOf(task.graph)) /\ IsInjective(task.graph.nodes)
                 /\ distance(task.graph, task.start, task.end) = Shortest(task.graph, task.start, task.end)
           /\ IsOf({"euler-trace"}) =>
                 task.requireCycle /\ task.graph.edges \in Seq(Range(task.graph.edges))
           /\ IsOf({"page-directed"}) =>
                 \A v \in NodesOf(task.graph) :
                    /\ task.expectedOutDegrees[v] = OutOf(task.graph, v)
                    /\ task.expectedInDegrees[v] = Into(task.graph, v)
BY KeysRight DEF task, IsOf

LEMMA SeqFinite ==
    ASSUME NEW s, s \in Seq(Range(s)) PROVE IsFiniteSet(Range(s)) /\ Cardinality(Range(s)) <= Len(s)
<1>. DEFINE D == DOMAIN s
<1>1. Len(s) \in Nat /\ D = 1..Len(s)
  OBVIOUS
<1>2. IsFiniteSet(D) /\ Cardinality(D) = Len(s)
  BY <1>1, CountIndices
<1>3. s \in Surjection(D, Range(s))
  BY DEF Range, Surjection
<1>. HIDE DEF D
<1>. QED
  BY <1>2, <1>3, FS_Surjection

LEMMA PairsJoin ==
    ASSUME NEW V, IsFiniteSet(V), NEW e \in kSubset(2, V)
    PROVE  \E a, b \in V : a # b /\ e = {a, b}
<1>1. e \in SUBSET V /\ Cardinality(e) = 2 /\ IsFiniteSet(e)
  BY FS_Subset DEF kSubset
<1>2. PICK a \in e : TRUE
  BY <1>1, FS_EmptySet
<1>3. IsFiniteSet(e \ {a}) /\ Cardinality(e \ {a}) = 1
  BY <1>1, FS_RemoveElement
<1>4. PICK b \in e \ {a} : TRUE
  BY <1>3, FS_EmptySet
<1>. DEFINE f == e \ {a}
<1>5. f \ {b} = {}
  <2>1. IsFiniteSet(f) /\ Cardinality(f) = 1 /\ b \in f
    BY <1>3, <1>4
  <2>. HIDE DEF f
  <2>2. IsFiniteSet(f \ {b}) /\ Cardinality(f \ {b}) = 0
    BY <2>1, FS_RemoveElement
  <2>. QED
    BY <2>2, FS_EmptySet
<1>. QED
  BY <1>1, <1>2, <1>4, <1>5

LEMMA EdgesVerdict ==
    ASSUME DeskInv, IsOf(EdgeTasks) PROVE EdgesRight <=> Solved
<1>. DEFINE nodes == task.nodes
<1>1. Solved = DrawnSolves(task, work)
  BY SolvedIs
<1>2. work \in SUBSET completeEdges(nodes) /\ nodes \in Seq(Range(nodes)) /\ card \in DOMAIN AllTasks
  BY KeyFacts DEF DeskInv, EdgesOK
<1>3. ASSUME NEW k PROVE (\A i \in DOMAIN nodes : Degree(work, nodes[i]) = k)
                            <=> (\A v \in Range(nodes) : Degree(work, v) = k)
  BY DEF Range
<1>4. CASE IsOf({"graph-build"})
  <2>1. EdgesRight <=> goalMet
    BY <1>4 DEF EdgesRight, IsOf
  <2>2. CASE task.id = "cubic6" /\ task.goal = RegularGoal(3)
    <3>1. task.goal.kind = "regular" /\ task.goal.k = 3
      BY <2>2 DEF RegularGoal
    <3>2. goalMet <=> \A i \in DOMAIN nodes : Degree(work, nodes[i]) = 3
      BY <3>1 DEF goalMet, DegreeIn
    <3>3. DrawnSolves(task, work) = \A v \in Range(nodes) : Degree(work, v) = 3
      BY <2>2 DEF DrawnSolves
    <3>. QED
      BY <1>1, <1>3, <2>1, <3>2, <3>3
  <2>3. CASE /\ task.id = "4.18" /\ task.goal.kind = "degreeSequence"
             /\ \A E \in SUBSET completeEdges(nodes) :
                   sameMultiset([i \in DOMAIN nodes |-> Degree(E, nodes[i])],
                                task.goal.sequence) <=> DrawnSolves(task, E)
    <3>1. goalMet <=> sameMultiset([i \in DOMAIN nodes |-> Degree(work, nodes[i])], task.goal.sequence)
      BY <2>3 DEF goalMet, DegreeIn
    <3>. QED
      BY <1>1, <1>2, <2>1, <2>3, <3>1
  <2>. QED
    BY <1>2, <1>4, <2>2, <2>3, KeyFacts
<1>5. CASE IsOf({"page-sequence"})
  <2>1. /\ task.id = "T1"
        /\ task.degreeSequence \in Seq(Nat) /\ Len(task.degreeSequence) = Len(nodes)
    BY <1>2, <1>5, KeyFacts
  <2>2. EdgesRight <=> \A i \in DOMAIN nodes : Degree(work, nodes[i]) = task.degreeSequence[i]
    BY <1>5 DEF EdgesRight, IsOf, SequenceRight, DegreeIn
  <2>3. DrawnSolves(task, work)
          = ([i \in DOMAIN nodes |-> Degree(work, nodes[i])] = task.degreeSequence)
    BY <2>1 DEF DrawnSolves
  <2>4. DOMAIN task.degreeSequence = DOMAIN nodes
    BY <1>2, <2>1
  <2>5. task.degreeSequence = [i \in DOMAIN nodes |-> task.degreeSequence[i]]
    BY <2>1, <2>4
  <2>. QED
    BY <1>1, <2>2, <2>3, <2>5
<1>6. CASE IsOf({"page-regular"})
  <2>1. task.id = "T4" /\ task.k = 3
    BY <1>2, <1>6, KeyFacts
  <2>2. EdgesRight <=> \A i \in DOMAIN nodes : Degree(work, nodes[i]) = 3
    BY <1>6, <2>1 DEF EdgesRight, IsOf, RegularRight, DegreeIn
  <2>3. DrawnSolves(task, work) = \A v \in Range(nodes) : Degree(work, v) = 3
    BY <2>1 DEF DrawnSolves
  <2>. QED
    BY <1>1, <1>3, <2>2, <2>3
<1>7. CASE IsOf({"page-repair"})
  <2>. DEFINE V == Range(nodes)
  <2>1. task.id = "T3" /\ task.claimedEdgeCount = 4 /\ task.targetDegreeSum = 8
    BY <1>2, <1>7, KeyFacts
  <2>2. EdgesRight <=> Cardinality(work) = 4 /\ SumDegrees(work, V) = 8
    BY <1>7, <2>1 DEF EdgesRight, IsOf, RepairRight
  <2>3. DrawnSolves(task, work) = (Cardinality(work) = 4)
    BY <2>1 DEF DrawnSolves
  <2>4. IsFiniteSet(V)
    BY <1>2, SeqFinite
  <2>5. \A e \in work : \E a, b \in V : a # b /\ e = {a, b}
    BY <1>2, <2>4, PairsJoin DEF completeEdges
  <2>6. IsFiniteSet(work)
    <3>1. work \subseteq SUBSET V
      BY <2>5
    <3>. HIDE DEF V
    <3>. QED
      BY <2>4, <3>1, FS_SUBSET, FS_Subset
  <2>. HIDE DEF V
  <2>7. SumDegrees(work, V) = 2 * Cardinality(work)
    BY <2>4, <2>5, <2>6, DegreeSum
  <2>8. Cardinality(work) \in Nat
    BY <2>6, FS_CardinalityType
  <2>9. EdgesRight <=> Cardinality(work) = 4
    BY <2>2, <2>7, <2>8
  <2>. QED
    BY <1>1, <2>3, <2>9
<1>. QED
  BY <1>4, <1>5, <1>6, <1>7 DEF IsOf, EdgeTasks

LEMMA MatrixVerdict ==
    ASSUME DeskInv, IsOf({"matrix-fill"})
    PROVE  /\ (work = Ones) = MatrixTrue
           /\ task.id # "T2" => (work = Ones <=> Solved)
<1>1. task.id # "T2" => Solved = MatrixTrue
  BY SolvedIs DEF MatrixTrue
<1>2. Ones = {c \in Cells : Joined(task.graph, task.graph.nodes[c[1]], task.graph.nodes[c[2]])}
  BY MoreKeyFacts DEF DeskInv, Ones, Cells
<1>. QED
  BY <1>1, <1>2 DEF MatrixTrue

LEMMA NodesVerdict ==
    ASSUME DeskInv, IsOf(Clicks) PROVE NodesRight <=> Solved
<1>1. Solved = NodesTrue
  BY SolvedIs
<1>2. /\ work \in Seq(NodesOf(task.graph)) /\ IsInjective(work) /\ card \in DOMAIN AllTasks
      /\ Cardinality(Range(work)) = Len(work) /\ Len(work) \in Nat
  BY DistinctCounted DEF DeskInv, PicksOK
<1>3. CASE IsOf({"node-click"})
  <2>1. /\ task.id = "cutvertex" /\ task.check = "cut-vertex" /\ task.requiredCount = 1
        /\ \A v \in NodesOf(task.graph) :
              isCutVertex(task.graph, v) <=> ~Linked(task.graph, NodesOf(task.graph) \ {v})
    BY <1>2, <1>3, MoreKeyFacts
  <2>2. NodesRight <=> Len(work) = 1 /\ \A v \in Range(work) : isCutVertex(task.graph, v)
    BY <2>1 DEF NodesRight
  <2>3. NodesTrue = (Len(work) = 1 /\ ~Linked(task.graph, NodesOf(task.graph) \ Range(work)))
    BY <2>1 DEF NodesTrue
  <2>4. Len(work) = 1 => Range(work) = {work[1]} /\ work[1] \in NodesOf(task.graph)
    <3>. DEFINE V == NodesOf(task.graph)
    <3>1. work \in Seq(V)
      BY <1>2
    <3>. HIDE DEF V
    <3>2. ASSUME Len(work) = 1 PROVE DOMAIN work = {1} /\ work[1] \in V
      BY <3>1, <3>2
    <3>. QED
      BY <3>2 DEF Range, V
  <2>5. CASE Len(work) = 1
    <3>1. (\A v \in Range(work) : isCutVertex(task.graph, v)) <=> isCutVertex(task.graph, work[1])
      BY <2>4, <2>5
    <3>2. isCutVertex(task.graph, work[1])
             <=> ~Linked(task.graph, NodesOf(task.graph) \ Range(work))
      BY <2>1, <2>4, <2>5
    <3>. QED
      BY <1>1, <2>2, <2>3, <2>5, <3>1, <3>2
  <2>6. CASE Len(work) # 1
    BY <1>1, <2>2, <2>3, <2>6
  <2>. QED
    BY <2>5, <2>6
<1>4. CASE IsOf({"page-equal"})
  <2>1. /\ task.id = "T5" /\ task.check = "equal-degree" /\ task.requiredCount = 2
        /\ computeDegrees(task.graph) = task.expectedDegrees
    BY <1>2, <1>4, MoreKeyFacts, Sound
  <2>2. NodesRight <=> Len(work) = 2 /\ task.expectedDegrees[work[1]] = task.expectedDegrees[work[2]]
    BY <2>1 DEF NodesRight
  <2>3. NodesTrue = (/\ Cardinality(Range(work)) = 2
                     /\ task.expectedDegrees[work[1]] = task.expectedDegrees[work[2]])
    BY <2>1 DEF NodesTrue
  <2>. QED
    BY <1>1, <1>2, <2>2, <2>3
<1>. QED
  BY <1>3, <1>4 DEF IsOf, Clicks

LEMMA EdgeVerdict ==
    ASSUME card \in DOMAIN AllTasks, IsOf({"edge-click"}), work \in {0} \cup DOMAIN task.graph.edges
    PROVE  (work # 0 /\ isBridge(task.graph, work)) <=> Solved
<1>1. Solved = CutsInTwo(task.graph, work)
  BY SolvedIs DEF EdgeTrue
<1>2. /\ DOMAIN task.graph.edges = 1..Len(task.graph.edges)
      /\ \A i \in DOMAIN task.graph.edges : isBridge(task.graph, i) <=> CutsInTwo(task.graph, i)
  BY MoreKeyFacts
<1>3. 0 \notin DOMAIN task.graph.edges
  BY <1>2
<1>4. CASE work = 0
  <2>1. ~CutsInTwo(task.graph, work)
    BY <1>3, <1>4 DEF CutsInTwo
  <2>. QED
    BY <1>1, <1>4, <2>1
<1>5. CASE work \in DOMAIN task.graph.edges
  BY <1>1, <1>2, <1>3, <1>5
<1>. QED
  BY <1>4, <1>5

LEMMA AnswersVerdict ==
    ASSUME card \in DOMAIN AllTasks, IsOf({"compute"}), task.id # "rdc",
           work = [i \in DOMAIN task.parts |-> work[i]]
    PROVE  (\A i \in DOMAIN task.parts : Accepted(i)) <=> Solved
<1>1. Solved = (work = task.parts)
  BY SolvedIs, MoreKeyFacts
<1>2. task.parts = [i \in 1..Len(task.parts) |-> task.parts[i]]
  BY MoreKeyFacts
<1>. DEFINE parts == task.parts
<1>. HIDE DEF parts
<1>3. parts = [i \in DOMAIN parts |-> parts[i]] /\ work = [i \in DOMAIN parts |-> work[i]]
  BY <1>2 DEF parts
<1>4. (\A i \in DOMAIN parts : work[i] = parts[i]) <=> work = parts
  BY <1>3
<1>. QED
  BY <1>1, <1>4 DEF Accepted, parts

LEMMA DecisionsVerdict ==
    ASSUME card \in DOMAIN AllTasks, IsOf({"impossibility"})
    PROVE  ("none" \notin Range(work) /\ work = task.parts) <=> Solved
BY SolvedIs, MoreKeyFacts

LEMMA StepsVerdict ==
    ASSUME DeskInv, IsOf({"order-steps"})
    PROVE  (/\ 0 \notin Range(work) /\ Len(work) = task.steps
            /\ \A i \in DOMAIN work : work[i] = i) <=> Solved
<1>. DEFINE n == task.steps
<1>1. Solved = (work = [i \in 1..n |-> i])
  BY SolvedIs
<1>2. work \in Seq(0..n) /\ n \in Nat
  BY MoreKeyFacts DEF DeskInv, StepsOK
<1>. HIDE DEF n
<1>3. Len(work) \in Nat /\ DOMAIN work = 1..Len(work) /\ work = [i \in 1..Len(work) |-> work[i]]
  BY <1>2
<1>4. ASSUME Len(work) = n, \A i \in DOMAIN work : work[i] = i PROVE work = [i \in 1..n |-> i]
  BY <1>3, <1>4
<1>5. ASSUME work = [i \in 1..n |-> i]
      PROVE  0 \notin Range(work) /\ Len(work) = n /\ \A i \in DOMAIN work : work[i] = i
  <2>1. DOMAIN work = 1..n /\ \A i \in 1..n : work[i] = i
    BY <1>5
  <2>2. Len(work) = n
    BY <1>2, <1>3, <2>1
  <2>. QED
    BY <1>2, <2>1, <2>2 DEF Range
<1>. QED
  BY <1>1, <1>4, <1>5 DEF n

LEMMA CycleVerdict ==
    ASSUME DeskInv, IsOf({"hamilton-trace"}) PROVE CycleRight <=> Solved
<1>1. Solved = CycleTrue
  BY SolvedIs
<1>2. IsWalk(work) /\ work[1] = task.start
  BY DEF DeskInv, CycleOK, Walks, IsWalk
<1>. QED
  BY <1>1, <1>2 DEF CycleTrue, CycleRight

LEMMA TrailVerdict ==
    ASSUME DeskInv, IsOf({"euler-trace"})
    PROVE  (/\ Len(work.trail) >= Len(task.graph.edges)
            /\ task.requireCycle => work.current = task.start) <=> Solved
<1>. DEFINE s == work.trail
            E == DOMAIN task.graph.edges
            m == Len(task.graph.edges)
<1>1. Solved = (Range(s) = E /\ Leading(task, s) = {task.start})
  BY SolvedIs DEF TrailTrue, Range
<1>2. s \in Seq(E) /\ IsInjective(s) /\ Leading(task, s) = {work.current}
  BY DEF DeskInv, TrailOK
<1>3. task.requireCycle /\ task.graph.edges \in Seq(Range(task.graph.edges))
  BY MoreKeyFacts DEF DeskInv
<1>4. m \in Nat /\ E = 1..m
  BY <1>3
<1>. HIDE DEF E, m, s
<1>5. IsFiniteSet(E) /\ Cardinality(E) = m
  BY <1>4, CountIndices
<1>6. IsFiniteSet(Range(s)) /\ Cardinality(Range(s)) = Len(s) /\ Len(s) \in Nat
  BY <1>2, DistinctCounted
<1>7. Range(s) \subseteq E
  BY <1>2 DEF Range
<1>8. Len(s) >= m <=> Range(s) = E
  <2>1. Len(s) <= m
    BY <1>5, <1>6, <1>7, FS_Subset
  <2>2. Len(s) = m => Range(s) = E
    BY <1>5, <1>6, <1>7, FS_Subset
  <2>. QED
    BY <1>4, <1>5, <1>6, <2>1, <2>2
<1>9. {work.current} = {task.start} <=> work.current = task.start
  OBVIOUS
<1>. QED
  BY <1>1, <1>2, <1>3, <1>8, <1>9 DEF s, m

LEMMA DegreesVerdict ==
    ASSUME card \in DOMAIN AllTasks, IsOf({"page-directed"}),
           work \in [NodesOf(task.graph) -> [out : 0..2, in : 0..2]]
    PROVE  (\A v \in NodesOf(task.graph) :
               /\ work[v].out = task.expectedOutDegrees[v]
               /\ work[v].in = task.expectedInDegrees[v]) <=> Solved
<1>. DEFINE g == task.graph
            V == NodesOf(g)
<1>1. Solved = \A v \in V : work[v] = [out |-> OutOf(g, v), in |-> Into(g, v)]
  BY SolvedIs
<1>2. \A v \in V : task.expectedOutDegrees[v] = OutOf(g, v) /\ task.expectedInDegrees[v] = Into(g, v)
  BY MoreKeyFacts
<1>. HIDE DEF V, g
<1>3. ASSUME NEW v \in V, NEW a, NEW b
      PROVE  work[v] = [out |-> a, in |-> b] <=> work[v].out = a /\ work[v].in = b
  <2>1. work[v] \in [out : 0..2, in : 0..2]
    BY DEF V, g
  <2>2. work[v] = [out |-> work[v].out, in |-> work[v].in]
    BY <2>1
  <2>. QED
    BY <2>2
<1>. QED
  BY <1>1, <1>2, <1>3 DEF V, g

(* A simple walk is one of the paths that are grown vertex by vertex, so   *)
(* that it is never shorter than the least of them.                        *)
PathsUpto(g, s, n, f) == f = [k \in 1..n |-> IF k = 1 THEN {<<s>>} ELSE Grow(g, f[k - 1])]

LEMMA PathsExist ==
    ASSUME NEW g, NEW s PROVE \A n \in Nat : \E f : PathsUpto(g, s, n, f)
<1>. DEFINE S == {n \in Nat : \E f : PathsUpto(g, s, n, f)}
<1>1. 0 \in S
  <2>1. PathsUpto(g, s, 0, [k \in 1..0 |-> {}])
    BY DEF PathsUpto
  <2>. QED
    BY <2>1
<1>2. ASSUME NEW n \in Nat, n \in S PROVE n + 1 \in S
  <2>1. PICK f : PathsUpto(g, s, n, f)
    BY <1>2
  <2>. DEFINE h == [k \in 1..(n + 1) |->
                      IF k = n + 1 THEN IF k = 1 THEN {<<s>>} ELSE Grow(g, f[n]) ELSE f[k]]
  <2>2. ASSUME NEW k \in 1..(n + 1)
        PROVE  h[k] = IF k = 1 THEN {<<s>>} ELSE Grow(g, h[k - 1])
    <3>1. CASE k = n + 1
      BY <3>1
    <3>2. CASE k \in 1..n
      <4>1. h[k] = f[k] /\ (k # 1 => h[k - 1] = f[k - 1])
        BY <3>2
      <4>2. f[k] = IF k = 1 THEN {<<s>>} ELSE Grow(g, f[k - 1])
        BY <2>1, <3>2 DEF PathsUpto
      <4>. QED
        BY <3>2, <4>1, <4>2
    <3>. QED
      BY <3>1, <3>2
  <2>3. PathsUpto(g, s, n + 1, h)
    BY <2>2 DEF PathsUpto
  <2>. QED
    BY <2>3
<1>. HIDE DEF S
<1>3. Nat \subseteq S
  BY <1>1, <1>2, SetInduction
<1>. QED
  BY <1>3 DEF S

LEMMA PathsFound ==
    ASSUME NEW g, NEW s, Len(g.nodes) \in Nat
    PROVE  \E f : PathsUpto(g, s, Len(g.nodes), f) /\ Paths(g, s) = UNION Range(f)
<1>. DEFINE f == CHOOSE f : PathsUpto(g, s, Len(g.nodes), f)
<1>1. PathsUpto(g, s, Len(g.nodes), f)
  BY PathsExist
<1>2. Paths(g, s) = UNION Range(f)
  BY DEF Paths, PathsUpto
<1>. QED
  BY <1>1, <1>2

LEMMA PathsFirst ==
    ASSUME NEW g, NEW s, NEW n \in Nat, NEW f, PathsUpto(g, s, n, f), n > 0
    PROVE  f[1] = {<<s>>}
<1>1. 1 \in 1..n
  OBVIOUS
<1>. QED
  BY <1>1 DEF PathsUpto

LEMMA PathsNext ==
    ASSUME NEW g, NEW s, NEW n \in Nat, NEW f, PathsUpto(g, s, n, f),
           NEW j \in 1..n, NEW k \in 1..n, k = j + 1
    PROVE  f[k] = Grow(g, f[j])
<1>1. k # 1 /\ k - 1 = j
  OBVIOUS
<1>2. f[k] = IF k = 1 THEN {<<s>>} ELSE Grow(g, f[k - 1])
  BY DEF PathsUpto
<1>. QED
  BY <1>1, <1>2

LEMMA GrownBy ==
    ASSUME NEW g, NEW S, NEW p \in Grow(g, S)
    PROVE  \E q \in S, v \in NodesOf(g) : p = Append(q, v)
<1>. DEFINE Steps == {x \in S \X NodesOf(g) : x[2] \notin Range(x[1]) /\ Joined(g, Last(x[1]), x[2])}
<1>1. Steps \subseteq S \X NodesOf(g) /\ p \in {Append(x[1], x[2]) : x \in Steps}
  BY DEF Grow
<1>. HIDE DEF Steps
<1>2. PICK x \in Steps : p = Append(x[1], x[2])
  BY <1>1
<1>3. x[1] \in S /\ x[2] \in NodesOf(g)
  BY <1>1
<1>. QED
  BY <1>2, <1>3

LEMMA PathsMeasured ==
    ASSUME NEW g, NEW s, NEW n \in Nat, NEW f, PathsUpto(g, s, n, f), s \in NodesOf(g)
    PROVE  \A k \in 1..n : \A p \in f[k] : p \in Seq(NodesOf(g)) /\ Len(p) = k
<1>. DEFINE V == NodesOf(g)
            Sized(k) == \A p \in f[k] : p \in Seq(V) /\ Len(p) = k
            S == {k \in Nat : k + 1 <= n => Sized(k + 1)}
<1>. HIDE DEF V
<1>1. n > 0 => Sized(1)
  <2>1. n > 0 => f[1] = {<<s>>}
    BY PathsFirst
  <2>2. <<s>> \in Seq(V) /\ Len(<<s>>) = 1
    BY DEF V
  <2>3. ASSUME n > 0, NEW p \in f[1] PROVE p = <<s>>
    BY <2>1, <2>3
  <2>. QED
    BY <2>2, <2>3
<1>2. ASSUME NEW j \in 1..n, NEW k \in 1..n, k = j + 1, Sized(j) PROVE Sized(k)
  <2>1. f[k] = Grow(g, f[j])
    BY <1>2, PathsNext
  <2>2. SUFFICES ASSUME NEW p \in f[k] PROVE p \in Seq(V) /\ Len(p) = k
    OBVIOUS
  <2>3. p \in Grow(g, f[j])
    BY <2>1
  <2>4. PICK q \in f[j], v \in V : p = Append(q, v)
    BY <2>3, GrownBy DEF V
  <2>5. q \in Seq(V) /\ Len(q) = j
    BY <1>2
  <2>. QED
    BY <1>2, <2>4, <2>5
<1>. HIDE DEF Sized
<1>3. 0 \in S
  BY <1>1
<1>4. ASSUME NEW k \in Nat, k \in S PROVE k + 1 \in S
  <2>1. SUFFICES ASSUME k + 2 <= n PROVE Sized(k + 2)
    OBVIOUS
  <2>. DEFINE a == k + 1
              b == k + 2
  <2>2. a \in 1..n /\ b \in 1..n /\ b = a + 1 /\ Sized(a)
    BY <1>4, <2>1
  <2>. HIDE DEF a, b
  <2>3. Sized(b)
    BY <1>2, <2>2
  <2>. QED
    BY <2>3 DEF b
<1>. HIDE DEF S
<1>5. Nat \subseteq S
  BY <1>3, <1>4, SetInduction
<1>6. ASSUME NEW k \in 1..n PROVE Sized(k)
  <2>1. k - 1 \in S /\ (k - 1) + 1 = k /\ k <= n
    BY <1>5
  <2>. QED
    BY <2>1 DEF S
<1>. QED
  BY <1>6 DEF V, Sized

LEMMA WalkIsGrown ==
    ASSUME NEW g, NEW n \in Nat, NEW f, NEW w \in Walks(g), IsInjective(w), Len(w) <= n,
           PathsUpto(g, w[1], n, f)
    PROVE  w \in f[Len(w)]
<1>. DEFINE V == NodesOf(g)
            Grown(k) == SubSeq(w, 1, k) \in f[k]
            S == {k \in Nat : k + 1 <= Len(w) => Grown(k + 1)}
<1>1. w \in Seq(V) /\ Len(w) \in Nat /\ Len(w) > 0
  BY DEF Walks
<1>2. \A k \in 1..(Len(w) - 1) : Joined(g, w[k], w[k + 1])
  BY DEF Walks
<1>. HIDE DEF V
<1>3. Grown(1)
  <2>1. f[1] = {<<w[1]>>}
    <3>. DEFINE s == w[1]
    <3>1. n > 0 /\ PathsUpto(g, s, n, f)
      BY <1>1
    <3>. HIDE DEF s
    <3>2. f[1] = {<<s>>}
      BY <3>1, PathsFirst
    <3>. QED
      BY <3>2 DEF s
  <2>2. SubSeq(w, 1, 1) = <<w[1]>>
    <3>. DEFINE q == SubSeq(w, 1, 1)
    <3>1. q \in Seq(V) /\ Len(q) = 1 /\ q[1] = w[1]
      BY <1>1
    <3>. HIDE DEF q
    <3>2. q = <<w[1]>>
      BY <3>1
    <3>. QED
      BY <3>2 DEF q
  <2>. QED
    BY <2>1, <2>2
<1>4. ASSUME NEW j \in 1..Len(w), NEW k \in 1..Len(w), k = j + 1, Grown(j) PROVE Grown(k)
  <2>. DEFINE p == SubSeq(w, 1, j)
              v == w[k]
  <2>1. j \in 1..n /\ k \in 1..n /\ j \in 1..(Len(w) - 1)
    BY <1>1, <1>4
  <2>2. f[k] = Grow(g, f[j])
    <3>. DEFINE s == w[1]
    <3>1. PathsUpto(g, s, n, f)
      OBVIOUS
    <3>. HIDE DEF s
    <3>2. k = j + 1
      BY <1>4
    <3>. QED
      BY <2>1, <3>1, <3>2, PathsNext
  <2>3. p \in Seq(V) /\ Len(p) = j /\ DOMAIN p = 1..j /\ \A i \in 1..j : p[i] = w[i]
    BY <1>1
  <2>4. v \in V /\ k \in DOMAIN w
    BY <1>1
  <2>5. SubSeq(w, 1, k) = Append(p, v)
    BY <1>1, <1>4
  <2>6. v \notin Range(p)
    <3>1. \A i \in 1..j : i \in DOMAIN w /\ i # k
      BY <1>1, <1>4
    <3>2. \A i \in 1..j : w[i] # v
      BY <2>4, <3>1 DEF IsInjective
    <3>. QED
      BY <2>3, <3>2 DEF Range
  <2>7. Joined(g, Last(p), v)
    <3>1. Last(p) = w[j]
      BY <2>3 DEF Last
    <3>. QED
      BY <1>2, <1>4, <2>1, <3>1
  <2>8. p \in f[j]
    BY <1>4
  <2>. HIDE DEF p, v
  <2>9. Append(p, v) \in Grow(g, f[j])
    <3>. DEFINE x == <<p, v>>
    <3>1. x \in f[j] \X V /\ x[1] = p /\ x[2] = v
      BY <2>4, <2>8
    <3>. HIDE DEF x
    <3>. QED
      BY <2>6, <2>7, <3>1 DEF Grow, V
  <2>. QED
    BY <2>2, <2>5, <2>9
<1>. HIDE DEF Grown
<1>5. 0 \in S
  BY <1>3
<1>6. ASSUME NEW k \in Nat, k \in S PROVE k + 1 \in S
  <2>1. SUFFICES ASSUME k + 2 <= Len(w) PROVE Grown(k + 2)
    OBVIOUS
  <2>. DEFINE a == k + 1
              b == k + 2
  <2>2. a \in 1..Len(w) /\ b \in 1..Len(w) /\ b = a + 1 /\ Grown(a)
    BY <1>1, <1>6, <2>1
  <2>. HIDE DEF a, b
  <2>3. Grown(b)
    BY <1>4, <2>2
  <2>. QED
    BY <2>3 DEF b
<1>. HIDE DEF S
<1>7. Len(w) - 1 \in S
  BY <1>1, <1>5, <1>6, SetInduction
<1>8. SubSeq(w, 1, Len(w)) = w
  BY <1>1
<1>9. (Len(w) - 1) + 1 = Len(w)
  BY <1>1
<1>10. Grown((Len(w) - 1) + 1)
  BY <1>1, <1>7, <1>9 DEF S
<1>11. Grown(Len(w))
  BY <1>9, <1>10
<1>. QED
  BY <1>8, <1>11 DEF Grown

LEMMA PathVerdict ==
    ASSUME DeskInv, IsOf({"path-trace"}) PROVE PathRight <=> Solved
<1>. DEFINE g == task.graph
            V == NodesOf(g)
            n == Len(g.nodes)
            Lengths == {Len(p) - 1 : p \in {q \in Paths(g, task.start) : Last(q) = task.end}}
<1>1. Solved = (IsWalk(work) /\ Last(work) = task.end /\ Len(work) - 1 = LeastLength)
  BY SolvedIs
<1>2. /\ work \in Walks(g) /\ IsInjective(work) /\ work[1] = task.start
      /\ work \in Seq(V) /\ Len(work) \in Nat /\ Len(work) > 0 /\ IsWalk(work)
  BY DEF DeskInv, PathOK, Walks, IsWalk
<1>3. /\ task.requireShortest /\ g.nodes \in Seq(V) /\ IsInjective(g.nodes)
      /\ target = LeastLength
  BY MoreKeyFacts DEF DeskInv, target, LeastLength
<1>4. LeastLength = Min(Lengths)
  BY DEF LeastLength, Shortest
<1>5. PathRight <=> Last(work) = task.end /\ Len(work) - 1 <= LeastLength
  BY <1>3 DEF PathRight
<1>6. Len(work) <= n /\ n \in Nat
  <2>1. IsFiniteSet(V) /\ Cardinality(V) = n /\ n \in Nat
    BY <1>3, DistinctCounted DEF NodesOf
  <2>2. Cardinality(Range(work)) = Len(work)
    BY <1>2, DistinctCounted
  <2>3. Range(work) \subseteq V
    BY <1>2 DEF Range
  <2>. HIDE DEF V, n
  <2>. QED
    BY <2>1, <2>2, <2>3, FS_Subset
<1>7. PICK f : PathsUpto(g, task.start, n, f) /\ Paths(g, task.start) = UNION Range(f)
  BY <1>6, PathsFound
<1>8. work \in Paths(g, task.start)
  <2>1. work \in f[Len(work)]
    BY <1>2, <1>6, <1>7, WalkIsGrown
  <2>2. Len(work) \in DOMAIN f
    BY <1>2, <1>6, <1>7 DEF PathsUpto
  <2>. QED
    BY <1>7, <2>1, <2>2 DEF Range
<1>9. Lengths \subseteq Nat
  <2>1. task.start \in V
    BY <1>2
  <2>2. \A k \in 1..n : \A p \in f[k] : p \in Seq(V) /\ Len(p) = k
    BY <1>6, <1>7, <2>1, PathsMeasured
  <2>3. DOMAIN f = 1..n
    BY <1>7 DEF PathsUpto
  <2>4. ASSUME NEW p \in Paths(g, task.start) PROVE Len(p) - 1 \in Nat
    <3>1. PICK k \in 1..n : p \in f[k]
      BY <1>7, <2>3 DEF Range
    <3>. QED
      BY <1>6, <2>2, <3>1
  <2>. QED
    BY <2>4
<1>. HIDE DEF g, V, n, Lengths
<1>10. ASSUME Last(work) = task.end PROVE Len(work) - 1 \in Lengths
  BY <1>8, <1>10 DEF Lengths
<1>11. ASSUME Last(work) = task.end PROVE Min(Lengths) \in Nat /\ Min(Lengths) <= Len(work) - 1
  <2>1. Min(Lengths) \in Lengths /\ \A y \in Lengths : Min(Lengths) <= y
    BY <1>9, <1>10, <1>11, Least DEF Min
  <2>. QED
    BY <1>9, <1>10, <1>11, <2>1
<1>12. ASSUME Last(work) = task.end
       PROVE  Len(work) - 1 <= LeastLength <=> Len(work) - 1 = LeastLength
  BY <1>2, <1>4, <1>11, <1>12
<1>. QED
  BY <1>1, <1>2, <1>5, <1>12

-----------------------------------------------------------------------------
(* What VerdictTrue needs besides DeskInv: the form of the work of the     *)
(* engines that DeskInv says nothing of, and that a verdict on the work is *)
(* never carried over to other work.                                       *)
SelectionOK == IsOf({"edge-click"}) => work \in {0} \cup DOMAIN task.graph.edges
AnswersOK == IsOf({"compute"}) => work = [i \in DOMAIN task.parts |-> work[i]]
FieldsOK == IsOf({"page-directed"}) => work \in [NodesOf(task.graph) -> [out : 0..2, in : 0..2]]
Tracing == {"path-trace", "hamilton-trace", "euler-trace", "edge-click"}
VerdictOK == about = "work" /\ task.id \notin Disputed => (feedback = "ok") = Solved
MatrixOK == about = "work" /\ IsOf({"matrix-fill"}) => (feedback = "ok") = MatrixTrue
FreshOK == IsOf(Tracing) => about # "past"
EngineInv ==
    /\ DeskInv /\ SelectionOK /\ AnswersOK /\ FieldsOK
    /\ VerdictOK /\ MatrixOK /\ FreshOK

LEMMA EngineStart == DeskInit => EngineInv
<1>1. SUFFICES ASSUME DeskInit PROVE EngineInv
  OBVIOUS
<1>2. work = EmptyWork(task) /\ about = "nothing"
  BY <1>1 DEF DeskInit
<1>3. SelectionOK
  <2>1. IsOf({"edge-click"}) => work = 0
    BY <1>2 DEF EmptyWork, IsOf, EdgeTasks
  <2>. QED
    BY <2>1 DEF SelectionOK
<1>4. AnswersOK
  <2>1. IsOf({"compute"}) => work = [i \in DOMAIN task.parts |-> Blank]
    BY <1>2 DEF EmptyWork, IsOf, EdgeTasks
  <2>. QED
    BY <2>1 DEF AnswersOK
<1>5. FieldsOK
  <2>1. IsOf({"page-directed"}) => work = [v \in NodesOf(task.graph) |-> [out |-> 0, in |-> 0]]
    BY <1>2 DEF EmptyWork, IsOf, EdgeTasks
  <2>. QED
    BY <2>1 DEF FieldsOK
<1>6. VerdictOK /\ MatrixOK /\ FreshOK
  BY <1>2 DEF VerdictOK, MatrixOK, FreshOK
<1>. QED
  BY <1>1, <1>3, <1>4, <1>5, <1>6, DeskStart DEF EngineInv

(* The verdict after a step: wiped, kept on the same work, dated by an     *)
(* edit, about something else than the work, or the right one.             *)
Outcome ==
    \/ about' = "nothing" \/ about' = "claim" \/ about' = "click"
    \/ about' = "past" /\ ~IsOf(Tracing)
    \/ UNCHANGED <<work, feedback, about>>
    \/ work' = work /\ about' = "work" /\ (task.id \notin Disputed => (feedback' = "ok") = Solved)

LEMMA Judged ==
    ASSUME NEW b \in BOOLEAN, b <=> Solved, Judge(Verdict(b), "work") PROVE Outcome
BY DEF Judge, Verdict, Outcome, Solved

LEMMA Kept ==
    ASSUME NEW w, Keeping(w), ~IsOf(Tracing) PROVE Outcome
BY DEF Keeping, Outcome

LEMMA Outcomes == ASSUME EngineInv, [DeskNext]_deskVars PROVE Outcome
<1>1. CASE UNCHANGED deskVars
  BY <1>1 DEF deskVars, Outcome
<1>2. CASE \/ ToggleEdge \/ ShowExample \/ ClearEdges \/ ToggleCell \/ ClearMatrix \/ ChooseNode
           \/ ClearNodes \/ Type \/ Pick \/ AddStep \/ RemoveStep \/ Enter \/ ClearDegrees
  <2>1. ~IsOf(Tracing)
    BY <1>2 DEF ToggleEdge, ShowExample, ClearEdges, ToggleCell, ClearMatrix, ChooseNode,
       ClearNodes, Type, Pick, AddStep, RemoveStep, Enter, ClearDegrees, IsOf, Tracing, EdgeTasks
  <2>2. \E w : Keeping(w)
    BY <1>2 DEF ToggleEdge, ShowExample, ClearEdges, ToggleCell, ClearMatrix, ChooseNode,
       ClearNodes, Type, Pick, AddStep, RemoveStep, Enter, ClearDegrees, choose, Unpick, PickToo
  <2>. QED
    BY <2>1, <2>2, Kept
<1>3. CASE ClearAnswers \/ ClearDecisions \/ ResetSteps \/ ClearWalk \/ ClickNode \/ SelectEdge
  BY <1>3 DEF ClearAnswers, ClearDecisions, ResetSteps, ClearWalk, ClickNode, SelectEdge,
     StartOver, Wiping, Outcome
<1>4. CASE declareImpossible
  BY <1>4 DEF declareImpossible, Judge, Outcome
<1>5. CASE ClickEdge
  BY <1>5 DEF ClickEdge, Judge, Walk, Wiping, Outcome
<1>6. CASE CheckEdges
  <2>1. EdgesRight \in BOOLEAN
    BY DEF EdgesRight
  <2>. QED
    BY <1>6, <2>1, EdgesVerdict, Judged DEF CheckEdges, EngineInv
<1>7. CASE CheckMatrix
  <2>1. IsOf({"matrix-fill"}) /\ Judge(Verdict(work = Ones), "work") /\ DeskInv
    BY <1>7 DEF CheckMatrix, EngineInv
  <2>2. CASE task.id = "T2"
    BY <2>1, <2>2 DEF Judge, Outcome, Disputed
  <2>3. CASE task.id # "T2"
    BY <2>1, <2>3, MatrixVerdict, Judged
  <2>. QED
    BY <2>2, <2>3
<1>8. CASE CheckNodes
  <2>1. NodesRight \in BOOLEAN
    BY DEF NodesRight
  <2>. QED
    BY <1>8, <2>1, NodesVerdict, Judged DEF CheckNodes, EngineInv, Clicks
<1>9. CASE CheckAnswers
  <2>. DEFINE right == \A i \in DOMAIN task.parts : Accepted(i)
  <2>1. right \in BOOLEAN /\ Judge(Verdict(right), "work") /\ IsOf({"compute"})
    BY <1>9 DEF CheckAnswers
  <2>2. CASE task.id = "rdc"
    BY <2>1, <2>2 DEF Judge, Outcome, Disputed
  <2>3. CASE task.id # "rdc"
    <3>1. right <=> Solved
      BY <2>1, <2>3, AnswersVerdict DEF EngineInv, AnswersOK, DeskInv
    <3>. HIDE DEF right
    <3>. QED
      BY <2>1, <3>1, Judged
  <2>. QED
    BY <2>2, <2>3
<1>10. CASE CheckDecisions
  <2>. DEFINE right == work = task.parts
  <2>1. ("none" \notin Range(work) /\ right) <=> Solved
    BY <1>10, DecisionsVerdict DEF CheckDecisions, EngineInv, DeskInv
  <2>2. CASE "none" \in Range(work)
    <3>1. Judge(Verdict(FALSE), "work") /\ (FALSE <=> Solved)
      BY <1>10, <2>1, <2>2 DEF CheckDecisions, Verdict
    <3>. QED
      BY <3>1, Judged
  <2>3. CASE "none" \notin Range(work)
    <3>1. right \in BOOLEAN /\ Judge(Verdict(right), "work") /\ (right <=> Solved)
      BY <1>10, <2>1, <2>3 DEF CheckDecisions
    <3>. HIDE DEF right
    <3>. QED
      BY <3>1, Judged
  <2>. QED
    BY <2>2, <2>3
<1>11. CASE CheckSteps
  BY <1>11, StepsVerdict, Judged DEF CheckSteps, EngineInv
<1>12. CASE CheckWalk
  <2>1. PathRight \in BOOLEAN /\ CycleRight \in BOOLEAN
    BY DEF PathRight, CycleRight
  <2>. QED
    BY <1>12, <2>1, PathVerdict, CycleVerdict, Judged DEF CheckWalk, EngineInv
<1>13. CASE CheckEdge
  BY <1>13, EdgeVerdict, Judged DEF CheckEdge, EngineInv, SelectionOK, DeskInv
<1>14. CASE CheckTrail
  BY <1>14, TrailVerdict, Judged DEF CheckTrail, EngineInv
<1>15. CASE CheckDegrees
  BY <1>15, DegreesVerdict, Judged DEF CheckDegrees, EngineInv, FieldsOK, DeskInv
<1>. QED
  BY <1>1, <1>2, <1>3, <1>4, <1>5, <1>6, <1>7, <1>8, <1>9, <1>10, <1>11, <1>12, <1>13, <1>14,
     <1>15 DEF DeskNext

(* Whether the task is solved depends on the work alone.                   *)
LEMMA SolvedKept == ASSUME UNCHANGED <<card, work>> PROVE Solved' = Solved
BY DEF Solved, DrawnRight, MatrixTrue, ReverseTrue, Cells, NodesTrue, EdgeTrue, LeastLength,
   IsWalk, CycleTrue, TrailTrue, IsOf, task

LEMMA SelectionStep ==
    ASSUME EngineInv, DeskNext, card' = card PROVE SelectionOK'
<1>1. SUFFICES ASSUME IsOf({"edge-click"}) PROVE work' \in {0} \cup DOMAIN task.graph.edges
  BY DEF SelectionOK, task, IsOf
<1>2. ClearWalk \/ SelectEdge \/ CheckEdge
  BY <1>1 DEF DeskNext, ToggleEdge, ShowExample, ClearEdges, declareImpossible, CheckEdges,
     ToggleCell, ClearMatrix, CheckMatrix, ChooseNode, ClearNodes, CheckNodes, Type, CheckAnswers,
     ClearAnswers, Pick, CheckDecisions, ClearDecisions, AddStep, RemoveStep, CheckSteps,
     ResetSteps, ClickNode, CheckWalk, ClickEdge, CheckTrail, Enter, ClearDegrees, CheckDegrees,
     IsOf, EdgeTasks
<1>3. CASE ClearWalk
  BY <1>1, <1>3 DEF ClearWalk, StartOver, EmptyWork, IsOf, EdgeTasks
<1>4. CASE SelectEdge
  BY <1>4 DEF SelectEdge, Wiping
<1>5. CASE CheckEdge
  BY <1>1, <1>5 DEF CheckEdge, Judge, EngineInv, SelectionOK
<1>. QED
  BY <1>2, <1>3, <1>4, <1>5

LEMMA MatrixStep ==
    ASSUME EngineInv, DeskNext, card' = card PROVE MatrixOK'
<1>1. SUFFICES ASSUME IsOf({"matrix-fill"}), about' = "work"
               PROVE  (feedback' = "ok") = MatrixTrue'
  BY DEF MatrixOK, task, IsOf
<1>2. ToggleCell \/ ClearMatrix \/ CheckMatrix
  BY <1>1 DEF DeskNext, ToggleEdge, ShowExample, ClearEdges, declareImpossible, CheckEdges,
     ChooseNode, ClearNodes, CheckNodes, Type, CheckAnswers, ClearAnswers,
     Pick, CheckDecisions, ClearDecisions, AddStep, RemoveStep, CheckSteps,
     ResetSteps, ClickNode, CheckWalk, ClearWalk, SelectEdge, CheckEdge, ClickEdge, CheckTrail,
     Enter, ClearDegrees, CheckDegrees, IsOf, EdgeTasks
<1>3. work' = work => MatrixTrue' = MatrixTrue
  BY DEF MatrixTrue, Cells, task
<1>4. (about = "work") => (feedback = "ok") = MatrixTrue
  BY <1>1 DEF EngineInv, MatrixOK
<1>5. CASE CheckMatrix
  <2>1. Judge(Verdict(work = Ones), "work") /\ (work = Ones) = MatrixTrue
    BY <1>1, <1>5, MatrixVerdict DEF CheckMatrix, EngineInv
  <2>. QED
    BY <1>3, <2>1 DEF Judge, Verdict
<1>6. CASE ToggleCell \/ ClearMatrix
  <2>1. \E w : Keeping(w)
    BY <1>6 DEF ToggleCell, ClearMatrix
  <2>2. work' = work /\ about = "work" /\ feedback' = feedback
    BY <1>1, <2>1 DEF Keeping
  <2>. QED
    BY <1>3, <1>4, <2>2
<1>. QED
  BY <1>2, <1>5, <1>6

LEMMA AnswersStep ==
    ASSUME EngineInv, DeskNext, card' = card PROVE AnswersOK'
<1>. DEFINE D == DOMAIN task.parts
<1>1. SUFFICES ASSUME IsOf({"compute"}) PROVE work' = [i \in D |-> work'[i]]
  BY DEF AnswersOK, task, IsOf
<1>2. Type \/ CheckAnswers \/ ClearAnswers
  BY <1>1 DEF DeskNext, ToggleEdge, ShowExample, ClearEdges, declareImpossible, CheckEdges,
     ToggleCell, ClearMatrix, CheckMatrix, ChooseNode, ClearNodes, CheckNodes,
     Pick, CheckDecisions, ClearDecisions, AddStep, RemoveStep, CheckSteps,
     ResetSteps, ClickNode, CheckWalk, ClearWalk, SelectEdge, CheckEdge, ClickEdge, CheckTrail,
     Enter, ClearDegrees, CheckDegrees, IsOf, EdgeTasks
<1>3. work = [i \in D |-> work[i]]
  BY <1>1 DEF EngineInv, AnswersOK
<1>4. CASE Type
  <2>1. \E i \in D : \E x : work' = [work EXCEPT ![i] = x]
    BY <1>4 DEF Type, Keeping
  <2>. HIDE DEF D
  <2>. QED
    BY <1>3, <2>1
<1>5. CASE CheckAnswers
  BY <1>3, <1>5 DEF CheckAnswers, Judge
<1>6. CASE ClearAnswers
  <2>1. work' = [i \in D |-> Blank]
    BY <1>1, <1>6 DEF ClearAnswers, StartOver, EmptyWork, IsOf, EdgeTasks
  <2>. QED
    BY <2>1
<1>. QED
  BY <1>2, <1>4, <1>5, <1>6

LEMMA FieldsStep ==
    ASSUME EngineInv, DeskNext, card' = card PROVE FieldsOK'
<1>. DEFINE V == NodesOf(task.graph)
            R == [out : 0..2, in : 0..2]
<1>1. SUFFICES ASSUME IsOf({"page-directed"}) PROVE work' \in [V -> R]
  BY DEF FieldsOK, task, IsOf
<1>2. Enter \/ ClearDegrees \/ CheckDegrees
  BY <1>1 DEF DeskNext, ToggleEdge, ShowExample, ClearEdges, declareImpossible, CheckEdges,
     ToggleCell, ClearMatrix, CheckMatrix, ChooseNode, ClearNodes, CheckNodes, Type, CheckAnswers,
     ClearAnswers, Pick, CheckDecisions, ClearDecisions, AddStep, RemoveStep, CheckSteps,
     ResetSteps, ClickNode, CheckWalk, ClearWalk, SelectEdge, CheckEdge, ClickEdge, CheckTrail,
     IsOf, EdgeTasks
<1>3. work \in [V -> R]
  BY <1>1 DEF EngineInv, FieldsOK
<1>4. CASE Enter
  <2>1. PICK v \in V, field \in {"out", "in"}, x \in 0..2 : work' = [work EXCEPT ![v][field] = x]
    BY <1>4 DEF Enter, Keeping
  <2>2. work[v] \in R
    BY <1>3
  <2>3. [work[v] EXCEPT ![field] = x] \in R
    BY <2>1, <2>2
  <2>4. work' = [work EXCEPT ![v] = [work[v] EXCEPT ![field] = x]]
    BY <2>1
  <2>. HIDE DEF R, V
  <2>. QED
    BY <1>3, <2>3, <2>4
<1>5. CASE ClearDegrees
  <2>1. work' = [v \in V |-> [out |-> 0, in |-> 0]]
    BY <1>1, <1>5 DEF ClearDegrees, Keeping, EmptyWork, IsOf, EdgeTasks
  <2>. QED
    BY <2>1
<1>6. CASE CheckDegrees
  BY <1>3, <1>6 DEF CheckDegrees, Judge
<1>. QED
  BY <1>2, <1>4, <1>5, <1>6

LEMMA EngineStep == EngineInv /\ [DeskNext]_deskVars => EngineInv'
<1>1. SUFFICES ASSUME EngineInv, [DeskNext]_deskVars PROVE EngineInv'
  OBVIOUS
<1>2. card' = card /\ DeskInv' /\ Outcome
  BY <1>1, DeskEdits, DeskStep, Outcomes DEF EngineInv
<1>3. SelectionOK' /\ AnswersOK' /\ FieldsOK' /\ MatrixOK'
  <2>1. CASE DeskNext
    BY <1>1, <1>2, <2>1, SelectionStep, AnswersStep, FieldsStep, MatrixStep
  <2>2. CASE UNCHANGED deskVars
    BY <1>1, <2>2 DEF deskVars, EngineInv, SelectionOK, AnswersOK, FieldsOK, MatrixOK,
       MatrixTrue, Cells, IsOf, task
  <2>. QED
    BY <1>1, <2>1, <2>2
<1>4. task' = task /\ (IsOf(Tracing)' <=> IsOf(Tracing))
  BY <1>2 DEF task, IsOf
<1>5. FreshOK'
  BY <1>1, <1>2, <1>4 DEF EngineInv, FreshOK, Outcome
<1>6. VerdictOK'
  <2>1. SUFFICES ASSUME about' = "work", task.id \notin Disputed PROVE (feedback' = "ok") = Solved'
    BY <1>4 DEF VerdictOK
  <2>2. work' = work /\ ((feedback' = "ok") = Solved)
    BY <1>1, <1>2, <2>1 DEF Outcome, EngineInv, VerdictOK
  <2>. QED
    BY <1>2, <2>2, SolvedKept
<1>. QED
  BY <1>2, <1>3, <1>5, <1>6 DEF EngineInv

(* A verdict on what stands on the screen is right, whatever has been      *)
(* clicked before (check of every engine in engines.tsx and GT01Pages.tsx):*)
(* the shortest path, the cycle, the trail and the degrees are what the    *)
(* prompt asks for.  Of the tasks in Disputed, rdc is left out, and of T2  *)
(* only the matrix is meant, the first of the two steps it asks for.       *)
THEOREM VerdictsRight == DeskSpec => []VerdictTrue
<1>1. ASSUME EngineInv PROVE VerdictTrue
  <2>1. ASSUME "solution" \in DOMAIN task, work = EdgeSet(task.solution) PROVE Solved
    <3>1. IsOf(EdgeTasks) /\ DrawnSolves(task, EdgeSet(task.solution))
      BY <1>1, <2>1, KeyFacts DEF EngineInv, DeskInv
    <3>. QED
      BY <2>1, <3>1, SolvedIs
  <2>. QED
    BY <1>1, <2>1 DEF EngineInv, VerdictOK, MatrixOK, FreshOK, Tracing, VerdictTrue
<1>. QED
  BY <1>1, EngineStart, EngineStep, PTL DEF DeskSpec

=============================================================================
