-------------------------- MODULE StudentAppProofs --------------------------
(***************************************************************************)
(* What LessonProgress and StudentApp promise, for any tabs, questions,    *)
(* days, tracks, texts and photos.                                         *)
(*                                                                         *)
(* Work is not lost because a tab that is alone shows what is stored, and  *)
(* no change takes a fact back.  The streak is right because a tab opened  *)
(* today already has the streak of today's first save, whoever saves first.*)
(* Both hold of the application too, since to its progress record it does  *)
(* nothing but what a tab of LessonProgress does.                          *)
(***************************************************************************)
EXTENDS StudentApp, FiniteSetTheorems, TLAPS

Careful == excuse \cap {"overlap", "full"} = {}

InStore ==
    Careful =>
        /\ \A t, v \in Tabs : Open(t) /\ Open(v) => t = v
        /\ \A t \in Tabs : Open(t) => mem[t].progress = store.progress
        /\ earned \subseteq Facts(store.progress)

(* A row of n days ends at `last'; streak as StreakCountsDays has it.      *)
Row(n, last, streak, S) ==
    /\ last - n + 1 .. last \subseteq S
    /\ last - n \notin S
    /\ streak = IF \A d \in S : d > last - n THEN n + FreshStreak - 1 ELSE n
Counts(last, streak, S) == \E n \in Days : Row(n, last, streak, S)

DatesRight ==
    /\ \A d \in used : d <= day /\ d <= store.lastDate
    /\ store.lastDate <= day
    /\ store.lastDate = NoDate => used = {}
    /\ store.lastDate # NoDate => store.lastDate \in used

StreaksRight ==
    "overnight" \notin excuse =>
        /\ used # {} => Counts(store.lastDate, store.streak, used)
        /\ \A t \in Tabs : Open(t) /\ mem[t].mounted = day =>
              Counts(day, mem[t].streak, used \cup {day})

UnsavedOpen == \A t \in Tabs : mem[t].unsaved => Open(t)

MountedBefore == \A t \in Tabs : mem[t].mounted <= day

ProgressInv ==
    ProgressTypeOK /\ UnsavedOpen /\ MountedBefore /\ InStore /\ DatesRight /\ StreaksRight

Tab == [open : BOOLEAN, unsaved : BOOLEAN, progress : Progress,
        streak : Nat \ {0}, mounted : Days \cup {NoDate}]

-----------------------------------------------------------------------------
(* What has been done stays done through each of the three changes.        *)
LEMMA AnswerGrows ==
    ASSUME NEW p \in Progress, NEW q \in Questions, NEW a \in {"wrong", "ok"},
           p.answers[q] = "none"
    PROVE  LET n == [p EXCEPT !.answers[q] = a]
           IN  n \in Progress /\ Facts(p) \subseteq Facts(n)
<1> DEFINE n == [p EXCEPT !.answers[q] = a]
<1>1. n \in Progress
  BY DEF Progress
<1>2. /\ n.workedDone = p.workedDone /\ n.visited = p.visited
      /\ \A x \in Questions : p.answers[x] # "none" => n.answers[x] = p.answers[x]
  BY DEF Progress
<1> HIDE DEF n
<1>3. Facts(p) \subseteq Facts(n)
  BY <1>2 DEF Facts
<1> QED
  BY <1>1, <1>3 DEF n

LEMMA WorkedGrows ==
    ASSUME NEW p \in Progress
    PROVE  LET n == [p EXCEPT !.workedDone = TRUE]
           IN  n \in Progress /\ Facts(p) \subseteq Facts(n)
<1> DEFINE n == [p EXCEPT !.workedDone = TRUE]
<1>1. n \in Progress
  BY DEF Progress
<1>2. n.answers = p.answers /\ n.visited = p.visited /\ n.workedDone
  BY DEF Progress
<1> HIDE DEF n
<1>3. Facts(p) \subseteq Facts(n)
  BY <1>2, Zenon DEF Facts
<1> QED
  BY <1>1, <1>3 DEF n

LEMMA VisitGrows ==
    ASSUME NEW p \in Progress, NEW page \in Pages
    PROVE  LET n == [p EXCEPT !.visited = @ \cup {page}]
           IN  n \in Progress /\ Facts(p) \subseteq Facts(n)
<1> DEFINE n == [p EXCEPT !.visited = @ \cup {page}]
<1>1. n \in Progress
  BY DEF Progress
<1>2. n.answers = p.answers /\ p.visited \subseteq n.visited /\ n.workedDone = p.workedDone
  BY DEF Progress
<1> HIDE DEF n
<1>3. Facts(p) \subseteq Facts(n)
  BY <1>2 DEF Facts
<1> QED
  BY <1>1, <1>3 DEF n

(* The streak computed at mount counts today's save, made or to be made.   *)
LEMMA StreakAtMount ==
    ASSUME ProgressTypeOK, DatesRight, StreaksRight
    PROVE  /\ getCurrentStreak(store) \in Nat \ {0}
           /\ "overnight" \notin excuse =>
                 Counts(day, getCurrentStreak(store), used \cup {day})
<1> DEFINE s == getCurrentStreak(store)
<1>1. /\ store.streak \in Nat \ {0} /\ store.lastDate \in Days \cup {NoDate}
      /\ day \in Days /\ day \in Nat /\ used \subseteq Days /\ LastDay \in Nat
      /\ Days \subseteq Nat \ {0} /\ NoDate = -1 /\ 1 \in Days
  BY ProgressAssumption DEF ProgressTypeOK, Days, NoDate
<1>a. /\ store.lastDate \in Int /\ store.lastDate <= day /\ 1 <= day
      /\ store.lastDate = NoDate => store.lastDate # day /\ store.lastDate # day - 1
      /\ \A d \in used : d \in Int /\ d <= day /\ d <= store.lastDate
  <2>1. day \in Nat /\ 1 <= day
    BY <1>1
  <2>2. store.lastDate \in Int
    <3>1. CASE store.lastDate \in Days
      <4>1. \A d \in Days : d \in Int
        BY <1>1
      <4> QED
        BY <3>1, <4>1
    <3>2. CASE store.lastDate = NoDate
      BY <1>1, <3>2
    <3> QED
      BY <1>1, <3>1, <3>2
  <2>3. \A d \in used : d \in Int
    BY <1>1
  <2>4. store.lastDate <= day /\ \A d \in used : d <= day /\ d <= store.lastDate
    BY DEF DatesRight
  <2> QED
    BY <1>1, <2>1, <2>2, <2>3, <2>4
<1>2. s \in Nat \ {0}
  BY <1>1, <1>a DEF getCurrentStreak, FreshStreak
<1>3. ASSUME "overnight" \notin excuse PROVE Counts(day, s, used \cup {day})
  <2>1. CASE store.lastDate = NoDate
    <3>a. used = {}
      BY <2>1 DEF DatesRight
    <3>b. s = 4
      BY <1>a, <2>1 DEF getCurrentStreak, FreshStreak
    <3>1. used = {} /\ s = 4
      BY <3>a, <3>b
    <3>2. Row(1, day, s, used \cup {day})
      BY <1>1, <3>1 DEF Row, FreshStreak
    <3> QED
      BY <1>1, <3>2 DEF Counts
  <2>2. CASE store.lastDate = day
    <3>1. s = store.streak /\ day \in used /\ used \cup {day} = used
      BY <1>1, <2>2 DEF DatesRight, getCurrentStreak, Days
    <3> QED
      BY <1>3, <2>2, <3>1 DEF StreaksRight
  <2>3. CASE store.lastDate = day - 1 /\ store.lastDate # NoDate
    <3>a. used # {}
      BY <2>3 DEF DatesRight
    <3>1. s = store.streak + 1
      BY <1>1, <2>3 DEF getCurrentStreak
    <3>2. PICK n \in Days : Row(n, day - 1, store.streak, used)
      BY <1>3, <2>3, <3>a DEF StreaksRight, Counts
    <3>3. n + 1 \in Days
      <4>1. (day - 1) - n + 1 \in used
        BY <1>1, <3>2 DEF Row, Days
      <4> QED
        BY <1>1, <4>1 DEF Days
    <3>4. Row(n + 1, day, s, used \cup {day})
      <4>1. n \in Nat \ {0} /\ day - (n + 1) = (day - 1) - n
        BY <1>1
      <4>2. day - (n + 1) + 1 .. day \subseteq used \cup {day}
        BY <1>1, <3>2, <4>1 DEF Row
      <4>3. day - (n + 1) \notin used \cup {day}
        BY <1>1, <3>2, <4>1 DEF Row
      <4>4. (\A d \in used \cup {day} : d > day - (n + 1))
               <=> (\A d \in used : d > (day - 1) - n)
        BY <1>1, <4>1
      <4>5. s = IF \A d \in used : d > (day - 1) - n THEN (n + 1) + FreshStreak - 1 ELSE n + 1
        BY <3>1, <3>2, <4>1 DEF Row, FreshStreak
      <4> QED
        BY <4>2, <4>3, <4>4, <4>5 DEF Row
    <3> QED
      BY <3>3, <3>4 DEF Counts
  <2>4. CASE store.lastDate \notin {NoDate, day, day - 1}
    <3>a. store.lastDate \in used
      BY <2>4 DEF DatesRight
    <3>b. s = 1
      BY <2>4 DEF getCurrentStreak
    <3>c. store.lastDate < day - 1
      BY <1>1, <1>a, <2>4
    <3>1. s = 1 /\ store.lastDate \in used /\ store.lastDate < day - 1
      BY <3>a, <3>b, <3>c
    <3>2. day - 1 \notin used
      BY <1>1, <1>a, <3>c
    <3>3. ~ \A d \in used \cup {day} : d > day - 1
      BY <1>1, <1>a, <3>a, <3>c
    <3>4. Row(1, day, s, used \cup {day})
      BY <1>1, <3>1, <3>2, <3>3 DEF Row
    <3> QED
      BY <1>1, <3>4 DEF Counts
  <2> QED
    BY <2>1, <2>2, <2>3, <2>4
<1> QED
  BY <1>2, <1>3

-----------------------------------------------------------------------------
LEMMA InitProgress == ProgressInit => ProgressInv
<1>1. SUFFICES ASSUME ProgressInit PROVE ProgressInv
  OBVIOUS
<1>2. NoProgress \in Progress /\ 1 \in Days /\ Closed \in Tab /\ ~Closed.open /\ ~Closed.unsaved
  BY ProgressAssumption DEF NoProgress, Progress, Days, Closed, Tab, NoDate
<1>3. \A t \in Tabs : ~Open(t) /\ ~mem[t].unsaved
  BY <1>1, <1>2 DEF ProgressInit, Open
<1>4. ProgressTypeOK
  BY <1>1, <1>2 DEF ProgressInit, ProgressTypeOK, Tab
<1>5. InStore
  BY <1>1, <1>3 DEF ProgressInit, InStore
<1>6. DatesRight /\ StreaksRight
  BY <1>1, <1>3 DEF ProgressInit, DatesRight, StreaksRight, NoDate
<1>7. MountedBefore
  <2>1. \A t \in Tabs : mem[t] = Closed
    BY <1>1 DEF ProgressInit
  <2>2. Closed.mounted = -1 /\ day = 1
    BY <1>1 DEF Closed, NoDate, ProgressInit
  <2> QED
    BY <2>1, <2>2 DEF MountedBefore
<1> QED
  BY <1>3, <1>4, <1>5, <1>6, <1>7 DEF ProgressInv, UnsavedOpen

LEMMA MountProgress == ASSUME ProgressInv, NEW t \in Tabs, Mount(t) PROVE ProgressInv'
<1> DEFINE new == [open |-> TRUE, unsaved |-> TRUE, progress |-> loadProgress,
                   streak |-> getCurrentStreak(store), mounted |-> day]
<1>1. /\ mem \in [Tabs -> Tab] /\ mem' = [mem EXCEPT ![t] = new]
      /\ excuse' = excuse \cup {x \in {"overlap"} : \E v \in Tabs : Open(v)}
      /\ UNCHANGED <<store, day, earned, used>>
  BY DEF ProgressInv, ProgressTypeOK, Mount, Tab
<1>2. /\ getCurrentStreak(store) \in Nat \ {0}
      /\ "overnight" \notin excuse =>
            Counts(day, getCurrentStreak(store), used \cup {day})
  BY StreakAtMount DEF ProgressInv
<1>3. new \in Tab /\ new.open /\ new.progress = store.progress
      /\ new.streak = getCurrentStreak(store) /\ new.mounted = day
  BY <1>2 DEF ProgressInv, ProgressTypeOK, Tab, loadProgress
<1> HIDE DEF new
<1>4. mem'[t] = new /\ \A v \in Tabs \ {t} : mem'[v] = mem[v]
  BY <1>1
<1>5. ProgressTypeOK'
  BY <1>1, <1>3 DEF ProgressInv, ProgressTypeOK, Tab
<1>6. UnsavedOpen'
  BY <1>3, <1>4 DEF ProgressInv, UnsavedOpen, Open
<1>7. InStore'
  <2>1. SUFFICES ASSUME Careful' PROVE InStore!2'
    BY DEF InStore
  <2>2. Careful /\ \A v \in Tabs : ~Open(v)
    BY <1>1, <2>1 DEF Careful
  <2> QED
    BY <1>1, <1>3, <1>4, <2>2 DEF ProgressInv, InStore, Open, Facts
<1>8. DatesRight'
  BY <1>1 DEF ProgressInv, DatesRight
<1>9. StreaksRight'
  <2>1. SUFFICES ASSUME "overnight" \notin excuse' PROVE StreaksRight!2'
    BY DEF StreaksRight
  <2>2. "overnight" \notin excuse
    BY <1>1, <2>1
  <2>3. used # {} => Counts(store.lastDate, store.streak, used)
    BY <2>2 DEF ProgressInv, StreaksRight
  <2>4. ASSUME NEW v \in Tabs, Open(v)', mem'[v].mounted = day
        PROVE  Counts(day, mem'[v].streak, used \cup {day})
    <3>1. CASE v = t
      BY <1>2, <1>3, <1>4, <2>2, <3>1
    <3>2. CASE v # t
      BY <1>4, <2>2, <2>4, <3>2 DEF ProgressInv, StreaksRight, Open
    <3> QED
      BY <3>1, <3>2
  <2> QED
    BY <1>1, <2>3, <2>4 DEF Counts, Row
<1>10. MountedBefore'
  <2>1. day <= day /\ \A v \in Tabs : mem[v].mounted <= day
    BY DEF ProgressInv, MountedBefore, ProgressTypeOK, Days
  <2> QED
    BY <1>1, <1>3, <1>4, <2>1 DEF MountedBefore
<1> QED
  BY <1>5, <1>6, <1>7, <1>8, <1>9, <1>10 DEF ProgressInv

(* A save of a record that has all the tab's facts, by an open tab.        *)
LEMMA SaveProgress ==
    ASSUME ProgressInv, NEW t \in Tabs, Open(t), NEW p \in Progress, NEW written \in BOOLEAN,
           Facts(mem[t].progress) \subseteq Facts(p), Save(t, p, written),
           earned' \subseteq earned \cup Facts(p)
    PROVE  ProgressInv'
<1> DEFINE new == [mem[t] EXCEPT !.progress = p, !.unsaved = FALSE]
<1>1. /\ mem \in [Tabs -> Tab] /\ mem[t] \in Tab /\ day \in Days /\ day' = day
      /\ mem' = [mem EXCEPT ![t] = new]
  BY DEF ProgressInv, ProgressTypeOK, Save, Tab
<1>2. /\ new \in Tab /\ new.open = mem[t].open /\ new.progress = p /\ ~new.unsaved
      /\ new.streak = mem[t].streak /\ new.mounted = mem[t].mounted
  BY <1>1 DEF Tab
<1> HIDE DEF new
<1>3. mem'[t] = new /\ \A v \in Tabs \ {t} : mem'[v] = mem[v]
  BY <1>1
<1>4. \A v \in Tabs : /\ Open(v)' <=> Open(v)
                      /\ mem'[v].mounted = mem[v].mounted /\ mem'[v].streak = mem[v].streak
  BY <1>2, <1>3 DEF Open
<1>5. UnsavedOpen'
  BY <1>2, <1>3, <1>4 DEF ProgressInv, UnsavedOpen
<1>6. MountedBefore'
  BY <1>1, <1>4 DEF ProgressInv, MountedBefore
<1>7. CASE written
  <2>1. /\ store' = [progress |-> p, streak |-> mem[t].streak, lastDate |-> day]
        /\ used' = used \cup {day}
        /\ excuse' = excuse \cup {x \in {"overnight"} : mem[t].mounted # day}
    BY <1>7 DEF Save
  <2>2. store'.progress = p /\ store'.streak = mem[t].streak /\ store'.lastDate = day
    BY <2>1
  <2>3. ProgressTypeOK'
    BY <1>1, <1>2, <2>1 DEF ProgressInv, ProgressTypeOK, Tab
  <2>4. InStore'
    <3>1. SUFFICES ASSUME Careful' PROVE InStore!2'
      BY DEF InStore
    <3>2. Careful
      BY <2>1, <3>1 DEF Careful
    <3>3. /\ \A v \in Tabs : Open(v) => v = t
          /\ earned \subseteq Facts(p)
      BY <3>2 DEF ProgressInv, InStore
    <3>4. earned' \subseteq Facts(store.progress)'
      BY <2>2, <3>3 DEF Facts
    <3> QED
      BY <1>2, <1>3, <1>4, <2>2, <3>3, <3>4
  <2>5. DatesRight'
    <3>1. day \in Nat \ {0} /\ NoDate = -1
      BY <1>1 DEF Days, NoDate
    <3>2. \A d \in used : d <= day
      BY DEF ProgressInv, DatesRight
    <3> QED
      BY <1>1, <2>1, <2>2, <3>1, <3>2 DEF DatesRight
  <2>6. StreaksRight'
    <3>1. SUFFICES ASSUME "overnight" \notin excuse' PROVE StreaksRight!2'
      BY DEF StreaksRight
    <3>2. "overnight" \notin excuse /\ mem[t].mounted = day
      BY <2>1, <3>1
    <3>3. \A v \in Tabs : Open(v) /\ mem[v].mounted = day =>
              Counts(day, mem[v].streak, used \cup {day})
      BY <3>2 DEF ProgressInv, StreaksRight
    <3>4. (used \cup {day}) \cup {day} = used \cup {day}
      OBVIOUS
    <3>5. Counts(store'.lastDate, store'.streak, used')
      BY <2>1, <2>2, <3>2, <3>3
    <3>6. ASSUME NEW v \in Tabs, Open(v)', mem'[v].mounted = day'
          PROVE  Counts(day', mem'[v].streak, used' \cup {day'})
      BY <1>1, <1>4, <2>1, <3>3, <3>4, <3>6
    <3> QED
      BY <3>5, <3>6 DEF Counts, Row
  <2> QED
    BY <1>5, <1>6, <2>3, <2>4, <2>5, <2>6 DEF ProgressInv
<1>8. CASE ~written
  <2>1. excuse' = excuse \cup {"full"} /\ UNCHANGED <<store, used>>
    BY <1>8 DEF Save
  <2>2. ProgressTypeOK'
    BY <1>1, <1>2, <2>1 DEF ProgressInv, ProgressTypeOK, Tab
  <2>3. InStore'
    BY <2>1 DEF InStore, Careful
  <2>4. DatesRight'
    BY <1>1, <2>1 DEF ProgressInv, DatesRight
  <2>5. StreaksRight'
    <3>1. SUFFICES ASSUME "overnight" \notin excuse' PROVE StreaksRight!2'
      BY DEF StreaksRight
    <3>2. "overnight" \notin excuse
      BY <2>1, <3>1
    <3>3. used # {} => Counts(store.lastDate, store.streak, used)
      BY <3>2 DEF ProgressInv, StreaksRight
    <3>4. ASSUME NEW v \in Tabs, Open(v)', mem'[v].mounted = day'
          PROVE  Counts(day, mem[v].streak, used \cup {day})
      BY <1>1, <1>4, <3>2, <3>4 DEF ProgressInv, StreaksRight
    <3> QED
      BY <1>1, <1>4, <2>1, <3>3, <3>4 DEF Counts, Row
  <2> QED
    BY <1>5, <1>6, <2>2, <2>3, <2>4, <2>5 DEF ProgressInv
<1> QED
  BY <1>7, <1>8

LEMMA ChangeProgress ==
    ASSUME ProgressInv, NEW t \in Tabs, NEW p \in Progress,
           Facts(mem[t].progress) \subseteq Facts(p), Change(t, p)
    PROVE  ProgressInv'
BY SaveProgress DEF Change

LEMMA FirstSaveProgress == ASSUME ProgressInv, NEW t \in Tabs, FirstSave(t) PROVE ProgressInv'
<1>1. Open(t) /\ mem[t].progress \in Progress
  BY DEF FirstSave, ProgressInv, UnsavedOpen, ProgressTypeOK
<1> QED
  BY <1>1, SaveProgress DEF FirstSave

LEMMA AnswerProgress ==
    ASSUME ProgressInv, NEW t \in Tabs, NEW q \in Questions, NEW a \in {"wrong", "ok"},
           answer(t, q, a)
    PROVE  ProgressInv'
<1>1. mem[t].progress \in Progress
  BY DEF ProgressInv, ProgressTypeOK
<1> QED
  BY <1>1, AnswerGrows, ChangeProgress DEF answer

LEMMA WorkedProgress ==
    ASSUME ProgressInv, NEW t \in Tabs, completeWorked(t) PROVE ProgressInv'
<1>1. mem[t].progress \in Progress
  BY DEF ProgressInv, ProgressTypeOK
<1> QED
  BY <1>1, WorkedGrows, ChangeProgress DEF completeWorked

LEMMA VisitProgress ==
    ASSUME ProgressInv, NEW t \in Tabs, NEW page \in Pages, markVisited(t, page)
    PROVE  ProgressInv'
<1>1. mem[t].progress \in Progress
  BY DEF ProgressInv, ProgressTypeOK
<1> QED
  BY <1>1, VisitGrows, ChangeProgress DEF markVisited

LEMMA UnmountProgress == ASSUME ProgressInv, NEW t \in Tabs, Unmount(t) PROVE ProgressInv'
<1>1. /\ mem \in [Tabs -> Tab] /\ mem' = [mem EXCEPT ![t] = Closed]
      /\ UNCHANGED <<store, day, earned, used, excuse>>
  BY DEF ProgressInv, ProgressTypeOK, Unmount, Tab
<1>2. Closed \in Tab /\ ~Closed.open /\ ~Closed.unsaved
  BY DEF Closed, Tab, NoProgress, Progress, NoDate
<1>3. \A v \in Tabs : v # t => mem'[v] = mem[v]
  BY <1>1
<1>4. \A v \in Tabs : Open(v)' => mem'[v] = mem[v] /\ Open(v) /\ v # t
  BY <1>1, <1>2, <1>3 DEF Open
<1>5. ProgressTypeOK'
  BY <1>1, <1>2 DEF ProgressInv, ProgressTypeOK, Tab
<1>6. UnsavedOpen'
  <2>1. ~mem'[t].unsaved
    BY <1>1, <1>2
  <2> QED
    BY <1>3, <2>1 DEF ProgressInv, UnsavedOpen, Open
<1>7. InStore'
  BY <1>1, <1>4 DEF ProgressInv, InStore, Careful, Facts
<1>8. DatesRight'
  BY <1>1 DEF ProgressInv, DatesRight
<1>9. StreaksRight'
  BY <1>1, <1>4 DEF ProgressInv, StreaksRight, Counts, Row
<1>10. MountedBefore'
  <2>1. Closed.mounted <= day
    BY DEF ProgressInv, ProgressTypeOK, Days, Closed, NoDate
  <2>2. mem'[t] = Closed
    BY <1>1
  <2> QED
    BY <1>1, <1>3, <2>1, <2>2 DEF ProgressInv, MountedBefore
<1> QED
  BY <1>5, <1>6, <1>7, <1>8, <1>9, <1>10 DEF ProgressInv

LEMMA MidnightProgress == ProgressInv /\ Midnight => ProgressInv'
<1>1. SUFFICES ASSUME ProgressInv, Midnight PROVE ProgressInv'
  OBVIOUS
<1>2. /\ day \in Nat /\ day' = day + 1 /\ day' \in Days
      /\ UNCHANGED <<store, mem, earned, used, excuse>>
  BY <1>1, ProgressAssumption DEF ProgressInv, ProgressTypeOK, Midnight, Days
<1>3. ProgressTypeOK' /\ UnsavedOpen' /\ InStore'
  BY <1>1, <1>2 DEF ProgressInv, ProgressTypeOK, UnsavedOpen, Open, InStore, Careful, Facts
<1>4. /\ \A t \in Tabs : mem[t].mounted \in Int /\ mem[t].mounted <= day
      /\ store.lastDate \in Int /\ used \subseteq Int
  <2>1. Days \cup {NoDate} \subseteq Int
    BY DEF Days, NoDate
  <2> QED
    BY <1>1, <2>1 DEF ProgressInv, ProgressTypeOK, MountedBefore
<1>5. MountedBefore'
  BY <1>2, <1>4 DEF MountedBefore
<1>6. DatesRight'
  BY <1>1, <1>2, <1>4 DEF ProgressInv, DatesRight
<1>7. StreaksRight'
  <2>1. \A t \in Tabs : mem[t].mounted # day'
    BY <1>2, <1>4
  <2> QED
    BY <1>1, <1>2, <2>1 DEF ProgressInv, StreaksRight, Counts, Row
<1> QED
  BY <1>3, <1>5, <1>6, <1>7 DEF ProgressInv

LEMMA StutterProgress == ProgressInv /\ UNCHANGED progressVars => ProgressInv'
BY DEF ProgressInv, ProgressTypeOK, UnsavedOpen, MountedBefore, InStore, Careful, Open,
       Facts, DatesRight, StreaksRight, Counts, Row, progressVars

LEMMA ProgressStep == ProgressInv /\ [ProgressNext]_progressVars => ProgressInv'
BY MountProgress, FirstSaveProgress, AnswerProgress, WorkedProgress, VisitProgress,
   UnmountProgress, MidnightProgress, StutterProgress DEF ProgressNext

LEMMA ProgressInvariant == ProgressSpec => []ProgressInv
BY ProgressStep, InitProgress, PTL DEF ProgressSpec

(* Whatever the tabs of a browser do, the record keeps its type            *)
(* (useLessonProgress.ts).                                                 *)
THEOREM ProgressTyped == ProgressSpec => []ProgressTypeOK
<1>1. ProgressInv => ProgressTypeOK
  BY DEF ProgressInv
<1> QED
  BY <1>1, ProgressInvariant, PTL

(* As long as tabs are used one at a time and every write succeeds, no     *)
(* recorded work is missing from localStorage (saveProgress and            *)
(* loadProgress).                                                          *)
THEOREM NothingLost == ProgressSpec => []NothingLostInOneTab
<1>1. ProgressInv => NothingLostInOneTab
  BY DEF ProgressInv, InStore, Careful, NothingLostInOneTab
<1> QED
  BY <1>1, ProgressInvariant, PTL

(* For any calendar, the stored streak counts the days in a row unless a   *)
(* tab left open over midnight has written (getCurrentStreak).             *)
THEOREM StreakRight == ProgressSpec => []StreakCountsDays
<1>1. ASSUME ProgressInv PROVE StreakCountsDays
  <2>1. SUFFICES ASSUME used # {}, "overnight" \notin excuse
                 PROVE  Counts(store.lastDate, store.streak, used)
    BY DEF StreakCountsDays, Counts, Row
  <2> QED
    BY <1>1, <2>1 DEF ProgressInv, StreaksRight
<1> QED
  BY <1>1, ProgressInvariant, PTL

-----------------------------------------------------------------------------
(* The application.                                                        *)
NavOK ==
    /\ nav \in [screen : Screens, checked : BOOLEAN, subtopic : DOMAIN Track,
                page : Nat \ {0}, back : Screens, shown : 0..WorkedSteps]
    /\ ~nav.checked => nav.screen \notin {"lesson", "profile"}

(* A lesson is in step whether or not the tab still shows it.              *)
InLesson == nav.screen = "lesson" \/ (nav.screen = "profile" /\ nav.back = "lesson")
Step ==
    Open(Me) /\ InLesson =>
        /\ nav.page \in DOMAIN currentLessonTrack
        /\ cur \in Mine.visited
Credit ==
    Open(Me) /\ nav.screen = "lesson" /\ cur = WorkedPage =>
        (nav.shown = WorkedSteps <=> Mine.workedDone)

LessonInv == NavOK /\ Step /\ Credit

LEMMA TrackFacts ==
    /\ "g41" \in DOMAIN Track /\ Me \in Tabs /\ WorkedSteps \in Nat \ {0}
    /\ \A s \in DOMAIN Track :
          /\ Track[s] \in Seq(Pages) /\ Len(Track[s]) \in Nat /\ 1 <= Len(Track[s])
          /\ \A n \in 1..Len(Track[s]) : n \in DOMAIN Track[s] /\ Track[s][n] \in Pages
<1>1. "g41" \in DOMAIN Track /\ Me \in Tabs /\ WorkedSteps \in Nat \ {0}
  BY AppAssumption
<1>2. ASSUME NEW s \in DOMAIN Track PROVE Track[s] \in Seq(Pages) /\ Len(Track[s]) > 0
  BY AppAssumption DEF TracksFit
<1>3. ASSUME NEW q \in Seq(Pages), Len(q) > 0
      PROVE  /\ Len(q) \in Nat /\ 1 <= Len(q)
             /\ \A n \in 1..Len(q) : n \in DOMAIN q /\ q[n] \in Pages
  BY <1>3
<1> QED
  BY <1>1, <1>2, <1>3

(* What the steps of a tab leave of another tab's record.                  *)
LEMMA OthersApart ==
    ASSUME ProgressInv, NEW t \in Tabs \ {Me},
           \/ Mount(t) \/ FirstSave(t) \/ completeWorked(t) \/ Unmount(t)
           \/ \E q \in Questions, a \in {"wrong", "ok"} : answer(t, q, a)
           \/ \E page \in Pages : markVisited(t, page)
    PROVE  mem'[Me] = mem[Me]
BY TrackFacts DEF ProgressInv, ProgressTypeOK, Mount, FirstSave, completeWorked, Unmount,
   answer, markVisited, Change, Save

(* To the progress record the application does what LessonProgress allows. *)
LEMMA AppStep ==
    ASSUME NavOK, AppNext PROVE [ProgressNext]_progressVars
<1>1. CASE Life
  BY <1>1, TrackFacts DEF Life, Boot, SaveOnMount, RestoreSession, CloseTab, ProgressNext,
        progressVars
<1>2. CASE LessonSteps
  <2>1. ASSUME NEW s \in DOMAIN Track, openSubtopic(s) PROVE ProgressNext
    BY <2>1, TrackFacts DEF openSubtopic, ProgressNext
  <2>2. ASSUME NEW i \in 0..Len(currentLessonTrack) + 1, gotoLesson(i) PROVE ProgressNext
    <3> DEFINE n == IF i < 1 THEN 1
                    ELSE IF i > Len(currentLessonTrack) THEN Len(currentLessonTrack) ELSE i
    <3>1. nav.subtopic \in DOMAIN Track
      BY DEF NavOK
    <3>2. n \in 1..Len(currentLessonTrack)
      BY <3>1, TrackFacts DEF currentLessonTrack
    <3>3. currentLessonTrack[n] \in Pages
      BY <3>1, <3>2, TrackFacts DEF currentLessonTrack
    <3>4. markVisited(Me, currentLessonTrack[n])
      BY <2>2 DEF gotoLesson
    <3> HIDE DEF n
    <3> QED
      BY <3>3, <3>4, TrackFacts DEF ProgressNext
  <2>3. CASE AnswerQuestion
    BY <2>3, TrackFacts DEF AnswerQuestion, ProgressNext
  <2>4. CASE NextStep
    BY <2>4, TrackFacts DEF NextStep, ProgressNext
  <2>5. CASE Enter \/ OpenSubject \/ openTopic \/ BackButton \/ FinishTopic
    BY <2>5 DEF Enter, OpenSubject, openTopic, BackButton, FinishTopic, GoOnly
  <2> QED
    BY <1>2, <2>1, <2>2, <2>3, <2>4, <2>5 DEF LessonSteps
<1>3. CASE ProfileVisit
  BY <1>3 DEF ProfileVisit, openProfile, LeaveProfile, handleLogout, LogoutAnswered
<1>4. CASE ProfileSteps
  BY <1>4 DEF ProfileSteps, startEdit, CancelEdit, saveProfile, removePhoto, EditDraft,
        PickPhoto, PhotoReady, PhotoFails
<1>5. CASE OtherTabs
  BY <1>5 DEF OtherTabs, ProgressNext
<1>6. CASE OtherProfile
  BY <1>6 DEF OtherProfile, ProgressNext
<1> QED
  BY <1>1, <1>2, <1>3, <1>4, <1>5, <1>6 DEF AppNext

(* The application keeps the promises of its progress record.              *)
LEMMA InitApp == AppInit => ProgressInit /\ LessonInv
<1>1. SUFFICES ASSUME AppInit PROVE LessonInv
  BY DEF AppInit
<1>2. nav = Start /\ Start.screen = "awaken" /\ NavOK
  BY <1>1, TrackFacts DEF AppInit, Start, NavOK, Screens
<1> QED
  BY <1>2 DEF LessonInv, Step, Credit, InLesson

(* A step after which the student is in no lesson.                         *)
LEMMA NoLesson ==
    ASSUME NavOK', nav'.screen \notin {"lesson", "profile"}
    PROVE  LessonInv'
BY DEF LessonInv, Step, Credit, InLesson

(* A step that leaves the place and the record of this tab as they are.    *)
LEMMA SamePlace ==
    ASSUME LessonInv, UNCHANGED nav, mem'[Me].progress = mem[Me].progress, Open(Me)' => Open(Me)
    PROVE  LessonInv'
BY DEF LessonInv, NavOK, Step, Credit, InLesson, cur, currentLessonTrack, Mine, Open

LEMMA MineAfter ==
    ASSUME ProgressTypeOK, NEW p \in Progress, Change(Me, p)
    PROVE  Mine' = p /\ Open(Me) /\ Open(Me)'
BY TrackFacts DEF ProgressTypeOK, Change, Save, Mine, Open

LEMMA MineTyped ==
    ASSUME ProgressTypeOK
    PROVE  /\ Mine \in Progress /\ Mine.visited \subseteq Pages /\ Mine.workedDone \in BOOLEAN
           /\ FirstShown \in 0..WorkedSteps
           /\ FirstShown = WorkedSteps <=> Mine.workedDone
BY TrackFacts DEF ProgressTypeOK, Mine, Progress, FirstShown

LEMMA LifeLesson == ASSUME ProgressInv, LessonInv, Life PROVE LessonInv'
<1>1. CASE Boot \/ CloseTab
  <2>1. nav' = Start
    BY <1>1 DEF Boot, CloseTab
  <2>2. NavOK' /\ nav'.screen = "awaken"
    BY <2>1, TrackFacts DEF Start, NavOK, Screens
  <2> QED
    BY <2>2, NoLesson
<1>2. CASE SaveOnMount
  <2>1. mem'[Me].progress = mem[Me].progress /\ (Open(Me)' => Open(Me))
    BY <1>2, TrackFacts DEF SaveOnMount, FirstSave, Save, Open, ProgressInv, ProgressTypeOK
  <2>2. CASE UNCHANGED nav
    BY <2>1, <2>2, SamePlace
  <2>3. CASE nav' = [nav EXCEPT !.screen = "blank"]
    <3>1. NavOK' /\ nav'.screen = "blank"
      BY <2>3 DEF LessonInv, NavOK, Screens
    <3> QED
      BY <3>1, NoLesson
  <2> QED
    BY <1>2, <2>2, <2>3 DEF SaveOnMount, SetProfile
<1>3. CASE RestoreSession
  <2>1. PICK user \in BOOLEAN :
          nav' = [nav EXCEPT !.checked = TRUE, !.screen = IF user THEN "home" ELSE @]
    BY <1>3 DEF RestoreSession
  <2>2. nav'.screen \notin {"lesson", "profile"} /\ NavOK'
    BY <1>3, <2>1 DEF LessonInv, NavOK, Screens, RestoreSession
  <2> QED
    BY <2>2, NoLesson
<1> QED
  BY <1>1, <1>2, <1>3 DEF Life

LEMMA GoLesson ==
    ASSUME LessonInv, NEW from, NEW to \in {"home", "subject", "subtopics"}, GoOnly(from, to)
    PROVE  LessonInv'
<1>1. nav' = [nav EXCEPT !.screen = to]
  BY DEF GoOnly
<1>2. nav'.screen = to /\ NavOK'
  BY <1>1 DEF LessonInv, NavOK, Screens
<1> QED
  BY <1>2, NoLesson

(* Turning to page n of a track.                                           *)
LEMMA TurnTo ==
    ASSUME ProgressTypeOK, LessonInv, NEW s \in DOMAIN Track, NEW n \in 1..Len(Track[s]),
           markVisited(Me, Track[s][n]), nav' \in [screen : Screens, checked : BOOLEAN,
                subtopic : DOMAIN Track, page : Nat \ {0}, back : Screens, shown : 0..WorkedSteps],
           nav'.checked, nav'.screen = "lesson", nav'.subtopic = s, nav'.page = n,
           Track[s][n] = WorkedPage => (nav'.shown = WorkedSteps <=> Mine.workedDone)
    PROVE  LessonInv'
<1> DEFINE p == [mem[Me].progress EXCEPT !.visited = @ \cup {Track[s][n]}]
<1>1. Track[s][n] \in Pages /\ n \in DOMAIN Track[s]
  BY TrackFacts
<1>2. mem[Me].progress \in Progress
  BY TrackFacts DEF ProgressTypeOK
<1>3. p \in Progress /\ Track[s][n] \in p.visited /\ p.workedDone = Mine.workedDone
  BY <1>1, <1>2 DEF Progress, Mine
<1>4. Change(Me, p)
  BY DEF markVisited
<1> HIDE DEF p
<1>5. Mine' = p
  BY <1>3, <1>4, MineAfter
<1>6. cur' = Track[s][n] /\ (currentLessonTrack)' = Track[s]
  BY DEF cur, currentLessonTrack
<1> QED
  BY <1>1, <1>3, <1>5, <1>6 DEF LessonInv, NavOK, Step, Credit

LEMMA OpenSubtopicLesson ==
    ASSUME ProgressInv, LessonInv, NEW s \in DOMAIN Track, openSubtopic(s) PROVE LessonInv'
<1>1. /\ nav' = [nav EXCEPT !.screen = "lesson", !.subtopic = s, !.page = 1,
                            !.shown = FirstShown]
      /\ nav.checked /\ markVisited(Me, Track[s][1])
  BY DEF openSubtopic, On
<1>2. ProgressTypeOK /\ 1 \in 1..Len(Track[s])
  BY TrackFacts DEF ProgressInv
<1>3. /\ nav' \in [screen : Screens, checked : BOOLEAN, subtopic : DOMAIN Track,
                   page : Nat \ {0}, back : Screens, shown : 0..WorkedSteps]
      /\ nav'.checked /\ nav'.screen = "lesson" /\ nav'.subtopic = s /\ nav'.page = 1
      /\ nav'.shown = FirstShown
  <2>1. FirstShown \in 0..WorkedSteps /\ "lesson" \in Screens /\ 1 \in Nat \ {0}
    BY <1>2, MineTyped DEF Screens
  <2>2. nav \in [screen : Screens, checked : BOOLEAN, subtopic : DOMAIN Track,
                 page : Nat \ {0}, back : Screens, shown : 0..WorkedSteps]
    BY DEF LessonInv, NavOK
  <2> QED
    BY <1>1, <2>1, <2>2
<1> QED
  BY <1>1, <1>2, <1>3, MineTyped, TurnTo

LEMMA GotoLesson ==
    ASSUME ProgressInv, LessonInv, NEW i \in 0..Len(currentLessonTrack) + 1, gotoLesson(i)
    PROVE  LessonInv'
<1> DEFINE n == IF i < 1 THEN 1
                ELSE IF i > Len(currentLessonTrack) THEN Len(currentLessonTrack) ELSE i
           s == nav.subtopic
<1>1. /\ Open(Me) /\ nav.checked /\ nav.screen = "lesson"
      /\ markVisited(Me, currentLessonTrack[n])
      /\ nav' = [nav EXCEPT !.page = n, !.shown = IF n = nav.page THEN @ ELSE FirstShown]
  BY DEF gotoLesson, On
<1>2. s \in DOMAIN Track /\ currentLessonTrack = Track[s]
  BY DEF LessonInv, NavOK, currentLessonTrack
<1>3. ProgressTypeOK /\ n \in 1..Len(Track[s])
  BY <1>2, TrackFacts DEF ProgressInv
<1> HIDE DEF n
<1>4. /\ nav' \in [screen : Screens, checked : BOOLEAN, subtopic : DOMAIN Track,
                   page : Nat \ {0}, back : Screens, shown : 0..WorkedSteps]
      /\ nav'.checked /\ nav'.screen = "lesson" /\ nav'.subtopic = s /\ nav'.page = n
      /\ nav'.shown = IF n = nav.page THEN nav.shown ELSE FirstShown
  <2>1. FirstShown \in 0..WorkedSteps /\ n \in Nat \ {0}
    BY <1>2, <1>3, MineTyped, TrackFacts
  <2>2. nav \in [screen : Screens, checked : BOOLEAN, subtopic : DOMAIN Track,
                 page : Nat \ {0}, back : Screens, shown : 0..WorkedSteps]
    BY DEF LessonInv, NavOK
  <2> QED
    BY <1>1, <2>1, <2>2
<1>5. Track[s][n] = WorkedPage => (nav'.shown = WorkedSteps <=> Mine.workedDone)
  <2>1. CASE n = nav.page
    <3>1. cur = Track[s][n]
      BY <1>2, <2>1 DEF cur
    <3> QED
      BY <1>1, <1>4, <2>1, <3>1 DEF LessonInv, Credit
  <2>2. CASE n # nav.page
    BY <1>3, <1>4, <2>2, MineTyped
  <2> QED
    BY <2>1, <2>2
<1> QED
  BY <1>1, <1>2, <1>3, <1>4, <1>5, TurnTo

LEMMA AnswerLesson == ASSUME ProgressInv, LessonInv, AnswerQuestion PROVE LessonInv'
<1>1. PICK q \in Questions, a \in {"wrong", "ok"} : answer(Me, q, a)
  BY DEF AnswerQuestion
<1> DEFINE p == [mem[Me].progress EXCEPT !.answers[q] = a]
<1>2. mem[Me].progress \in Progress /\ ProgressTypeOK
  BY TrackFacts DEF ProgressInv, ProgressTypeOK
<1>3. p \in Progress /\ p.visited = Mine.visited /\ p.workedDone = Mine.workedDone
  BY <1>1, <1>2 DEF Progress, Mine
<1>4. Change(Me, p)
  BY <1>1 DEF answer
<1> HIDE DEF p
<1>5. Mine' = p /\ Open(Me) /\ nav' = nav
  BY <1>2, <1>3, <1>4, MineAfter DEF AnswerQuestion, navVars
<1> QED
  BY <1>3, <1>5 DEF LessonInv, NavOK, Step, Credit, InLesson, cur, currentLessonTrack

LEMMA NextStepLesson == ASSUME ProgressInv, LessonInv, NextStep PROVE LessonInv'
<1>1. /\ Open(Me) /\ nav.checked /\ nav.screen = "lesson" /\ cur = WorkedPage
      /\ nav' = [nav EXCEPT !.shown = @ + 1] /\ nav.shown < WorkedSteps
      /\ nav.shown \in Nat /\ WorkedSteps \in Nat
  BY TrackFacts DEF NextStep, OnPage, On, LessonInv, NavOK
<1>2. NavOK' /\ nav'.shown = nav.shown + 1
  <2>1. nav.shown + 1 \in 0..WorkedSteps
    BY <1>1
  <2> QED
    BY <1>1, <2>1 DEF LessonInv, NavOK
<1>3. cur' = cur /\ (currentLessonTrack)' = currentLessonTrack /\ nav'.page = nav.page
  BY <1>1 DEF LessonInv, NavOK, cur, currentLessonTrack
<1>4. ~Mine.workedDone
  BY <1>1 DEF LessonInv, Credit
<1>5. nav.page \in DOMAIN currentLessonTrack /\ cur \in Mine.visited
  BY <1>1 DEF LessonInv, Step, InLesson
<1>6. CASE nav'.shown = WorkedSteps
  <2> DEFINE p == [mem[Me].progress EXCEPT !.workedDone = TRUE]
  <2>1. Change(Me, p) /\ ProgressTypeOK
    BY <1>4, <1>6 DEF NextStep, completeWorked, ProgressInv, Mine
  <2>2. p \in Progress /\ p.visited = Mine.visited /\ p.workedDone
    BY TrackFacts DEF ProgressInv, ProgressTypeOK, Progress, Mine
  <2> HIDE DEF p
  <2>3. Mine' = p
    BY <2>1, <2>2, MineAfter
  <2> QED
    BY <1>2, <1>3, <1>5, <1>6, <2>2, <2>3 DEF LessonInv, Step, Credit
<1>7. CASE nav'.shown # WorkedSteps
  <2>1. Mine' = Mine
    BY <1>7 DEF NextStep, progressVars, Mine
  <2> QED
    BY <1>2, <1>3, <1>4, <1>5, <1>7, <2>1 DEF LessonInv, Step, Credit
<1> QED
  BY <1>6, <1>7

LEMMA LessonLesson == ASSUME ProgressInv, LessonInv, LessonSteps PROVE LessonInv'
BY GoLesson, OpenSubtopicLesson, GotoLesson, AnswerLesson, NextStepLesson
   DEF LessonSteps, Enter, OpenSubject, openTopic, BackButton, FinishTopic

LEMMA VisitLesson == ASSUME ProgressInv, LessonInv, ProfileVisit PROVE LessonInv'
<1>1. mem' = mem /\ Mine' = Mine /\ (Open(Me)' <=> Open(Me))
  BY DEF ProfileVisit, openProfile, LeaveProfile, handleLogout, LogoutAnswered, progressVars,
         Mine, Open
<1>2. CASE openProfile
  <2>1. /\ nav.checked /\ nav' = [nav EXCEPT !.screen = "profile", !.back = nav.screen]
        /\ nav.screen # "profile"
    BY <1>2 DEF openProfile, On
  <2>2. NavOK' /\ nav'.screen = "profile" /\ nav'.back = nav.screen /\ nav'.page = nav.page
        /\ cur' = cur /\ (currentLessonTrack)' = currentLessonTrack
    BY <2>1 DEF LessonInv, NavOK, Screens, cur, currentLessonTrack
  <2> QED
    BY <1>1, <2>1, <2>2 DEF LessonInv, Step, Credit, InLesson
<1>3. CASE LeaveProfile
  <2>1. /\ nav.checked /\ nav.screen = "profile"
        /\ nav' = [nav EXCEPT !.screen = nav.back, !.shown = FirstShown]
    BY <1>3 DEF LeaveProfile, On
  <2>2. FirstShown \in 0..WorkedSteps /\ (FirstShown = WorkedSteps <=> Mine.workedDone)
    BY MineTyped DEF ProgressInv
  <2>3. /\ NavOK' /\ nav'.screen = nav.back /\ nav'.back = nav.back /\ nav'.page = nav.page
        /\ nav'.shown = FirstShown
        /\ cur' = cur /\ (currentLessonTrack)' = currentLessonTrack
    BY <2>1, <2>2 DEF LessonInv, NavOK, Screens, cur, currentLessonTrack
  <2> QED
    BY <1>1, <2>1, <2>2, <2>3 DEF LessonInv, Step, Credit, InLesson
<1>4. CASE handleLogout
  BY <1>1, <1>4, SamePlace DEF handleLogout
<1>5. CASE LogoutAnswered
  <2>1. nav' = [nav EXCEPT !.screen = IF @ = "blank" THEN @ ELSE "home"]
    BY <1>5 DEF LogoutAnswered
  <2>2. NavOK' /\ nav'.screen \in {"blank", "home"}
    BY <2>1 DEF LessonInv, NavOK, Screens
  <2> QED
    BY <2>2, NoLesson
<1> QED
  BY <1>2, <1>3, <1>4, <1>5 DEF ProfileVisit

LEMMA ProfileLesson == ASSUME ProgressInv, LessonInv, ProfileSteps PROVE LessonInv'
<1>1. mem' = mem
  BY DEF ProfileSteps, startEdit, CancelEdit, saveProfile, removePhoto, EditDraft, PickPhoto,
         PhotoReady, PhotoFails, progressVars
<1>2. nav' = nav \/ nav' = [nav EXCEPT !.screen = "blank"]
  BY DEF ProfileSteps, startEdit, CancelEdit, saveProfile, removePhoto, EditDraft, PickPhoto,
         PhotoReady, PhotoFails, SetProfile, navVars
<1>3. CASE nav' = nav
  BY <1>1, <1>3, SamePlace DEF Open
<1>4. CASE nav' = [nav EXCEPT !.screen = "blank"]
  <2>1. NavOK' /\ nav'.screen = "blank"
    BY <1>4 DEF LessonInv, NavOK, Screens
  <2> QED
    BY <2>1, NoLesson
<1> QED
  BY <1>2, <1>3, <1>4

LEMMA OthersStay ==
    ASSUME ProgressInv, OtherTabs \/ OtherProfile PROVE mem'[Me] = mem[Me] /\ UNCHANGED nav
<1>1. CASE Midnight
  BY <1>1 DEF Midnight, OtherTabs, OtherProfile, navVars
<1>2. CASE UNCHANGED progressVars
  BY <1>2 DEF progressVars, OtherTabs, OtherProfile, navVars
<1>3. CASE ~Midnight /\ ~UNCHANGED progressVars
  BY <1>3, OthersApart DEF OtherTabs, OtherProfile, navVars
<1> QED
  BY <1>1, <1>2, <1>3

LEMMA OthersLesson ==
    ASSUME ProgressInv, LessonInv, OtherTabs \/ OtherProfile PROVE LessonInv'
BY OthersStay, SamePlace DEF Open

LEMMA AppInvariant == AppSpec => []ProgressInv /\ []LessonInv
<1>1. ASSUME ProgressInv, LessonInv, [AppNext]_vars PROVE ProgressInv' /\ LessonInv'
  <2>1. CASE AppNext
    <3>1. [ProgressNext]_progressVars
      BY <1>1, <2>1, AppStep DEF LessonInv
    <3>2. ProgressInv'
      BY <1>1, <3>1, ProgressStep
    <3>3. LessonInv'
      BY <1>1, <2>1, LifeLesson, LessonLesson, VisitLesson, ProfileLesson, OthersLesson
         DEF AppNext
    <3> QED
      BY <3>2, <3>3
  <2>2. CASE UNCHANGED vars
    <3>1. UNCHANGED progressVars /\ UNCHANGED nav
      BY <2>2 DEF vars, navVars
    <3>2. mem' = mem
      BY <3>1 DEF progressVars
    <3> QED
      BY <1>1, <3>1, <3>2, StutterProgress, SamePlace DEF Open
  <2> QED
    BY <1>1, <2>1, <2>2
<1>2. AppInit => ProgressInv /\ LessonInv
  BY InitApp, InitProgress
<1> QED
  BY <1>1, <1>2, PTL DEF AppSpec

(* To its progress record the application does only what LessonProgress    *)
(* describes: whatever App.tsx, the quiz and the worked solution do goes   *)
(* through the functions of useLessonProgress.ts.                          *)
THEOREM AppKeepsRecord == AppSpec => ProgressSpec
<1>1. AppInit => ProgressInit
  BY DEF AppInit
<1>2. ASSUME LessonInv, [AppNext]_vars PROVE [ProgressNext]_progressVars
  <2>1. CASE UNCHANGED vars
    BY <2>1 DEF vars
  <2> QED
    BY <1>2, <2>1, AppStep DEF LessonInv
<1> QED
  BY <1>1, <1>2, AppInvariant, PTL DEF AppSpec, ProgressSpec

(* Whichever way led to a lesson, the page is one of its track and counts  *)
(* as visited (openSubtopic and gotoLesson, App.tsx).                      *)
THEOREM LessonsInStep == AppSpec => []LessonInStep
<1>1. LessonInv => LessonInStep
  BY DEF LessonInv, Step, InLesson, LessonInStep, On
<1> QED
  BY <1>1, AppInvariant, PTL

(* The worked solution says "+20 XP" exactly when they have been credited  *)
(* (WorkedSolution, Practice.tsx).                                         *)
THEOREM RevealedCredited == AppSpec => []RevealedIsCredited
<1>1. LessonInv => RevealedIsCredited
  BY DEF LessonInv, Credit, RevealedIsCredited, OnPage, On
<1> QED
  BY <1>1, AppInvariant, PTL

-----------------------------------------------------------------------------
(* The profile.  While no photo has come too late, the tab shows what was  *)
(* wished, and an open form has the photo shown; while nothing has slipped *)
(* at all, that is what is stored.                                         *)
Jobs == [profile : Profile, photo : Photos, here : BOOLEAN]
PageState == [profile : Profile, editing : BOOLEAN, draft : Profile]
ProfileTyped ==
    prof \in PageState /\ savedProfile \in Profile /\ wish \in Profile /\ jobs \subseteq Jobs
InTime == slip \cap {"stale", "late"} = {}
AsWished ==
    /\ Open(Me) /\ InTime =>
          /\ prof.profile = wish
          /\ prof.editing => prof.draft.photo = prof.profile.photo
    /\ slip = {} => savedProfile = wish
ProfileInv == ProfileTyped /\ AsWished

LEMMA FreshPage ==
    ASSUME NEW p \in Profile
    PROVE  /\ ProfilePageOf(p) \in PageState
           /\ ProfilePageOf(p).profile = p /\ ~ProfilePageOf(p).editing
BY DEF ProfilePageOf, PageState

(* A profile that is set and has not slipped is stored; other tabs' writes *)
(* are the only slip that setting it undoes.                               *)
LEMMA SetStores ==
    ASSUME NavOK, NEW p \in Profile, NEW X, SetProfile(p), slip' = Written \cup X,
           savedProfile \in Profile
    PROVE  /\ savedProfile' \in Profile
           /\ slip' = {} => savedProfile' = p
           /\ InTime' => InTime /\ X \cap {"stale", "late"} = {}
<1>1. InTime' => InTime /\ X \cap {"stale", "late"} = {}
  BY DEF Written, InTime
<1>2. CASE nav' = [nav EXCEPT !.screen = "blank"] /\ UNCHANGED savedProfile
  <2>1. nav'.screen = "blank"
    BY <1>2 DEF NavOK
  <2>2. "full" \in slip'
    BY <2>1 DEF Written
  <2> QED
    BY <1>1, <1>2, <2>2
<1>3. CASE savedProfile' = p /\ UNCHANGED nav
  BY <1>1, <1>3
<1> QED
  BY <1>2, <1>3 DEF SetProfile

(* The tab sets profile p, which is what was wished if nothing was late.   *)
LEMMA SetWished ==
    ASSUME ProfileInv, NavOK, NEW p \in Profile, NEW X \in SUBSET {"stale", "late"},
           SetProfile(p), slip' = Written \cup X, jobs' \subseteq Jobs, Open(Me)',
           prof' \in PageState, prof'.profile = p, wish' \in Profile,
           InTime /\ X = {} => wish' = p /\ (prof'.editing => prof'.draft.photo = p.photo)
    PROVE  ProfileInv'
<1>1. /\ savedProfile' \in Profile
      /\ slip' = {} => savedProfile' = p
      /\ InTime' => InTime /\ X = {}
  BY SetStores DEF ProfileInv, ProfileTyped
<1>2. slip' = {} => InTime'
  BY DEF InTime
<1> QED
  BY <1>1, <1>2 DEF ProfileInv, ProfileTyped, AsWished

LEMMA InitProfile == AppInit => ProfileInv
<1>1. SUFFICES ASSUME AppInit PROVE ProfileInv
  OBVIOUS
<1>2. savedProfile \in Profile /\ wish = savedProfile /\ jobs = {}
      /\ prof = ProfilePageOf(savedProfile)
  BY <1>1, AppAssumption DEF AppInit, Profile
<1> QED
  BY <1>2, FreshPage DEF ProfileInv, ProfileTyped, AsWished

(* The page is mounted anew with the profile shown.                        *)
LEMMA NewPage ==
    ASSUME ProfileInv, prof' = ProfilePageOf(prof.profile), jobs' \subseteq Jobs,
           Open(Me), UNCHANGED <<savedProfile, wish, slip>>
    PROVE  ProfileInv'
<1>1. prof.profile \in Profile
  BY DEF ProfileInv, ProfileTyped, PageState
<1> QED
  BY <1>1, FreshPage DEF ProfileInv, ProfileTyped, AsWished, InTime

(* The tab is loaded, with the profile stored, or closed.                  *)
LEMMA LoadStep == ASSUME ProgressInv, ProfileInv, Boot \/ CloseTab PROVE ProfileInv'
<1>1. savedProfile \in Profile /\ UNCHANGED savedProfile /\ jobs' = {}
      /\ prof' = ProfilePageOf(savedProfile)
  BY DEF ProfileInv, ProfileTyped, Boot, CloseTab
<1>2. ProfileTyped'
  BY <1>1, FreshPage DEF ProfileInv, ProfileTyped, Boot, CloseTab
<1>3. CASE Boot
  <2>1. slip' = {} /\ wish' = savedProfile
    BY <1>3 DEF Boot, ProfileInv, AsWished
  <2> QED
    BY <1>1, <1>2, <2>1, FreshPage DEF ProfileInv, AsWished
<1>4. CASE CloseTab
  <2>1. ~Open(Me)'
    BY <1>4, TrackFacts DEF CloseTab, Unmount, Open, Closed, ProgressInv, ProgressTypeOK
  <2> QED
    BY <1>2, <1>4, <2>1 DEF CloseTab, ProfileInv, AsWished
<1> QED
  BY <1>3, <1>4

LEMMA SaveMountStep ==
    ASSUME ProgressInv, NavOK, ProfileInv, SaveOnMount PROVE ProfileInv'
<1>1. /\ SetProfile(prof.profile) /\ slip' = Written \cup {} /\ UNCHANGED <<prof, jobs, wish>>
      /\ prof \in PageState /\ prof.profile \in Profile /\ wish \in Profile /\ jobs \subseteq Jobs
  BY DEF SaveOnMount, ProfileInv, ProfileTyped, PageState
<1>2. Open(Me)' <=> Open(Me)
  BY TrackFacts DEF SaveOnMount, FirstSave, Save, Open, ProgressInv, ProgressTypeOK
<1>3. Open(Me)
  BY TrackFacts DEF SaveOnMount, FirstSave, ProgressInv, UnsavedOpen
<1>4. InTime => wish' = prof.profile /\ (prof'.editing => prof'.draft.photo = prof.profile.photo)
  BY <1>1, <1>3 DEF ProfileInv, AsWished
<1> QED
  BY <1>1, <1>2, <1>3, <1>4, SetWished

LEMMA SaveProfileForm == ASSUME NavOK, ProfileInv, saveProfile PROVE ProfileInv'
<1>1. /\ prof.draft \in Profile /\ prof \in PageState /\ wish \in Profile
      /\ Open(Me) /\ Open(Me)' /\ prof.editing /\ jobs \subseteq Jobs
  BY DEF saveProfile, On, ProfileInv, ProfileTyped, PageState, progressVars, Open
<1>2. /\ SetProfile(prof.draft) /\ slip' = Written \cup {} /\ jobs' = jobs
      /\ prof' = [prof EXCEPT !.profile = prof.draft, !.editing = FALSE]
      /\ wish' = [wish EXCEPT !.text = prof.draft.text]
  BY DEF saveProfile
<1>3. prof' \in PageState /\ prof'.profile = prof.draft /\ ~prof'.editing
  BY <1>1, <1>2 DEF PageState
<1>4. wish' \in Profile /\ wish'.text = prof.draft.text /\ wish'.photo = wish.photo
  BY <1>1, <1>2 DEF Profile
<1>5. InTime => wish' = prof.draft
  <2>1. InTime => wish'.photo = prof.draft.photo
    BY <1>1, <1>4 DEF ProfileInv, AsWished
  <2> QED
    BY <1>1, <1>4, <2>1 DEF Profile
<1> QED
  BY <1>1, <1>2, <1>3, <1>4, <1>5, SetWished

LEMMA RemovePhoto == ASSUME NavOK, ProfileInv, removePhoto PROVE ProfileInv'
<1> DEFINE p == [prof.profile EXCEPT !.photo = NoPhoto]
<1>1. /\ prof \in PageState /\ prof.profile \in Profile /\ wish \in Profile
      /\ Open(Me) /\ Open(Me)' /\ jobs \subseteq Jobs /\ NoPhoto \in Photos \cup {NoPhoto}
  BY DEF removePhoto, On, ProfileInv, ProfileTyped, PageState, progressVars, Open
<1>2. /\ SetProfile(p) /\ slip' = Written \cup {} /\ jobs' = jobs
      /\ prof' = [prof EXCEPT !.profile.photo = NoPhoto, !.draft.photo = NoPhoto]
      /\ wish' = [wish EXCEPT !.photo = NoPhoto]
  BY DEF removePhoto
<1>3. p \in Profile /\ p.photo = NoPhoto
  BY <1>1 DEF Profile
<1>4. prof' \in PageState /\ prof'.profile = p /\ prof'.draft.photo = NoPhoto
  BY <1>1, <1>2 DEF PageState, Profile
<1>5. wish' \in Profile /\ (wish = prof.profile => wish' = p)
  BY <1>1, <1>2 DEF Profile
<1>6. InTime => wish' = p
  BY <1>1, <1>5 DEF ProfileInv, AsWished
<1> HIDE DEF p
<1> QED
  BY <1>1, <1>2, <1>3, <1>4, <1>5, <1>6, SetWished

LEMMA PhotoComes == ASSUME NavOK, ProfileInv, NEW j \in jobs, PhotoReady(j) PROVE ProfileInv'
<1> DEFINE p == [j.profile EXCEPT !.photo = j.photo]
           X == {x \in {"stale"} : j.profile.text # prof.profile.text}
                   \cup {x \in {"late"} : ~j.here /\ prof.editing}
<1>1. /\ prof \in PageState /\ prof.profile \in Profile /\ wish \in Profile
      /\ j \in Jobs /\ j.profile \in Profile /\ j.photo \in Photos
      /\ Open(Me) /\ Open(Me)' /\ jobs \subseteq Jobs
  BY DEF PhotoReady, ProfileInv, ProfileTyped, PageState, Jobs, progressVars, Open
<1>2. /\ SetProfile(p) /\ slip' = Written \cup X /\ jobs' \subseteq jobs
      /\ prof' = [prof EXCEPT !.profile = p, !.draft.photo = IF j.here THEN j.photo ELSE @]
      /\ wish' = [wish EXCEPT !.photo = j.photo]
  BY DEF PhotoReady
<1>3. p \in Profile /\ p.photo = j.photo /\ p.text = j.profile.text
  BY <1>1 DEF Profile
<1>4. wish' \in Profile /\ wish'.photo = j.photo /\ wish'.text = wish.text
  BY <1>1, <1>2 DEF Profile
<1>5. X \in SUBSET {"stale", "late"}
  OBVIOUS
<1>6. X = {} => j.profile.text = prof.profile.text /\ (j.here \/ ~prof.editing)
  OBVIOUS
<1> HIDE DEF p, X
<1>7. /\ prof' \in PageState /\ prof'.profile = p /\ prof'.editing = prof.editing
      /\ j.here => prof'.draft.photo = j.photo
  BY <1>1, <1>2, <1>3 DEF PageState, Profile
<1>8. InTime /\ X = {} => wish' = p
  <2>1. InTime /\ X = {} => wish.text = p.text
    BY <1>1, <1>3, <1>6 DEF ProfileInv, AsWished
  <2> QED
    BY <1>3, <1>4, <2>1 DEF Profile
<1>9. X = {} => (prof'.editing => prof'.draft.photo = p.photo)
  BY <1>3, <1>6, <1>7
<1> QED
  BY <1>1, <1>2, <1>3, <1>4, <1>5, <1>7, <1>8, <1>9, SetWished

LEMMA FormStep ==
    ASSUME ProfileInv,
           startEdit \/ CancelEdit \/ (\E text \in Texts : EditDraft(text))
    PROVE  ProfileInv'
<1>1. prof \in PageState /\ UNCHANGED <<savedProfile, jobs, wish, slip>> /\ Open(Me)
  BY DEF ProfileInv, ProfileTyped, startEdit, CancelEdit, EditDraft, On
<1>2. CASE startEdit
  <2>1. prof' = [prof EXCEPT !.editing = TRUE, !.draft = prof.profile]
    BY <1>2 DEF startEdit
  <2>2. prof' \in PageState /\ prof'.profile = prof.profile /\ prof'.draft = prof.profile
    BY <1>1, <2>1 DEF PageState
  <2> QED
    BY <1>1, <2>2 DEF ProfileInv, ProfileTyped, AsWished, InTime
<1>3. CASE CancelEdit
  <2>1. prof' = [prof EXCEPT !.editing = FALSE]
    BY <1>3 DEF CancelEdit
  <2>2. prof' \in PageState /\ prof'.profile = prof.profile /\ ~prof'.editing
    BY <1>1, <2>1 DEF PageState
  <2> QED
    BY <1>1, <2>2 DEF ProfileInv, ProfileTyped, AsWished, InTime
<1>4. ASSUME NEW text \in Texts, EditDraft(text) PROVE ProfileInv'
  <2>1. prof' = [prof EXCEPT !.draft.text = text]
    BY <1>4 DEF EditDraft
  <2>2. /\ prof' \in PageState /\ prof'.profile = prof.profile /\ prof'.editing = prof.editing
        /\ prof'.draft.photo = prof.draft.photo
    BY <1>1, <2>1 DEF PageState, Profile
  <2> QED
    BY <1>1, <2>2 DEF ProfileInv, ProfileTyped, AsWished, InTime
<1> QED
  BY <1>2, <1>3, <1>4

LEMMA JobStep ==
    ASSUME ProfileInv,
           \/ \E photo \in Photos : PickPhoto(photo)
           \/ \E j \in jobs : PhotoFails(j)
    PROVE  ProfileInv'
<1>1. UNCHANGED <<prof, savedProfile, wish, slip>> /\ (Open(Me)' <=> Open(Me))
  BY DEF PickPhoto, PhotoFails, progressVars, Open
<1>2. jobs' \subseteq Jobs
  <2>1. ASSUME NEW photo \in Photos, PickPhoto(photo) PROVE jobs' \subseteq Jobs
    <3>1. [profile |-> prof.profile, photo |-> photo, here |-> TRUE] \in Jobs
      BY DEF ProfileInv, ProfileTyped, PageState, Jobs
    <3> QED
      BY <2>1, <3>1 DEF PickPhoto, ProfileInv, ProfileTyped
  <2>2. ASSUME NEW j \in jobs, PhotoFails(j) PROVE jobs' \subseteq Jobs
    BY <2>2 DEF PhotoFails, ProfileInv, ProfileTyped
  <2> QED
    BY <2>1, <2>2
<1> QED
  BY <1>1, <1>2 DEF ProfileInv, ProfileTyped, AsWished, InTime

LEMMA VisitStep ==
    ASSUME ProfileInv, ProfileVisit \/ LessonSteps \/ RestoreSession PROVE ProfileInv'
<1>1. Open(Me)
  BY DEF ProfileVisit, openProfile, LeaveProfile, handleLogout, LogoutAnswered, LessonSteps,
     Enter, OpenSubject, openTopic, BackButton, FinishTopic, GoOnly, openSubtopic, gotoLesson,
     AnswerQuestion, NextStep, OnPage, On, RestoreSession
<1>2. Abandoned \subseteq Jobs
  BY DEF ProfileInv, ProfileTyped, Abandoned, Jobs
<1>3. CASE UNCHANGED profileVars
  BY <1>1, <1>3 DEF profileVars, ProfileInv, ProfileTyped, AsWished, InTime
<1>4. CASE openProfile \/ LeaveProfile \/ LogoutAnswered
  BY <1>1, <1>2, <1>4, NewPage
     DEF openProfile, LeaveProfile, LogoutAnswered, ProfileInv, ProfileTyped
<1> QED
  BY <1>3, <1>4 DEF ProfileVisit, handleLogout, RestoreSession,
     LessonSteps, Enter, OpenSubject, openTopic, BackButton, FinishTopic, GoOnly, openSubtopic,
     gotoLesson, AnswerQuestion, NextStep

(* What another tab stores is a profile, and costs this one nothing it     *)
(* shows.                                                                  *)
LEMMA OthersStep ==
    ASSUME ProgressInv, ProfileInv, OtherTabs \/ OtherProfile PROVE ProfileInv'
<1>1. UNCHANGED <<prof, jobs, wish>> /\ (Open(Me)' <=> Open(Me))
  BY OthersStay DEF OtherTabs, OtherProfile, profileVars, Open
<1>2. CASE UNCHANGED <<savedProfile, slip>>
  BY <1>1, <1>2 DEF ProfileInv, ProfileTyped, AsWished, InTime
<1>3. CASE StoreProfile
  <2>1. /\ savedProfile' \in Profile /\ (InTime' <=> InTime)
        /\ slip' = {} => slip = {} /\ savedProfile' = savedProfile
    BY <1>3 DEF StoreProfile, InTime
  <2> QED
    BY <1>1, <2>1 DEF ProfileInv, ProfileTyped, AsWished
<1> QED
  BY <1>2, <1>3 DEF OtherTabs, OtherProfile, profileVars

LEMMA ProfileInvariant == AppSpec => []ProfileInv
<1>1. ASSUME ProgressInv, LessonInv, ProfileInv, [AppNext]_vars PROVE ProfileInv'
  <2>1. CASE UNCHANGED vars
    <3>1. UNCHANGED profileVars /\ (Open(Me)' <=> Open(Me))
      BY <2>1 DEF vars, progressVars, Open
    <3> QED
      BY <1>1, <3>1 DEF profileVars, ProfileInv, ProfileTyped, AsWished, InTime
  <2>2. CASE ProfileSteps
    BY <1>1, <2>2, SaveProfileForm, RemovePhoto, PhotoComes, FormStep, JobStep
       DEF ProfileSteps, LessonInv
  <2>3. CASE Life
    BY <1>1, <2>3, LoadStep, SaveMountStep, VisitStep DEF Life, LessonInv
  <2>4. CASE LessonSteps \/ ProfileVisit
    BY <1>1, <2>4, VisitStep
  <2>5. CASE OtherTabs \/ OtherProfile
    BY <1>1, <2>5, OthersStep
  <2> QED
    BY <1>1, <2>1, <2>2, <2>3, <2>4, <2>5 DEF AppNext
<1> QED
  BY <1>1, InitProfile, AppInvariant, PTL DEF AppSpec

(* Whatever the other tabs store, this one shows the text last saved and   *)
(* the photo last set or removed unless a photo finished over a text saved *)
(* meanwhile or away from its page; and what it shows is stored unless its *)
(* own write failed or another tab has written its whole profile over it   *)
(* since (handlePhotoChange, saveProfile and removePhoto, ProfilePage.tsx; *)
(* the effect of App.tsx:154-156).                                         *)
THEOREM ProfileKept == AppSpec => []ProfileLostForCause
<1>1. ProfileInv => ProfileLostForCause
  BY DEF ProfileInv, AsWished, InTime, ProfileLostForCause
<1> QED
  BY <1>1, ProfileInvariant, PTL

-----------------------------------------------------------------------------
(* Types.  The logout calls under way are counted up to their bound only.  *)
LogoutsOK == logouts \in 0..MaxLogouts /\ slip \subseteq {"stale", "late", "full", "other"}

LEMMA LogoutsStep ==
    ASSUME LogoutsOK, [AppNext]_vars PROVE LogoutsOK'
<1>1. MaxLogouts \in Nat /\ logouts \in 0..MaxLogouts
  BY AppAssumption DEF LogoutsOK
<1>2. slip' \subseteq {"stale", "late", "full", "other"}
  BY DEF LogoutsOK, vars, navVars, profileVars, Written, StoreProfile, AppNext, Life, Boot, SaveOnMount, RestoreSession,
     CloseTab, LessonSteps, Enter, OpenSubject, openTopic, BackButton, FinishTopic, GoOnly, openSubtopic,
     gotoLesson, AnswerQuestion, NextStep, ProfileVisit, openProfile, LeaveProfile, handleLogout,
     LogoutAnswered, ProfileSteps, startEdit, CancelEdit, saveProfile, removePhoto, EditDraft,
     PickPhoto, PhotoReady, PhotoFails, OtherProfile, OtherTabs
<1>3. CASE UNCHANGED logouts
  BY <1>1, <1>2, <1>3 DEF LogoutsOK
<1>4. CASE logouts' = 0
  BY <1>1, <1>2, <1>4 DEF LogoutsOK
<1>5. CASE handleLogout
  BY <1>1, <1>2, <1>5 DEF LogoutsOK, handleLogout
<1>6. CASE LogoutAnswered
  BY <1>1, <1>2, <1>6 DEF LogoutsOK, LogoutAnswered
<1> QED
  BY <1>3, <1>4, <1>5, <1>6 DEF vars, navVars, AppNext, Life, Boot, SaveOnMount, RestoreSession,
     CloseTab, LessonSteps, Enter, OpenSubject, openTopic, BackButton, FinishTopic, GoOnly,
     openSubtopic, gotoLesson, AnswerQuestion, NextStep, ProfileVisit, openProfile, LeaveProfile,
     ProfileSteps, startEdit, CancelEdit, saveProfile, removePhoto, EditDraft, PickPhoto, PhotoReady,
     PhotoFails, OtherProfile, OtherTabs

(* Every variable of the application has its type (App.tsx, ProfilePage.tsx).*)
THEOREM AppTyped == AppSpec => []AppTypeOK
<1>1. AppInit => LogoutsOK
  BY AppAssumption DEF AppInit, LogoutsOK
<1>2. AppSpec => []LogoutsOK
  BY <1>1, LogoutsStep, PTL DEF AppSpec
<1>3. ProgressInv /\ LessonInv /\ ProfileInv /\ LogoutsOK => AppTypeOK
  BY DEF ProgressInv, LessonInv, NavOK, ProfileInv, ProfileTyped, PageState, Jobs, LogoutsOK,
     AppTypeOK
<1> QED
  BY <1>2, <1>3, AppInvariant, ProfileInvariant, PTL

-----------------------------------------------------------------------------
(* The counters.  Math.round shows 100% of a track of fewer than 200 pages *)
(* only when every page has been visited.                                  *)
LEMMA RoundsUpLast ==
    ASSUME NEW n \in Nat, NEW k \in Nat, 0 < n, n < 200, k <= n
    PROVE  Percent(k, n) = 100 <=> k = n
<1> DEFINE q == Percent(k, n)
<1>1. q \in Int /\ (2 * n) * q <= 200 * k + n /\ 200 * k + n < (2 * n) * q + 2 * n
  BY DEF Percent
<1>2. ASSUME k = n PROVE q = 100
  <2>1. (2 * n) * q <= 201 * n /\ 201 * n < (2 * n) * (q + 1)
    BY <1>1, <1>2
  <2>2. ~(q > 100)
    BY <1>1, <2>1
  <2>3. ~(q < 100)
    BY <1>1, <2>1
  <2> QED
    BY <1>1, <2>2, <2>3
<1>3. ASSUME q = 100 PROVE k = n
  <2>1. 200 * n <= 200 * k + n
    BY <1>1, <1>3
  <2> QED
    BY <2>1
<1> QED
  BY <1>2, <1>3

LEMMA CountIndices ==
    ASSUME NEW n \in Nat PROVE IsFiniteSet(1..n) /\ Cardinality(1..n) = n
BY FS_Interval

(* The image of a sequence has no more members than the sequence.          *)
LEMMA FewInSequence ==
    ASSUME NEW S, NEW s \in Seq(S)
    PROVE  IsFiniteSet(ToSet(s)) /\ Cardinality(ToSet(s)) <= Len(s)
<1> DEFINE D == DOMAIN s
<1>1. Len(s) \in Nat /\ D = 1..Len(s)
  OBVIOUS
<1>2. IsFiniteSet(D) /\ Cardinality(D) = Len(s)
  BY <1>1, CountIndices
<1>3. s \in Surjection(D, ToSet(s))
  BY DEF ToSet, Surjection
<1> HIDE DEF D
<1> QED
  BY <1>2, <1>3, FS_Surjection

LEMMA FullTrack ==
    ASSUME NEW track \in Seq(Pages), 0 < Len(track), Len(track) < 200
    PROVE  TrackPercent(track) = 100 <=> ToSet(track) \subseteq Mine.visited
<1> DEFINE n == Len(track)
           D == DOMAIN track
           V == {i \in D : track[i] \in Mine.visited}
           k == Cardinality(V)
<1>1. n \in Nat /\ D = 1..n
  OBVIOUS
<1>2. IsFiniteSet(D) /\ Cardinality(D) = n
  BY <1>1, CountIndices
<1>3. V \subseteq D /\ (V = D <=> ToSet(track) \subseteq Mine.visited)
  BY DEF ToSet
<1> HIDE DEF D
<1>4. TrackPercent(track) = Percent(k, n)
  BY DEF TrackPercent, D
<1> HIDE DEF V
<1>5. IsFiniteSet(V) /\ Cardinality(V) <= Cardinality(D) /\ (Cardinality(D) = Cardinality(V) => D = V)
  BY <1>2, <1>3, FS_Subset
<1>6. k \in Nat /\ k <= n /\ (k = n <=> V = D)
  BY <1>2, <1>5, FS_CardinalityType
<1>7. Percent(k, n) = 100 <=> k = n
  BY <1>1, <1>6, RoundsUpLast
<1> QED
  BY <1>3, <1>4, <1>6, <1>7

(* The tracks of lessonTrack.ts have what TracksFit asks of them.          *)
LEMMA TracksOfTheCode == RealTracksFit
<1> DEFINE track == [s \in ToSet(GRAPH_SUBTOPICS) |-> getLessonTrackForSubtopic(s)]
<1>1. ToSet(GRAPH_SUBTOPICS) = {"g41", "g42", "g43", "g44", "g45"}
  BY DEF ToSet, GRAPH_SUBTOPICS
<1>2. /\ DOMAIN track = {"g41", "g42", "g43", "g44", "g45"}
      /\ track["g41"] = GT01_TRACK /\ track["g42"] = GT02_TRACK /\ track["g43"] = GT03_TRACK
      /\ track["g44"] = GENERAL_GRAPH_TRACK /\ track["g45"] = GENERAL_GRAPH_TRACK
  BY <1>1 DEF getLessonTrackForSubtopic
<1> HIDE DEF track
<1>3. /\ Len(GT01_TRACK) = 14 /\ Len(GT02_TRACK) = 3 /\ Len(GT03_TRACK) = 3
      /\ Len(GENERAL_GRAPH_TRACK) = 17 /\ Len(LESSON_TRACK) = 33
  BY DEF GT01_TRACK, GT02_TRACK, GT03_TRACK, GENERAL_GRAPH_TRACK, LESSON_TRACK
<1>4. IsInjective(GT01_TRACK)
  BY DEF IsInjective, GT01_TRACK
<1>5. IsInjective(GT02_TRACK) /\ IsInjective(GT03_TRACK)
  BY DEF IsInjective, GT02_TRACK, GT03_TRACK
<1>6. IsInjective(GENERAL_GRAPH_TRACK)
  BY DEF IsInjective, GENERAL_GRAPH_TRACK
<1>7. IsInjective(LESSON_TRACK)
  BY DEF IsInjective, LESSON_TRACK, GT01_TRACK, GENERAL_GRAPH_TRACK
<1>8. ToSet(LESSON_TRACK) = UNION {ToSet(track[s]) : s \in DOMAIN track}
  <2>1. ToSet(LESSON_TRACK) = (ToSet(GT01_TRACK) \cup ToSet(GENERAL_GRAPH_TRACK))
                                  \cup {"gt02-taskbank", "gt03-taskbank"}
    BY DEF ToSet, LESSON_TRACK, GT01_TRACK, GENERAL_GRAPH_TRACK
  <2>2. ToSet(GT02_TRACK) = {"paths", "conncheck", "gt02-taskbank"}
    BY DEF ToSet, GT02_TRACK
  <2>3. ToSet(GT03_TRACK) = {"traversal", "digraph", "gt03-taskbank"}
    BY DEF ToSet, GT03_TRACK
  <2>4. {"paths", "conncheck", "traversal", "digraph"} \subseteq ToSet(GENERAL_GRAPH_TRACK)
    BY DEF ToSet, GENERAL_GRAPH_TRACK
  <2> QED
    BY <1>2, <2>1, <2>2, <2>3, <2>4
<1>9. ToSet(PAGES) = ToSet(LESSON_TRACK)
  BY DEF ToSet, PAGES, LESSON_TRACK, GT01_TRACK, GENERAL_GRAPH_TRACK
<1>10. ToSet(PAGES) = Rendered
  BY DEF ToSet, PAGES, GT01_TRACK, Rendered, Labs, TaskBanks, Gt01Tasks, Gt01Theory, Theory
<1>11. ASSUME NEW s \in DOMAIN track
       PROVE  Len(track[s]) > 0 /\ Len(track[s]) < 200 /\ IsInjective(track[s])
  <2>1. track[s] \in {GT01_TRACK, GT02_TRACK, GT03_TRACK, GENERAL_GRAPH_TRACK}
    BY <1>2
  <2>2. \/ track[s] = GT01_TRACK \/ track[s] = GT02_TRACK \/ track[s] = GT03_TRACK
        \/ track[s] = GENERAL_GRAPH_TRACK
    BY <2>1
  <2>3. IsInjective(track[s])
    BY <1>4, <1>5, <1>6, <2>2, Zenon
  <2> DEFINE l == Len(track[s])
  <2>4. l = 14 \/ l = 3 \/ l = 17
    BY <1>3, <2>2
  <2> HIDE DEF l
  <2>5. l > 0 /\ l < 200
    BY <2>4
  <2> QED
    BY <2>3, <2>5, Zenon DEF l
<1>12. TracksFit(track, LESSON_TRACK)
  BY <1>7, <1>8, <1>11 DEF TracksFit
<1>13. Len(LESSON_TRACK) < 200
  BY <1>3
<1> QED
  BY <1>9, <1>10, <1>11, <1>12, <1>13 DEF RealTracksFit, track

(* The chapter shows 100% exactly when each of its subtopics does, and the *)
(* profile never counts more lessons than there are (useLessonProgress.ts, *)
(* App.tsx, ProfilePage.tsx), as long as no track has 200 pages.           *)
THEOREM CountersInStep == AppSpec => []CountersAgree
<1>1. ASSUME ProgressInv PROVE CountersAgree
  <2> DEFINE visited == Mine.visited
  <2>1. visited \subseteq Pages
    BY <1>1, AppAssumption DEF ProgressInv, ProgressTypeOK, Mine, Progress
  <2> HIDE DEF visited
  <2>2. /\ Course \in Seq(Pages) /\ Len(Course) < 200 /\ ToSet(Course) = Pages
        /\ ToSet(Course) = UNION {ToSet(Track[s]) : s \in DOMAIN Track}
    BY AppAssumption, ShortTracks DEF TracksFit
  <2>3. Len(Course) > 0
    <3>1. PICK p \in Pages : TRUE
      BY TrackFacts
    <3>2. \E i \in DOMAIN Course : Course[i] = p
      BY <2>2, <3>1 DEF ToSet
    <3> QED
      BY <2>2, <3>2
  <2>4. TrackPercent(Course) = 100 <=> ToSet(Course) \subseteq visited
    BY <2>2, <2>3, FullTrack DEF visited
  <2>5. ASSUME NEW s \in DOMAIN Track
        PROVE  TrackPercent(Track[s]) = 100 <=> ToSet(Track[s]) \subseteq visited
    BY TrackFacts, ShortTracks, FullTrack DEF visited
  <2>6. Cardinality(visited) <= Len(Course)
    <3>1. IsFiniteSet(Pages) /\ Cardinality(Pages) <= Len(Course)
      BY <2>2, FewInSequence
    <3>2. IsFiniteSet(visited) /\ Cardinality(visited) <= Cardinality(Pages)
      BY <2>1, <3>1, FS_Subset
    <3>3. /\ Cardinality(visited) \in Nat /\ Cardinality(Pages) \in Nat
          /\ Len(Course) \in Nat
      BY <2>2, <3>1, <3>2, FS_CardinalityType
    <3> QED
      BY <3>1, <3>2, <3>3
  <2> QED
    BY <2>2, <2>4, <2>5, <2>6, TracksOfTheCode DEF CountersAgree, visited
<1> QED
  BY <1>1, AppInvariant, PTL

=============================================================================
