--------------------------- MODULE LessonProgress ---------------------------
(***************************************************************************)
(* What a student has done, in the memory of each tab and in localStorage  *)
(* (hooks/useLessonProgress.ts).  A tab reads the whole record once, when  *)
(* it mounts, and from then on writes the whole record after every change: *)
(* tabs never see each other's writes, the last writer wins.  The streak   *)
(* is computed at mount and written back unchanged, under the date of the  *)
(* write, for as long as the tab lives.                                    *)
(***************************************************************************)
EXTENDS Integers, FiniteSets

CONSTANTS
    Tabs,           \* tabs and windows of one browser
    Questions,      \* quiz items
    Pages,          \* lesson pages
    LastDay         \* bound on the calendar, days 1..LastDay

ASSUME ProgressAssumption == LastDay \in Nat \ {0}

VARIABLES
    store,          \* localStorage, key graphs_4_v1
    mem,            \* each tab's React state
    day,            \* todayStr(), the UTC date
    earned,         \* history: every fact recorded in some tab
    used,           \* history: the days on which something was stored
    excuse          \* history: what has happened that may cost data

progressVars == <<store, mem, day, earned, used, excuse>>

NoDate == -1                            \* lastDate missing: nothing stored
Days == 1..LastDay
FreshStreak == 4

Progress == [answers : [Questions -> {"none", "wrong", "ok"}],
             workedDone : BOOLEAN,
             visited : SUBSET Pages]
NoProgress == [answers |-> [q \in Questions |-> "none"],
               workedDone |-> FALSE,
               visited |-> {}]

Closed == [open |-> FALSE, unsaved |-> FALSE, progress |-> NoProgress,
           streak |-> 1, mounted |-> NoDate]
Open(t) == mem[t].open

(* The single facts a progress record states.                              *)
Facts(p) ==
    {<<"answered", q, p.answers[q]>> :
         q \in {x \in Questions : p.answers[x] # "none"}}
    \cup (IF p.workedDone THEN {<<"worked">>} ELSE {})
    \cup {<<"visited", x>> : x \in p.visited}

ProgressInit ==
    /\ store = [progress |-> NoProgress, streak |-> 1, lastDate |-> NoDate]
    /\ mem = [t \in Tabs |-> Closed]
    /\ day = 1
    /\ earned = {}
    /\ used = {}
    /\ excuse = {}

GapOfZero(s) == IF s.lastDate = day - 1 THEN s.streak + 1          \* mutant
                ELSE s.streak
getCurrentStreak(s) ==
    CASE s.lastDate = NoDate -> FreshStreak
      [] s.lastDate = day -> s.streak
      [] s.lastDate = day - 1 -> s.streak + 1
      [] OTHER -> 1

ForgetsVisited == [NoProgress EXCEPT !.answers = store.progress.answers,  \* mutant
                                     !.workedDone = store.progress.workedDone]
loadProgress == store.progress

(* The first render of the hook; its effect, the first save, comes later.  *)
Mount(t) ==
    /\ ~Open(t)
    /\ mem' = [mem EXCEPT ![t] =
                 [open |-> TRUE, unsaved |-> TRUE, progress |-> loadProgress,
                  streak |-> getCurrentStreak(store), mounted |-> day]]
    /\ excuse' = excuse \cup {x \in {"overlap"} : \E u \in Tabs : Open(u)}
    /\ UNCHANGED <<store, day, earned, used>>

(* saveProgress with the tab's progress p; the write fails silently when   *)
(* the storage is full.                                                    *)
Save(t, p, written) ==
    /\ mem' = [mem EXCEPT ![t].progress = p, ![t].unsaved = FALSE]
    /\ IF written
       THEN /\ store' = [progress |-> p, streak |-> mem[t].streak,
                         lastDate |-> day]
            /\ used' = used \cup {day}
            /\ excuse' = excuse \cup {x \in {"overnight"} :
                                        mem[t].mounted # day}
       ELSE /\ excuse' = excuse \cup {"full"}
            /\ UNCHANGED <<store, used>>
    /\ UNCHANGED day

FirstSave(t) ==
    /\ mem[t].unsaved
    /\ \E written \in BOOLEAN : Save(t, mem[t].progress, written)
    /\ UNCHANGED earned

(* A click changes the state and its effect saves, in one task.            *)
Change(t, p) ==
    /\ Open(t)
    /\ \E written \in BOOLEAN : Save(t, p, written)
    /\ earned' = earned \cup Facts(p)

(* A question takes one answer: its controls are disabled once it is done. *)
answer(t, q, a) ==
    /\ mem[t].progress.answers[q] = "none"
    /\ Change(t, [mem[t].progress EXCEPT !.answers[q] = a])

completeWorked(t) ==
    /\ ~mem[t].progress.workedDone
    /\ Change(t, [mem[t].progress EXCEPT !.workedDone = TRUE])

markVisited(t, page) ==
    Change(t, [mem[t].progress EXCEPT !.visited = @ \cup {page}])

(* The tab is closed, or reloaded and mounts again.                        *)
Unmount(t) ==
    /\ Open(t)
    /\ mem' = [mem EXCEPT ![t] = Closed]
    /\ UNCHANGED <<store, day, earned, used, excuse>>

Midnight ==
    /\ day < LastDay
    /\ day' = day + 1
    /\ UNCHANGED <<store, mem, earned, used, excuse>>

ProgressNext ==
    \/ \E t \in Tabs :
          \/ Mount(t)
          \/ FirstSave(t)
          \/ \E q \in Questions, a \in {"wrong", "ok"} : answer(t, q, a)
          \/ completeWorked(t)
          \/ \E page \in Pages : markVisited(t, page)
          \/ Unmount(t)
    \/ Midnight

ProgressSpec == ProgressInit /\ [][ProgressNext]_progressVars

-----------------------------------------------------------------------------
(* Every variable has its type.                                            *)
ProgressTypeOK ==
    /\ store \in [progress : Progress, streak : Nat \ {0},
                  lastDate : Days \cup {NoDate}]
    /\ mem \in [Tabs -> [open : BOOLEAN, unsaved : BOOLEAN,
                         progress : Progress, streak : Nat \ {0},
                         mounted : Days \cup {NoDate}]]
    /\ day \in Days
    /\ used \subseteq Days
    /\ excuse \subseteq {"overlap", "overnight", "full"}

(* As long as no two tabs have been open together and no write has failed, *)
(* every answer, visited page and finished solution ever recorded is in    *)
(* localStorage, whatever was closed, reloaded or killed in between.       *)
NothingLostInOneTab ==
    excuse \cap {"overlap", "full"} = {} => earned \subseteq Facts(store.progress)

(* The stored streak is the number of days in a row, up to the last one,   *)
(* on which progress was stored, or three more when that row began with    *)
(* the very first visit, unless a tab that was left open over midnight has *)
(* written.                                                                *)
StreakCountsDays ==
    used # {} /\ "overnight" \notin excuse =>
        LET last == store.lastDate IN
        \E n \in Days :
           /\ last - n + 1 .. last \subseteq used
           /\ last - n \notin used
           /\ store.streak = IF \A d \in used : d > last - n
                             THEN n + FreshStreak - 1
                             ELSE n

=============================================================================
