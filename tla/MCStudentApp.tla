---------------------------- MODULE MCStudentApp ----------------------------
(***************************************************************************)
(* Small instances of StudentApp for TLC, in three corners of its state    *)
(* space: other tabs and the calendar; the screens and lessons of one tab; *)
(* its profile page, with the profiles that one other tab writes.  Two     *)
(* subtopics share a page, as the real ones do.                            *)
(***************************************************************************)
EXTENDS StudentApp

Symmetry == Permutations(Tabs \ {Me})

VARIABLE corner

MCTrack == [s \in {"g41", "g42"} |->
                IF s = "g41" THEN <<"p1", "quiz">> ELSE <<"quiz", "worked">>]
MCCourse == <<"p1", "quiz", "worked">>
MCPages == {"p1", "quiz", "worked"}

MCInit == AppInit /\ corner \in {"tabs", "lessons", "profile"}
MCNext ==
    /\ UNCHANGED corner
    /\ \/ corner = "tabs" /\ (OtherTabs \/ OtherProfile)
            /\ UNCHANGED savedProfile
            /\ \A t \in Tabs : Facts(mem'[t].progress) \subseteq
                   {<<"visited", "p1">>} \cup {<<"answered", q, "ok">> : q \in Questions}
       \/ corner = "lessons" /\ (Life \/ LessonSteps \/ ProfileVisit)
       \/ corner = "profile"
            /\ \/ Life \/ Enter \/ OpenSubject \/ ProfileVisit \/ ProfileSteps
               \/ OtherTabs \/ OtherProfile
            /\ UNCHANGED <<day, earned>>
            /\ \E t \in Tabs \ {Me} : mem'[t] = Closed
MCSpec == MCInit /\ [][MCNext]_<<vars, corner>>

=============================================================================
