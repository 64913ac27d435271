----------------------------- MODULE StudentApp -----------------------------
(***************************************************************************)
(* One tab of the application (App.tsx): its screens, the lesson pages and *)
(* the keyboard, the worked solution (tasks/Practice.tsx) and the profile  *)
(* page (components/layout/ProfilePage.tsx), over the progress record of   *)
(* LessonProgress, whose tab Me it is.  The other tabs of the browser show *)
(* themselves only by what they write to localStorage: their progress, and *)
(* a whole profile each.                                                   *)
(***************************************************************************)
EXTENDS LessonProgress, LessonTracks

CONSTANTS
    Me,             \* the tab
    Track,          \* subtopic -> its pages, as getLessonTrackForSubtopic
    Course,         \* LESSON_TRACK
    QuizPage, WorkedPage,
    WorkedSteps,    \* number of steps of the worked solution
    Texts,          \* contents of the profile's text fields
    DefaultText,    \* theirs in DEFAULT_STUDENT_PROFILE
    Photos, NoPhoto,
    MaxJobs,        \* bound on photos being prepared
    MaxLogouts      \* bound on logout calls under way

ASSUME AppAssumption ==
    /\ Me \in Tabs
    /\ TracksFit(Track, Course) /\ ToSet(Course) = Pages
    /\ "g41" \in DOMAIN Track /\ \A s \in DOMAIN Track : Track[s] \in Seq(Pages)
    /\ Course \in Seq(Pages)
    /\ WorkedSteps \in Nat \ {0} /\ MaxJobs \in Nat /\ MaxLogouts \in Nat
    /\ NoPhoto \notin Photos /\ DefaultText \in Texts

(* From 200 pages on, Math.round shows 100% of a track with a page missing.*)
ASSUME ShortTracks ==
    Len(Course) < 200 /\ \A s \in DOMAIN Track : Len(Track[s]) < 200

VARIABLES
    nav,            \* where the student is
    logouts,        \* logout calls not answered yet
    prof,           \* studentProfile, and the state of ProfilePage
    savedProfile,   \* localStorage, key qed.student.profile
    jobs,           \* photos being prepared, with what handlePhotoChange captured
    wish,           \* history: the text last saved, the photo last set or removed
    slip            \* history: what has cost the wish, or may have

navVars == <<nav, logouts>>
profileVars == <<prof, savedProfile, jobs, wish, slip>>
vars == <<progressVars, navVars, profileVars>>

Screens == {"awaken", "home", "subject", "subtopics", "lesson", "profile", "blank"}
Profile == [text : Texts, photo : Photos \cup {NoPhoto}]

Start == [screen |-> "awaken", checked |-> FALSE, subtopic |-> "g41",
          page |-> 1, back |-> "home", shown |-> 0]
ProfilePageOf(p) == [profile |-> p, editing |-> FALSE, draft |-> p]

AppInit ==
    /\ ProgressInit
    /\ nav = Start
    /\ logouts = 0
    /\ savedProfile = [text |-> DefaultText, photo |-> NoPhoto]
    /\ prof = ProfilePageOf(savedProfile)
    /\ jobs = {}
    /\ wish = savedProfile
    /\ slip = {}

Mine == mem[Me].progress
currentLessonTrack == Track[nav.subtopic]
cur == currentLessonTrack[nav.page]
On(screen) == Open(Me) /\ nav.checked /\ nav.screen = screen
OnPage(page) == On("lesson") /\ cur = page

-----------------------------------------------------------------------------
(* The page load: all of React's state anew, progress and profile from     *)
(* localStorage, the spinner until restoreSession has answered.  What had  *)
(* been lost by then is lost: the wish starts from what is stored.         *)
Boot ==
    /\ Mount(Me)
    /\ nav' = Start
    /\ logouts' = 0
    /\ prof' = ProfilePageOf(savedProfile)
    /\ jobs' = {}
    /\ wish' = IF slip = {} THEN wish ELSE savedProfile
    /\ slip' = {}
    /\ UNCHANGED savedProfile

(* setStudentProfile and its effect, which writes the whole profile and    *)
(* runs after the first render too.  It does not catch: a write that fails *)
(* takes the whole page down, until it is loaded again.                    *)
SetProfile(p) ==
    \/ /\ savedProfile' = p
       /\ UNCHANGED nav
    \/ /\ nav' = [nav EXCEPT !.screen = "blank"]
       /\ UNCHANGED savedProfile
Written == IF nav'.screen = "blank" THEN slip \cup {"full"} ELSE slip \ {"other"}

(* The effects of the first render, in their order: the progress is saved, *)
(* the profile is written back, the session is asked for.                  *)
SaveOnMount ==
    /\ FirstSave(Me)
    /\ SetProfile(prof.profile)
    /\ slip' = Written
    /\ UNCHANGED <<logouts, prof, jobs, wish>>

RestoreSession ==
    /\ Open(Me) /\ ~mem[Me].unsaved
    /\ ~nav.checked /\ nav.screen # "blank"
    /\ \E user \in BOOLEAN :
          nav' = [nav EXCEPT !.checked = TRUE,
                             !.screen = IF user THEN "home" ELSE @]
    /\ UNCHANGED <<progressVars, logouts, profileVars>>

(* Solutions start revealed when they were finished before; the page is    *)
(* mounted anew whenever it comes on screen (key = curId).                 *)
NotRevealed == 0                                                   \* mutant
FirstShown == IF Mine.workedDone THEN WorkedSteps ELSE 0

GoOnly(from, to) ==
    /\ On(from)
    /\ nav' = [nav EXCEPT !.screen = to]
    /\ UNCHANGED <<progressVars, logouts, profileVars>>

Enter == GoOnly("awaken", "home")
OpenSubject == GoOnly("home", "subject")
openTopic == GoOnly("subject", "subtopics")
BackButton == \/ GoOnly("lesson", "subtopics")
              \/ GoOnly("subtopics", "subject")
              \/ GoOnly("subject", "home")
FinishTopic == /\ nav.page = Len(currentLessonTrack)
               /\ GoOnly("lesson", "subject")

KeepsPage(s) ==                                                    \* mutant
    /\ On("subtopics")
    /\ markVisited(Me, Track[s][1])
    /\ nav' = [nav EXCEPT !.screen = "lesson", !.subtopic = s,
                          !.shown = FirstShown]
    /\ UNCHANGED <<logouts, profileVars>>
openSubtopic(s) ==
    /\ On("subtopics")
    /\ markVisited(Me, Track[s][1])
    /\ nav' = [nav EXCEPT !.screen = "lesson", !.subtopic = s, !.page = 1,
                          !.shown = FirstShown]
    /\ UNCHANGED <<logouts, profileVars>>

KeysRunOff(i) ==                                                   \* mutant
    /\ On("lesson")
    /\ UNCHANGED progressVars
    /\ nav' = [nav EXCEPT !.page = i]
    /\ UNCHANGED <<logouts, profileVars>>

(* The dots go to any page; the arrows and the arrow keys to the next and  *)
(* the previous one, the keys at the ends of the track too.                *)
gotoLesson(i) ==
    LET n == IF i < 1 THEN 1
             ELSE IF i > Len(currentLessonTrack) THEN Len(currentLessonTrack)
             ELSE i
    IN  /\ On("lesson")
        /\ markVisited(Me, currentLessonTrack[n])
        /\ nav' = [nav EXCEPT !.page = n,
                              !.shown = IF n = nav.page THEN @ ELSE FirstShown]
        /\ UNCHANGED <<logouts, profileVars>>

AnswerQuestion ==
    /\ OnPage(QuizPage)
    /\ \E q \in Questions, a \in {"wrong", "ok"} : answer(Me, q, a)
    /\ UNCHANGED <<navVars, profileVars>>

(* WorkedSolution: one more step; the last one earns the points.           *)
NextStep ==
    /\ OnPage(WorkedPage)
    /\ nav.shown < WorkedSteps
    /\ nav' = [nav EXCEPT !.shown = @ + 1]
    /\ IF nav'.shown = WorkedSteps /\ ~Mine.workedDone
       THEN completeWorked(Me)
       ELSE UNCHANGED progressVars
    /\ UNCHANGED <<logouts, profileVars>>

-----------------------------------------------------------------------------
Abandoned == {[j EXCEPT !.here = FALSE] : j \in jobs}

(* The avatar button, on every screen but the introduction; the profile    *)
(* page mounts with a fresh form.                                          *)
openProfile ==
    /\ \E screen \in {"home", "subject", "subtopics", "lesson"} : On(screen)
    /\ nav' = [nav EXCEPT !.screen = "profile", !.back = nav.screen]
    /\ prof' = ProfilePageOf(prof.profile)
    /\ UNCHANGED <<progressVars, logouts, savedProfile, jobs, wish, slip>>

LeaveProfile ==
    /\ On("profile")
    /\ nav' = [nav EXCEPT !.screen = nav.back, !.shown = FirstShown]
    /\ prof' = ProfilePageOf(prof.profile)
    /\ jobs' = Abandoned
    /\ UNCHANGED <<progressVars, logouts, savedProfile, wish, slip>>

handleLogout ==
    /\ On("profile")
    /\ logouts < MaxLogouts
    /\ logouts' = logouts + 1
    /\ UNCHANGED <<progressVars, nav, profileVars>>

(* The rest of handleLogout, wherever the student is by now.               *)
LogoutAnswered ==
    /\ logouts > 0
    /\ Open(Me)
    /\ logouts' = logouts - 1
    /\ nav' = [nav EXCEPT !.screen = IF @ = "blank" THEN @ ELSE "home"]
    /\ prof' = ProfilePageOf(prof.profile)
    /\ jobs' = IF nav.screen = "profile" THEN Abandoned ELSE jobs
    /\ UNCHANGED <<progressVars, savedProfile, wish, slip>>

startEdit ==
    /\ On("profile")
    /\ prof' = [prof EXCEPT !.editing = TRUE, !.draft = prof.profile]
    /\ UNCHANGED <<progressVars, navVars, savedProfile, jobs, wish, slip>>

EditDraft(text) ==
    /\ On("profile") /\ prof.editing
    /\ prof' = [prof EXCEPT !.draft.text = text]
    /\ UNCHANGED <<progressVars, navVars, savedProfile, jobs, wish, slip>>

CancelEdit ==
    /\ On("profile") /\ prof.editing
    /\ prof' = [prof EXCEPT !.editing = FALSE]
    /\ UNCHANGED <<progressVars, navVars, savedProfile, jobs, wish, slip>>

saveProfile ==
    /\ On("profile") /\ prof.editing
    /\ SetProfile(prof.draft)
    /\ prof' = [prof EXCEPT !.profile = prof.draft, !.editing = FALSE]
    /\ wish' = [wish EXCEPT !.text = prof.draft.text]
    /\ slip' = Written
    /\ UNCHANGED <<progressVars, logouts, jobs>>

(* The page keeps the profile of the moment the file was chosen.           *)
PickPhoto(photo) ==
    /\ On("profile")
    /\ Cardinality(jobs) < MaxJobs
    /\ jobs' = jobs \cup {[profile |-> prof.profile, photo |-> photo, here |-> TRUE]}
    /\ UNCHANGED <<progressVars, navVars, prof, savedProfile, wish, slip>>

(* makeProfilePhoto has resolved.  The draft follows only on the page that *)
(* asked, not on a later visit to it.                                      *)
PhotoReady(j) ==
    LET next == [j.profile EXCEPT !.photo = j.photo]
    IN  /\ Open(Me) /\ nav.screen # "blank"
        /\ jobs' = jobs \ {j}
        /\ SetProfile(next)
        /\ prof' = [prof EXCEPT !.profile = next,
                                !.draft.photo = IF j.here THEN j.photo ELSE @]
        /\ wish' = [wish EXCEPT !.photo = j.photo]
        /\ slip' = Written \cup {x \in {"stale"} : j.profile.text # prof.profile.text}
                            \cup {x \in {"late"} : ~j.here /\ prof.editing}
        /\ UNCHANGED <<progressVars, logouts>>

PhotoFails(j) ==
    /\ jobs' = jobs \ {j}
    /\ UNCHANGED <<progressVars, navVars, prof, savedProfile, wish, slip>>

DraftKeepsPhoto ==                                                 \* mutant
    /\ On("profile") /\ prof.profile.photo # NoPhoto
    /\ SetProfile([prof.profile EXCEPT !.photo = NoPhoto])
    /\ prof' = [prof EXCEPT !.profile.photo = NoPhoto]
    /\ wish' = [wish EXCEPT !.photo = NoPhoto]
    /\ slip' = Written
    /\ UNCHANGED <<progressVars, logouts, jobs>>
removePhoto ==
    /\ On("profile") /\ prof.profile.photo # NoPhoto
    /\ SetProfile([prof.profile EXCEPT !.photo = NoPhoto])
    /\ prof' = [prof EXCEPT !.profile.photo = NoPhoto, !.draft.photo = NoPhoto]
    /\ wish' = [wish EXCEPT !.photo = NoPhoto]
    /\ slip' = Written
    /\ UNCHANGED <<progressVars, logouts, jobs>>

(* The tab is closed or reloaded; what it was waiting for goes with it.    *)
CloseTab ==
    /\ Unmount(Me)
    /\ nav' = Start
    /\ logouts' = 0
    /\ prof' = ProfilePageOf(savedProfile)
    /\ jobs' = {}
    /\ UNCHANGED <<savedProfile, wish, slip>>

-----------------------------------------------------------------------------
Life == Boot \/ SaveOnMount \/ RestoreSession \/ CloseTab

LessonSteps ==
    \/ Enter \/ OpenSubject \/ openTopic \/ BackButton \/ FinishTopic
    \/ \E s \in DOMAIN Track : openSubtopic(s)
    \/ \E i \in 0..Len(currentLessonTrack) + 1 : gotoLesson(i)
    \/ AnswerQuestion
    \/ NextStep

ProfileVisit == openProfile \/ LeaveProfile \/ handleLogout \/ LogoutAnswered

ProfileSteps ==
    \/ startEdit \/ CancelEdit \/ saveProfile \/ removePhoto
    \/ \E text \in Texts : EditDraft(text)
    \/ \E photo \in Photos : PickPhoto(photo)
    \/ \E j \in jobs : PhotoReady(j) \/ PhotoFails(j)

(* Another tab runs the same effect: it writes the profile it has, after   *)
(* its first render and after each save, photo or removal of its own.      *)
StoreProfile ==
    /\ savedProfile' \in Profile
    /\ slip' = slip \cup {x \in {"other"} : savedProfile' # savedProfile}
OtherProfile ==
    \E t \in Tabs \ {Me} :
        /\ \/ FirstSave(t)
           \/ Open(t) /\ ~mem[t].unsaved /\ UNCHANGED progressVars
        /\ StoreProfile
        /\ UNCHANGED <<navVars, prof, jobs, wish>>
OtherTabs ==
    /\ \/ \E t \in Tabs \ {Me} :
             \/ Mount(t)
             \/ \E q \in Questions, a \in {"wrong", "ok"} : answer(t, q, a)
             \/ completeWorked(t)
             \/ \E page \in Pages : markVisited(t, page)
             \/ Unmount(t)
       \/ Midnight
    /\ UNCHANGED <<navVars, profileVars>>

AppNext ==
    Life \/ LessonSteps \/ ProfileVisit \/ ProfileSteps \/ OtherProfile \/ OtherTabs

AppSpec == AppInit /\ [][AppNext]_vars

-----------------------------------------------------------------------------
(* Every variable has its type (App.tsx and ProfilePage.tsx).              *)
AppTypeOK ==
    /\ ProgressTypeOK
    /\ nav \in [screen : Screens, checked : BOOLEAN, subtopic : DOMAIN Track,
                page : Nat \ {0}, back : Screens, shown : 0..WorkedSteps]
    /\ logouts \in 0..MaxLogouts
    /\ prof \in [profile : Profile, editing : BOOLEAN, draft : Profile]
    /\ savedProfile \in Profile /\ wish \in Profile
    /\ jobs \subseteq [profile : Profile, photo : Photos, here : BOOLEAN]
    /\ slip \subseteq {"stale", "late", "full", "other"}

(* Whatever way led to a lesson (a dot, a key, a subtopic, back from the   *)
(* profile), the page on screen belongs to the track of the subtopic in    *)
(* the header, and it counts as visited.                                   *)
LessonInStep ==
    On("lesson") \/ (On("profile") /\ nav.back = "lesson") =>
        /\ nav.page \in DOMAIN currentLessonTrack
        /\ cur \in Mine.visited

(* The solution says "+20 XP" exactly when they have been credited, also   *)
(* after leaving the page, a reload or a visit to the profile.             *)
RevealedIsCredited ==
    OnPage(WorkedPage) => (nav.shown = WorkedSteps <=> Mine.workedDone)

(* Math.round(100 * k / n)                                                 *)
Percent(k, n) == (200 * k + n) \div (2 * n)
CountsAllVisited(track) == Percent(Cardinality(Mine.visited), Len(track))  \* mutant
TrackPercent(track) ==
    Percent(Cardinality({i \in DOMAIN track : track[i] \in Mine.visited}), Len(track))

(* The tracks of the code are what the screens take them for, and each     *)
(* page of one has a descriptor and a component that renders it.           *)
RealTracksFit ==
    LET track == [s \in ToSet(GRAPH_SUBTOPICS) |-> getLessonTrackForSubtopic(s)]
    IN  /\ TracksFit(track, LESSON_TRACK)
        /\ Len(LESSON_TRACK) < 200 /\ \A s \in DOMAIN track : Len(track[s]) < 200
        /\ ToSet(PAGES) = ToSet(LESSON_TRACK) /\ ToSet(PAGES) = Rendered

(* The counters of the screens agree: the chapter is at 100% exactly when  *)
(* each subtopic is, and the profile's count of lessons, which counts the  *)
(* keys of visited, never exceeds its total.  So do those of the code,     *)
(* whose tracks fit as the instance's do.                                  *)
CountersAgree ==
    /\ TrackPercent(Course) = 100 <=>
           \A s \in DOMAIN Track : TrackPercent(Track[s]) = 100
    /\ Cardinality(Mine.visited) <= Len(Course)
    /\ RealTracksFit

(* The profile shows the text last saved and the photo last set, unless a  *)
(* photo was chosen before the text was saved and finished after it, or    *)
(* the page that asked for it was left meanwhile; other tabs and failing   *)
(* writes do not change it.  It is stored, too, unless a write failed, or  *)
(* another tab has written a different one of its own since                *)
(* (ProfilePage.tsx, App.tsx:154-156).                                     *)
ProfileLostForCause ==
    /\ Open(Me) /\ slip \cap {"stale", "late"} = {} => prof.profile = wish
    /\ slip = {} => savedProfile = wish

=============================================================================
