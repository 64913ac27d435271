---------------------------- MODULE LessonTracks ----------------------------
(***************************************************************************)
(* The order of the lesson pages (data/lessonTrack.ts), the subtopics      *)
(* (data/graphSubtopics.ts) and topics (data/subjects.ts) that lead to     *)
(* them, and which component App.tsx renders for a page.  A page is its    *)
(* id; titles and leads are left out.                                      *)
(***************************************************************************)
EXTENDS Sequences, FiniteSets, SequencesExt

GT01_TRACK == <<
    "gt01-intro", "gt01-theory-digraph", "gt01-task-directed",
    "gt01-theory-matrix", "gt01-task-matrix", "gt01-theory-degree",
    "gt01-task-regular", "gt01-theory-sequence", "gt01-task-sequence",
    "gt01-theory-handshaking", "gt01-task-repair", "gt01-theory-pigeonhole",
    "gt01-task-equal", "gt01-taskbank" >>

GENERAL_GRAPH_TRACK == <<
    "concept", "iso", "degrees", "degreelab", "paths", "conncheck", "trees",
    "planar", "coloring", "colorlab", "traversal", "eulerlab", "digraph",
    "applications", "practice", "worked", "practicals" >>

GT02_TRACK == <<"paths", "conncheck", "gt02-taskbank">>
GT03_TRACK == <<"traversal", "digraph", "gt03-taskbank">>

ForgottenBanks == GT01_TRACK \o GENERAL_GRAPH_TRACK                \* mutant
LESSON_TRACK ==
    GT01_TRACK \o GENERAL_GRAPH_TRACK \o <<"gt02-taskbank", "gt03-taskbank">>

GRAPH_SUBTOPICS == <<"g41", "g42", "g43", "g44", "g45">>

getLessonTrackForSubtopic(subtopicId) ==
    CASE subtopicId = "g41" -> GT01_TRACK
      [] subtopicId = "g42" -> GT02_TRACK
      [] subtopicId = "g43" -> GT03_TRACK
      [] OTHER -> GENERAL_GRAPH_TRACK

(* The components that are handed a page, by what they do (renderPage).    *)
Labs == {"degreelab", "colorlab", "eulerlab"}
TaskBanks == {"gt01-taskbank", "gt02-taskbank", "gt03-taskbank"}
Gt01Tasks == {"gt01-task-directed", "gt01-task-matrix", "gt01-task-regular",
              "gt01-task-sequence", "gt01-task-repair", "gt01-task-equal"}
Gt01Theory == {"gt01-intro", "gt01-theory-digraph", "gt01-theory-matrix",
               "gt01-theory-degree", "gt01-theory-sequence",
               "gt01-theory-handshaking", "gt01-theory-pigeonhole"}
Theory == {"concept", "iso", "degrees", "paths", "conncheck", "trees",
           "planar", "coloring", "traversal", "digraph", "applications"}
Rendered == Labs \cup TaskBanks \cup Gt01Tasks \cup Gt01Theory \cup Theory
                 \cup {"practice", "worked", "practicals"}

(* PAGES: the page descriptors, in the file's order.                       *)
PAGES == GT01_TRACK \o <<
    "concept", "iso", "degrees", "degreelab", "paths", "conncheck",
    "gt02-taskbank", "trees", "planar", "coloring", "colorlab", "traversal",
    "eulerlab", "digraph", "gt03-taskbank", "applications", "practice",
    "worked", "practicals" >>

(* What the screens take for granted of any tracks: there is a first page  *)
(* to open, no track has a page twice, the course counts each page of a    *)
(* track once and no other.                                                *)
TracksFit(track, course) ==
    /\ \A s \in DOMAIN track : Len(track[s]) > 0 /\ IsInjective(track[s])
    /\ IsInjective(course)
    /\ ToSet(course) = UNION {ToSet(track[s]) : s \in DOMAIN track}

=============================================================================
