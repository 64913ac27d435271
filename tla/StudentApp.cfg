CONSTANTS
    Tabs = {me, tab1, tab2}
    Me = me
    Questions = {q1}
    Pages <- MCPages
    LastDay = 4
    Track <- MCTrack
    Course <- MCCourse
    QuizPage = "quiz"
    WorkedPage = "worked"
    WorkedSteps = 2
    Texts = {old, new}
    DefaultText = old
    Photos = {photo}
    NoPhoto = NoPhoto
    MaxJobs = 2
    MaxLogouts = 1
SYMMETRY Symmetry
SPECIFICATION MCSpec
INVARIANTS
    AppTypeOK
    NothingLostInOneTab
    StreakCountsDays
    LessonInStep
    RevealedIsCredited
    CountersAgree
    ProfileLostForCause
CHECK_DEADLOCK FALSE
