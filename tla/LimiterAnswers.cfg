CONSTANTS
    Callers = {c1, c2}
    Limit = 1
    Window = 3
    MaxDelay = 1
    MaxTime = 4
SPECIFICATION AnswersSpec
INVARIANTS
    SlidingWindow
