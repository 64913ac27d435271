CONSTANTS
    Callers = {c1, c2}
    Limit = 2
    Window = 4
    MaxDelay = 1
    MaxTime = 7
SPECIFICATION Spec
SYMMETRY Symmetry
INVARIANTS
    LimitHolds
    RefusedForCause
