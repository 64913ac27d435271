CONSTANTS
    Ttl = 5
    ResendWait = 1
    Wait <- MCWait
    Lock = 5
    Window = 1
    Redirect = 2
    MaxTimers = 2
    MaxTrips = 3
SPECIFICATION FairSpec
INVARIANTS
    TypeOK
    OneCallAtATime
    CountersTrue
    ExchangeMatches
PROPERTIES
    BusyEnds
CHECK_DEADLOCK FALSE
