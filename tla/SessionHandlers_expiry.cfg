CONSTANTS
    Users = {alice}
    NoUser = NoUser
    Tokens = {t1, t2}
    NoToken = NoToken
    Handlers = {h1, h2}
    SessionLife = 1
    MaxTime = 1
SPECIFICATION FairSpec
INVARIANTS
    TypeOK
    DeadTokenBuysNothing
    RotationRevokesParent
PROPERTIES
    OnlyReuseReachesOthers
    EveryRequestEnds
