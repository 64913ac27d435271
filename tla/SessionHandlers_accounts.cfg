CONSTANTS
    Users = {alice, bob}
    NoUser = NoUser
    Tokens = {t1, t2, t3}
    NoToken = NoToken
    Handlers = {h1, h2}
    SessionLife = 1
    MaxTime = 0
SPECIFICATION Spec
SYMMETRY Symmetry
INVARIANTS
    AnswersAreStored
PROPERTIES
    RetiredFamilyIsClosed
    ImplementsLifecycle
