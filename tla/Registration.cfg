CONSTANTS
    Requests = {r1, r2, r3}
    anna = anna
    dotted = dotted
    bob = bob
    Addresses = {anna, dotted, bob}
    Seeded = anna
    Mailbox <- MCMailbox
SPECIFICATION Spec
INVARIANTS
    TypeOK
    OneAccountPerMailbox
    AcceptedIsRegistered
    CodeGoesToTheCreator
    UnmailedForCause
CHECK_DEADLOCK FALSE
