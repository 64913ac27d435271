SPECIFICATION MCSpec
CONSTANTS
    MaxPlays = 2
    Vertex <- SearchVertex
    Order <- SearchOrder
INVARIANTS
    CentreAccepted
CHECK_DEADLOCK FALSE
