SPECIFICATION MCSpec
CONSTANTS
    MaxPlays = 2
    Vertex <- SearchVertex
    Order <- SearchOrder
INVARIANTS
    VerdictTrue
    WorkLegal
    LabsTellTruth
    Certificate
    BfsExact
    ComponentsExact
PROPERTIES
    LabWalkEnds
CHECK_DEADLOCK FALSE
