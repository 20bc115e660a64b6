CONSTANTS
    a = a
    b = b
    c1 = c1
    c2 = c2
    None = None
    Meshes <- Both
    Calls <- Two
    By <- CalledBy
    Callees <- OneName
    Within <- CalledIn
    Many <- FirstMany
    Stoppable <- OnlyA
SPECIFICATION FairSpec
PROPERTY StopEnds
CHECK_DEADLOCK FALSE
