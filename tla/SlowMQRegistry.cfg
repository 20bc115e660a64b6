CONSTANTS
    c1 = c1
    c2 = c2
    c3 = c3
    Conns <- Everyone
    Patterns <- OnePattern
    Topics <- OneTopic
    PartialWildcards = {}
    MaxPublish = 2
    LateJoin = TRUE
    Slow <- Nobody
    NoId = NoId
SPECIFICATION Spec
INVARIANTS
    TypeOK
    RegisteredIsLive
    RegistryExact
    InOrder
SYMMETRY Symmetry
CHECK_DEADLOCK FALSE
