CONSTANTS
    c1 = c1
    c2 = c2
    c3 = c3
    Conns <- Everyone
    Patterns <- Overlapping
    Topics <- OneTopic
    PartialWildcards = {}
    MaxPublish = 1
    LateJoin = TRUE
    Slow <- Nobody
    NoId = NoId
SPECIFICATION Spec
INVARIANT
    ClientIdIdentifiesClient
CHECK_DEADLOCK FALSE
