CONSTANTS
    c1 = c1
    c2 = c2
    c3 = c3
    Conns <- Two
    Patterns <- Overlapping
    Topics <- OneTopic
    PartialWildcards = {}
    MaxPublish = 1
    LateJoin = TRUE
    Slow <- OneSlow
    NoId = NoId
SPECIFICATION FairSpec
PROPERTIES
    ImplementsPubSub
    PublisherGoesOn
    DeadPeerForgotten
    OthersServed
CHECK_DEADLOCK FALSE
