CONSTANTS
    u1 = u1
    u2 = u2
    s1 = s1
    s2 = s2
    c1 = c1
    Starts = {u1,u2}
    Stops = {s1}
    Commands = {c1}
    None = None
    Scripts <- AsyncOrMain
    MaxAtOnce = 2
SPECIFICATION FairSpec
INVARIANTS
    TypeOK
    OrderlyUse
PROPERTIES
    StopIsFinalIfOrderlyOrOnce
    UseEnds
CHECK_DEADLOCK FALSE
