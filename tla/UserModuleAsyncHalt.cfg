CONSTANTS
    u1 = u1
    u2 = u2
    s1 = s1
    s2 = s2
    c1 = c1
    Starts = {u1}
    Stops = {s1}
    Commands = {}
    None = None
    Scripts <- OnlyMixed
    MaxAtOnce = 2
SPECIFICATION FairSpec
PROPERTY AnyScriptEnds
CHECK_DEADLOCK FALSE
