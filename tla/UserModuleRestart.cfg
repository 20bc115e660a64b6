CONSTANTS
    u1 = u1
    u2 = u2
    s1 = s1
    s2 = s2
    c1 = c1
    Starts = {u1,u2}
    Stops = {}
    Commands = {}
    None = None
    Scripts <- OnlyLoop
    MaxAtOnce = 2
SPECIFICATION Spec
PROPERTY StopIsFinal
CHECK_DEADLOCK FALSE
