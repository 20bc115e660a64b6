CONSTANTS
    p1 = p1
    p2 = p2
    p3 = p3
    r1 = r1
    r2 = r2
    a1 = a1
    s1 = s1
    s2 = s2
    Plain = {p1, p2, p3}
    Reentrant = {}
    Awaited = {}
    Stops = {}
    MaxAtOnce = 2
    None = None
SPECIFICATION Spec
INVARIANT OnePlainCommand
CHECK_DEADLOCK FALSE
