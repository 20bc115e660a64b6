CONSTANTS
    p1 = p1
    p2 = p2
    p3 = p3
    r1 = r1
    r2 = r2
    a1 = a1
    s1 = s1
    s2 = s2
    Plain = {p1, p2}
    Reentrant = {r1, r2}
    Awaited = {a1}
    Stops = {s1, s2}
    MaxAtOnce = 2
    None = None
SPECIFICATION FairSpec
INVARIANTS
    TypeOK
    OnePlainCommandIfOrderly
    RunningIsKnownIfOrderly
    NothingCrashesIfOrderly
    ReentrantIsKnown
PROPERTIES
    CommandsAndStopsEnd
CHECK_DEADLOCK FALSE
