CONSTANTS
    RampCall = {r1, r2}
    MaxLevel = 4
    ChangePerSec = 2
    UpperLimit = 3
    Client = {b1, b2}
    Text = {t1, t2, t3}
    Command = {m1, m2}
    MaxLines = 2
    NoClient = NoClient
    DayLength = 5
    TimeLists = {{1}, {2, 4}, {1, 2, 4}}
    MaxDrops = 2
    RpcCaller = {a, b}
    MaxReplies = 3
    AnswerNow = 5000
    AnswerTo = {0, 3000, 4500}
    AnswerAgo = {4000}
    AnswerLength = 6000
    StoreTimes = {1000, 5000}
    CacheTimes = {2000, 5001}
    SeriesTimes = {0, 1, 2, 3, 5, 8}
    SeriesValues = {1, 4}
    MaxPoints = 3
    Lengths = {4, 5, 6}
    Intervals = {2, 3, 7}
    SeriesTo = 8
    Variable = {v, w}
    Emission = {e1, e2}
    Viewer = {b1}
    Initial = Initial
    Names = {"a", "b"}
    PartialWildcards = {"a*"}
    MaxLen = 4
    TaskName = {x, y}
    Browser = {b1, b2}
    MaxSecond = 4
    Script = {s, u}
    WithNode = {s}
    NodeCaller = {script, command}
    MaxStarts = 2
    Depth = 2
    TrendBins = 3
    FillTimes = {2, 3, 5, 7, 11}
    MaxFills = 2
    MaxTime = 11
    StartAt = 3
SPECIFICATION Spec
INVARIANTS
    PartsTypeOK
    RampEndsAtLastTarget
    ConsoleLosesNothing
    RepliesKept
    AnswerIsCurrent
    ResampleKeepsPoints
    SetValueStays
    LoopFollowsRules
    TrendShowsFills
    ChangesAreShown
    CycleIsAtOnce
PROPERTIES
    PollersWoken
    ScheduleKept
    SubscribersHeal
    LoopsEnd
CHECK_DEADLOCK FALSE
