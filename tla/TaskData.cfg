CONSTANTS
    AnswerNow = 5000
    AnswerTo = {0, 3000, 4500}
    AnswerAgo = {4000}
    AnswerLength = 6000
    StoreTimes = {1000, 5000}
    CacheTimes = {2000, 5001}
SPECIFICATION DataAnswerSpec
INVARIANT TaskDataIsShown
CHECK_DEADLOCK FALSE
