\* As many questions as the limit allows.
SPECIFICATION EvalSpec
CONSTANTS
    N = 2
    Requests <- MCRequests
    evaluator = u1
    Users = {u1}
    NoCall = NoCall
    Limit = 2
    Window = 4
    PollSeconds = 2
    Timeout = 3
    RequestTime = 1
    MaxDelay = 1
    MaxTime = 16
    MaxFlushes = 1
    MaxLost = 1
    MaxApiFaults = 1
INVARIANTS
    ResultsCoverEveryQuestion
    TimeLimitKept
    EvaluationWritesResults
PROPERTY EvaluationEnds
\* The script ends.
CHECK_DEADLOCK FALSE
