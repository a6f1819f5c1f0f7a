\* evaluation/questions.json has 20 questions; the default limit is 10 jobs in a
\* window of 3600 seconds.  A tick is the script's time limit of 180 seconds.
SPECIFICATION EvalSpec
CONSTANTS
    N = 20
    Requests <- MCRequests
    evaluator = u1
    Users = {u1}
    NoCall = NoCall
    Limit = 10
    Window = 20
    PollSeconds = 1
    Timeout = 1
    RequestTime = 0
    MaxDelay = 0
    MaxTime = 1
    MaxFlushes = 0
    MaxLost = 0
    MaxApiFaults = 0
INVARIANT EvaluationWritesResults
\* The script ends.
CHECK_DEADLOCK FALSE
