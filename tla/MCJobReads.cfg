SPECIFICATION FairReadSpec
CONSTANTS
    Jobs = {j1, j2}
    Users = {u1, u2}
    Readers = {r1}
    q1 = q1
    q1b = q1b
    q2 = q2
    k1 = k1
    k2 = k2
    Queries <- MCQueries
    Keys <- MCKeys
    normalize_query <- MCNormalize
    NoJob = NoJob
    NoRequest = NoRequest
    NoState = NoState
    NoRead = NoRead
    MaxCrashes = 1
    MaxDbFaults = 1
INVARIANTS
    CompletedReadsHaveReport
    ServedReportsAnswerTheirOwner
\* A reader always has a next request, so the model never stops.
PROPERTY RunningJobsSettle
