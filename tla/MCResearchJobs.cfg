SPECIFICATION Spec
CONSTANTS
    Jobs = {j1, j2, j3}
    Users = {u1}
    q1 = q1
    q1b = q1b
    q2 = q2
    k1 = k1
    k2 = k2
    Queries <- MCQueries
    Keys <- MCKeys
    normalize_query <- MCNormalize
    NoJob = NoJob
    NoRequest = NoRequest
    NoState = NoState
    MaxCrashes = 1
    MaxDbFaults = 2
SYMMETRY Symmetry
PROPERTY LifecycleSpec
INVARIANTS
    TypeOK
    ReportProvenance
    CacheBackedByReport
    FaultsDamageOneJobEach
\* The sets of jobs, crashes and faults are finite: when all are used the model stops.
CHECK_DEADLOCK FALSE
