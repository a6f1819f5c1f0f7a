SPECIFICATION Spec
CONSTANTS
    Users = {u1, u2}
    Requests = {r1, r2, r3, r4}
    Limit = 2
    Window = 2
    NoCall = NoCall
    MaxDelay = 1
    MaxTime = 4
    MaxFlushes = 1
    MaxLost = 1
SYMMETRY Symmetry
INVARIANTS
    TypeOK
    QuotaPerWindow
    RefusedOnlyOverQuota
PROPERTY RefusalIsFinal
\* The clock and the sets of requests are finite: at the end the model stops.
CHECK_DEADLOCK FALSE
