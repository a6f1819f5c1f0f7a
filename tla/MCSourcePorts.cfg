SPECIFICATION Spec
CONSTANTS
    broad = broad
    academic = academic
    one = one
    two = two
    v6 = v6
    p = p
    q = q
    AgentName <- McAgents
    Hosts = {one, two, v6}
    Literals = {v6}
    Paths = {p, q}
    Parameters = {1, 2, 3}
    Tracking = {3}
    Urls <- McPortUrls
    NoPort = NoPort
    MaxSources = 2
INVARIANTS
    CanonicalUrlReachesTheSource
\* The records are made once.
CHECK_DEADLOCK FALSE
