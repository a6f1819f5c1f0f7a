SPECIFICATION Spec
CONSTANTS
    ann = ann
    bob = bob
    e1 = e1
    e2 = e2
    n1 = n1
    n2 = n2
    c1 = c1
    c2 = c2
    c3 = c3
    Users = {ann, bob}
    Emails = {e1, e2}
    Names = {n1, n2}
    Payloads <- McPayloads
    Calls = {c1, c2, c3}
    NoUser = NoUser
    NoCall = NoCall
    Ttl = 1
    MaxTime = 2
SYMMETRY CallSymmetry
INVARIANTS
    JobsFollowLogins
    ProfilesAreVerified
    TokensHaveAccounts
    SignedInUsersExist
PROPERTIES
    LoginsStick
\* The calls and the clock are finite.
CHECK_DEADLOCK FALSE
