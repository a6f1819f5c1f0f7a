SPECIFICATION FairSpec
CONSTANTS
    j1 = j1
    j2 = j2
    ann = ann
    bob = bob
    Jobs = {j1, j2}
    Questions = {q}
    NoJob = NoJob
    NoQuestion = NoQuestion
    Users = {ann, bob}
    NoUser = NoUser
    NoClick = NoClick
    MaxClicks = 6
    MaxFaults = 2
INVARIANTS
    SessionIsItsUsers
    ShownWasOpenedLast
PROPERTIES
    CompletedJobsAreShown
    FailedJobsAreDropped
\* Clicks and jobs are finite, and nobody has to sign in again.
CHECK_DEADLOCK FALSE
