SPECIFICATION Spec
CONSTANTS
    Clusters = {c1, c2}
INVARIANTS
    TypeOK
    OneResultPerAgentInOrder
    FailsOnlyWhenNothingIsLeft
    CompletedRunsAreCoherent
PROPERTY EveryRunEnds
\* A run of the graph ends.
CHECK_DEADLOCK FALSE
