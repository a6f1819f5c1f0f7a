SPECIFICATION Spec
CONSTANTS
    Agents = {a1, a2}
    s1 = s1
    s2 = s2
    s3 = s3
    Statements <- MCStatements
    Evidence = {e1, e2}
    normalize_claim <- MCNormalize
    MaxClaims = 3
    MaxReferences = 3
    MaxContradictions = 1
SYMMETRY MCSymmetry
INVARIANTS
    TypeOK
    ClustersPartitionClaims
    ContradictionsQuoteOneCluster
    ClaimRowsPointAtTheirCluster
\* The stages end.
CHECK_DEADLOCK FALSE
