SPECIFICATION Spec
CONSTANTS
    arxiv = arxiv
    gov = gov
    org = org
    com1 = com1
    com2 = com2
    Domains = {arxiv, gov, org, com1, com2}
    GovEdu = {gov}
    Org = {arxiv, org}
    HIGH_QUALITY_DOMAINS = {arxiv}
    Ages <- MCAges
    unknown = unknown
    NoScore = NoScore
    MaxCitations = 3
    weight_agreement = 35
    weight_source_quality = 25
    weight_independence = 20
    weight_recency = 10
    weight_contradiction = 10
    threshold_high = 7500
    threshold_medium = 5000
INVARIANTS
    EvidenceCountsTheRightWay
    RepeatedDomainsCountLess
    TierReflectsAgreement
    BetterSourcesCountMore
\* The cluster is scored once.
CHECK_DEADLOCK FALSE
