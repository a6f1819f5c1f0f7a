---------------------------- MODULE SourceScoring ----------------------------
(***************************************************************************)
(* The confidence score of a claim cluster: score_claims, _quality and     *)
(* _recency of app/research/source_integrity.py.                           *)
(*                                                                         *)
(* Weights are in hundredths, quality and recency in tenths, the score in  *)
(* ten-thousandths.  The code computes in floating point and rounds to     *)
(* four digits; where the exact value lies half-way between two of them    *)
(* either may come out.                                                    *)
(***************************************************************************)
EXTENDS Integers, Sequences, FiniteSets

CONSTANTS
    Domains,
    GovEdu, Org,            \* domains ending in .gov or .edu, and in .org
    HIGH_QUALITY_DOMAINS,
    Ages,                   \* age_days of a source
    unknown,                \* no published_at
    NoScore,
    MaxCitations,           \* bound: URLs cited in a cluster
    weight_agreement, weight_source_quality, weight_independence,
    weight_recency, weight_contradiction,
    threshold_high, threshold_medium

ASSUME DomainsAssumption == GovEdu \cup Org \cup HIGH_QUALITY_DOMAINS \subseteq Domains
ASSUME AgesAssumption == Ages \ {unknown} \subseteq Int
ASSUME WeightsAssumption ==
    /\ {weight_agreement, weight_source_quality, weight_independence,
        weight_recency, weight_contradiction} \subseteq 0 .. 100
    /\ {threshold_high, threshold_medium} \subseteq 0 .. 10000
    /\ threshold_high >= threshold_medium
ASSUME BoundAssumption == MaxCitations \in Nat

VARIABLES
    cluster,  \* the cluster to score, reduced to what the score depends on
    score     \* its ConfidenceScore

vars == <<cluster, score>>

\* A cited URL: its host, and the age of the source the search returned for
\* it.  extract keeps only URLs the search returned, so each has a source.
Citation == [domain : Domains, age : Ages]
Citations == UNION {[1 .. n -> Citation] : n \in 1 .. MaxCitations}

\* Each agreeing agent has a claim in the cluster, and each claim cites a URL.
ClaimCluster ==
    {c \in [agent_agreement : 1 .. 3, cited : Citations, contradicted : BOOLEAN] :
        c.agent_agreement <= Len(c.cited)}

Init == cluster \in ClaimCluster /\ score = NoScore

-----------------------------------------------------------------------------
\* Mutant of quality: every .org is as good as the next.
quality_OrgFirst(d) == IF d \in Org THEN 7 ELSE IF d \in GovEdu \cup HIGH_QUALITY_DOMAINS THEN 10 ELSE 5

quality(d) == IF d \in GovEdu \cup HIGH_QUALITY_DOMAINS THEN 10 ELSE IF d \in Org THEN 7 ELSE 5

\* A date in the future counts as today.
recency(age) ==
    CASE age = unknown -> 5
      [] age # unknown /\ age <= 30 -> 10
      [] age # unknown /\ age > 30 /\ age <= 365 -> 7
      [] age # unknown /\ age > 365 -> 3

identities(c) == {c.cited[i].domain : i \in DOMAIN c.cited}

qualities(c) == [i \in DOMAIN c.cited |-> quality(c.cited[i].domain)]
recencies(c) == [i \in DOMAIN c.cited |-> recency(c.cited[i].age)]
sum(f) ==
    LET total[n \in 0 .. Len(f)] == IF n = 0 THEN 0 ELSE total[n - 1] + f[n]
    IN  total[Len(f)]

\* Mutant of penalty: contradictions are looked up and not counted.
penalty_None(c) == 0

penalty(c) == IF c.contradicted THEN 1 ELSE 0

\* Mutant of independence: URLs are counted, not domains.
independence_Urls(c) == Len(c.cited)

\* in units of one cited URL
independence(c) == Cardinality(identities(c))

\* The weighted sum, exactly, as a numerator over denominator(c).
denominator(c) == 3000 * Len(c.cited)
weighted(c) ==
    LET n == Len(c.cited)
    IN  10 * n * weight_agreement * c.agent_agreement
        + 3 * weight_source_quality * sum(qualities(c))
        + 30 * weight_independence * independence(c)
        + 3 * weight_recency * sum(recencies(c))
        - 30 * n * weight_contradiction * penalty(c)

clamped(n, d) == IF n < 0 THEN 0 ELSE IF n > d THEN d ELSE n

\* the ten-thousandths nearest to n / d: one, or two at a tie
rounded(n, d) ==
    LET down == (10000 * n) \div d
    IN  {r \in {down, down + 1} : 2 * (10000 * n - r * d) <= d /\ 2 * (r * d - 10000 * n) <= d}

final_scores(c) == rounded(clamped(weighted(c), denominator(c)), denominator(c))

\* Mutant of tier: the threshold for "medium" is taken for that of "high".
tier_Swapped(f) ==
    CASE f >= threshold_medium -> "high"
      [] f < threshold_medium -> "low"

tier(f) ==
    CASE f >= threshold_high -> "high"
      [] f < threshold_high /\ f >= threshold_medium -> "medium"
      [] f < threshold_high /\ f < threshold_medium -> "low"

ScoreCluster ==
    /\ score = NoScore
    /\ \E f \in final_scores(cluster) : score' = [final |-> f, tier |-> tier(f)]
    /\ UNCHANGED cluster

Next == ScoreCluster

Spec == Init /\ [][Next]_vars

-----------------------------------------------------------------------------
(* Properties *)

rank == [low |-> 1, medium |-> 2, high |-> 3]

\* What another cluster may be scored.  Equal values are equal scores, though a
\* tie may be rounded up for the one and down for the other.
AtLeast(c) ==
    \/ final_scores(c) = final_scores(cluster)
    \/ \A f \in final_scores(c) : f >= score.final /\ rank[tier(f)] >= rank[score.tier]
AtMost(c) ==
    \/ final_scores(c) = final_scores(cluster)
    \/ \A f \in final_scores(c) : f <= score.final /\ rank[tier(f)] <= rank[score.tier]
Below(c) == \A f \in final_scores(c) : f < score.final

\* Agreement of one more agent on the same citations never lowers score or tier
\* (score_claims), and a contradiction lowers the score and never raises the tier.
EvidenceCountsTheRightWay ==
    score # NoScore =>
        /\ [cluster EXCEPT !.agent_agreement = @ + 1] \in ClaimCluster =>
               AtLeast([cluster EXCEPT !.agent_agreement = @ + 1])
        /\ ~cluster.contradicted =>
               LET contested == [cluster EXCEPT !.contradicted = TRUE]
               IN  AtMost(contested) /\ Below(contested)

\* Citing a second page of a domain instead of an independent domain of the
\* same quality always lowers the score.
RepeatedDomainsCountLess ==
    score # NoScore =>
        \A i, j \in DOMAIN cluster.cited :
            LET d == cluster.cited[i].domain
                e == cluster.cited[j].domain
            IN  /\ quality(d) = quality(e)
                /\ \A k \in DOMAIN cluster.cited \ {j} : cluster.cited[k].domain # e
                /\ d # e
                => Below([cluster EXCEPT !.cited[j].domain = d])

\* With the default weights and thresholds the tiers keep their meaning: a
\* claim of one agent is never "high", nor one that is contested unless all
\* three made it, and an uncontested claim all three made is never "low".
TierReflectsAgreement ==
    score # NoScore =>
        /\ score.tier = "high" => cluster.agent_agreement >= 2
        /\ score.tier = "high" /\ cluster.contradicted => cluster.agent_agreement = 3
        /\ score.tier = "low" => cluster.agent_agreement < 3 \/ cluster.contradicted

\* A domain listed as of high quality, or official, is never worth less than
\* another, and a newer source never less than an older one.
BetterSourcesCountMore ==
    score # NoScore =>
        \A i \in DOMAIN cluster.cited :
            LET u == cluster.cited[i] IN
            /\ \A d \in (GovEdu \cup HIGH_QUALITY_DOMAINS) \ identities(cluster) :
                   AtLeast([cluster EXCEPT !.cited[i].domain = d])
            /\ \A a \in Ages :
                   unknown \notin {a, u.age} /\ a < u.age => AtLeast([cluster EXCEPT !.cited[i].age = a])
=============================================================================
