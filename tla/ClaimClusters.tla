---------------------------- MODULE ClaimClusters ----------------------------
(***************************************************************************)
(* What the consensus stages accept of a model's answers                   *)
(* (app/research/consensus.py).  A model groups the agents' claims and     *)
(* names contradictions; both answers are read reference by reference and  *)
(* checked against the claims really made.  Claims the model left out are  *)
(* grouped by their normalized text.  The answers are arbitrary: a model   *)
(* may invent, repeat or omit references and ids.                          *)
(***************************************************************************)
EXTENDS Naturals, Sequences, FiniteSets

CONSTANTS
    Agents,
    Statements,
    Evidence,
    normalize_claim,    \* normalize_claim[s]: what _normalize_claim makes of s
    MaxClaims,          \* bound: claims made
    MaxReferences,      \* bound: references in the model's first answer
    MaxContradictions   \* bound: contradictions in its second

ASSUME AgentsAssumption == IsFiniteSet(Agents)
ASSUME NormalizeAssumption == normalize_claim \in [Statements -> Statements]
ASSUME BoundsAssumption == MaxClaims \in Nat /\ MaxReferences \in Nat /\ MaxContradictions \in Nat

VARIABLES
    claims,         \* claims of the agents that succeeded
    phase,
    references,     \* accepted references of the cluster being read
    used,           \* keys of all references accepted so far
    missing,        \* claims the first answer left out
    validated,      \* the clusters
    contradictions,
    reads           \* references and contradictions read in this phase

vars == <<claims, phase, references, used, missing, validated, contradictions, reads>>

Reference == [agent : Agents, statement : Statements, evidence : Evidence]

key(r) == <<r.agent, r.statement>>
keys(refs) == {key(r) : r \in refs}

ClusterId == 1 .. MaxClaims + MaxReferences + 1

supporting_agents(refs) == {r.agent : r \in refs}

\* Mutant of agent_agreement: claims are counted, not agents.
agent_agreement_Claims(refs) == Cardinality(refs)

agent_agreement(refs) == Cardinality(supporting_agents(refs))

\* model_copy(update=...), which validates nothing
claim_cluster(id, refs) ==
    [cluster_id |-> id, claims |-> refs,
     supporting_agents |-> supporting_agents(refs), agent_agreement |-> agent_agreement(refs)]

Init ==
    /\ claims \in {c \in SUBSET Reference : Cardinality(c) <= MaxClaims}
    /\ phase = IF claims = {} THEN "done" ELSE "clusters"
    /\ references = {}
    /\ used = {}
    /\ missing = {}
    /\ validated = <<>>
    /\ contradictions = {}
    /\ reads = 0

-----------------------------------------------------------------------------
(* compare: the clusters the model proposes, then the claims it left out *)

\* Mutant of ReadReference: repeated references are not noticed.
ReadReference_Repeated(p) ==
    /\ phase = "clusters"
    /\ reads < MaxReferences /\ reads' = reads + 1
    /\ \E r \in claims : key(r) = key(p) /\ references' = references \cup {r}
    /\ used' = used \cup {key(p)}
    /\ UNCHANGED <<claims, phase, missing, validated, contradictions>>

\* A reference to a claim not made, or used before, is passed over.  Of several
\* claims of an agent with one statement, "actual" holds one.
ReadReference(p) ==
    /\ phase = "clusters"
    /\ reads < MaxReferences /\ reads' = reads + 1
    /\ \/ /\ key(p) \in keys(claims) \ used
          /\ \E r \in claims : key(r) = key(p) /\ references' = references \cup {r}
          /\ used' = used \cup {key(p)}
       \/ /\ key(p) \notin keys(claims) \ used
          /\ UNCHANGED <<references, used>>
    /\ UNCHANGED <<claims, phase, missing, validated, contradictions>>

\* Mutant of EndCluster: the cluster keeps the id the model gave it.
EndCluster_KeepsId ==
    /\ phase = "clusters" /\ references # {}
    /\ \E id \in ClusterId : validated' = Append(validated, claim_cluster(id, references))
    /\ references' = {}
    /\ UNCHANGED <<claims, phase, used, missing, contradictions, reads>>

\* The end of a proposed cluster; one without accepted references is dropped.
EndCluster ==
    /\ phase = "clusters" /\ references # {}
    /\ validated' = Append(validated, claim_cluster(Len(validated) + 1, references))
    /\ references' = {}
    /\ UNCHANGED <<claims, phase, used, missing, contradictions, reads>>

\* The end of the first answer.
FindMissing ==
    /\ phase = "clusters" /\ references = {}
    /\ missing' = {r \in claims : key(r) \notin used}
    /\ phase' = "fallback"
    /\ UNCHANGED <<claims, references, used, validated, contradictions, reads>>

\* The claims whose statements have the same normalized text.
same_text(refs, r) == {m \in refs : normalize_claim[m.statement] = normalize_claim[r.statement]}

\* cluster_exact_claims of the missing claims, one group after the other.
FallbackCluster ==
    /\ phase = "fallback"
    /\ \E r \in missing :
           /\ validated' = Append(validated, claim_cluster(Len(validated) + 1, same_text(missing, r)))
           /\ missing' = missing \ same_text(missing, r)
    /\ UNCHANGED <<claims, phase, references, used, contradictions, reads>>

ClustersDone ==
    /\ phase = "fallback" /\ missing = {}
    /\ phase' = "contradictions"
    /\ reads' = 0
    /\ UNCHANGED <<claims, references, used, missing, validated, contradictions>>

-----------------------------------------------------------------------------
(* resolve: the contradictions the model proposes *)

\* by_id: of clusters with one id, the last
Names(id, i) == validated[i].cluster_id = id /\ \A j \in DOMAIN validated : validated[j].cluster_id = id => j <= i

\* Mutant of position: every side is credited with the whole cluster.
position_WholeCluster(refs, s) ==
    [statement |-> s, supporting_agents |-> supporting_agents(refs),
     evidence |-> {r.evidence : r \in refs}]

\* Whatever agents and evidence the model names for a statement, its position
\* gets those of the cluster's claims.
position(refs, s) ==
    LET backing == {r \in refs : r.statement = s}
    IN  [statement |-> s, supporting_agents |-> supporting_agents(backing),
         evidence |-> {r.evidence : r \in backing}]

\* The proposed statements that the cluster has claims for.
accepted(refs, proposed) == {position(refs, s) : s \in proposed \cap {r.statement : r \in refs}}

\* A contradiction of an unknown cluster, or with fewer than two positions
\* left, is passed over.
ReadContradiction(id, proposed) ==
    /\ phase = "contradictions"
    /\ reads < MaxContradictions /\ reads' = reads + 1
    /\ contradictions' = contradictions \cup
           {[cluster_id |-> id, positions |-> accepted(validated[i].claims, proposed)] :
               i \in {n \in DOMAIN validated :
                          Names(id, n) /\ Cardinality(accepted(validated[n].claims, proposed)) >= 2}}
    /\ UNCHANGED <<claims, phase, references, used, missing, validated>>

Resolved ==
    /\ phase = "contradictions"
    /\ phase' = "done"
    /\ UNCHANGED <<claims, references, used, missing, validated, contradictions, reads>>

-----------------------------------------------------------------------------
(* complete: the claim rows of the finished report *)

\* Mutant of holders: claims are looked up by their statement.
holders_Statement(r) ==
    {i \in DOMAIN validated : \E m \in validated[i].claims : m.statement = r.statement}

\* The clusters with a reference under the claim's key.
holders(r) == {i \in DOMAIN validated : key(r) \in keys(validated[i].claims)}

\* The cluster_id of a claim's row, none (NULL) without a holder; of several
\* the dictionary keeps the last.
cluster_by_claim(r) ==
    {validated[i].cluster_id : i \in {n \in holders(r) : \A j \in holders(r) : j <= n}}

-----------------------------------------------------------------------------
Next ==
    \/ \E p \in Reference : ReadReference(p)
    \/ EndCluster
    \/ FindMissing
    \/ FallbackCluster
    \/ ClustersDone
    \/ \E id \in ClusterId, proposed \in SUBSET Statements : ReadContradiction(id, proposed)
    \/ Resolved

Spec == Init /\ [][Next]_vars

-----------------------------------------------------------------------------
(* Properties *)

\* The clusters have the fields ClaimCluster declares, agent_agreement within
\* the number of agents, though they are built without validation.
TypeOK ==
    /\ claims \in SUBSET Reference
    /\ phase \in {"clusters", "fallback", "contradictions", "done"}
    /\ references \in SUBSET Reference
    /\ used \in SUBSET (Agents \X Statements)
    /\ missing \in SUBSET Reference
    /\ validated \in Seq([cluster_id : Nat, claims : SUBSET Reference,
                          supporting_agents : SUBSET Agents, agent_agreement : 1 .. Cardinality(Agents)])
    /\ contradictions \in SUBSET [cluster_id : Nat,
           positions : SUBSET [statement : Statements, supporting_agents : SUBSET Agents,
                               evidence : SUBSET Evidence]]
    /\ reads \in Nat

\* When the clusters are complete they hold only claims really made, with their
\* own evidence, and every agent's statement is in one of them and in no two -
\* whatever the model invented, repeated or left out.
ClustersPartitionClaims ==
    phase \in {"contradictions", "done"} =>
        /\ \A i \in DOMAIN validated : validated[i].claims # {} /\ validated[i].claims \subseteq claims
        /\ \A k \in keys(claims) : \E i \in DOMAIN validated : k \in keys(validated[i].claims)
        /\ \A i, j \in DOMAIN validated :
               keys(validated[i].claims) \cap keys(validated[j].claims) # {} => i = j

\* A contradiction is about one cluster, and each of its two or more positions
\* is a statement of that cluster with exactly the agents that made it and the
\* evidence they gave: nobody else is credited, and no evidence is invented.
ContradictionsQuoteOneCluster ==
    \A c \in contradictions :
        /\ Cardinality(c.positions) >= 2
        /\ \E i \in DOMAIN validated :
               /\ \A j \in DOMAIN validated : validated[j].cluster_id = c.cluster_id <=> j = i
               /\ \A p \in c.positions :
                      LET backing == {r \in validated[i].claims : r.statement = p.statement}
                      IN  /\ backing # {}
                          /\ p.supporting_agents = {r.agent : r \in backing}
                          /\ p.evidence = {r.evidence : r \in backing}

\* The row of every claim names one cluster of the stored report, which quotes
\* that agent's statement: no claim is stored without a cluster or under one
\* that only shares its wording (_add_research_rows).
ClaimRowsPointAtTheirCluster ==
    phase = "done" => \A r \in claims :
        \E i \in DOMAIN validated :
            /\ key(r) \in keys(validated[i].claims)
            /\ {j \in DOMAIN validated : validated[j].cluster_id \in cluster_by_claim(r)} = {i}
=============================================================================
