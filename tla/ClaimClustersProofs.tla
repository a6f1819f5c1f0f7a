------------------------- MODULE ClaimClustersProofs -------------------------
(***************************************************************************)
(* Proofs about ClaimClusters for any agents, statements and evidence and  *)
(* for any answers of the models.  IInv follows the keys of the claims:    *)
(* while the first answer is read a key is used exactly when it is in the  *)
(* cluster being read or in a validated one; in the fallback every claimed *)
(* key is either still missing or in a validated cluster, never both.      *)
(***************************************************************************)
EXTENDS ClaimClusters, FiniteSetTheorems, TLAPS

ClusterType ==
    [cluster_id : Nat, claims : SUBSET Reference,
     supporting_agents : SUBSET Agents, agent_agreement : 1 .. Cardinality(Agents)]

\* The keys in validated clusters.
Placed == UNION {keys(validated[i].claims) : i \in DOMAIN validated}

ClustersReal ==
    \A i \in DOMAIN validated :
        validated[i].cluster_id = i /\ validated[i].claims # {} /\ validated[i].claims \subseteq claims

ClustersDisjoint ==
    \A i, j \in DOMAIN validated :
        keys(validated[i].claims) \cap keys(validated[j].claims) # {} => i = j

Reading ==
    phase = "clusters" =>
        /\ references \subseteq claims
        /\ used = keys(references) \cup Placed
        /\ keys(references) \cap Placed = {}

FallingBack ==
    phase = "fallback" =>
        /\ missing \subseteq claims
        /\ keys(claims) = keys(missing) \cup Placed
        /\ keys(missing) \cap Placed = {}

Complete == phase \in {"contradictions", "done"} => keys(claims) = Placed

NoneYet == phase \in {"clusters", "fallback"} => contradictions = {}

IInv ==
    /\ TypeOK
    /\ ClustersReal
    /\ ClustersDisjoint
    /\ Reading
    /\ FallingBack
    /\ Complete
    /\ NoneYet
    /\ ContradictionsQuoteOneCluster

\* A cluster of at least one claim has between 1 and all agents.
LEMMA ClusterTyped ==
  ASSUME NEW id \in Nat, NEW refs \in SUBSET Reference, refs # {}
  PROVE  claim_cluster(id, refs) \in ClusterType
  <1> DEFINE sup == supporting_agents(refs)
  <1>1. sup \subseteq Agents /\ sup # {}
    BY DEF supporting_agents, Reference
  <1>2. IsFiniteSet(sup) /\ Cardinality(sup) <= Cardinality(Agents)
    BY <1>1, AgentsAssumption, FS_Subset
  <1>3. Cardinality(sup) \in Nat /\ Cardinality(Agents) \in Nat /\ Cardinality(sup) # 0
    BY <1>1, <1>2, AgentsAssumption, FS_CardinalityType, FS_EmptySet
  <1>4. agent_agreement(refs) \in 1 .. Cardinality(Agents)
    BY <1>2, <1>3 DEF agent_agreement
  <1> QED
    BY <1>1, <1>4 DEF claim_cluster, ClusterType

\* A new cluster of claims whose keys are in no cluster yet keeps the clusters
\* real and disjoint, and adds just those keys.
LEMMA AppendCluster ==
  ASSUME validated \in Seq(ClusterType), ClustersReal, ClustersDisjoint, UNCHANGED claims,
         claims \in SUBSET Reference,
         NEW refs, refs \subseteq claims, refs # {}, keys(refs) \cap Placed = {},
         validated' = Append(validated, claim_cluster(Len(validated) + 1, refs))
  PROVE  /\ validated' \in Seq(ClusterType)
         /\ ClustersReal'
         /\ ClustersDisjoint'
         /\ Placed' = Placed \cup keys(refs)
  <1> DEFINE n == Len(validated) + 1
             c == claim_cluster(n, refs)
  <1>1. n \in Nat /\ c \in ClusterType
    BY ClusterTyped
  <1>2. validated' \in Seq(ClusterType) /\ DOMAIN validated = 1 .. n - 1 /\ DOMAIN validated' = 1 .. n
    BY <1>1
  <1>3. \A i \in DOMAIN validated : validated'[i] = validated[i]
    BY <1>1, <1>2
  <1>4. validated'[n] = c /\ c.claims = refs /\ c.cluster_id = n
    BY <1>1 DEF claim_cluster
  <1>5. \A i \in DOMAIN validated' : i \in DOMAIN validated \/ i = n
    BY <1>1, <1>2
  <1>6. ClustersReal'
    BY <1>3, <1>4, <1>5 DEF ClustersReal
  <1>7. \A i \in DOMAIN validated : keys(validated[i].claims) \subseteq Placed
    BY DEF Placed
  <1>8. ClustersDisjoint'
    <2> SUFFICES ASSUME NEW i \in DOMAIN validated', NEW j \in DOMAIN validated',
                        keys(validated'[i].claims) \cap keys(validated'[j].claims) # {}
                 PROVE  i = j
      BY DEF ClustersDisjoint, keys
    <2>1. CASE i = n /\ j \in DOMAIN validated
      BY <2>1, <1>3, <1>4, <1>7
    <2>2. CASE j = n /\ i \in DOMAIN validated
      BY <2>2, <1>3, <1>4, <1>7
    <2>3. CASE i \in DOMAIN validated /\ j \in DOMAIN validated
      BY <2>3, <1>3 DEF ClustersDisjoint
    <2> QED
      BY <2>1, <2>2, <2>3, <1>5
  <1>9. Placed' = Placed \cup keys(refs)
    <2>1. ASSUME NEW k PROVE k \in Placed' <=> k \in Placed \/ k \in keys(refs)
      <3>1. k \in Placed' <=> \E i \in DOMAIN validated' : k \in keys(validated'[i].claims)
        BY DEF Placed, keys
      <3>2. k \in Placed <=> \E i \in DOMAIN validated : k \in keys(validated[i].claims)
        BY DEF Placed
      <3>3. DOMAIN validated \subseteq DOMAIN validated' /\ n \in DOMAIN validated'
        BY <1>1, <1>2
      <3> HIDE DEF n, c
      <3> QED
        BY <3>1, <3>2, <3>3, <1>3, <1>4, <1>5
    <2> QED
      BY <2>1
  <1> QED
    BY <1>2, <1>6, <1>8, <1>9

LEMMA InitInv == Init => IInv
  <1> SUFFICES ASSUME Init PROVE IInv
    OBVIOUS
  <1>1. validated = <<>> /\ DOMAIN validated = {}
    BY DEF Init
  <1>2. Placed = {} /\ ClustersReal /\ ClustersDisjoint
    BY <1>1 DEF Placed, ClustersReal, ClustersDisjoint
  <1>3. TypeOK
    BY DEF Init, TypeOK
  <1>4. Reading /\ FallingBack /\ Complete /\ NoneYet
    BY <1>2 DEF Init, Reading, FallingBack, Complete, NoneYet, keys
  <1>5. ContradictionsQuoteOneCluster
    BY DEF Init, ContradictionsQuoteOneCluster
  <1> QED
    BY <1>2, <1>3, <1>4, <1>5 DEF IInv

\* What the clusters hold does not depend on the rest of the state.
LEMMA ClustersStay ==
  ASSUME IInv, UNCHANGED <<claims, validated>>
  PROVE  ClustersReal' /\ ClustersDisjoint' /\ Placed' = Placed
  BY DEF IInv, ClustersReal, ClustersDisjoint, Placed, keys

\* While there are no contradictions there is nothing to show of them.
LEMMA NoContradictions ==
  ASSUME contradictions = {}
  PROVE  ContradictionsQuoteOneCluster
  BY DEF ContradictionsQuoteOneCluster

\* Two claims of one key are in the same group.
LEMMA GroupTakesKeys ==
  ASSUME NEW refs \in SUBSET Reference, NEW r \in refs
  PROVE  /\ keys(refs \ same_text(refs, r)) \cap keys(same_text(refs, r)) = {}
         /\ keys(refs \ same_text(refs, r)) \cup keys(same_text(refs, r)) = keys(refs)
         /\ same_text(refs, r) \subseteq refs /\ r \in same_text(refs, r)
  <1>1. \A p, q \in refs : key(p) = key(q) => p.statement = q.statement
    BY DEF key
  <1>2. keys(refs \ same_text(refs, r)) \cap keys(same_text(refs, r)) = {}
    BY <1>1 DEF keys, same_text
  <1>3. keys(refs \ same_text(refs, r)) \cup keys(same_text(refs, r)) = keys(refs)
    BY DEF keys, same_text
  <1> QED
    BY <1>2, <1>3 DEF same_text

LEMMA ReadReferenceInv ==
  ASSUME IInv, NEW p \in Reference, ReadReference(p)
  PROVE  IInv'
  <1>1. phase = "clusters" /\ UNCHANGED <<claims, phase, missing, validated, contradictions>>
    BY DEF ReadReference
  <1>2. ClustersReal' /\ ClustersDisjoint' /\ Placed' = Placed
    BY <1>1, ClustersStay
  <1>3. key(p) \in Agents \X Statements
    BY DEF key, Reference
  <1>4. TypeOK'
    BY <1>1, <1>3 DEF IInv, TypeOK, ReadReference
  <1>5. Reading'
    <2>1. CASE UNCHANGED <<references, used>>
      BY <2>1, <1>1, <1>2 DEF IInv, Reading, keys
    <2>2. CASE ~ UNCHANGED <<references, used>>
      <3>1. PICK r \in claims : /\ key(r) = key(p)
                               /\ references' = references \cup {r}
                               /\ used' = used \cup {key(p)}
                               /\ key(p) \notin used
        BY <2>2 DEF ReadReference
      <3>2. keys(references') = keys(references) \cup {key(p)}
        BY <3>1 DEF keys
      <3> QED
        BY <3>1, <3>2, <1>1, <1>2 DEF IInv, Reading, keys
    <2> QED
      BY <2>1, <2>2
  <1>6. FallingBack' /\ Complete' /\ NoneYet' /\ contradictions' = {}
    BY <1>1 DEF IInv, FallingBack, Complete, NoneYet
  <1> QED
    BY <1>2, <1>4, <1>5, <1>6 DEF IInv, ContradictionsQuoteOneCluster

LEMMA EndClusterInv ==
  ASSUME IInv, EndCluster
  PROVE  IInv'
  <1>1. /\ phase = "clusters" /\ references # {} /\ references' = {}
        /\ validated' = Append(validated, claim_cluster(Len(validated) + 1, references))
        /\ UNCHANGED <<claims, phase, used, missing, contradictions, reads>>
    BY DEF EndCluster
  <1>2. references \subseteq claims /\ keys(references) \cap Placed = {} /\ used = keys(references) \cup Placed
    BY <1>1 DEF IInv, Reading
  <1>3. /\ validated' \in Seq(ClusterType) /\ ClustersReal' /\ ClustersDisjoint'
        /\ Placed' = Placed \cup keys(references)
    <2>1. validated \in Seq(ClusterType) /\ claims \in SUBSET Reference
      BY DEF IInv, TypeOK, ClusterType
    <2> QED
      BY <2>1, <1>1, <1>2, AppendCluster DEF IInv
  <1>4. TypeOK'
    BY <1>1, <1>3 DEF IInv, TypeOK, ClusterType
  <1>5. Reading' /\ FallingBack' /\ Complete' /\ NoneYet' /\ contradictions' = {}
    BY <1>1, <1>2, <1>3 DEF IInv, Reading, FallingBack, Complete, NoneYet, keys
  <1> QED
    BY <1>3, <1>4, <1>5 DEF IInv, ContradictionsQuoteOneCluster

LEMMA FindMissingInv ==
  ASSUME IInv, FindMissing
  PROVE  IInv'
  <1>1. /\ phase = "clusters" /\ references = {} /\ phase' = "fallback"
        /\ missing' = {r \in claims : key(r) \notin used}
        /\ UNCHANGED <<claims, references, used, validated, contradictions, reads>>
    BY DEF FindMissing
  <1>2. ClustersReal' /\ ClustersDisjoint' /\ Placed' = Placed
    BY <1>1, ClustersStay
  <1>3. used = Placed
    BY <1>1 DEF IInv, Reading, keys
  <1>4. Placed \subseteq keys(claims)
    BY DEF IInv, ClustersReal, Placed, keys
  <1>5. keys(claims) = keys(missing') \cup Placed /\ keys(missing') \cap Placed = {}
    BY <1>1, <1>3, <1>4 DEF keys
  <1>6. TypeOK'
    BY <1>1 DEF IInv, TypeOK
  <1>7. Reading' /\ FallingBack' /\ Complete' /\ NoneYet' /\ contradictions' = {}
    BY <1>1, <1>2, <1>5 DEF IInv, Reading, FallingBack, Complete, NoneYet, keys
  <1> QED
    BY <1>2, <1>6, <1>7 DEF IInv, ContradictionsQuoteOneCluster

LEMMA FallbackClusterInv ==
  ASSUME IInv, FallbackCluster
  PROVE  IInv'
  <1>1. phase = "fallback" /\ UNCHANGED <<claims, phase, references, used, contradictions, reads>>
    BY DEF FallbackCluster
  <1> PICK r \in missing :
        /\ validated' = Append(validated, claim_cluster(Len(validated) + 1, same_text(missing, r)))
        /\ missing' = missing \ same_text(missing, r)
    BY DEF FallbackCluster
  <1> DEFINE group == same_text(missing, r)
  <1>2. missing \subseteq claims /\ keys(claims) = keys(missing) \cup Placed /\ keys(missing) \cap Placed = {}
    BY <1>1 DEF IInv, FallingBack
  <1>3. missing \in SUBSET Reference /\ validated \in Seq(ClusterType) /\ claims \in SUBSET Reference
    BY DEF IInv, TypeOK, ClusterType
  <1>4. keys(missing') \cap keys(group) = {} /\ keys(missing') \cup keys(group) = keys(missing)
    BY <1>3, GroupTakesKeys
  <1>5. group \subseteq claims /\ group # {} /\ keys(group) \cap Placed = {}
    BY <1>2, <1>3, <1>4, GroupTakesKeys
  <1>6. /\ validated' \in Seq(ClusterType) /\ ClustersReal' /\ ClustersDisjoint'
        /\ Placed' = Placed \cup keys(group)
    BY <1>1, <1>3, <1>5, AppendCluster DEF IInv
  <1>7. TypeOK'
    BY <1>1, <1>3, <1>6 DEF IInv, TypeOK, ClusterType
  <1>8. FallingBack'
    <2>1. /\ missing' \subseteq claims
          /\ keys(claims) = keys(missing') \cup Placed'
          /\ keys(missing') \cap Placed' = {}
      BY <1>2, <1>4, <1>6
    <2> QED
      BY <2>1, <1>1 DEF FallingBack, keys
  <1>9. Reading' /\ Complete' /\ NoneYet' /\ contradictions' = {}
    BY <1>1 DEF IInv, Reading, Complete, NoneYet
  <1> QED
    BY <1>6, <1>7, <1>8, <1>9 DEF IInv, ContradictionsQuoteOneCluster

LEMMA ReadContradictionInv ==
  ASSUME IInv, NEW id \in ClusterId, NEW proposed \in SUBSET Statements, ReadContradiction(id, proposed)
  PROVE  IInv'
  <1>1. /\ phase = "contradictions" /\ reads' = reads + 1
        /\ UNCHANGED <<claims, phase, references, used, missing, validated>>
    BY DEF ReadContradiction
  <1>2. ClustersReal' /\ ClustersDisjoint' /\ Placed' = Placed
    BY <1>1, ClustersStay
  <1>3. Reading' /\ FallingBack' /\ Complete' /\ NoneYet'
    BY <1>1, <1>2 DEF IInv, Reading, FallingBack, Complete, NoneYet
  <1>4. ASSUME NEW c \in contradictions', c \notin contradictions
        PROVE  \E i \in DOMAIN validated :
                   /\ c = [cluster_id |-> id, positions |-> accepted(validated[i].claims, proposed)]
                   /\ Names(id, i) /\ Cardinality(c.positions) >= 2
    BY <1>4 DEF ReadContradiction
  <1>5. \A i \in DOMAIN validated : validated[i].claims \subseteq Reference /\ validated[i].cluster_id = i
    BY DEF IInv, TypeOK, ClustersReal
  <1>6. TypeOK'
    <2>1. ASSUME NEW c \in contradictions', c \notin contradictions
          PROVE  c \in [cluster_id : Nat,
                        positions : SUBSET [statement : Statements, supporting_agents : SUBSET Agents,
                                            evidence : SUBSET Evidence]]
      <3>1. PICK i \in DOMAIN validated :
                c = [cluster_id |-> id, positions |-> accepted(validated[i].claims, proposed)]
        BY <2>1, <1>4
      <3>2. \A s \in proposed :
                position(validated[i].claims, s)
                    \in [statement : Statements, supporting_agents : SUBSET Agents, evidence : SUBSET Evidence]
        BY <1>5 DEF position, supporting_agents, Reference
      <3>3. id \in Nat
        BY BoundsAssumption DEF ClusterId
      <3> QED
        BY <3>1, <3>2, <3>3 DEF accepted
    <2> QED
      BY <2>1, <1>1 DEF IInv, TypeOK
  <1> DEFINE backing(i, p) == {r \in validated[i].claims : r.statement = p.statement}
             Quoted(i, p) == /\ backing(i, p) # {}
                             /\ p.supporting_agents = {r.agent : r \in backing(i, p)}
                             /\ p.evidence = {r.evidence : r \in backing(i, p)}
  <1>7. ContradictionsQuoteOneCluster'
    <2> SUFFICES ASSUME NEW c \in contradictions'
                 PROVE  /\ Cardinality(c.positions) >= 2
                        /\ \E i \in DOMAIN validated :
                               /\ \A j \in DOMAIN validated : validated[j].cluster_id = c.cluster_id <=> j = i
                               /\ \A p \in c.positions : Quoted(i, p)
      BY <1>1 DEF ContradictionsQuoteOneCluster
    <2>1. CASE c \in contradictions
      BY <2>1 DEF IInv, ContradictionsQuoteOneCluster
    <2>2. CASE c \notin contradictions
      <3>1. PICK i \in DOMAIN validated :
                /\ c = [cluster_id |-> id, positions |-> accepted(validated[i].claims, proposed)]
                /\ Names(id, i) /\ Cardinality(c.positions) >= 2
        BY <2>2, <1>4
      <3>2. \A j \in DOMAIN validated : validated[j].cluster_id = c.cluster_id <=> j = i
        BY <3>1, <1>5 DEF Names
      <3>3. ASSUME NEW p \in c.positions
            PROVE  Quoted(i, p)
        <4>1. PICK r \in validated[i].claims : p = position(validated[i].claims, r.statement)
          BY <3>1 DEF accepted
        <4>2. /\ p.statement = r.statement
              /\ p.supporting_agents = {m.agent : m \in {n \in validated[i].claims : n.statement = r.statement}}
              /\ p.evidence = {m.evidence : m \in {n \in validated[i].claims : n.statement = r.statement}}
          BY <4>1 DEF position, supporting_agents
        <4>3. r \in backing(i, p)
          BY <4>2
        <4> QED
          BY <4>2, <4>3
      <3> HIDE DEF Quoted
      <3> QED
        BY <3>1, <3>2, <3>3
    <2> QED
      BY <2>1, <2>2
  <1> QED
    BY <1>2, <1>3, <1>6, <1>7 DEF IInv

LEMMA NextInv == IInv /\ [Next]_vars => IInv'
  <1> SUFFICES ASSUME IInv, [Next]_vars
               PROVE  IInv'
    OBVIOUS
  <1>1. ASSUME NEW p \in Reference, ReadReference(p) PROVE IInv'
    BY <1>1, ReadReferenceInv
  <1>2. CASE EndCluster
    BY <1>2, EndClusterInv
  <1>3. CASE FindMissing
    BY <1>3, FindMissingInv
  <1>4. CASE FallbackCluster
    BY <1>4, FallbackClusterInv
  <1>5. CASE ClustersDone
    <2>1. phase = "fallback" /\ missing = {} /\ phase' = "contradictions" /\ reads' = 0
          /\ UNCHANGED <<claims, references, used, missing, validated, contradictions>>
      BY <1>5 DEF ClustersDone
    <2>2. ClustersReal' /\ ClustersDisjoint' /\ Placed' = Placed
      BY <2>1, ClustersStay
    <2>3. keys(claims) = Placed /\ contradictions' = {}
      BY <2>1 DEF IInv, FallingBack, NoneYet, keys
    <2>4. TypeOK' /\ Reading' /\ FallingBack' /\ Complete' /\ NoneYet'
      BY <2>1, <2>2, <2>3 DEF IInv, TypeOK, Reading, FallingBack, Complete, NoneYet, keys
    <2> QED
      BY <2>2, <2>3, <2>4 DEF IInv, ContradictionsQuoteOneCluster
  <1>6. ASSUME NEW id \in ClusterId, NEW proposed \in SUBSET Statements, ReadContradiction(id, proposed)
        PROVE  IInv'
    BY <1>6, ReadContradictionInv
  <1>7. CASE Resolved
    <2>1. phase = "contradictions" /\ phase' = "done"
          /\ UNCHANGED <<claims, references, used, missing, validated, contradictions, reads>>
      BY <1>7 DEF Resolved
    <2>2. ClustersReal' /\ ClustersDisjoint' /\ Placed' = Placed
      BY <2>1, ClustersStay
    <2>3. TypeOK' /\ Reading' /\ FallingBack' /\ Complete' /\ NoneYet'
      BY <2>1, <2>2 DEF IInv, TypeOK, Reading, FallingBack, Complete, NoneYet, keys
    <2>4. ContradictionsQuoteOneCluster'
      BY <2>1 DEF IInv, ContradictionsQuoteOneCluster
    <2> QED
      BY <2>2, <2>3, <2>4 DEF IInv
  <1>8. CASE UNCHANGED vars
    <2>1. ClustersReal' /\ ClustersDisjoint' /\ Placed' = Placed
      BY <1>8, ClustersStay DEF vars
    <2>2. TypeOK' /\ Reading' /\ FallingBack' /\ Complete' /\ NoneYet'
      BY <1>8, <2>1 DEF vars, IInv, TypeOK, Reading, FallingBack, Complete, NoneYet, keys
    <2>3. ContradictionsQuoteOneCluster'
      BY <1>8 DEF vars, IInv, ContradictionsQuoteOneCluster
    <2> QED
      BY <2>1, <2>2, <2>3 DEF IInv
  <1> QED
    BY <1>1, <1>2, <1>3, <1>4, <1>5, <1>6, <1>7, <1>8 DEF Next

-----------------------------------------------------------------------------
\* The inductive invariant holds in every reachable state.
THEOREM Invariance == Spec => []IInv
  <1> QED
    BY InitInv, NextInv, PTL DEF Spec

\* Clusters and contradictions always have the fields their classes declare
\* (ConsensusAnalyzer builds clusters without validating them).
THEOREM TypeCorrect == Spec => []TypeOK
  <1>1. IInv => TypeOK
    BY DEF IInv
  <1> QED
    BY Invariance, <1>1, PTL

\* Whatever the model answers, the finished clusters partition the claims that
\* were really made (_validate_clusters with its fallback).
THEOREM ClustersPartitionClaimsHolds == Spec => []ClustersPartitionClaims
  <1>1. IInv => ClustersPartitionClaims
    BY DEF IInv, ClustersPartitionClaims, ClustersReal, ClustersDisjoint, Complete, Placed
  <1> QED
    BY Invariance, <1>1, PTL

\* Whatever the model answers, every contradiction kept is about one cluster
\* and quotes it (_validate_contradictions).
THEOREM ContradictionsQuoteOneClusterHolds == Spec => []ContradictionsQuoteOneCluster
  <1>1. IInv => ContradictionsQuoteOneCluster
    BY DEF IInv
  <1> QED
    BY Invariance, <1>1, PTL

\* Whatever the model answers, every claim row of a stored report refers to the
\* one cluster that holds the claim (cluster_by_claim of _add_research_rows).
THEOREM ClaimRowsPointAtTheirClusterHolds == Spec => []ClaimRowsPointAtTheirCluster
  <1>1. ASSUME IInv, phase = "done", NEW r \in claims
        PROVE  \E i \in DOMAIN validated :
                   /\ key(r) \in keys(validated[i].claims)
                   /\ {j \in DOMAIN validated : validated[j].cluster_id \in cluster_by_claim(r)} = {i}
    <2>1. key(r) \in Placed
      BY <1>1 DEF IInv, Complete, keys
    <2>2. PICK i \in DOMAIN validated : key(r) \in keys(validated[i].claims)
      BY <2>1 DEF Placed
    <2>3. holders(r) = {i}
      BY <1>1, <2>2 DEF IInv, ClustersDisjoint, holders
    <2>4. i <= i
      BY <1>1 DEF IInv, TypeOK
    <2>5. cluster_by_claim(r) = {i}
      <3>1. {n \in holders(r) : \A j \in holders(r) : j <= n} = {i}
        BY <2>3, <2>4
      <3>2. validated[i].cluster_id = i
        BY <1>1 DEF IInv, ClustersReal
      <3> QED
        BY <3>1, <3>2 DEF cluster_by_claim
    <2>6. {j \in DOMAIN validated : validated[j].cluster_id \in cluster_by_claim(r)} = {i}
      BY <1>1, <2>5 DEF IInv, ClustersReal
    <2> QED
      BY <2>2, <2>6
  <1>2. IInv => ClaimRowsPointAtTheirCluster
    BY <1>1 DEF ClaimRowsPointAtTheirCluster
  <1> QED
    BY Invariance, <1>2, PTL
=============================================================================
