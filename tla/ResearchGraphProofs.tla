------------------------- MODULE ResearchGraphProofs -------------------------
(***************************************************************************)
(* Proofs about ResearchGraph for every set of clusters: failures are      *)
(* isolated and completed runs are coherent.  IInv says, node by node,     *)
(* which part of the ResearchState has been decided; ResultsInv says what  *)
(* the reducer has made of the results that have arrived so far.           *)
(***************************************************************************)
EXTENDS ResearchGraph, FiniteSetTheorems, SequenceTheorems, TLAPS

\* The run has failed exactly when it must.
FailureDecided == status = "failed" <=> Succeeded = {} \/ raised # {}

ClustersDecided ==
    status # "failed" => (claim_clusters # {} <=> \E r \in Succeeded : r.claims)

ConflictsDecided == contested_points = contradictions /\ contradictions \subseteq claim_clusters

NothingDecided ==
    /\ status = "running" /\ raised = {} /\ final_answer = FALSE
    /\ contradictions = {} /\ contested_points = {}

Decided ==
    /\ FailureDecided
    /\ ClustersDecided
    /\ ConflictsDecided

IInv ==
    /\ node \in {"agents", "compare_findings", "deduplicate_sources",
                 "resolve_contradictions", "score_confidence", "synthesise", "end", "raised"}
    /\ agent \in [Agents -> {"search", "extract", "ended"}]
    /\ (\E a \in Agents : agent[a] # "ended") => node = "agents"
    /\ final_answer \in BOOLEAN
    /\ node \in {"agents", "compare_findings"} => NothingDecided
    /\ node \in {"deduplicate_sources", "resolve_contradictions", "score_confidence", "synthesise"} =>
           Decided /\ status \in {"running", "failed"} /\ final_answer = FALSE
    /\ node \in {"synthesise", "end"} => Decided /\ scored = claim_clusters
    /\ node = "end" => status \in {"completed", "failed"}
    /\ node = "end" => (final_answer = TRUE <=> status = "completed")

LEMMA InitInv == Init => IInv
  BY DEF Init, IInv, NothingDecided

\* What is decided about the run rests on the agents' results, which are final.
LEMMA SucceededStays ==
  ASSUME UNCHANGED agent_results
  PROVE  Succeeded' = Succeeded
  BY DEF Succeeded

LEMMA NextInv == IInv /\ [Next]_vars => IInv'
  <1> SUFFICES ASSUME IInv, [Next]_vars
               PROVE  IInv'
    OBVIOUS
  <1> USE DEF IInv
  <1>1. ASSUME NEW a \in Agents, Search(a) PROVE IInv'
    <2>1. UNCHANGED <<node, agent_results, claim_clusters, contradictions, contested_points,
                      scored, final_answer, raised, status>>
      BY <1>1 DEF Search, consensus
    <2>2. agent' \in [Agents -> {"search", "extract", "ended"}] /\ agent[a] # "ended"
      BY <1>1 DEF Search
    <2>3. NothingDecided'
      BY <2>1, <2>2 DEF NothingDecided
    <2> QED BY <2>1, <2>2, <2>3
  <1>2. ASSUME NEW a \in Agents, Extract(a) \/ AgentFails(a) \/ AgentTimesOut(a)
        PROVE IInv'
    <2>1. PICK result : End(a, result)
      BY <1>2 DEF Extract, AgentFails, AgentTimesOut
    <2>2. agent[a] # "ended" /\ node = "agents"
      BY <1>2 DEF Extract, AgentFails, AgentTimesOut
    <2>3. agent' = [agent EXCEPT ![a] = "ended"]
      BY <2>1 DEF End
    <2>4. UNCHANGED <<contradictions, contested_points, final_answer, raised, status>>
      BY <2>1 DEF End, consensus
    <2>5. CASE \A b \in Agents \ {a} : agent[b] = "ended"
      <3>1. node' = "compare_findings"
        BY <2>1, <2>5 DEF End
      <3>2. \A b \in Agents : agent'[b] = "ended"
        BY <2>3, <2>5
      <3> QED BY <2>2, <2>3, <2>4, <3>1, <3>2 DEF NothingDecided
    <2>6. CASE \E b \in Agents \ {a} : agent[b] # "ended"
      <3>1. node' = "agents"
        BY <2>1, <2>2, <2>6 DEF End
      <3> QED BY <2>2, <2>3, <2>4, <3>1 DEF NothingDecided
    <2> QED BY <2>5, <2>6
  <1> USE DEF At
  <1> USE DEF NothingDecided, Decided, FailureDecided, ClustersDecided, ConflictsDecided
  <1>3. CASE CompareFindings
    <2>1. Succeeded' = Succeeded
      BY <1>3, SucceededStays DEF CompareFindings
    <2> QED BY <1>3, <2>1 DEF CompareFindings, any_succeeded
  <1>4. CASE DeduplicateSources
    <2>1. Succeeded' = Succeeded
      BY <1>4, SucceededStays DEF DeduplicateSources
    <2> QED BY <1>4, <2>1 DEF DeduplicateSources, consensus
  <1>5. CASE ResolveContradictions
    <2>1. Succeeded' = Succeeded
      BY <1>5, SucceededStays DEF ResolveContradictions
    <2> QED BY <1>5, <2>1 DEF ResolveContradictions
  <1>6. CASE ScoreConfidence
    <2>1. Succeeded' = Succeeded
      BY <1>6, SucceededStays DEF ScoreConfidence
    <2> QED BY <1>6, <2>1 DEF ScoreConfidence
  <1>7. CASE Synthesise
    <2>1. Succeeded' = Succeeded
      BY <1>7, SucceededStays DEF Synthesise
    <2>2. CASE status = "failed"
      BY <1>7, <2>1, <2>2 DEF Synthesise
    <2>3. CASE status # "failed" /\ status' = "completed"
      BY <1>7, <2>1, <2>3 DEF Synthesise
    <2>4. CASE status # "failed" /\ status' = "failed"
      BY <1>7, <2>1, <2>4 DEF Synthesise
    <2> QED BY <1>7, <2>2, <2>3, <2>4 DEF Synthesise
  <1>8. CASE UNCHANGED vars
    BY <1>8, SucceededStays DEF vars
  <1> QED BY <1>1, <1>2, <1>3, <1>4, <1>5, <1>6, <1>7, <1>8 DEF Next, ConsensusNode

\* Node by node, the state of a run says exactly what its agents and its
\* consensus calls have decided so far (the nodes of graph.py).
THEOREM Invariance == Spec => []IInv
  BY InitInv, NextInv, PTL DEF Spec

\* Failures are isolated: a run fails only with every agent, or by a consensus
\* call that raised; whatever the agents' interleaving.
THEOREM FailureIsolation == Spec => []FailsOnlyWhenNothingIsLeft
  <1>1. IInv => FailsOnlyWhenNothingIsLeft
    BY DEF IInv, Decided, FailureDecided, FailsOnlyWhenNothingIsLeft
  <1> QED BY <1>1, Invariance, PTL

\* A completed run has its answer and a score for every cluster, contested or not.
THEOREM Coherence == Spec => []CompletedRunsAreCoherent
  <1>1. IInv => CompletedRunsAreCoherent
    BY DEF IInv, Decided, ClustersDecided, ConflictsDecided, CompletedRunsAreCoherent
  <1> QED BY <1>1, Invariance, PTL
-----------------------------------------------------------------------------
(* The reducer *)

Outcome == [agent : Agents, status : {"succeeded", "failed", "timed_out"},
            claims : BOOLEAN, sources : Sources]

\* Where AgentName puts an agent.
Place(a) == IF a = "broad_web" THEN 1 ELSE IF a = "academic" THEN 2 ELSE 3

LEMMA Places ==
  /\ Agents = {"broad_web", "academic", "recent_news"}
  /\ AgentName[1] = "broad_web" /\ AgentName[2] = "academic" /\ AgentName[3] = "recent_news"
  BY DEF Agents, AgentName

InOrder(results) ==
    \A i, j \in DOMAIN results : i < j => Place(results[i].agent) < Place(results[j].agent)

LEMMA SameInterval ==
  ASSUME NEW m \in Nat, NEW n \in Nat, 1..m = 1..n
  PROVE  m = n
  <1>1. CASE m < n
    <2>1. n \in 1..n /\ n \notin 1..m
      BY <1>1
    <2> QED BY <2>1
  <1>2. CASE n < m
    <2>1. m \in 1..m /\ m \notin 1..n
      BY <1>2
    <2> QED BY <2>1
  <1> QED BY <1>1, <1>2

\* Sifting at no position, or at one.
LEMMA Piece ==
  ASSUME NEW S, NEW s \in Seq(S), NEW I \in SUBSET DOMAIN s,
         \A i, j \in I : i = j
  PROVE  /\ Sift(s, I) \in Seq(S)
         /\ Len(Sift(s, I)) \in {0, 1}
         /\ Len(Sift(s, I)) = 0 => I = {}
         /\ Len(Sift(s, I)) = 1 => \E i \in I : Sift(s, I)[1] = s[i]
  <1> DEFINE n == Cardinality(I)
             rank(i) == Cardinality({k \in I : k <= i})
             e(j) == s[CHOOSE i \in I : rank(i) = j]
  <1>1. s \in [1..Len(s) -> S] /\ DOMAIN s = 1..Len(s) /\ Len(s) \in Nat
    BY LenProperties
  <1>2. CASE I = {}
    <2>1. n = 0
      BY <1>2, FS_EmptySet
    <2> HIDE DEF n, rank
    <2>2. [j \in 1..n |-> e(j)] \in [1..0 -> S]
      BY <2>1
    <2>3. Sift(s, I) \in [1..0 -> S]
      BY <2>2 DEF Sift, n, rank
    <2>4. Sift(s, I) \in Seq(S)
      BY <2>3, SeqDef
    <2>5. 1..Len(Sift(s, I)) = 1..0 /\ Len(Sift(s, I)) \in Nat
      BY <2>3, <2>4, LenProperties
    <2>6. Len(Sift(s, I)) = 0
      BY <2>5, SameInterval
    <2>7. Len(Sift(s, I)) # 1
      BY <2>6
    <2> QED BY <1>2, <2>4, <2>6, <2>7
  <1>3. CASE I # {}
    <2>1. PICK i \in I : I = {i}
      BY <1>3
    <2>2. n = 1
      BY <2>1, FS_Singleton
    <2>3. {k \in I : k <= i} = I
      BY <1>1, <2>1
    <2>4. rank(i) = 1
      BY <2>2, <2>3
    <2> HIDE DEF n, rank
    <2>5. (CHOOSE j \in I : rank(j) = 1) = i
      BY <2>1, <2>4
    <2>6. e(1) = s[i] /\ s[i] \in S
      BY <1>1, <2>1, <2>5
    <2> HIDE DEF e
    <2>7. /\ [j \in 1..n |-> e(j)] \in [1..1 -> S]
          /\ [j \in 1..n |-> e(j)][1] = s[i]
      BY <2>2, <2>6
    <2>8. Sift(s, I) \in [1..1 -> S] /\ Sift(s, I)[1] = s[i]
      BY <2>7 DEF Sift, n, rank, e
    <2>9. Sift(s, I) \in Seq(S)
      BY <2>8, SeqDef
    <2>10. 1..Len(Sift(s, I)) = 1..1 /\ Len(Sift(s, I)) \in Nat
      BY <2>8, <2>9, LenProperties
    <2>11. Len(Sift(s, I)) = 1
      BY <2>10, SameInterval
    <2> QED BY <2>1, <2>8, <2>9, <2>11
  <1> QED BY <1>2, <1>3

\* Where the elements of up to three pieces are in their concatenation.
Joined(m, t1, t2, t3) ==
    /\ DOMAIN m = 1..(Len(t1) + Len(t2) + Len(t3))
    /\ Len(t1) = 1 => m[1] = t1[1]
    /\ Len(t2) = 1 => m[Len(t1) + 1] = t2[1]
    /\ Len(t3) = 1 => m[Len(t1) + Len(t2) + 1] = t3[1]

LEMMA ThreePieces ==
  ASSUME NEW S, NEW t1 \in Seq(S), NEW t2 \in Seq(S), NEW t3 \in Seq(S),
         Len(t1) \in {0, 1}, Len(t2) \in {0, 1}, Len(t3) \in {0, 1}
  PROVE  t1 \o t2 \o t3 \in Seq(S) /\ Joined(t1 \o t2 \o t3, t1, t2, t3)
  <1> DEFINE u == t1 \o t2
             m == u \o t3
  <1>1. /\ u \in Seq(S) /\ Len(u) = Len(t1) + Len(t2)
        /\ \A i \in 1..(Len(t1) + Len(t2)) : u[i] = IF i <= Len(t1) THEN t1[i] ELSE t2[i - Len(t1)]
    BY ConcatProperties
  <1> HIDE DEF u
  <1>2. /\ m \in Seq(S) /\ Len(m) = Len(u) + Len(t3)
        /\ \A i \in 1..(Len(u) + Len(t3)) : m[i] = IF i <= Len(u) THEN u[i] ELSE t3[i - Len(u)]
    <2>1. u \in Seq(S)
      BY <1>1
    <2> QED BY <2>1, ConcatProperties
  <1> HIDE DEF m
  <1>3. DOMAIN m = 1..(Len(t1) + Len(t2) + Len(t3))
    BY <1>1, <1>2, LenProperties
  <1>4. ASSUME Len(t1) = 1 PROVE m[1] = t1[1]
    <2>1. u[1] = t1[1]
      BY <1>1, <1>4
    <2> QED BY <1>1, <1>2, <1>4, <2>1
  <1>5. ASSUME Len(t2) = 1 PROVE m[Len(t1) + 1] = t2[1]
    <2>1. u[Len(t1) + 1] = t2[1]
      BY <1>1, <1>5
    <2> QED BY <1>1, <1>2, <1>5, <2>1
  <1>6. ASSUME Len(t3) = 1 PROVE m[Len(t1) + Len(t2) + 1] = t3[1]
    BY <1>1, <1>2, <1>6
  <1>7. m = t1 \o t2 \o t3
    BY DEF m, u
  <1>8. Joined(m, t1, t2, t3)
    BY <1>3, <1>4, <1>5, <1>6 DEF Joined
  <1> QED BY <1>2, <1>7, <1>8

LEMMA ThreePositions ==
  ASSUME NEW a \in {0, 1}, NEW b \in {0, 1}, NEW c \in {0, 1}, NEW i \in 1..(a + b + c)
  PROVE  (a = 1 /\ i = 1) \/ (b = 1 /\ i = a + 1) \/ (c = 1 /\ i = a + b + 1)
  OBVIOUS

\* What the reducer makes of results that hold at most one of each agent:
\* the same results, in the order of the agents.
LEMMA Merged ==
  ASSUME NEW S, NEW left \in Seq(S), NEW right \in Seq(S),
         \A r \in S : r.agent \in Agents,
         \A i, j \in DOMAIN (left \o right) :
             (left \o right)[i].agent = (left \o right)[j].agent => i = j
  PROVE  LET m == merge_agent_results(left, right) IN
         /\ m \in Seq(S)
         /\ InOrder(m)
         /\ \A i \in DOMAIN m : \E k \in DOMAIN (left \o right) : m[i] = (left \o right)[k]
         /\ \A k \in DOMAIN (left \o right) : \E i \in DOMAIN m :
                m[i].agent = (left \o right)[k].agent
  <1> DEFINE s == left \o right
             at(a) == {i \in DOMAIN s : s[i].agent = a}
             t(a) == Sift(s, at(a))
             m == t("broad_web") \o t("academic") \o t("recent_news")
  <1>1. merge_agent_results(left, right) = m
    BY Places DEF merge_agent_results
  <1>2. s \in Seq(S)
    BY ConcatProperties
  <1>3. ASSUME NEW a \in Agents
        PROVE  /\ t(a) \in Seq(S)
               /\ Len(t(a)) \in {0, 1}
               /\ Len(t(a)) = 0 => \A k \in DOMAIN s : s[k].agent # a
               /\ Len(t(a)) = 1 => t(a)[1].agent = a /\ \E k \in DOMAIN s : t(a)[1] = s[k]
    <2>1. at(a) \in SUBSET DOMAIN s /\ \A i, j \in at(a) : i = j
      OBVIOUS
    <2> HIDE DEF s, at
    <2>2. /\ t(a) \in Seq(S)
          /\ Len(t(a)) \in {0, 1}
          /\ Len(t(a)) = 0 => at(a) = {}
          /\ Len(t(a)) = 1 => \E i \in at(a) : t(a)[1] = s[i]
      BY <1>2, <2>1, Piece
    <2> QED BY <2>2 DEF at
  <1>4. \A k \in DOMAIN s : s[k].agent \in Agents
    BY <1>2, LenProperties, ElementOfSeq
  <1> DEFINE t1 == t("broad_web")
             t2 == t("academic")
             t3 == t("recent_news")
  <1>5. /\ t1 \in Seq(S) /\ t2 \in Seq(S) /\ t3 \in Seq(S)
        /\ Len(t1) \in {0, 1} /\ Len(t2) \in {0, 1} /\ Len(t3) \in {0, 1}
        /\ Len(t1) = 1 => t1[1].agent = "broad_web"
        /\ Len(t2) = 1 => t2[1].agent = "academic"
        /\ Len(t3) = 1 => t3[1].agent = "recent_news"
    BY <1>3, Places
  <1>6. /\ Len(t1) = 1 => \E k \in DOMAIN s : t1[1] = s[k]
        /\ Len(t2) = 1 => \E k \in DOMAIN s : t2[1] = s[k]
        /\ Len(t3) = 1 => \E k \in DOMAIN s : t3[1] = s[k]
    BY <1>3, Places
  <1>7. \A k \in DOMAIN s : \/ Len(t1) = 1 /\ s[k].agent = "broad_web"
                            \/ Len(t2) = 1 /\ s[k].agent = "academic"
                            \/ Len(t3) = 1 /\ s[k].agent = "recent_news"
    BY <1>3, <1>4, Places
  <1>8. m = t1 \o t2 \o t3
    OBVIOUS
  <1> HIDE DEF t1, t2, t3, t, s, m
  <1>9. m \in Seq(S) /\ Joined(m, t1, t2, t3)
    BY <1>5, <1>8, ThreePieces
  <1>10. \A i \in DOMAIN m : \/ Len(t1) = 1 /\ i = 1
                             \/ Len(t2) = 1 /\ i = Len(t1) + 1
                             \/ Len(t3) = 1 /\ i = Len(t1) + Len(t2) + 1
    BY <1>5, <1>9, ThreePositions DEF Joined
  <1>11. /\ Len(t1) = 1 => 1 \in DOMAIN m /\ Place(m[1].agent) = 1
         /\ Len(t2) = 1 => Len(t1) + 1 \in DOMAIN m /\ Place(m[Len(t1) + 1].agent) = 2
         /\ Len(t3) = 1 => Len(t1) + Len(t2) + 1 \in DOMAIN m /\ Place(m[Len(t1) + Len(t2) + 1].agent) = 3
    BY <1>5, <1>9 DEF Place, Joined
  <1>12. InOrder(m)
    BY <1>5, <1>10, <1>11 DEF InOrder
  <1>13. \A i \in DOMAIN m : \E k \in DOMAIN s : m[i] = s[k]
    BY <1>6, <1>9, <1>10 DEF Joined
  <1>14. \A k \in DOMAIN s : \E i \in DOMAIN m : m[i].agent = s[k].agent
    BY <1>5, <1>7, <1>9, <1>11 DEF Joined
  <1> QED BY <1>1, <1>9, <1>12, <1>13, <1>14 DEF s

-----------------------------------------------------------------------------
(* The results *)

LEMMA AgentsOf ==
  ASSUME NEW results \in Seq(Outcome)
  PROVE  /\ Len(results) \in Nat /\ DOMAIN results = 1..Len(results)
         /\ \A i \in 1..Len(results) : results[i].agent \in Agents
  <1>1. \A i \in 1..Len(results) : results[i] \in Outcome
    BY ElementOfSeq
  <1>2. Len(results) \in Nat /\ DOMAIN results = 1..Len(results)
    BY LenProperties
  <1> QED BY <1>1, <1>2 DEF Outcome

\* The agents that have ended have one result each, in order.
ResultsInv ==
    /\ agent_results \in Seq(Outcome)
    /\ InOrder(agent_results)
    /\ \A i \in DOMAIN agent_results : agent[agent_results[i].agent] = "ended"
    /\ \A a \in Agents : agent[a] = "ended" =>
           \E i \in DOMAIN agent_results : agent_results[i].agent = a

\* The result of an agent that had none is merged in its place.
LEMMA EndMerges ==
  ASSUME ResultsInv, agent \in [Agents -> {"search", "extract", "ended"}],
         NEW a \in Agents, agent[a] # "ended",
         NEW result \in Outcome, result.agent = a, End(a, result)
  PROVE  ResultsInv'
  <1> DEFINE s == agent_results \o <<result>>
             m == merge_agent_results(agent_results, <<result>>)
             n == Len(agent_results)
  <1>1. agent_results \in Seq(Outcome) /\ <<result>> \in Seq(Outcome)
    BY DEF ResultsInv
  <1>2. DOMAIN agent_results = 1..n /\ n \in Nat
    BY <1>1, LenProperties
  <1>3. \A i \in 1..n : agent_results[i].agent \in Agents
    BY <1>1, AgentsOf
  <1>4. /\ s \in Seq(Outcome) /\ Len(s) = n + 1
        /\ \A i \in 1..n : s[i] = agent_results[i]
        /\ s[n + 1] = result
    BY <1>1, <1>2, ConcatProperties
  <1>5. DOMAIN s = 1..(n + 1)
    BY <1>4, LenProperties
  <1> HIDE DEF s, n
  <1>6. ASSUME NEW i \in DOMAIN s, NEW j \in DOMAIN s, s[i].agent = s[j].agent
        PROVE  i = j
    <2>1. CASE i \in 1..n /\ j \in 1..n
      BY <1>2, <1>3, <1>4, <1>6, <2>1, Places DEF ResultsInv, InOrder, Place
    <2>2. \A k \in 1..n : s[k].agent # a
      BY <1>2, <1>3, <1>4 DEF ResultsInv
    <2> QED BY <1>2, <1>4, <1>5, <1>6, <2>1, <2>2
  <1>7. \A r \in Outcome : r.agent \in Agents
    BY DEF Outcome
  <1>8. /\ m \in Seq(Outcome)
        /\ InOrder(m)
        /\ \A i \in DOMAIN m : \E k \in DOMAIN s : m[i] = s[k]
        /\ \A k \in DOMAIN s : \E i \in DOMAIN m : m[i].agent = s[k].agent
    <2>1. \A i, j \in DOMAIN s : s[i].agent = s[j].agent => i = j
      BY <1>6
    <2> QED BY <1>1, <1>7, <2>1, Merged DEF s
  <1>9. agent_results' = m /\ agent' = [agent EXCEPT ![a] = "ended"]
    BY DEF End
  <1> HIDE DEF m
  <1>10. ASSUME NEW i \in DOMAIN m
         PROVE  agent'[m[i].agent] = "ended"
    <2>1. PICK k \in DOMAIN s : m[i] = s[k]
      BY <1>8
    <2>2. CASE k \in 1..n
      BY <1>2, <1>3, <1>4, <1>9, <2>1, <2>2 DEF ResultsInv
    <2>3. CASE k = n + 1
      BY <1>4, <1>9, <2>1, <2>3
    <2> QED BY <1>2, <1>5, <2>2, <2>3
  <1>11. ASSUME NEW b \in Agents, agent'[b] = "ended"
         PROVE  \E i \in DOMAIN m : m[i].agent = b
    <2>1. \E k \in DOMAIN s : s[k].agent = b
      <3>1. CASE b = a
        BY <1>2, <1>4, <1>5, <3>1
      <3>2. CASE b # a
        BY <1>2, <1>4, <1>5, <1>9, <1>11, <3>2 DEF ResultsInv
      <3> QED BY <3>1, <3>2
    <2> QED BY <1>8, <2>1
  <1> QED BY <1>8, <1>9, <1>10, <1>11 DEF ResultsInv

\* A step that leaves the agents alone leaves their results alone.
LEMMA ResultsStay ==
  ASSUME ResultsInv, UNCHANGED <<agent, agent_results>>
  PROVE  ResultsInv'
  BY DEF ResultsInv, InOrder

LEMMA ResultsInit == Init => TypeOK /\ ResultsInv
  <1> SUFFICES ASSUME Init PROVE TypeOK /\ ResultsInv
    OBVIOUS
  <1>1. agent_results = <<>> /\ DOMAIN agent_results = {} /\ agent_results \in Seq(Outcome)
    BY EmptySeq DEF Init
  <1>2. ResultsInv
    BY <1>1 DEF Init, ResultsInv, InOrder
  <1>3. TypeOK
    BY <1>1 DEF Init, TypeOK, Outcome, Sources
  <1> QED BY <1>2, <1>3

\* What the results leave open of the types.
RestTyped ==
    /\ agent \in [Agents -> {"search", "extract", "ended"}]
    /\ found \in [Agents -> Sources]
    /\ node \in {"agents", "compare_findings", "deduplicate_sources",
                 "resolve_contradictions", "score_confidence", "synthesise", "end", "raised"}
    /\ claim_clusters \subseteq Clusters
    /\ contradictions \subseteq Clusters
    /\ contested_points \subseteq Clusters
    /\ scored \subseteq Clusters
    /\ final_answer \in BOOLEAN
    /\ status \in {"running", "completed", "failed"}

LEMMA TypeParts == ResultsInv => (TypeOK <=> RestTyped)
  BY DEF ResultsInv, TypeOK, RestTyped, Outcome

LEMMA ResultsNext == TypeOK /\ ResultsInv /\ [Next]_vars => (TypeOK /\ ResultsInv)'
  <1> SUFFICES ASSUME TypeOK, ResultsInv, [Next]_vars
               PROVE  TypeOK' /\ ResultsInv'
    OBVIOUS
  <1>1. RestTyped
    BY TypeParts
  <1>2. SUFFICES RestTyped' /\ ResultsInv'
    BY DEF ResultsInv, TypeOK, RestTyped, Outcome
  <1>3. ASSUME NEW a \in Agents, Search(a) PROVE RestTyped' /\ ResultsInv'
    <2>1. RestTyped'
      BY <1>1, <1>3 DEF Search, RestTyped, consensus
    <2>2. agent' = [agent EXCEPT ![a] = "extract"] /\ agent_results' = agent_results /\ agent[a] = "search"
      BY <1>3 DEF Search
    <2>3. \A i \in DOMAIN agent_results : agent_results[i].agent \in Agents
      BY AgentsOf DEF ResultsInv
    <2>4. ResultsInv'
      BY <1>1, <2>2, <2>3 DEF RestTyped, ResultsInv, InOrder
    <2> QED BY <2>1, <2>4
  <1>4. ASSUME NEW a \in Agents, NEW result \in Outcome, result.agent = a,
               agent[a] # "ended", End(a, result), found' = found
        PROVE  RestTyped' /\ ResultsInv'
    <2>1. RestTyped'
      BY <1>1, <1>4 DEF End, RestTyped, consensus
    <2>2. ResultsInv'
      BY <1>1, <1>4, EndMerges DEF RestTyped
    <2> QED BY <2>1, <2>2
  <1>5. ASSUME NEW a \in Agents, Extract(a) PROVE RestTyped' /\ ResultsInv'
    <2>1. PICK claims \in BOOLEAN : End(a, Result(a, "succeeded", claims))
      BY <1>5 DEF Extract
    <2>2. Result(a, "succeeded", claims) \in Outcome /\ Result(a, "succeeded", claims).agent = a
      BY <1>1 DEF Result, Outcome, RestTyped
    <2> QED BY <1>4, <1>5, <2>1, <2>2 DEF Extract
  <1>6. ASSUME NEW a \in Agents, AgentFails(a) PROVE RestTyped' /\ ResultsInv'
    <2>1. Failure(a, "failed") \in Outcome /\ Failure(a, "failed").agent = a
      BY DEF Failure, Outcome, Sources
    <2> QED BY <1>4, <1>6, <2>1 DEF AgentFails
  <1>7. ASSUME NEW a \in Agents, AgentTimesOut(a) PROVE RestTyped' /\ ResultsInv'
    <2>1. Failure(a, "timed_out") \in Outcome /\ Failure(a, "timed_out").agent = a
      BY DEF Failure, Outcome, Sources
    <2> QED BY <1>4, <1>7, <2>1 DEF AgentTimesOut
  <1>8. ASSUME ConsensusNode PROVE RestTyped' /\ ResultsInv'
    <2>1. CASE CompareFindings
      BY <1>1, <2>1, ResultsStay DEF CompareFindings, At, RestTyped
    <2>2. CASE DeduplicateSources
      BY <1>1, <2>2, ResultsStay DEF DeduplicateSources, consensus, RestTyped
    <2>3. CASE ResolveContradictions
      BY <1>1, <2>3, ResultsStay DEF ResolveContradictions, At, RestTyped
    <2>4. CASE ScoreConfidence
      BY <1>1, <2>4, ResultsStay DEF ScoreConfidence, At, RestTyped
    <2>5. CASE Synthesise
      BY <1>1, <2>5, ResultsStay DEF Synthesise, At, RestTyped
    <2> QED BY <1>8, <2>1, <2>2, <2>3, <2>4, <2>5 DEF ConsensusNode
  <1>9. CASE UNCHANGED vars
    BY <1>1, <1>9, ResultsStay DEF vars, RestTyped
  <1> QED BY <1>3, <1>5, <1>6, <1>7, <1>8, <1>9 DEF Next

\* At any time the reducer has left one result of each agent that has ended, and
\* no other, in the order of the agents (merge_agent_results).
THEOREM ResultsInvariance == Spec => [](TypeOK /\ ResultsInv)
  BY ResultsInit, ResultsNext, PTL DEF Spec

\* The state of every run has the types that ResearchState declares.
THEOREM Typing == Spec => []TypeOK
  BY ResultsInvariance, PTL

\* The only sequence of the agents that is in their order and leaves none out.
LEMMA AllInOrder ==
  ASSUME NEW results \in Seq(Outcome), InOrder(results),
         \A a \in Agents : \E i \in DOMAIN results : results[i].agent = a
  PROVE  [i \in DOMAIN results |-> results[i].agent] = AgentName
  <1> DEFINE n == Len(results)
             name(i) == results[i].agent
             place(i) == Place(name(i))
  <1>1. n \in Nat /\ DOMAIN results = 1..n /\ \A i \in 1..n : name(i) \in Agents
    BY AgentsOf
  <1>2. \A i, j \in 1..n : i < j => place(i) < place(j)
    BY <1>1 DEF InOrder
  <1>3. \A i \in 1..n : place(i) \in 1..3
    BY DEF Place
  <1>4. PICK i1 \in 1..n : name(i1) = "broad_web"
    BY <1>1, Places
  <1>5. PICK i2 \in 1..n : name(i2) = "academic"
    BY <1>1, Places
  <1>6. PICK i3 \in 1..n : name(i3) = "recent_news"
    BY <1>1, Places
  <1>7. place(i1) = 1 /\ place(i2) = 2 /\ place(i3) = 3
    BY <1>4, <1>5, <1>6 DEF Place
  <1> HIDE DEF n, name, place
  <1>8. i1 < i2 /\ i2 < i3
    <2>1. ~(i2 < i1) /\ ~(i3 < i2) /\ i1 # i2 /\ i2 # i3
      BY <1>2, <1>7
    <2>2. i1 \in Int /\ i2 \in Int /\ i3 \in Int
      BY <1>1
    <2> QED BY <2>1, <2>2
  <1>9. \A i \in 1..n : i \in {i1, i2, i3}
    <2> TAKE i \in 1..n
    <2>1. PICK j \in {i1, i2, i3} : place(i) = place(j)
      BY <1>3, <1>7
    <2>2. ~(place(i) < place(j)) /\ ~(place(j) < place(i)) /\ j \in 1..n
      BY <1>3, <2>1
    <2>3. ~(i < j) /\ ~(j < i)
      BY <1>2, <2>2
    <2> QED BY <1>1, <2>1, <2>2, <2>3
  <1>10. i1 = 1 /\ i2 = 2 /\ i3 = 3 /\ n = 3
    <2>1. i1 = 1
      BY <1>1, <1>8, <1>9
    <2>2. i2 = 2
      BY <1>1, <1>8, <1>9, <2>1
    <2>3. i3 = 3
      BY <1>1, <1>8, <1>9, <2>1, <2>2
    <2>4. CASE n > 3
      BY <1>1, <1>9, <2>1, <2>2, <2>3, <2>4
    <2> QED BY <1>1, <2>1, <2>2, <2>3, <2>4
  <1>11. [i \in DOMAIN results |-> results[i].agent] = [i \in 1..3 |-> name(i)]
    BY <1>1, <1>10 DEF name
  <1>12. [i \in 1..3 |-> name(i)] = <<name(1), name(2), name(3)>>
    OBVIOUS
  <1> QED BY <1>4, <1>5, <1>6, <1>10, <1>11, <1>12 DEF AgentName

\* In whatever order the agents end, late, failed or timed out, the consensus
\* stages see one result of each, in the order of AgentName.
THEOREM ResultsAreComplete == Spec => []OneResultPerAgentInOrder
  <1>1. IInv /\ ResultsInv => OneResultPerAgentInOrder
    <2> SUFFICES ASSUME IInv, ResultsInv, node # "agents"
                 PROVE  [i \in DOMAIN agent_results |-> agent_results[i].agent] = AgentName
      BY DEF OneResultPerAgentInOrder
    <2>1. \A a \in Agents : \E i \in DOMAIN agent_results : agent_results[i].agent = a
      BY DEF IInv, ResultsInv
    <2> QED BY <2>1, AllInOrder DEF ResultsInv
  <1> QED BY <1>1, Invariance, ResultsInvariance, PTL
=============================================================================
