---------------------------- MODULE ResearchGraph ----------------------------
(***************************************************************************)
(* One run of the research graph (app/research/graph.py): three agents     *)
(* search and extract concurrently, each under its own time limit          *)
(* (app/research/agents.py); when all have ended the consensus nodes run   *)
(* one after the other on the shared ResearchState.                        *)
(*                                                                         *)
(* Claims, clusters and sources are abstracted to what decides the         *)
(* control: whether an agent found claims, whether a source can be         *)
(* canonicalized, which clusters are formed, contested and scored.         *)
(***************************************************************************)
EXTENDS Naturals, Sequences, FiniteSets, Subsequences

CONSTANT Clusters   \* identifiers of claim clusters

VARIABLES
    agent,            \* agent[a]: what agent a is awaiting, or "ended"
    found,            \* found[a]: the sources agent a's search returned
    node,             \* the graph node to run next
    agent_results, claim_clusters, contradictions, contested_points,
    scored,           \* clusters with a confidence score
    final_answer,     \* whether there is one
    status,
    raised            \* history: nodes whose consensus call raised

vars == <<agent, found, node, agent_results, claim_clusters, contradictions,
          contested_points, scored, final_answer, status, raised>>

\* AgentName, in the order of its definition
AgentName == <<"broad_web", "academic", "recent_news">>
Agents == {AgentName[i] : i \in DOMAIN AgentName}

\* What a search can return: nothing, ordinary sources, or some whose URL
\* canonicalize_url turns into one that SourceRecord rejects (an IPv6 literal
\* loses its brackets).
Sources == {"none", "ordinary", "uncanonical"}

Result(a, s, claims) == [agent |-> a, status |-> s, claims |-> claims, sources |-> found[a]]

Failure(a, s) == [agent |-> a, status |-> s, claims |-> FALSE, sources |-> "none"]

Succeeded == {r \in {agent_results[i] : i \in DOMAIN agent_results} : r.status = "succeeded"}

Init ==
    /\ agent = [a \in Agents |-> "search"]
    /\ found = [a \in Agents |-> "none"]
    /\ node = "agents"
    /\ agent_results = <<>>
    /\ claim_clusters = {}
    /\ contradictions = {}
    /\ contested_points = {}
    /\ scored = {}
    /\ final_answer = FALSE
    /\ status = "running"
    /\ raised = {}

consensus == <<claim_clusters, contradictions, contested_points, scored, final_answer, raised>>

-----------------------------------------------------------------------------
(* Agents *)

\* Mutant of merge_agent_results: results stay in the order of arrival.
merge_agent_results_Unsorted(left, right) == left \o right

\* A stable sort by agent: the results of each agent, in the agents' order.
merge_agent_results(left, right) ==
    LET results == left \o right
        of(a) == Sift(results, {i \in DOMAIN results : results[i].agent = a})
    IN  of(AgentName[1]) \o of(AgentName[2]) \o of(AgentName[3])

\* The agent ends; when it is the last one, the graph goes on.
End(a, result) ==
    /\ agent' = [agent EXCEPT ![a] = "ended"]
    /\ agent_results' = merge_agent_results(agent_results, <<result>>)
    /\ node' = IF \A b \in Agents \ {a} : agent[b] = "ended" THEN "compare_findings" ELSE node
    /\ UNCHANGED <<consensus, status>>

Search(a) ==
    /\ agent[a] = "search"
    /\ \E s \in Sources : found' = [found EXCEPT ![a] = s]
    /\ agent' = [agent EXCEPT ![a] = "extract"]
    /\ UNCHANGED <<node, agent_results, consensus, status>>

\* Without sources nothing is extracted.
Extract(a) ==
    /\ agent[a] = "extract"
    /\ \E claims \in BOOLEAN :
           /\ found[a] = "none" => ~claims
           /\ End(a, Result(a, "succeeded", claims))
    /\ UNCHANGED found

\* Search or extraction raises.
AgentFails(a) ==
    /\ agent[a] \in {"search", "extract"}
    /\ End(a, Failure(a, "failed"))
    /\ UNCHANGED found

\* Mutant of AgentTimesOut: the limit covers the search alone.
AgentTimesOut_SearchOnly(a) ==
    /\ agent[a] = "search"
    /\ End(a, Failure(a, "timed_out"))
    /\ UNCHANGED found

\* wait_for cancels whatever the agent is awaiting; a later answer is lost.
AgentTimesOut(a) ==
    /\ agent[a] \in {"search", "extract"}
    /\ End(a, Failure(a, "timed_out"))
    /\ UNCHANGED found

-----------------------------------------------------------------------------
(* Consensus nodes *)

At(n, next) == node = n /\ node' = next

\* Mutant of any_succeeded: one failed agent spoils the run.
any_succeeded_All == Cardinality(Succeeded) = Len(AgentName)

any_succeeded == Succeeded # {}

\* ConsensusAnalyzer.compare leaves no claim out: no clusters without claims,
\* and some when there are claims.
CompareFindings ==
    /\ At("compare_findings", "deduplicate_sources")
    /\ \/ /\ ~any_succeeded
          /\ status' = "failed"
          /\ UNCHANGED <<claim_clusters, raised>>
       \/ /\ any_succeeded
          /\ claim_clusters' \in SUBSET Clusters
          /\ claim_clusters' = {} <=> \A r \in Succeeded : ~r.claims
          /\ UNCHANGED <<status, raised>>
       \/ /\ \E r \in Succeeded : r.claims
          /\ status' = "failed"
          /\ raised' = raised \cup {"compare_findings"}
          /\ UNCHANGED claim_clusters
    /\ UNCHANGED <<agent, found, agent_results, contradictions, contested_points, scored, final_answer>>

\* Not guarded: a source it cannot canonicalize ends the whole run.
DeduplicateSources ==
    /\ node = "deduplicate_sources"
    /\ node' = IF \E r \in Succeeded : r.sources = "uncanonical"
               THEN "raised" ELSE "resolve_contradictions"
    /\ UNCHANGED <<agent, found, agent_results, consensus, status>>

\* Mutant of ResolveContradictions: an exception is taken for "no conflicts".
ResolveContradictions_Ignored ==
    /\ At("resolve_contradictions", "score_confidence")
    /\ \/ /\ status # "failed"
          /\ contradictions' \in SUBSET claim_clusters
          /\ contested_points' = contradictions'
          /\ UNCHANGED <<status, raised>>
       \/ /\ status # "failed" /\ claim_clusters # {}
          /\ raised' = raised \cup {"resolve_contradictions"}
          /\ UNCHANGED <<contradictions, contested_points, status>>
       \/ /\ status = "failed"
          /\ UNCHANGED <<contradictions, contested_points, status, raised>>
    /\ UNCHANGED <<agent, found, agent_results, claim_clusters, scored, final_answer>>

\* Mutant of ResolveContradictions: cluster ids the model made up are kept.
ResolveContradictions_Unvalidated ==
    /\ At("resolve_contradictions", "score_confidence")
    /\ \/ /\ status = "failed"
          /\ contradictions' = {} /\ contested_points' = {}
       \/ /\ status # "failed"
          /\ contradictions' \in SUBSET (claim_clusters \cup {"made up"})
          /\ contested_points' = contradictions'
    /\ UNCHANGED <<agent, found, agent_results, claim_clusters, scored, final_answer, status, raised>>

\* Conflicts are kept only within clusters that exist.
ResolveContradictions ==
    /\ At("resolve_contradictions", "score_confidence")
    /\ \/ /\ status = "failed"
          /\ contradictions' = {} /\ contested_points' = {}
          /\ UNCHANGED <<status, raised>>
       \/ /\ status # "failed"
          /\ contradictions' \in SUBSET claim_clusters
          /\ contested_points' = contradictions'
          /\ UNCHANGED <<status, raised>>
       \/ /\ status # "failed" /\ claim_clusters # {}
          /\ contradictions' = {} /\ contested_points' = {}
          /\ status' = "failed"
          /\ raised' = raised \cup {"resolve_contradictions"}
    /\ UNCHANGED <<agent, found, agent_results, claim_clusters, scored, final_answer>>

\* Mutant of ScoreConfidence: contested clusters are left out.
ScoreConfidence_Uncontested ==
    /\ At("score_confidence", "synthesise")
    /\ scored' = claim_clusters \ contradictions
    /\ UNCHANGED <<agent, found, agent_results, claim_clusters, contradictions,
                   contested_points, final_answer, status, raised>>

\* Runs on the clusters of a failed run too.
ScoreConfidence ==
    /\ At("score_confidence", "synthesise")
    /\ scored' = claim_clusters
    /\ UNCHANGED <<agent, found, agent_results, claim_clusters, contradictions,
                   contested_points, final_answer, status, raised>>

Synthesise ==
    /\ At("synthesise", "end")
    /\ \/ /\ status = "failed"
          /\ UNCHANGED <<final_answer, status, raised>>
       \/ /\ status # "failed"
          /\ final_answer' = TRUE
          /\ status' = "completed"
          /\ UNCHANGED raised
       \/ /\ status # "failed"
          /\ status' = "failed"
          /\ raised' = raised \cup {"synthesise"}
          /\ UNCHANGED final_answer
    /\ UNCHANGED <<agent, found, agent_results, claim_clusters, contradictions,
                   contested_points, scored>>

-----------------------------------------------------------------------------
ConsensusNode ==
    CompareFindings \/ DeduplicateSources \/ ResolveContradictions
    \/ ScoreConfidence \/ Synthesise

Next ==
    \/ \E a \in Agents : Search(a) \/ Extract(a) \/ AgentFails(a) \/ AgentTimesOut(a)
    \/ ConsensusNode

\* Nothing is assumed of Tavily or OpenAI: an agent's calls may never return.
\* Its timer fires, and the consensus models are called with a time limit.
Fairness == WF_vars(ConsensusNode) /\ \A a \in Agents : WF_vars(AgentTimesOut(a))

Spec == Init /\ [][Next]_vars /\ Fairness

-----------------------------------------------------------------------------
(* Properties *)

\* The shared state has the types ResearchState declares.
TypeOK ==
    /\ agent \in [Agents -> {"search", "extract", "ended"}]
    /\ found \in [Agents -> Sources]
    /\ node \in {"agents", "compare_findings", "deduplicate_sources",
                 "resolve_contradictions", "score_confidence", "synthesise", "end", "raised"}
    /\ agent_results \in Seq([agent : Agents, status : {"succeeded", "failed", "timed_out"},
                              claims : BOOLEAN, sources : Sources])
    /\ claim_clusters \subseteq Clusters
    /\ contradictions \subseteq Clusters
    /\ contested_points \subseteq Clusters
    /\ scored \subseteq Clusters
    /\ final_answer \in BOOLEAN
    /\ status \in {"running", "completed", "failed"}

\* However the agents interleave, time out or answer late, the consensus
\* stages see exactly one result of each, in the order of AgentName.
OneResultPerAgentInOrder ==
    node # "agents" => [i \in DOMAIN agent_results |-> agent_results[i].agent] = AgentName

\* Failures are isolated: a run that reaches its end is failed exactly when
\* no agent succeeded or a consensus call raised.  One, or two, failed or
\* timed-out agents never fail it, and no later node forgets a failure.
FailsOnlyWhenNothingIsLeft ==
    node = "end" => (status = "failed" <=> Succeeded = {} \/ raised # {})

\* A completed run is coherent: it has an answer, every cluster, contested or
\* not, has a score, what is contested is what was found contradictory, and
\* there are clusters exactly when a succeeded agent made claims.
CompletedRunsAreCoherent ==
    node = "end" =>
        /\ final_answer <=> status = "completed"
        /\ status = "completed" =>
               /\ scored = claim_clusters
               /\ contested_points = contradictions /\ contradictions \subseteq scored
               /\ claim_clusters # {} <=> \E r \in Succeeded : r.claims

\* Every run ends, though searches and extractions may hang for ever.
EveryRunEnds == <>(node \in {"end", "raised"})
=============================================================================
