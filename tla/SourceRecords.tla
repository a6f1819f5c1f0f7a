--------------------------- MODULE SourceRecords ---------------------------
(***************************************************************************)
(* From the sources a search returned to the records of a report: the      *)
(* citations extract keeps (app/research/extraction.py), and               *)
(* canonicalize_url and deduplicate_sources                                *)
(* (app/research/source_integrity.py).                                     *)
(*                                                                         *)
(* A URL is what pydantic's HttpUrl leaves of it: the host in lower case,  *)
(* the port unless it is the scheme's own.  A query is the sequence of its *)
(* decoded parameters, numbered in the order of their keys and values; how *)
(* a parameter is encoded is left out.                                     *)
(***************************************************************************)
EXTENDS Naturals, FiniteSets, Sequences, TLC, Functions, Subsequences

CONSTANTS
    AgentName,   \* the agents, in their order
    Hosts,
    Literals,    \* hosts that are IPv6 literals
    Paths,
    Parameters,
    Tracking,    \* utm_* and TRACKING_PARAMETERS
    Urls,        \* URLs searches and models return
    NoPort,
    MaxSources   \* bound: sources of a search, and URLs a model cites

Url == [scheme : {"http", "https"}, userinfo : BOOLEAN, host : Hosts, port : Nat \cup {NoPort},
        path : Paths, query : Seq(Parameters), fragment : BOOLEAN]
default_port == [http |-> 80, https |-> 443]

ASSUME AgentsAssumption ==
    AgentName \in Seq(Range(AgentName)) /\ IsInjective(AgentName)
ASSUME BoundAssumption == MaxSources \in Nat
ASSUME ParametersAssumption == Parameters \subseteq Nat /\ Tracking \subseteq Parameters
ASSUME UrlsAssumption ==
    /\ Urls \subseteq Url /\ Literals \subseteq Hosts
    /\ \A u \in Urls : u.port # default_port[u.scheme]

VARIABLES
    status,   \* status[a]: how agent a ended
    sources,  \* sources[a]: of its result
    cited,    \* cited[a]: source_urls of its claims
    records,
    phase

vars == <<status, sources, cited, records, phase>>
Agents == Range(AgentName)

Init ==
    /\ status = [a \in Agents |-> "running"]
    /\ sources = [a \in Agents |-> <<>>]
    /\ cited = [a \in Agents |-> {}]
    /\ records = {}
    /\ phase = "agents"

-----------------------------------------------------------------------------
\* The parameters that are not for tracking, sorted.
canonical_query(query) == SortSeq(SelectSeq(query, LAMBDA p : p \notin Tracking), <)

\* 80 and 443 count as no port, with either scheme; userinfo and fragment go.
canonicalize_url(u) ==
    [u EXCEPT !.userinfo = FALSE,
              !.port = IF @ \in {80, 443} THEN NoPort ELSE @,
              !.query = canonical_query(@),
              !.fragment = FALSE]

\* Mutant of allowed: the model is trusted.
allowed_All(found, answer) == answer

\* extract keeps the URLs that are, to the letter, those of its sources.
allowed(found, answer) == answer \cap Range(found)

Succeed(a, found, answer) ==
    /\ status[a] = "running"
    /\ status' = [status EXCEPT ![a] = "succeeded"]
    /\ sources' = [sources EXCEPT ![a] = found]
    /\ cited' = [cited EXCEPT ![a] = allowed(found, answer)]
    /\ UNCHANGED <<records, phase>>

\* Whatever a failed or timed-out agent found is lost.
Fail(a) ==
    /\ status[a] = "running"
    /\ status' = [status EXCEPT ![a] = "failed"]
    /\ UNCHANGED <<sources, cited, records, phase>>

-----------------------------------------------------------------------------
\* The sources of the agents that succeeded, each by its agent's place and its
\* own; in the order the code meets them.
entries == UNION {{<<i, n>> : n \in DOMAIN sources[AgentName[i]]} : i \in DOMAIN AgentName}
url(e) == sources[AgentName[e[1]]][e[2]]
met_first(e, f) == e[1] < f[1] \/ (e[1] = f[1] /\ e[2] <= f[2])

record(group) ==
    LET u == url(CHOOSE e \in group : \A f \in group : met_first(e, f))
    IN  [raw_url |-> u,
         canonical_url |-> canonicalize_url(u),
         domain |-> u.host,
         citing_agents |-> Sift(AgentName, {e[1] : e \in group})]

\* Mutant of grouped: one group per page.
grouped_ByUrl ==
    {{f \in entries : canonicalize_url(url(f)) = canonicalize_url(url(e))} : e \in entries}

grouped == {{f \in entries : url(f).host = url(e).host} : e \in entries}

\* A literal loses its brackets, and the record is not valid.
deduplicate_sources ==
    /\ phase = "agents"
    /\ \A a \in Agents : status[a] # "running"
    /\ IF \E e \in entries : url(e).host \in Literals
       THEN phase' = "raised" /\ UNCHANGED records
       ELSE phase' = "done" /\ records' = {record(group) : group \in grouped}
    /\ UNCHANGED <<status, sources, cited>>

Next ==
    \/ \E a \in Agents :
           \/ Fail(a)
           \/ \E n \in 0..MaxSources : \E found \in [1..n -> Urls], answer \in SUBSET Urls :
                  Cardinality(answer) <= MaxSources /\ Succeed(a, found, answer)
    \/ deduplicate_sources

Spec == Init /\ [][Next]_vars

-----------------------------------------------------------------------------
\* Whatever URLs a model invents: each citation of a claim in a finished report
\* is of a domain that has one record, which names the agent of the claim.
CitationsAreRecorded ==
    phase = "done" => \A a \in Agents : \A u \in cited[a] :
        \E r \in records : r.domain = u.host /\ a \in Range(r.citing_agents)

\* Agents whose sources share a domain meet in its one record, whatever pages
\* they found: each once, in the order of the agents, and nobody else.
OneRecordPerDomain ==
    /\ \A r, s \in records : r.domain = s.domain => r = s
    /\ \A r \in records :
           Range(r.citing_agents) = {a \in Agents : \E u \in Range(sources[a]) : u.host = r.domain}
    /\ \A r \in records : \A m, n \in DOMAIN r.citing_agents : m < n =>
           \E i, j \in DOMAIN AgentName :
               i < j /\ r.citing_agents[m] = AgentName[i] /\ r.citing_agents[n] = AgentName[j]

Count(p, query) == Cardinality({i \in DOMAIN query : query[i] = p})

\* A record's canonical URL names the server of its raw URL, the path, and each
\* parameter that is not for tracking as often: "conservatively canonicalize"
\* (README.md).
CanonicalUrlReachesTheSource ==
    \A r \in records :
        LET u == r.canonical_url
            v == r.raw_url
        IN  /\ <<u.scheme, u.host, u.port, u.path>> = <<v.scheme, v.host, v.port, v.path>>
            /\ \A p \in Parameters : Count(p, u.query) = IF p \in Tracking THEN 0 ELSE Count(p, v.query)
=============================================================================
