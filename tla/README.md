# Verification of Parallel Research Consensus

TLA+ specifications of the research service in `src/`, TLC configurations that
check them on small instances, and TLAPS proofs of their main properties for
every value of the constants.

1. [The system](#the-system)
2. [Modules](#modules)
3. [Runs](#runs)
4. [Fairness](#fairness)
5. [Proofs](#proofs)
6. [What disagrees with the documentation](#what-disagrees-with-the-documentation)
7. [What is not modelled](#what-is-not-modelled)
8. [Plan](#plan)

## The system

| Component | State it keeps | Operations |
| --- | --- | --- |
| Research API (`app/api/routes.py`) | none of its own | `POST /research`, `GET /research/{id}`, `GET /research/{id}/status`, `GET /research/history`, `POST /auth/google` |
| Background tasks (`app/api/jobs.py`) | a `ResearchState` in a local variable; lost with the process | `execute_research_job` |
| Job store (`app/db/store.py`) | PostgreSQL: users, research sessions, final reports and their detail rows | `create`, `get_for_user`, `complete`, `fail`, `history_for_user`, `upsert_user` |
| Result cache (`app/cache/redis_services.py`) | Redis: research by normalized query, with a TTL | `get_cached`, `cache_result` |
| Rate limiter (same file) | Redis: one counter per user and window, with a TTL | `allow_research` |
| Research graph (`app/research/graph.py`, `agents.py`, `state.py`) | the shared `ResearchState` of one run | three agents, five consensus nodes |
| Consensus analyzer (`app/research/consensus.py`) | none | cluster, find contradictions, synthesise |
| Source integrity (`app/research/source_integrity.py`) | none | canonicalize, deduplicate, score |
| Evaluation (`evaluation/run_evaluation.py`) | the records made so far, in memory | ask, poll, record, write |
| Authentication (`app/api/auth.py`, `routes.py`) | none; tokens are signed, the users table is the store's | verify a Google token, issue and verify session tokens |
| Streamlit page (`streamlit_app/app.py`) | `st.session_state`: token, active job, active report | log in and out, start, open, poll every two seconds |
| Start-up and settings (`app/main.py`, `app/core/config.py`) | none | wiring, validation |

How they interact:

- `POST /research` awaits the limiter, then `store.create`, answers 202 and lets
  FastAPI run `execute_research_job` in the same process. Nothing durable says
  that a task exists: PostgreSQL only holds a row in status `running`.
- A task awaits, in this order, the cache, the store (on a hit) or the graph, the
  store and the cache (on a miss). Other tasks and requests run at each await.
  Exceptions of the cache are swallowed; every other one ends in `store.fail`.
- A login reads the user's row and writes it in one transaction; `create` reads the same row and
  inserts it, with the job, in another. Neither locks it.
- The page and the evaluation script poll the status with separate requests.
  `get_for_user` reads the session row and the report row in two statements.
- The graph fans out to three agents, each under its own time limit, joins them
  with a reducer and runs the consensus nodes one after the other. Except for
  deduplication and scoring every node catches its exceptions and writes
  `status = "failed"`; the nodes after it still run.

Hard behaviours, and what makes each component correct:

| Component | Hard to test | Correct when |
| --- | --- | --- |
| jobs, store, cache | interleaved tasks, a crash between two awaits, a commit whose acknowledgement is lost, an unreliable cache | only research made for the question is published; the cache holds nothing that is not persisted; only a fault leaves a job unsettled or withdraws one |
| reads | a transaction between the two statements | a completed job always has its report; only its owner is served |
| limiter | a call delayed across the end of its window, restarts, lost replies | at most the limit per window, refused only over the limit, a refusal is final |
| graph | every order of answers, failures and time-outs; failing consensus calls | one result per agent in order; failures are isolated and never forgotten; every run ends |
| clusters | arbitrary answers of a language model | the clusters partition the claims really made; a contradiction is about one cluster and credits each statement with exactly the agents and evidence of its claims |
| scores | five weighted terms of different scales, rounding, thresholds | agreement, independence and quality raise a score, contradiction and age lower it; the tiers keep their meaning |
| sources | URLs a search or a model makes up, domains shared by agents | every citation of a report is of a recorded domain, each domain has one record |
| users | overlapping logins and first jobs, commits without acknowledgement, tokens that expire | a row holds what its user's verified tokens said; a token has an account; jobs follow logins |
| page | clicks that stop a run of the script between two statements, failing requests, a job withdrawn between two requests | it polls and shows only the user's own jobs, the one opened last, and does not get stuck |
| evaluation | refusals, failing calls, jobs that never end or are withdrawn | every question is recorded, in its time, or a call failed |

`PROJECT.json` lists each hazard at its line with the properties that cover it.

## Modules

| Module | Models | Notes |
| --- | --- | --- |
| `JobLifecycle` | what the service promises of a job | abstract specification |
| `ResearchJobs` | route, tasks, rows, cache, crashes and faults | implements `JobLifecycle` |
| `JobReads` | `get_for_user` and the answer to `GET /research/{id}` | extends `ResearchJobs` |
| `RateLimiter` | `allow_research` | |
| `ResearchGraph` | agents and consensus nodes | opens the step `RunResearch` of `ResearchJobs` |
| `ClaimClusters` | `_validate_clusters`, `cluster_exact_claims`, `_validate_contradictions` | opens two nodes of `ResearchGraph` |
| `SourceScoring` | `score_claims`, `_quality`, `_recency` | opens the node `ScoreConfidence` of `ResearchGraph` |
| `SourceRecords` | `extract`'s check of citations, `canonicalize_url`, `deduplicate_sources` | opens the agents' results and the node `DeduplicateSources` of `ResearchGraph` |
| `UserAccounts` | `google_login`, session tokens, `get_current_user_id`, `upsert_user`, the user's row in `create` | |
| `UiSession` | one browser session of the page | composes the page with `JobLifecycle` (`Service == INSTANCE JobLifecycle`) |
| `EvaluationRun` | the evaluation script | extends `RateLimiter` |
| `Subsequences` | the elements of a sequence at some of its positions, in order | used by the reducer of `ResearchGraph` and by `SourceRecords` |
| `JobsProofs` | theorems about `ResearchJobs` and `JobReads` | |
| `LimiterProofs` | theorems about `RateLimiter` and `EvaluationRun` | |
| other `*Proofs` | theorems about the module they are named after | |
| `MC*` | small sets for TLC | |

A definition whose name continues that of another after an underscore
(`ttl_Window`, `RunRaises_Swallowed`) is a mutant: the same definition with a
plausible bug. It belongs to no specification; putting it in the place of the
original must violate the property `PROJECT.json` names.

### ResearchJobs and JobLifecycle

`status[j]`, `request[j]`, `cache_hit[j]` are the columns of the row of job `j`
in `research_sessions` (`status = "none"` while there is no row; `request` also
holds the arguments of a request that is being served). `report[j]` is its row
in `final_reports`, `cache[k]` the Redis entry under `k`; both hold a job
identifier, the one whose run produced the research. That *origin* is what the
properties are about; the research itself is left out. `normalize_query` is a
constant function from query texts to keys (case folding and white space).

`pc[j]` is the await at which the request or task of `j` stands:
`create -> lookup -> hit` or `run -> save -> store`, and `fail` for the outer
`except`. Each action is what the code does from one await to the next:

| Action | Code |
| --- | --- |
| `StartResearch`, `RefuseResearch` | the limiter's answer, or its exception |
| `CreateJob`, `CreateRaises` | `store.create`; it may raise with or without the row committed |
| `GetCached`, `GetCachedRaises` | hit, miss, exception (also of an entry that does not parse) |
| `RunResearch`, `RunRaises` | the graph ends completed or failed, or raises |
| `CompleteFromCache`, `CompleteJob`, `CompleteRaises` | `store.complete`; raising rolled back or committed |
| `CacheResult`, `CacheResultRaises` | `cache_result`, stored or not |
| `FailJob`, `FailRaises` | `store.fail` |
| `Evict` | the TTL ends, or Redis restarts empty |
| `Crash` | the process dies; its requests and tasks with it |

A database exception counts against `MaxDbFaults`, a crash against
`MaxCrashes`; Redis and the graph may fail without bound.

`JobLifecycle` says what remains of this when tasks and cache are hidden: absent,
running, completed or failed; a completed job may still be withdrawn. The
refinement mapping hides rows that do not exist and maps the cache key of a job to its
question. `Withdraw` is in the abstract specification because the code does it:
when the acknowledgement of `complete` is lost, `fail` overwrites the status of
a job that is already completed (`jobs.py:155`).

### JobReads

`reader[r]` is a call of `get_for_user`: its arguments, the next statement, and
what the statements so far returned. PostgreSQL's default isolation gives each
statement its own snapshot, so any step of `ResearchJobs` may fall between the
two. The property holds because the session is read first and a report row is
never deleted; reading in the other order breaks it (`Selects_ReportFirst`).
The liveness of the tasks is checked here too, with readers beside them.

### RateLimiter

`count` and `expires` are Redis' value and TTL of each counter, `value` what a
command sees. `Send` chooses the window from the API's clock, `Execute` is
MULTI/INCR/EXPIRE/EXEC together with the comparison. `MaxDelay` bounds the time
between the two: the TTL is one second longer than the window, and this second
is all the delay the scheme absorbs. `DelayAssumption` says so (0 or 1); it also
stands for the skew between the clocks of the API host and of Redis. A call
delayed by more could start a second quota of an expired window; the code does
not exclude that, the assumption does.

### ResearchGraph

`agent[a]` is what agent `a` awaits; `AgentTimesOut` may cancel it at either
await. LangGraph applies the results of the three branches when the superstep
ends; the model merges each result when its agent ends, which gives the same
list since the reducer sorts by agent. `merge_agent_results` is that stable sort, written as
one piece per agent: the results of the agent, in the order they were in (`Sift`). A set of clusters stands for the list of
clusters, and the set of contested ones for the contradictions. `DeduplicateSources`
has no `except` clause in the code: a source that cannot be canonicalized
raises out of the run (`node = "raised"`), which `ResearchJobs` sees as `RunRaises`.

### ClaimClusters

The answers of the models are arbitrary: each reference, the end of a cluster, the
end of the answer and each contradiction is a step that may happen at any
time with any value. `key` is the pair of agent and statement by which the code
recognizes a claim, `used` its set of accepted keys. Claims of one cluster are a
set, for no property depends on their order; so are claims with the same agent,
statement and evidence. The groups of the fallback may come in any order, a
superset of the one order of the code. `cluster_by_claim` is the dictionary by which
`_add_research_rows` finds the cluster of each claim it stores; `holders` are the clusters
that write into one entry of it, of which there must be one.

### SourceScoring

A cluster is reduced to what its score depends on: the number of agents, the
domain and age of each cited URL, and whether it is contradicted. Each agreeing
agent has a claim, each claim cites at least one URL (`source_urls` has
`min_length=1`), and `extract` keeps only URLs the search returned, so the
branches of `score_claims` for a cluster without URLs or a URL without source are
unreachable and left out. Scores are integers in ten-thousandths, compared
exactly with the thresholds; where the exact sum lies half-way between two
of them, floating-point arithmetic may give either, and the model gives both; `AtLeast` and `AtMost`
therefore take two clusters of equal value for equally scored.
`WeightsAssumption` is what the validation of the settings demands (weights and thresholds between 0 and
1, the high threshold not below the medium one), in hundredths and ten-thousandths.
`ScoreCluster` is one step: the properties compare its result with the scores of
clusters that differ in one respect.

### SourceRecords

A URL is a record of what pydantic's `HttpUrl` leaves of it: the host in lower case, no
port that is the scheme's own. Its query is the sequence of its decoded parameters, numbers in the
order of key and value; `canonicalize_url` drops userinfo, fragment, the ports 80 and 443 and the
parameters in `Tracking`, and sorts the rest. Encoding is left out: it spells a parameter and changes
none. An agent succeeds with any sources and a model's answer citing any URLs; `allowed`
keeps those that are sources to the letter. `deduplicate_sources` runs when all agents have
ended: `entries` are the places of the successful ones' sources, by agent and by position, `met_first`
the order in which the code meets them, `grouped` the
entries of each host, `record` what is made of a group: the URL met first, and the agents in
their order. The code meets the results in that order because they arrive sorted
(`OneResultPerAgentInOrder` of `ResearchGraph`). A host that is an IPv6 literal
makes the record invalid and raises, as in `ResearchGraph`.

### UserAccounts

A call is a login or a start of research. Its transaction reads the user's row (`GetUser`,
the `session.get` of both functions) and later commits; other calls commit in between.
SQLAlchemy writes an INSERT of all columns if no row was read, and otherwise an UPDATE of the
columns that differ from what was *read*, so `upserted` mixes the row as it is with
the call's profile. `Conflict` is the primary key or the unique address; a
commit that raises may have happened. The picture is left out: it is written like the
name. `dev_auth` is chosen at the start and never changes: with it the header
`X-User-ID` names the user, without it only the subject of an unexpired token. `create`
makes up a profile for a user without a row (`placeholder`).

### UiSession

Streamlit runs the script from the top after each click, and stops the run in progress at
its next use of `st`; the fragment `poll_active_job` also runs alone every two seconds. `at` is the
next such statement, or the request under way. `session` is `st.session_state` as far as
jobs are concerned: the user, whether the token is still `live`, `active`
(`active_job_id`) and `shown` (the job of `active_report`). `click` is what the
run answers, `held` the job id a reply brought before it is stored.

| Action | Code (`streamlit_app/app.py`) |
| --- | --- |
| `SignIn`, `LogOut`, `Expire`, `NewSession` | login, logout button, the token's expiry, a new connection |
| `Click` | Submit or Open, at any place where a run can be stopped |
| `ServeStart`, `StartFails`, `Remember`, `Clear` | `start_research`, `active_job_id = ...`, `pop("active_report")` |
| `ServeHistory`, `HistoryFails`, `OpenJob`, `Clear` | the history tab and its buttons |
| `Timer`, `ServeStatus`, `StatusFails`, `DropFailed` | the poll: status, and the branch of a failed job |
| `ServeReport`, `ReportFails`, `Keep`, `Drop` | the report, the two assignments that store it |

The service is `JobLifecycle`, the specification `ResearchJobs` is shown to
implement, with the owner of each job; a job may end or be withdrawn at any step. `last` and
`torn` are history variables: the job last made the active one, and whether a click
stopped a run between the assignment of the active job and the removal of the old report
while another job's report was shown. `torn` is the one case where the page shows a report that
does not belong to the job opened last, until the next report or `Clear`.

### EvaluationRun

The script's program counter is `stage`. It asks question `i` as call `i` of
`RateLimiter`, so refusals are those of the real limiter. The job of the current question is
seen from outside: it need never end, and once completed it may be withdrawn, in which case
`api.report` is refused (`ReportRefused`) and the script stops. Time passes while the script sleeps and
while it waits for the answer to a request (`Waiting`), up to `RequestTime` after it was sent; what the
script does in between takes no time. A request that takes longer fails (`Fault`). The client passes `timeout=30` for
connecting and for each wait for data, so 30 seconds is the time of a short answer that comes at once or not at all;
`RequestTime` is a constant of any size, except that the limiter's call is a part of `POST /research`
(`RequestAssumption`). The loop tests the deadline, then sleeps, then asks, and takes the latency afterwards
(`StopPolling`): hence the upper bound of `TimeLimitKept`, an interval and a request past the limit. If the limit is so
short that starting the job and reading its first status exceed that already, the bound is those two requests.

## Runs

| Run | Bounds | Shows |
| --- | --- | --- |
| `research_jobs` | 3 jobs, 1 user, 3 texts of 2 questions, 1 crash, 2 database faults | type correctness, `ReportProvenance`, `CacheBackedByReport`, `FaultsDamageOneJobEach`, refinement of `JobLifecycle` |
| `job_reads` | 2 jobs, 2 users, 1 reader, 1 crash, 1 fault, fair tasks | `CompletedReadsHaveReport`, `ServedReportsAnswerTheirOwner`, `RunningJobsSettle` |
| `rate_limiter` | 4 calls, 2 users, limit 2, window 2 s, 4 s, 1 restart, 1 lost reply | quota in both directions |
| `research_graph` | the three agents, 2 clusters | order, isolation, coherence, termination |
| `claim_clusters` | 2 agents, 3 statements (2 of one text), 2 pieces of evidence, 3 claims, 3 references, 1 contradiction | partition, contradictions that quote exactly the claims of one cluster, the cluster of each stored claim |
| `source_scoring` | 3 citations, 5 domains of every quality, ages on both sides of each limit, the default weights | direction of each term, meaning of the tiers |
| `source_records` | 2 agents, 3 hosts (one an IPv6 literal), 5 URLs, 2 sources and 2 cited URLs per agent | citations are recorded, one record per domain |
| `source_ports` | 2 URLs, one with the other scheme's port | a violation, see below |
| `user_accounts` | 2 users, 2 addresses, 3 overlapping calls, tokens of 1 tick, 2 ticks, with and without development authentication | profiles, tokens, jobs and logins |
| `ui_session` | 2 users, 2 jobs, 6 clicks, 2 failing requests, fair page | whose jobs are polled and shown, and that they are settled |
| `evaluation_run` | 2 questions, limit 2, time limit 3, polling every 2, requests of up to 1, 1 failing request | recording, time limit, termination |
| `evaluation_defaults` | 20 questions, limit 10 | a violation, see below |

Why these are enough:

- *Jobs.* A job interacts with others through one cache entry. The longest chain
  of causes is: one job stores, a second publishes from the entry, a third
  overwrites it or reads it too; a second question shows that entries are not mixed
  up. Two faults allow `complete` and then `fail` of one job to raise, or two
  jobs to be damaged, which `FaultsDamageOneJobEach` must count apart. Users play no
  part in these actions, so one is enough; `job_reads` has two.
- *Limiter.* Limit 2 is the smallest where the counter passes through a value
  that is neither its first nor its last; four calls exceed it with one call to
  be admitted wrongly; 4 seconds hold two whole windows and the boundary where a
  delayed call is executed in the next one.
- *Graph.* Three agents is the real number. Two clusters allow one to be
  contested and one not.
- *Clusters.* Three claims and references: one accepted, one repeated, one left
  out. Two statements with one normalized text let the fallback group them.
- *Scores.* Three citations allow three agents, and one, two or three domains among
  them; the domains are two of the best quality (one an `.org` listed by name), one
  `.org` and two others, the ages the last on one side and the first on the other side of each limit.
- *Sources.* Two agents may share a host by one URL, by two pages, or by two URLs of one page, which differ in userinfo,
  fragment, tracking and the order of a repeated parameter; a model may cite one the agent did not find.
- *Users.* Three calls allow a login to commit between the two statements of
  another call while a third brings the address back or starts a job. One user's address
  changes and another gets it. A token of one tick and a clock of two let it expire between
  two requests and within one.
- *Page.* Two jobs: one is shown while the other is opened. Six clicks are two
  logouts and twice a job started or opened with a click that cuts it short; two failures strike one poll
  twice, its status and its report.
- *Evaluation.* Two questions show that a late or timed-out one does not disturb
  the next; the time limit is not a multiple of the interval, so the deadline
  falls into a sleep. A request takes no time or one second: the latest record is made two seconds after the
  limit of three. The clock ends late enough (`MaxTime`) never to stop a run, which `EvaluationEnds` shows.

Each property has a mutant of the code which violates it (`PROJECT.json`).
Deadlock is not checked where the number of jobs, calls or questions is finite
and the system comes to its end; `job_reads` never ends and is checked.

## Fairness

- `ResearchJobs.Fairness` (in `JobReads.FairReadSpec`): weak fairness of each task. asyncio resumes a task
  whose await is over. That every await ends is an assumption for the database and
  Redis drivers (an answer or an error), and follows for the graph from
  `EveryRunEnds`. Arrivals, evictions and crashes are not fair.
- `ResearchGraph`: weak fairness of each agent's timer and of the consensus
  nodes. `asyncio.wait_for` guarantees the first; OpenAI's client is built
  with a time limit and one retry, which gives the second. Search and extraction
  have no fairness: they may hang for ever.
- `UiSession`: weak fairness of the page's steps together: the browser runs the fragment every
  two seconds and a request is answered or fails within its time limit of 30 seconds.
  Nobody has to click, no job has to end, and at most `MaxFaults` requests fail: with
  endless failures the page would have nothing to show.
- `EvaluationRun`: the script steps, time passes, and a call to the API is
  answered or fails in the end (the client's time limit). Jobs need never end.

## Proofs

All proofs are for every value of the constants that satisfies the named
assumptions of the modules.

| Module | Theorem | Statement |
| --- | --- | --- |
| `JobsProofs` | `TypeCorrect`, `ReportProvenanceHolds`, `CacheBackedByReportHolds`, `FaultsDamageOneJobEachHolds` | invariants of `ResearchJobs` |
| | `LifecycleImplemented` | `Spec => LifecycleSpec` |
| | `JobsOnlyAdvanceHolds` | no status follows "failed", a report is never replaced |
| | `CompletedReadsHaveReportHolds`, `ServedReportsAnswerTheirOwnerHolds` | both properties of the reader |
| | `ReadersDoNotDisturb` | `ReadSpec => Spec /\ LifecycleSpec` |
| `LimiterProofs` | `TypeCorrect`, `QuotaHolds`, `RefusedOnlyOverQuotaHolds`, `RefusalIsFinalHolds` | properties of `RateLimiter` |
| | `EvaluationIsAClient` | `EvalSpec => Spec` |
| | `EvalTypeCorrect`, `ResultsCoverEveryQuestionHolds`, `TimeLimitKeptHolds` | invariants of `EvaluationRun` |
| | `EvaluationWritesResultsHolds` | for as many questions as the limit |
| `ResearchGraphProofs` | `Typing`, `ResultsAreComplete`, `FailureIsolation`, `Coherence` | every invariant of the run |
| `ClaimClustersProofs` | `TypeCorrect`, `ClustersPartitionClaimsHolds`, `ContradictionsQuoteOneClusterHolds`, `ClaimRowsPointAtTheirClusterHolds` | every property of the run |
| `SourceScoringProofs` | `BetterSourcesCountMoreHolds` | for all weights |
| | `EvidenceCountsHolds`, `RepeatedDomainsCountLessHolds`, `TierReflectsAgreementHolds` | under conditions on the weights, see below |
| | `EveryClusterHasAScore`, `DefaultsQualify` | scores exist and lie between 0 and 1; the default settings meet the conditions |
| `SourceRecordsProofs` | `CitationsHaveRecords`, `DomainsHaveOneRecord` | every property of the run |
| `UserAccountsProofs` | `TypeCorrect`, `ProfilesAreVerifiedHolds`, `TokensHaveAccountsHolds`, `JobsFollowLoginsHolds`, `SignedInUsersExistHolds`, `LoginsStickHolds` | every property of the run, and its types |
| `UiSessionProofs` | `TypeCorrect`, `SessionIsItsUsersHolds`, `ShownWasOpenedLastHolds` | the safety properties of the page |
| | `ServiceBehindThePage` | `Spec => Service!Spec` |

Each module has an inductive invariant and a theorem that every reachable state
satisfies it.

- *ResearchJobs.* `ReportProvenance` is not inductive: a cached origin must stay
  completed while a task holds it. `IInv` therefore says where each task is in
  relation to its row (a task before `complete` has a running row and no report;
  one that stores has published its own research), that what a task holds and what
  the cache holds is *settled* research (completed, published by its own
  job, which has no step left that could withdraw it), and that it is
  research on the key in question. The lemmas then show that one step changes the rows of
  one job only (`OthersUntouched`, `OverIsOver`) and that settled research stays
  settled (`SettledStays`). `FaultsDamageOneJobEach` follows from an injection:
  the set of damaged jobs grows by at most one job in a step, and only in a step that raises `dbFaults`. Jobs
  a crash interrupts are not counted: nothing in the code recovers them, so they stay running, and no property
  says otherwise.
- *RateLimiter.* The quota holds because a counter does not expire before the
  last call of its window is executed: `IInv` relates `admitted`, `rejected` and
  `lost` to the value of an unexpired counter, and shows that a call still under way
  for an old window finds that counter unexpired, for `expires` is beyond the end
  of the window by the second that `MaxDelay` needs.
- *ResearchGraph.* `IInv` lists, node by node, what has been decided: the
  status is failed exactly for a reason from `compare_findings` on. `ResultsInv` is about the
  list: sorted by agent, a result of each agent that has ended and of no other. That the reducer keeps it
  takes `Merged`: a sequence without two results of one agent is cut into three pieces of at most
  one result, whose concatenation is sorted and has what the sequence had. `AllInOrder` turns this into the
  property: the only such list with all three agents is the one in the order of `AgentName`.
- *ClaimClusters.* `IInv` follows the keys: while the answer is read a key is used
  exactly when it is in the current or a validated cluster; in the fallback every
  claimed key is missing or placed, not both. A fallback group takes all claims of
  its keys because equal statements have equal normalized texts (`GroupTakesKeys`).
  A stored claim has one cluster because the finished clusters partition the claims.
- *SourceScoring.* The invariant is short, for scoring is one step; the work is in comparing
  two weighted sums over any number of citations. `sum` is a recursive function. That replacing one
  term changes a sum by the difference, and that the bounds of the terms bound the sum, is shown by least
  counterexample (`LeastNatural`), which needs no induction theorem with an operator parameter.
  A larger value has no smaller score or tier (`ScoresMonotone`), so `BetterSourcesCountMore` holds for all weights.
  The other three do not, and the theorems say when they do. `Unclamped`: the positive weights are at most 1 in sum and the poorest
  evidence outweighs a contradiction, so that no difference is lost at 0 or 1. A weight of
  contradictions, or of independence among at most `MaxCitations` citations, that is worth more than a ten-thousandth,
  so that no difference is lost in rounding. `TiersSeparated`: the thresholds lie beyond what one agent, or two
  agents with a contradiction, can reach, and within what three agents must reach. `DefaultsQualify` computes that the weights of
  `app/core/config.py` satisfy all of it, for clusters of up to 1999 citations. The settings' validation does not
  ask for these conditions: with other weights it admits, the three properties may fail.
- *SourceRecords.* The records, once made, are those of the sources. `Ranks` and `Sifted` say what `Sift`
  returns for any set of positions: the ranks are a bijection onto `1..Cardinality(I)` that keeps the order. `FirstMet`
  shows that each group has a first entry, `ReportDescribes` what the record of a host consists of.
- *JobReads.* `ReadersOK` says what a reader holds at each statement. A job read as
  completed keeps its report through every step of the tasks, by the invariant of `ResearchJobs`,
  which the composition inherits since readers change nothing (`ReadersDoNotDisturb`). What it keeps
  (`RowsStay`) also gives `JobsOnlyAdvanceHolds`: `complete` and `fail` overwrite a row without looking at
  its status, and it is where each task can stand that makes this harmless.
- *UserAccounts.* A row that is no longer a made-up one is a mixture of verified payloads
  (`Mixed`). The invariant relates each call to the row it read: a user who was seen exists, and
  a profile that was seen is a profile still, so that an UPDATE of some columns leaves a mixture
  again (`UpsertedMixed`). A token is issued only past a committed login, and no step takes a
  profile away (`LoginsStick`), so its account stays.
- *UiSession.* Whatever names a job - the session, the reply in hand, the click being
  served - names one of the user signed in, at each place a run may be stopped, and nothing
  of it is left when nobody is signed in. Each step of the page and of the service is a step of `JobLifecycle` or
  leaves it alone (`ServiceBehindThePage`), so the page stands on what `LifecycleImplemented` proves of the code.
- *EvaluationRun.* Every step of the script is a step of `RateLimiter` or leaves it
  alone (`EvaluationIsAClient`), so the limiter's theorems carry over; counting the calls sent shows that with no
  more questions than the limit none is rejected. `TimesOK` follows the clock through a question: a status is asked for
  within the time of the first request, or at the end of a sleep that began before the deadline.

Every invariant and every action property a passing run checks is a theorem, three of `SourceScoring` under
the conditions above. Only model-checked are
the liveness properties (`RunningJobsSettle`, `EveryRunEnds`,
`EvaluationEnds`, `CompletedJobsAreShown`, `FailedJobsAreDropped`), which rest on fairness and so on ENABLED,
which the prover cannot treat. The two violations are TLC's counterexamples; the theorem
`EvaluationWritesResultsHolds` shows where the first ends.

## What disagrees with the documentation

`evaluation_defaults` checks `EvaluationWritesResults` with the fixed set of 20 questions
and the default limit of 10 jobs an hour. The README of the repository
(lines 99-106) gives one command for the set and says that
`evaluation/results.json` records its reports. If the questions take less than
six minutes each, the 11th `POST /research` falls into the same window and is answered 429, the
client raises, and no results file is written: the ten records made so far are
lost. `evaluation_run` shows that within the limit the run is stopped only by failing calls
or a withdrawn job.

`source_ports` checks `CanonicalUrlReachesTheSource`. The README says that the consensus
stages "conservatively canonicalize URLs" (line 26). `canonicalize_url` removes the ports 80 and
443 whatever the scheme. A port that is the scheme's own has been removed by `HttpUrl`
before, so each port removed here is the other scheme's: the canonical URL of
`https://one:80/p` is `https://one/p`, another server, and that is the URL stored and linked. The property
asks for scheme, host, port, path and the parameters that are not for tracking; that userinfo and fragment
are dropped and parameters sorted it takes for conservative.

## What is not modelled

- Start-up and settings: sequential wiring. What matters of it, that nothing looks for
  unfinished jobs at start-up, is in `Crash` of `ResearchJobs`.
- Rendering of the page, and the OAuth round trip before the login is stored: the link, the state
  parameter and the exchange of the code leave nothing behind, and whether
  `st.session_state` outlives the redirect is Streamlit's.
- Signatures of tokens: a library's work. A token is one that was issued.
- Search, prompts, strategies and the text of answers: calls of external services whose
  result is arbitrary in the models. `fallback_synthesis` and summaries are wording.
- `InMemoryJobStore` and `InMemoryCacheRateLimiter`: replacements for tests.
- The detail rows of a report other than the claims' cluster: nothing reads them back.
- `history_for_user`: one statement over rows that are modelled; `UiSession` has it as a request.
- The evaluation's summary arithmetic and `--summarize-only`.

## Plan

Done: all the modules above, and proofs of all their safety properties.

What is left:

1. What is safety in the liveness properties: that a fair step brings its task, run or
   script nearer to the end, and that no other step takes it back. The conclusion stays with TLC.
2. Of two claims of one agent with the same statement only the last one's evidence survives in a
   model's cluster (`consensus.py:154`). The repository does not say that it should be otherwise,
   and the partition is stated for what the code identifies claims by.
3. In `UserAccounts`, what a reassigned address does to the login of its new owner, should the
   repository say what it ought to do.
