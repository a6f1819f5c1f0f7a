---------------------------- MODULE ResearchJobs ----------------------------
(***************************************************************************)
(* The life of research jobs: POST /research (app/api/routes.py), the      *)
(* background task execute_research_job (app/api/jobs.py), the rows of     *)
(* PostgreSQL (app/db/store.py) and the result cache of Redis              *)
(* (app/cache/redis_services.py).  One step of a task is what runs between *)
(* two awaits; tasks interleave, the process may crash, a database         *)
(* transaction may raise before or after it took effect, and Redis may     *)
(* raise or forget an entry at any moment.                                 *)
(*                                                                         *)
(* Research itself is a black box here (ResearchGraph opens it): a run     *)
(* yields research identified by the job that ran it, or fails, or raises. *)
(***************************************************************************)
EXTENDS Naturals, FiniteSets

CONSTANTS
    Jobs,             \* job identifiers
    Users,
    Queries,          \* query texts
    Keys,             \* cache keys
    normalize_query,  \* the key of each query text: case and spaces folded
    NoJob,            \* no cached research, no report row
    NoRequest,        \* the identifier is not in use yet
    NoState,          \* the task holds no ResearchState
    MaxCrashes,       \* bound: crashes of the API process
    MaxDbFaults       \* bound: store calls that raise

ASSUME NormalizeAssumption == normalize_query \in [Queries -> Keys]
ASSUME JobsAssumption == IsFiniteSet(Jobs)
ASSUME NoJobAssumption == NoJob \notin Jobs
ASSUME BoundsAssumption == MaxCrashes \in Nat /\ MaxDbFaults \in Nat

VARIABLES
    \* PostgreSQL: research_sessions and final_reports
    status,     \* status column of j's session row; "none" while there is no row
    request,    \* who asked what: the row's user_id and query columns
    report,     \* the job whose research j's report row holds
    cache_hit,  \* cache_hit column of the session row
    \* Redis
    cache,      \* cache[k]: the job whose research is stored under k
    \* tasks of the API process
    pc,         \* where the request or background task of j stands
    state,      \* the ResearchState it holds
    \* accounting of what went wrong
    crashes,
    dbFaults

rows == <<status, report, cache_hit>>
task == <<pc, state>>
faults == <<crashes, dbFaults>>
vars == <<status, request, report, cache_hit, cache, pc, state, crashes, dbFaults>>

Requests == [user : Users, query : Queries]

\* The part of a ResearchState the store and the cache look at.
ResearchStates == [origin : Jobs, status : {"running", "completed", "failed"}]

\* places of a request or task that still has steps to take
Live == {"create", "lookup", "hit", "run", "save", "store", "fail"}
Stopped == {"refused", "done", "dead"}

cache_key(j) == normalize_query[request[j].query]

Init ==
    /\ status = [j \in Jobs |-> "none"]
    /\ request = [j \in Jobs |-> NoRequest]
    /\ report = [j \in Jobs |-> NoJob]
    /\ cache_hit = [j \in Jobs |-> FALSE]
    /\ cache = [k \in Keys |-> NoJob]
    /\ pc = [j \in Jobs |-> "idle"]
    /\ state = [j \in Jobs |-> NoState]
    /\ crashes = 0
    /\ dbFaults = 0

GoTo(j, place) == pc' = [pc EXCEPT ![j] = place]

-----------------------------------------------------------------------------
(* Effects of the store's transactions on the rows *)

create(j) ==
    /\ status' = [status EXCEPT ![j] = "running"]
    /\ UNCHANGED <<report, cache_hit>>

\* Mutant of complete: the report is written, the status left as it was.
complete_KeepsStatus(j, s, hit) ==
    IF s.status = "failed"
    THEN /\ status' = [status EXCEPT ![j] = "failed"]
         /\ UNCHANGED <<report, cache_hit>>
    ELSE /\ report' = [report EXCEPT ![j] = s.origin]
         /\ cache_hit' = [cache_hit EXCEPT ![j] = hit]
         /\ UNCHANGED status

\* A failed state closes the session; any other is published as the report.
complete(j, s, hit) ==
    IF s.status = "failed"
    THEN /\ status' = [status EXCEPT ![j] = "failed"]
         /\ UNCHANGED <<report, cache_hit>>
    ELSE /\ status' = [status EXCEPT ![j] = "completed"]
         /\ report' = [report EXCEPT ![j] = s.origin]
         /\ cache_hit' = [cache_hit EXCEPT ![j] = hit]

\* The error is written over whatever the row says; a report row stays.
fail(j) ==
    /\ status' = [status EXCEPT ![j] = "failed"]
    /\ UNCHANGED <<report, cache_hit>>

\* CachedResearch.to_state: what was stored, presented as a running state
to_state(origin) == [origin |-> origin, status |-> "running"]

-----------------------------------------------------------------------------
(* start_research *)

\* The limiter admits (RateLimiter models how); the job gets its identifier.
StartResearch(j, r) ==
    /\ pc[j] = "idle"
    /\ request' = [request EXCEPT ![j] = r]
    /\ GoTo(j, "create")
    /\ UNCHANGED <<rows, cache, state, faults>>

\* 429, or the exception of a limiter that cannot reach Redis
RefuseResearch(j, r) ==
    /\ pc[j] = "idle"
    /\ request' = [request EXCEPT ![j] = r]
    /\ GoTo(j, "refused")
    /\ UNCHANGED <<rows, cache, state, faults>>

\* The row is committed, 202 is answered and the background task starts.
CreateJob(j) ==
    /\ pc[j] = "create"
    /\ create(j)
    /\ GoTo(j, "lookup")
    /\ UNCHANGED <<request, cache, state, faults>>

DbFault ==
    /\ dbFaults < MaxDbFaults
    /\ dbFaults' = dbFaults + 1

\* create raises, the commit having taken effect or not: 500, no task
CreateRaises(j) ==
    /\ pc[j] = "create"
    /\ create(j) \/ UNCHANGED rows
    /\ DbFault
    /\ GoTo(j, "refused")
    /\ UNCHANGED <<request, cache, state, crashes>>

-----------------------------------------------------------------------------
(* execute_research_job *)

\* Mutant of GetCached: no test for a miss.
GetCached_MissNotTested(j) ==
    /\ pc[j] = "lookup"
    /\ state' = [state EXCEPT ![j] = to_state(cache[cache_key(j)])]
    /\ GoTo(j, "hit")
    /\ UNCHANGED <<request, rows, cache, faults>>

GetCached(j) ==
    /\ pc[j] = "lookup"
    /\ LET cached == cache[cache_key(j)]
       IN  IF cached # NoJob
           THEN /\ state' = [state EXCEPT ![j] = to_state(cached)]
                /\ GoTo(j, "hit")
           ELSE /\ GoTo(j, "run")
                /\ UNCHANGED state
    /\ UNCHANGED <<request, rows, cache, faults>>

\* Redis unreachable, or an entry that does not parse: treated as a miss
GetCachedRaises(j) ==
    /\ pc[j] = "lookup"
    /\ GoTo(j, "run")
    /\ UNCHANGED <<request, rows, cache, state, faults>>

RunResearch(j) ==
    /\ pc[j] = "run"
    /\ \E outcome \in {"completed", "failed"} :
           state' = [state EXCEPT ![j] = [origin |-> j, status |-> outcome]]
    /\ GoTo(j, "save")
    /\ UNCHANGED <<request, rows, cache, faults>>

\* Mutant of RunRaises: the exception is swallowed and the task returns.
RunRaises_Swallowed(j) ==
    /\ pc[j] = "run"
    /\ GoTo(j, "done")
    /\ UNCHANGED <<request, rows, cache, state, faults>>

\* Mutant of RunRaises: the job is tried again from the start.
RunRaises_Retried(j) ==
    /\ pc[j] = "run"
    /\ GoTo(j, "lookup")
    /\ UNCHANGED <<request, rows, cache, state, faults>>

RunRaises(j) ==
    /\ pc[j] = "run"
    /\ GoTo(j, "fail")
    /\ UNCHANGED <<request, rows, cache, state, faults>>

\* Mutant of CompleteFromCache: cache_hit=True is not passed.
CompleteFromCache_NotMarked(j) ==
    /\ pc[j] = "hit"
    /\ complete(j, state[j], FALSE)
    /\ GoTo(j, "done")
    /\ UNCHANGED <<request, cache, state, faults>>

\* store.complete on a cache hit: the task returns
CompleteFromCache(j) ==
    /\ pc[j] = "hit"
    /\ complete(j, state[j], TRUE)
    /\ GoTo(j, "done")
    /\ UNCHANGED <<request, cache, state, faults>>

\* Mutant of CompleteJob: failed research goes on to the cache too.
CompleteJob_CachesFailed(j) ==
    /\ pc[j] = "save"
    /\ complete(j, state[j], FALSE)
    /\ GoTo(j, "store")
    /\ UNCHANGED <<request, cache, state, faults>>

\* store.complete on a run; only research that did not fail goes on to Redis
CompleteJob(j) ==
    /\ pc[j] = "save"
    /\ complete(j, state[j], FALSE)
    /\ GoTo(j, IF state[j].status = "failed" THEN "done" ELSE "store")
    /\ UNCHANGED <<request, cache, state, faults>>

\* store.complete raises: rejected, rolled back, or committed with the
\* acknowledgement lost.  The outer except clause takes over.
CompleteRaises(j) ==
    /\ \/ pc[j] = "hit" /\ complete(j, state[j], TRUE)
       \/ pc[j] = "save" /\ complete(j, state[j], FALSE)
       \/ pc[j] \in {"hit", "save"} /\ UNCHANGED rows
    /\ DbFault
    /\ GoTo(j, "fail")
    /\ UNCHANGED <<request, cache, state, crashes>>

cache_result(j) == cache' = [cache EXCEPT ![cache_key(j)] = state[j].origin]

CacheResult(j) ==
    /\ pc[j] = "store"
    /\ cache_result(j)
    /\ GoTo(j, "done")
    /\ UNCHANGED <<request, rows, state, faults>>

\* swallowed, whether or not Redis stored the value
CacheResultRaises(j) ==
    /\ pc[j] = "store"
    /\ cache_result(j) \/ UNCHANGED cache
    /\ GoTo(j, "done")
    /\ UNCHANGED <<request, rows, state, faults>>

FailJob(j) ==
    /\ pc[j] = "fail"
    /\ fail(j)
    /\ GoTo(j, "done")
    /\ UNCHANGED <<request, cache, state, faults>>

\* store.fail itself raises: the exception leaves the background task
FailRaises(j) ==
    /\ pc[j] = "fail"
    /\ fail(j) \/ UNCHANGED rows
    /\ DbFault
    /\ GoTo(j, "done")
    /\ UNCHANGED <<request, cache, state, crashes>>

-----------------------------------------------------------------------------
(* Environment *)

\* the entry's TTL runs out, or Redis restarts with nothing persisted
Evict(k) ==
    /\ cache[k] # NoJob
    /\ cache' = [cache EXCEPT ![k] = NoJob]
    /\ UNCHANGED <<request, rows, task, faults>>

\* The process dies with every request and task it was running; the next one
\* serves new requests and never looks for the jobs its predecessor left.
Crash ==
    /\ crashes < MaxCrashes
    /\ crashes' = crashes + 1
    /\ \E j \in Jobs : pc[j] \in Live
    /\ pc' = [j \in Jobs |-> IF pc[j] \in Live THEN "dead" ELSE pc[j]]
    /\ UNCHANGED <<request, rows, cache, state, dbFaults>>

-----------------------------------------------------------------------------
Arrival(j) == \E r \in Requests : StartResearch(j, r) \/ RefuseResearch(j, r)

TaskStep(j) ==
    \/ CreateJob(j) \/ CreateRaises(j)
    \/ GetCached(j) \/ GetCachedRaises(j)
    \/ RunResearch(j) \/ RunRaises(j)
    \/ CompleteFromCache(j) \/ CompleteJob(j) \/ CompleteRaises(j)
    \/ CacheResult(j) \/ CacheResultRaises(j)
    \/ FailJob(j) \/ FailRaises(j)

Next ==
    \/ \E j \in Jobs : Arrival(j) \/ TaskStep(j)
    \/ \E k \in Keys : Evict(k)
    \/ Crash

Spec == Init /\ [][Next]_vars

\* asyncio resumes every task whose await is over.  Every await of these tasks
\* is taken to end: agents by agent_timeout_seconds, OpenAI calls by their
\* client's time limit, database and Redis calls by an answer or an error.
Fairness == \A j \in Jobs : WF_vars(TaskStep(j))

-----------------------------------------------------------------------------
(* Properties *)

\* Every row, entry and local variable has the type the code gives it.
TypeOK ==
    /\ status \in [Jobs -> {"none", "running", "completed", "failed"}]
    /\ request \in [Jobs -> Requests \cup {NoRequest}]
    /\ report \in [Jobs -> Jobs \cup {NoJob}]
    /\ cache_hit \in [Jobs -> BOOLEAN]
    /\ cache \in [Keys -> Jobs \cup {NoJob}]
    /\ pc \in [Jobs -> {"idle"} \cup Live \cup Stopped]
    /\ state \in [Jobs -> ResearchStates \cup {NoState}]
    /\ crashes \in Nat
    /\ dbFaults \in Nat

\* research of origin answers j: origin ran it, its report is persisted and
\* still served, and it was asked the same question up to case and spaces
Answers(origin, j) ==
    /\ status[origin] = "completed"
    /\ report[origin] = origin
    /\ ~cache_hit[origin]
    /\ cache_key(origin) = cache_key(j)

\* What a report shows was researched by the job itself or, marked as a cache
\* hit, by a job for the same question that is itself completed and was not
\* served from the cache; a job without a report is not completed.
ReportProvenance ==
    \A j \in Jobs :
        /\ status[j] = "completed" => report[j] # NoJob
        /\ report[j] \in Jobs =>
               \/ report[j] = j /\ ~cache_hit[j]
               \/ report[j] # j /\ cache_hit[j] /\ Answers(report[j], j)

\* Redis holds nothing that PostgreSQL does not: every entry is research a
\* completed job persisted, under the key of its own question.  (A lost,
\* failed or withdrawn job never feeds the cache.)
CacheBackedByReport ==
    \A k \in Keys :
        cache[k] # NoJob =>
            /\ Answers(cache[k], cache[k])
            /\ cache_key(cache[k]) = k

\* Jobs that say "running" although nothing works on them
Orphaned == {j \in Jobs : status[j] = "running" /\ pc[j] \in {"refused", "done"}}

\* Jobs whose published report is being, or has been, taken back
Withdrawn == {j \in Jobs : report[j] # NoJob /\ (status[j] = "failed" \/ pc[j] = "fail")}

\* While the process lives, a job is left running for ever, or published and
\* then reported as failed, only by a store call that raised, and one job per
\* such call.  Exceptions of Redis and of the research never do it.
FaultsDamageOneJobEach == Cardinality(Orphaned \cup Withdrawn) <= dbFaults

\* A job in status "running" is settled, or lost to a fault: tasks do not
\* hang, whatever the interleaving and whatever raises.
Lost(j) == pc[j] \in Stopped
RunningJobsSettle ==
    \A j \in Jobs : status[j] = "running" ~> (status[j] # "running" \/ Lost(j))

-----------------------------------------------------------------------------
(* The promise this module implements *)

Lifecycle == INSTANCE JobLifecycle WITH
    Questions <- Keys,
    NoQuestion <- NoRequest,
    phase <- [j \in Jobs |-> IF status[j] = "none" THEN "absent" ELSE status[j]],
    question <- [j \in Jobs |-> IF status[j] = "none" THEN NoRequest ELSE cache_key(j)],
    published <- report

LifecycleSpec == Lifecycle!Spec
=============================================================================
