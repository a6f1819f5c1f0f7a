----------------------------- MODULE JobsProofs -----------------------------
(***************************************************************************)
(* Proofs about ResearchJobs and JobReads, for every set of jobs, users,   *)
(* queries and readers and every bound on crashes and faults.              *)
(*                                                                         *)
(* The properties of ResearchJobs are not inductive: that a cached job     *)
(* stays completed rests on its task being over, which in turn rests on    *)
(* where each task can be with which row.  IInv adds just that.            *)
(*                                                                         *)
(* Those of JobReads rest on IInv and on what no transaction ever takes    *)
(* back: a session row stays with its user, a report row stays as it is.   *)
(* So what a reader holds is true of the rows when it uses it, though the  *)
(* status it holds may be old.                                             *)
(***************************************************************************)
EXTENDS JobReads, FiniteSetTheorems, TLAPS

\* Where a task stands says what its row and its local state look like.
JobOK(j) ==
    /\ pc[j] # "idle" => request[j] \in Requests
    /\ pc[j] \in {"idle", "create"} => status[j] = "none"
    /\ pc[j] \in {"lookup", "hit", "run", "save"} => status[j] = "running"
    /\ pc[j] = "fail" => status[j] # "none"
    /\ status[j] \in {"none", "running"} => report[j] = NoJob /\ ~cache_hit[j]
    /\ status[j] = "completed" => report[j] # NoJob
    /\ pc[j] \in {"hit", "save", "store"} => state[j] \in ResearchStates
    /\ pc[j] \in {"save", "store"} => state[j].origin = j
    /\ pc[j] = "store" => status[j] = "completed" /\ report[j] = j /\ ~cache_hit[j]

\* Job o researched, persisted and is over: nothing changes its row any more.
Settled(o) ==
    /\ pc[o] = "done"
    /\ status[o] = "completed"
    /\ report[o] = o
    /\ ~cache_hit[o]

\* Job o is settled and asked what j asks.
Source(o, j) == o \in Jobs /\ Settled(o) /\ cache_key(o) = cache_key(j)

CacheOK(k) == cache[k] # NoJob => Settled(cache[k]) /\ cache_key(cache[k]) = k

HitOK(j) == pc[j] = "hit" => Source(state[j].origin, j)

ReportOK(j) ==
    report[j] # NoJob =>
        \/ report[j] = j /\ ~cache_hit[j]
        \/ report[j] # j /\ cache_hit[j] /\ Source(report[j], j)

IInv ==
    /\ TypeOK
    /\ \A j \in Jobs : JobOK(j) /\ HitOK(j) /\ ReportOK(j)
    /\ \A k \in Keys : CacheOK(k)

Damaged == Orphaned \cup Withdrawn

-----------------------------------------------------------------------------
(* The invariant *)

LEMMA InitInv == Init => IInv
  BY DEF Init, IInv, TypeOK, JobOK, HitOK, ReportOK, CacheOK, Live, Stopped

\* Every step keeps the types.
LEMMA TypeStep == TypeOK /\ (\A j \in Jobs : JobOK(j)) /\ [Next]_vars => TypeOK'
  <1> SUFFICES ASSUME TypeOK, \A j \in Jobs : JobOK(j), [Next]_vars
               PROVE  TypeOK'
    OBVIOUS
  <1> USE NormalizeAssumption DEF TypeOK, Live, Stopped, rows, task, faults, GoTo
  <1>1. ASSUME NEW j \in Jobs, Arrival(j) PROVE TypeOK'
    BY <1>1 DEF Arrival, StartResearch, RefuseResearch
  <1>2. ASSUME NEW j \in Jobs, TaskStep(j) PROVE TypeOK'
    <2> USE DEF JobOK
    <2>1. CASE CreateJob(j) \/ CreateRaises(j)
      BY <2>1 DEF CreateJob, CreateRaises, create, DbFault
    <2>2. CASE GetCached(j)
      <3>1. request[j] \in Requests /\ cache_key(j) \in Keys
        BY <2>2 DEF GetCached, cache_key, Requests
      <3>2. state' \in [Jobs -> ResearchStates \cup {NoState}]
        BY <2>2, <3>1 DEF GetCached, to_state, ResearchStates
      <3> QED BY <2>2, <3>2 DEF GetCached
    <2>3. CASE GetCachedRaises(j) \/ RunRaises(j)
      BY <2>3 DEF GetCachedRaises, RunRaises
    <2>4. CASE RunResearch(j)
      <3>1. state' \in [Jobs -> ResearchStates \cup {NoState}]
        BY <2>4 DEF RunResearch, ResearchStates
      <3> QED BY <2>4, <3>1 DEF RunResearch
    <2>5. CASE CompleteFromCache(j) \/ CompleteJob(j) \/ CompleteRaises(j)
      <3> USE DEF complete, ResearchStates
      <3>1. CASE CompleteFromCache(j)
        BY <3>1 DEF CompleteFromCache
      <3>2. CASE CompleteJob(j)
        BY <3>2 DEF CompleteJob
      <3>3. CASE CompleteRaises(j)
        <4>1. /\ pc' \in [Jobs -> {"idle"} \cup Live \cup Stopped]
              /\ dbFaults' \in Nat
              /\ UNCHANGED <<request, cache, state, crashes>>
          BY <3>3 DEF CompleteRaises, DbFault
        <4>2. ASSUME NEW hit \in BOOLEAN, pc[j] \in {"hit", "save"}, complete(j, state[j], hit)
              PROVE  TypeOK'
          BY <4>1, <4>2
        <4>3. ASSUME UNCHANGED rows PROVE TypeOK'
          BY <4>1, <4>3
        <4> QED BY <3>3, <4>2, <4>3 DEF CompleteRaises
      <3> QED BY <2>5, <3>1, <3>2, <3>3
    <2>6. CASE CacheResult(j) \/ CacheResultRaises(j)
      <3>1. request[j] \in Requests /\ cache_key(j) \in Keys /\ state[j].origin \in Jobs
        BY <2>6 DEF CacheResult, CacheResultRaises, cache_key, Requests, ResearchStates
      <3> QED BY <2>6, <3>1 DEF CacheResult, CacheResultRaises, cache_result
    <2>7. CASE FailJob(j) \/ FailRaises(j)
      BY <2>7 DEF FailJob, FailRaises, fail, DbFault
    <2> QED BY <1>2, <2>1, <2>2, <2>3, <2>4, <2>5, <2>6, <2>7 DEF TaskStep
  <1>3. ASSUME NEW k \in Keys, Evict(k) PROVE TypeOK'
    BY <1>3 DEF Evict
  <1>4. CASE Crash
    BY <1>4 DEF Crash
  <1>5. CASE UNCHANGED vars
    BY <1>5 DEF vars
  <1> QED BY <1>1, <1>2, <1>3, <1>4, <1>5 DEF Next

\* A step of j's request or task touches no row, place or state of another job.
LEMMA OthersUntouched ==
  ASSUME TypeOK, NEW j \in Jobs, Arrival(j) \/ TaskStep(j), NEW i \in Jobs, i # j
  PROVE  /\ UNCHANGED <<status[i], request[i], report[i], cache_hit[i], pc[i], state[i]>>
         /\ UNCHANGED crashes
  <1> USE DEF TypeOK, rows, task, faults, GoTo
  <1>1. CASE Arrival(j)
    BY <1>1 DEF Arrival, StartResearch, RefuseResearch
  <1>2. CASE CreateJob(j) \/ CreateRaises(j) \/ FailJob(j) \/ FailRaises(j)
    BY <1>2 DEF CreateJob, CreateRaises, FailJob, FailRaises, create, fail
  <1>3. CASE GetCached(j) \/ GetCachedRaises(j) \/ RunResearch(j) \/ RunRaises(j)
    BY <1>3 DEF GetCached, GetCachedRaises, RunResearch, RunRaises
  <1>4. CASE CompleteFromCache(j) \/ CompleteJob(j) \/ CompleteRaises(j)
    BY <1>4 DEF CompleteFromCache, CompleteJob, CompleteRaises, complete
  <1>5. CASE CacheResult(j) \/ CacheResultRaises(j)
    BY <1>5 DEF CacheResult, CacheResultRaises
  <1> QED BY <1>1, <1>2, <1>3, <1>4, <1>5 DEF TaskStep

\* A task that is over takes no step.
LEMMA OverIsOver ==
  ASSUME NEW j \in Jobs, pc[j] \in Stopped
  PROVE  ~Arrival(j) /\ ~TaskStep(j)
  BY DEF Stopped, Arrival, StartResearch, RefuseResearch, TaskStep, CreateJob,
         CreateRaises, GetCached, GetCachedRaises, RunResearch, RunRaises,
         CompleteFromCache, CompleteJob, CompleteRaises, CacheResult,
         CacheResultRaises, FailJob, FailRaises

\* What a job was asked never changes once it has an identifier.
LEMMA RequestStays ==
  ASSUME TypeOK, [Next]_vars, NEW i \in Jobs, pc[i] # "idle"
  PROVE  request'[i] = request[i] /\ cache_key(i)' = cache_key(i)
  <1>1. request'[i] = request[i]
    BY DEF TypeOK, Next, vars, Arrival, StartResearch, RefuseResearch, TaskStep,
           CreateJob, CreateRaises, GetCached, GetCachedRaises, RunResearch, RunRaises,
           CompleteFromCache, CompleteJob, CompleteRaises, CacheResult,
           CacheResultRaises, FailJob, FailRaises, Evict, Crash
  <1> QED BY <1>1 DEF cache_key

\* A settled job stays settled, so it stays a source of what it answered.
LEMMA SettledStays ==
  ASSUME TypeOK, [Next]_vars, NEW o \in Jobs, Settled(o)
  PROVE  Settled(o)'
  <1> USE DEF Settled, TypeOK
  <1>1. ASSUME NEW j \in Jobs, Arrival(j) \/ TaskStep(j) PROVE Settled(o)'
    <2>1. j # o
      BY <1>1, OverIsOver DEF Stopped
    <2> QED BY <1>1, <2>1, OthersUntouched
  <1>2. ASSUME NEW k \in Keys, Evict(k) PROVE Settled(o)'
    BY <1>2 DEF Evict, rows, task
  <1>3. CASE Crash
    BY <1>3 DEF Crash, rows, Live
  <1>4. CASE UNCHANGED vars
    BY <1>4 DEF vars
  <1> QED BY <1>1, <1>2, <1>3, <1>4 DEF Next

LEMMA SourceStays ==
  ASSUME TypeOK, [Next]_vars, NEW j \in Jobs, pc[j] # "idle", NEW o, Source(o, j)
  PROVE  Source(o, j)'
  <1>1. o \in Jobs /\ pc[o] # "idle" /\ Settled(o)'
    BY SettledStays DEF Source, Settled
  <1> QED BY <1>1, RequestStays DEF Source

\* Every step keeps rows, places and local states in agreement.
LEMMA JobStep ==
  ASSUME TypeOK, \A j \in Jobs : JobOK(j) /\ HitOK(j), [Next]_vars, NEW i \in Jobs
  PROVE  JobOK(i)'
  <1> USE NoJobAssumption DEF TypeOK, JobOK
  <1>1. ASSUME NEW j \in Jobs, Arrival(j) \/ TaskStep(j), i # j PROVE JobOK(i)'
    BY <1>1, OthersUntouched
  <1>2. CASE Arrival(i)
    BY <1>2 DEF Arrival, StartResearch, RefuseResearch, GoTo, rows, faults
  <1>3. CASE TaskStep(i)
    <2> USE DEF GoTo, rows, faults
    <2>1. CASE CreateJob(i) \/ CreateRaises(i)
      BY <2>1 DEF CreateJob, CreateRaises, create
    <2>2. CASE GetCached(i)
      <3>1. request[i] \in Requests /\ cache_key(i) \in Keys
        BY <2>2, NormalizeAssumption DEF GetCached, cache_key, Requests
      <3>2. CASE cache[cache_key(i)] = NoJob
        BY <2>2, <3>2 DEF GetCached
      <3>3. CASE cache[cache_key(i)] # NoJob
        <4>1. state'[i] \in ResearchStates /\ pc'[i] = "hit"
          BY <2>2, <3>1, <3>3 DEF GetCached, to_state, ResearchStates
        <4> QED BY <2>2, <4>1 DEF GetCached
      <3> QED BY <3>2, <3>3
    <2>3. CASE GetCachedRaises(i) \/ RunRaises(i)
      BY <2>3 DEF GetCachedRaises, RunRaises
    <2>4. CASE RunResearch(i)
      <3>1. state'[i] \in ResearchStates /\ state'[i].origin = i /\ pc'[i] = "save"
        BY <2>4 DEF RunResearch, ResearchStates
      <3> QED BY <2>4, <3>1 DEF RunResearch
    <2>5. CASE CompleteFromCache(i)
      <3>1. state[i].origin \in Jobs
        BY <2>5 DEF CompleteFromCache, ResearchStates
      <3> QED BY <2>5, <3>1 DEF CompleteFromCache, complete
    <2>6. CASE CompleteJob(i)
      BY <2>6 DEF CompleteJob, complete
    <2>7. CASE CompleteRaises(i)
      <3>1. state[i].origin \in Jobs
        BY <2>7 DEF CompleteRaises, ResearchStates
      <3> QED BY <2>7, <3>1 DEF CompleteRaises, complete
    <2>8. CASE CacheResult(i) \/ CacheResultRaises(i)
      BY <2>8 DEF CacheResult, CacheResultRaises
    <2>9. CASE FailJob(i) \/ FailRaises(i)
      BY <2>9 DEF FailJob, FailRaises, fail
    <2> QED BY <1>3, <2>1, <2>2, <2>3, <2>4, <2>5, <2>6, <2>7, <2>8, <2>9 DEF TaskStep
  <1>4. ASSUME NEW k \in Keys, Evict(k) PROVE JobOK(i)'
    BY <1>4 DEF Evict, rows, task, faults
  <1>5. CASE Crash
    BY <1>5 DEF Crash, rows, Live
  <1>6. CASE UNCHANGED vars
    BY <1>6 DEF vars
  <1> QED BY <1>1, <1>2, <1>3, <1>4, <1>5, <1>6 DEF Next

\* A task is about to publish cached research only of a job that is settled
\* and was asked the same.
LEMMA HitStep ==
  ASSUME IInv, [Next]_vars, NEW i \in Jobs
  PROVE  HitOK(i)'
  <1> SUFFICES ASSUME pc'[i] = "hit"
               PROVE  Source(state[i].origin, i)'
    BY DEF HitOK
  <1> USE DEF IInv, TypeOK, JobOK
  <1>1. CASE GetCached(i)
    <2>1. request[i] \in Requests /\ cache_key(i) \in Keys
      BY <1>1, NormalizeAssumption DEF GetCached, cache_key, Requests
    <2>2. PICK o \in Jobs : o = cache[cache_key(i)]
      BY <1>1, <2>1 DEF GetCached, GoTo
    <2>3. state'[i].origin = o /\ pc[i] # "idle"
      BY <1>1, <2>2, NoJobAssumption DEF GetCached, GoTo, to_state
    <2>4. Source(o, i)
      BY <2>1, <2>2, NoJobAssumption DEF CacheOK, Source
    <2>5. Source(o, i)'
      BY <2>3, <2>4, SourceStays
    <2> QED BY <2>3, <2>5 DEF Source
  <1>2. CASE ~GetCached(i)
    <2>1. pc[i] = "hit" /\ state'[i] = state[i]
      <3>1. ASSUME NEW j \in Jobs, Arrival(j) \/ TaskStep(j), i # j
            PROVE  pc[i] = "hit" /\ state'[i] = state[i]
        BY <3>1, OthersUntouched
      <3>2. CASE Arrival(i) \/ TaskStep(i)
        BY <3>2, <1>2 DEF Arrival, TaskStep, StartResearch, RefuseResearch, GoTo,
             CreateJob, CreateRaises, GetCachedRaises, RunResearch, RunRaises,
             CompleteFromCache, CompleteJob, CompleteRaises, CacheResult,
             CacheResultRaises, FailJob, FailRaises
      <3>3. CASE Crash
        BY <3>3 DEF Crash, Live
      <3>4. ASSUME NEW k \in Keys, Evict(k) PROVE pc[i] = "hit" /\ state'[i] = state[i]
        BY <3>4 DEF Evict, task
      <3> QED BY <3>1, <3>2, <3>3, <3>4 DEF Next, vars
    <2>2. Source(state[i].origin, i)
      BY <2>1 DEF HitOK
    <2>3. PICK o \in Jobs : o = state[i].origin
      BY <2>2 DEF Source
    <2>4. Source(o, i)'
      BY <2>1, <2>2, <2>3, SourceStays
    <2> QED BY <2>1, <2>3, <2>4 DEF Source
  <1> QED BY <1>1, <1>2

\* The published report changes only where store.complete runs, which writes
\* the job's own research or, marked as a hit, that of the cached job.
LEMMA Publication ==
  ASSUME IInv, [Next]_vars, NEW i \in Jobs
  PROVE  \/ UNCHANGED <<report[i], cache_hit[i]>>
         \/ pc[i] = "save" /\ report'[i] = i /\ ~cache_hit'[i]
         \/ /\ pc[i] = "hit"
            /\ report'[i] = state[i].origin
            /\ cache_hit'[i]
  <1> USE DEF IInv, TypeOK, JobOK
  <1>1. ASSUME NEW j \in Jobs, Arrival(j) \/ TaskStep(j), i # j
        PROVE  UNCHANGED <<report[i], cache_hit[i]>>
    BY <1>1, OthersUntouched
  <1>2. CASE Arrival(i)
    BY <1>2 DEF Arrival, StartResearch, RefuseResearch, rows
  <1>3. CASE CreateJob(i) \/ CreateRaises(i) \/ FailJob(i) \/ FailRaises(i)
    BY <1>3 DEF CreateJob, CreateRaises, FailJob, FailRaises, create, fail, rows
  <1>4. CASE GetCached(i) \/ GetCachedRaises(i) \/ RunResearch(i) \/ RunRaises(i)
             \/ CacheResult(i) \/ CacheResultRaises(i)
    BY <1>4 DEF GetCached, GetCachedRaises, RunResearch, RunRaises, CacheResult,
         CacheResultRaises, rows
  <1>5. CASE CompleteFromCache(i) \/ CompleteJob(i) \/ CompleteRaises(i)
    BY <1>5 DEF CompleteFromCache, CompleteJob, CompleteRaises, complete, rows
  <1>6. CASE (\E k \in Keys : Evict(k)) \/ Crash \/ UNCHANGED vars
    BY <1>6 DEF Evict, Crash, rows, vars
  <1> QED BY <1>1, <1>2, <1>3, <1>4, <1>5, <1>6 DEF Next, TaskStep

\* Published reports keep their provenance.
LEMMA ReportStep ==
  ASSUME IInv, [Next]_vars, NEW i \in Jobs
  PROVE  ReportOK(i)'
  <1> USE NoJobAssumption DEF IInv, ReportOK
  <1>1. CASE UNCHANGED <<report[i], cache_hit[i]>>
    <2>1. CASE report[i] = NoJob \/ report[i] = i
      BY <1>1, <2>1
    <2>2. CASE report[i] # NoJob /\ report[i] # i
      <3>1. PICK o \in Jobs : o = report[i] /\ Source(o, i) /\ cache_hit[i]
        BY <2>2 DEF Source
      <3>2. pc[i] # "idle"
        BY <2>2 DEF JobOK
      <3>3. Source(o, i)'
        BY <3>1, <3>2, SourceStays
      <3> QED BY <1>1, <2>2, <3>1, <3>3
    <2> QED BY <2>1, <2>2
  <1>2. CASE pc[i] = "save" /\ report'[i] = i /\ ~cache_hit'[i]
    BY <1>2
  <1>3. CASE pc[i] = "hit" /\ report'[i] = state[i].origin /\ cache_hit'[i]
    <2>1. PICK o \in Jobs : o = state[i].origin /\ Source(o, i)
      BY <1>3 DEF HitOK, Source
    <2>2. Source(o, i)' /\ o # i
      BY <1>3, <2>1, SourceStays DEF Source, Settled
    <2> QED BY <1>3, <2>1, <2>2
  <1> QED BY <1>1, <1>2, <1>3, Publication

\* What the cache holds stays backed by a settled job.
LEMMA CacheStep ==
  ASSUME IInv, [Next]_vars, NEW k \in Keys
  PROVE  CacheOK(k)'
  <1> SUFFICES ASSUME cache'[k] # NoJob
               PROVE  Settled(cache[k])' /\ cache_key(cache[k])' = k
    BY DEF CacheOK
  <1> USE NoJobAssumption DEF IInv, TypeOK
  <1>1. CASE cache'[k] = cache[k]
    <2>1. PICK o \in Jobs : o = cache[k] /\ Settled(o) /\ cache_key(o) = k
      BY <1>1 DEF CacheOK
    <2>2. Settled(o)' /\ cache_key(o)' = k
      BY <2>1, SettledStays, RequestStays DEF Settled
    <2> QED BY <1>1, <2>1, <2>2
  <1>2. CASE cache'[k] # cache[k]
    <2>1. PICK j \in Jobs : /\ CacheResult(j) \/ CacheResultRaises(j)
                           /\ cache_result(j)
      BY <1>2 DEF Next, vars, Arrival, StartResearch, RefuseResearch, TaskStep,
         CreateJob, CreateRaises, GetCached, GetCachedRaises, RunResearch, RunRaises,
         CompleteFromCache, CompleteJob, CompleteRaises, CacheResult,
         CacheResultRaises, FailJob, FailRaises, Evict, Crash
    <2>2. /\ pc[j] = "store" /\ pc'[j] = "done"
          /\ UNCHANGED <<request, rows>>
      BY <2>1 DEF CacheResult, CacheResultRaises, GoTo
    <2>3. Settled(j)' /\ state[j].origin = j
      BY <2>2 DEF JobOK, Settled, rows
    <2>4. cache_key(j) = k /\ cache'[k] = j
      BY <1>2, <2>1, <2>3 DEF cache_result
    <2>5. cache_key(j)' = k
      BY <2>2, <2>4 DEF cache_key
    <2> QED BY <2>3, <2>4, <2>5
  <1> QED BY <1>1, <1>2

LEMMA NextInv == IInv /\ [Next]_vars => IInv'
  BY TypeStep, JobStep, HitStep, ReportStep, CacheStep DEF IInv

\* Every step of the service keeps the strengthened invariant.
THEOREM Invariance == Spec => []IInv
  BY InitInv, NextInv, PTL DEF Spec

\* Rows, cache entries and local variables always have their types.
THEOREM TypeCorrect == Spec => []TypeOK
  <1>1. IInv => TypeOK
    BY DEF IInv
  <1> QED BY <1>1, Invariance, PTL

\* Reports show the job's own research or, marked as a hit, that of a
\* completed job that ran it for the same question.
THEOREM ReportProvenanceHolds == Spec => []ReportProvenance
  <1>1. IInv => ReportProvenance
    BY NoJobAssumption DEF IInv, TypeOK, ReportProvenance, JobOK, ReportOK, Source, Settled, Answers
  <1> QED BY <1>1, Invariance, PTL

\* The cache never holds what no completed job persisted.
THEOREM CacheBackedByReportHolds == Spec => []CacheBackedByReport
  <1>1. IInv => CacheBackedByReport
    BY NoJobAssumption DEF IInv, TypeOK, CacheBackedByReport, CacheOK, Settled, Answers
  <1> QED BY <1>1, Invariance, PTL

-----------------------------------------------------------------------------
(* Refinement of JobLifecycle *)

\* The mapped variables, named for the proof.
phaseOf(j) == IF status[j] = "none" THEN "absent" ELSE status[j]
questionOf(j) == IF status[j] = "none" THEN NoRequest ELSE cache_key(j)

\* Rows change only by the effect of a store transaction.
LEMMA RowSteps ==
  ASSUME [Next]_vars
  PROVE  \/ UNCHANGED rows
         \/ \E j \in Jobs : pc[j] = "create" /\ create(j) /\ UNCHANGED request
         \/ \E j \in Jobs : pc[j] = "hit" /\ complete(j, state[j], TRUE) /\ UNCHANGED request
         \/ \E j \in Jobs : pc[j] = "save" /\ complete(j, state[j], FALSE) /\ UNCHANGED request
         \/ \E j \in Jobs : pc[j] = "fail" /\ fail(j) /\ UNCHANGED request
  <1>1. ASSUME NEW j \in Jobs, Arrival(j) PROVE UNCHANGED rows
    BY <1>1 DEF Arrival, StartResearch, RefuseResearch
  <1>2. ASSUME NEW j \in Jobs, TaskStep(j)
        PROVE  \/ UNCHANGED rows
               \/ pc[j] = "create" /\ create(j) /\ UNCHANGED request
               \/ pc[j] = "hit" /\ complete(j, state[j], TRUE) /\ UNCHANGED request
               \/ pc[j] = "save" /\ complete(j, state[j], FALSE) /\ UNCHANGED request
               \/ pc[j] = "fail" /\ fail(j) /\ UNCHANGED request
    BY <1>2 DEF TaskStep, CreateJob, CreateRaises, GetCached, GetCachedRaises,
         RunResearch, RunRaises, CompleteFromCache, CompleteJob, CompleteRaises,
         CacheResult, CacheResultRaises, FailJob, FailRaises
  <1>3. CASE (\E k \in Keys : Evict(k)) \/ Crash \/ UNCHANGED vars
    BY <1>3 DEF Evict, Crash, rows, vars
  <1> QED BY <1>1, <1>2, <1>3 DEF Next

\* The first state maps to the first state of the lifecycle.
LEMMA LifecycleInit == Init => Lifecycle!Init
  BY DEF Init, Lifecycle!Init

\* Every step maps to a step of the lifecycle or changes nothing in it.
LEMMA LifecycleStep ==
  ASSUME IInv, [Next]_vars
  PROVE  [Lifecycle!Next]_(Lifecycle!lifecycleVars)
  <1> USE DEF IInv, TypeOK
  <1>k. \A j \in Jobs : pc[j] # "idle" => cache_key(j) \in Keys /\ cache_key(j)' = cache_key(j)
    BY NormalizeAssumption, RequestStays DEF JobOK, cache_key, Requests
  <1>n. \A j \in Jobs : status[j] # "none" => pc[j] # "idle"
    BY DEF JobOK
  <1>1. CASE UNCHANGED rows
    <2>1. \A j \in Jobs : phaseOf(j)' = phaseOf(j) /\ questionOf(j)' = questionOf(j)
      BY <1>1, <1>k, <1>n DEF rows, phaseOf, questionOf
    <2> QED BY <1>1, <2>1 DEF rows, Lifecycle!lifecycleVars, phaseOf, questionOf
  <1>2. ASSUME NEW j \in Jobs, pc[j] = "create", create(j), UNCHANGED request,
               NEW q \in Keys, q = cache_key(j)
        PROVE  Lifecycle!Start(j, q)
    <2>1. status[j] = "none"
      BY <1>2 DEF JobOK
    <2>2. \A i \in Jobs : cache_key(i)' = cache_key(i)
      BY <1>2 DEF cache_key
    <2> QED BY <1>2, <2>1, <2>2 DEF create, Lifecycle!Start
  <1>3. ASSUME NEW j \in Jobs, NEW hit \in BOOLEAN, pc[j] \in {"hit", "save"},
               complete(j, state[j], hit), UNCHANGED request
        PROVE  Lifecycle!Fail(j) \/ \E origin \in Jobs : Lifecycle!Complete(j, origin)
    <2>1. status[j] = "running" /\ state[j].origin \in Jobs
      BY <1>3 DEF JobOK, ResearchStates
    <2>2. \A i \in Jobs : cache_key(i)' = cache_key(i)
      BY <1>3 DEF cache_key
    <2>3. CASE state[j].status = "failed"
      <3>1. Lifecycle!Fail(j)
        BY <1>3, <2>1, <2>2, <2>3 DEF complete, Lifecycle!Fail
      <3> QED BY <3>1
    <2>4. CASE state[j].status # "failed"
      <3>0. PICK o \in Jobs : o = state[j].origin
        BY <2>1
      <3>1. Lifecycle!MayPublish(j, o)
        <4>1. CASE pc[j] = "save"
          BY <4>1, <3>0 DEF JobOK, Lifecycle!MayPublish
        <4>2. CASE pc[j] = "hit"
          <5>1. Source(o, j)
            BY <4>2, <3>0 DEF HitOK
          <5> QED BY <5>1, <2>1 DEF Source, Settled, Lifecycle!MayPublish
        <4> QED BY <1>3, <4>1, <4>2
      <3>2. status' = [status EXCEPT ![j] = "completed"] /\ report' = [report EXCEPT ![j] = o]
        BY <1>3, <2>4, <3>0 DEF complete
      <3>3. Lifecycle!Complete(j, o)
        BY <2>1, <2>2, <3>1, <3>2 DEF Lifecycle!Complete
      <3> QED BY <3>3
    <2> QED BY <2>3, <2>4
  <1>4. ASSUME NEW j \in Jobs, pc[j] = "fail", fail(j), UNCHANGED request
        PROVE  \/ Lifecycle!Fail(j) \/ Lifecycle!Withdraw(j)
               \/ UNCHANGED Lifecycle!lifecycleVars
    <2>1. status[j] \in {"running", "completed", "failed"}
      BY <1>4 DEF JobOK
    <2>2. \A i \in Jobs : cache_key(i)' = cache_key(i)
      BY <1>4 DEF cache_key
    <2>3. CASE status[j] = "running"
      <3>1. Lifecycle!Fail(j)
        BY <1>4, <2>2, <2>3 DEF fail, Lifecycle!Fail
      <3> QED BY <3>1
    <2>4. CASE status[j] = "completed"
      <3>1. Lifecycle!Withdraw(j)
        BY <1>4, <2>2, <2>4 DEF fail, Lifecycle!Withdraw
      <3> QED BY <3>1
    <2>5. CASE status[j] = "failed"
      <3>1. status' = status /\ report' = report
        BY <1>4, <2>5 DEF fail
      <3>2. UNCHANGED Lifecycle!lifecycleVars
        BY <2>2, <3>1 DEF Lifecycle!lifecycleVars
      <3> QED BY <3>2
    <2> QED BY <2>1, <2>3, <2>4, <2>5
  <1>5. ASSUME NEW j \in Jobs, pc[j] = "create", create(j), UNCHANGED request
        PROVE  Lifecycle!Next
    <2>1. PICK q \in Keys : q = cache_key(j)
      BY <1>5, <1>k
    <2>2. Lifecycle!Start(j, q)
      BY <1>2, <1>5, <2>1
    <2> QED BY <2>2 DEF Lifecycle!Next
  <1>6. ASSUME NEW j \in Jobs, NEW hit \in BOOLEAN, pc[j] \in {"hit", "save"},
               complete(j, state[j], hit), UNCHANGED request
        PROVE  Lifecycle!Next
    BY <1>3, <1>6 DEF Lifecycle!Next
  <1>7. ASSUME NEW j \in Jobs, pc[j] = "fail", fail(j), UNCHANGED request
        PROVE  Lifecycle!Next \/ UNCHANGED Lifecycle!lifecycleVars
    BY <1>4, <1>7 DEF Lifecycle!Next
  <1>8. CASE \E j \in Jobs : pc[j] = "hit" /\ complete(j, state[j], TRUE) /\ UNCHANGED request
    BY <1>6, <1>8
  <1>9. CASE \E j \in Jobs : pc[j] = "save" /\ complete(j, state[j], FALSE) /\ UNCHANGED request
    BY <1>6, <1>9
  <1> QED BY <1>1, <1>5, <1>7, <1>8, <1>9, RowSteps

\* The service implements the lifecycle: jobs only move forward, what they
\* publish never changes and answers their question, and the one step back
\* is from completed to failed.
THEOREM LifecycleImplemented == Spec => LifecycleSpec
  <1>1. Init => Lifecycle!Init
    BY LifecycleInit
  <1>2. IInv /\ [Next]_vars => [Lifecycle!Next]_(Lifecycle!lifecycleVars)
    BY LifecycleStep
  <1> QED BY <1>1, <1>2, Invariance, PTL DEF Spec, LifecycleSpec, Lifecycle!Spec

-----------------------------------------------------------------------------
(* Accounting of faults *)

\* Only the job whose store call raises can join the damaged ones.
LEMMA DamageStep ==
  ASSUME IInv, [Next]_vars
  PROVE  \/ dbFaults' = dbFaults /\ Damaged' \subseteq Damaged
         \/ \E j \in Jobs : dbFaults' = dbFaults + 1 /\ Damaged' \subseteq Damaged \cup {j}
  <1> USE DEF IInv, TypeOK, JobOK, Damaged, Orphaned, Withdrawn
  <1>1. ASSUME NEW j \in Jobs, Arrival(j) \/ TaskStep(j), NEW i \in Jobs, i # j
        PROVE  i \in Damaged' <=> i \in Damaged
    BY <1>1, OthersUntouched
  <1>2. ASSUME NEW j \in Jobs, Arrival(j) \/ TaskStep(j), dbFaults' # dbFaults
        PROVE  dbFaults' = dbFaults + 1 /\ Damaged' \subseteq Damaged \cup {j}
    <2>1. dbFaults' = dbFaults + 1
      BY <1>2 DEF faults, DbFault, Arrival, StartResearch, RefuseResearch, TaskStep, CreateJob,
         CreateRaises, GetCached, GetCachedRaises, RunResearch, RunRaises,
         CompleteFromCache, CompleteJob, CompleteRaises, CacheResult,
         CacheResultRaises, FailJob, FailRaises
    <2>2. Damaged' \subseteq Jobs
      OBVIOUS
    <2> QED BY <1>1, <1>2, <2>1, <2>2
  <1>3. ASSUME NEW j \in Jobs, Arrival(j) \/ TaskStep(j), dbFaults' = dbFaults
        PROVE  Damaged' \subseteq Damaged
    <2> SUFFICES ASSUME j \in Damaged' PROVE j \in Damaged
      BY <1>1, <1>3
    <2> USE NoJobAssumption DEF GoTo, rows, faults
    <2>1. CASE Arrival(j)
      BY <2>1 DEF Arrival, StartResearch, RefuseResearch
    <2>2. CASE CreateJob(j) \/ GetCached(j) \/ GetCachedRaises(j)
      BY <2>2 DEF CreateJob, create, GetCached, GetCachedRaises
    <2>3. CASE RunResearch(j) \/ RunRaises(j)
      BY <2>3 DEF RunResearch, RunRaises
    <2>4. CASE CompleteFromCache(j) \/ CompleteJob(j)
      BY <2>4 DEF CompleteFromCache, CompleteJob, complete
    <2>5. CASE CacheResult(j) \/ CacheResultRaises(j)
      BY <2>5 DEF CacheResult, CacheResultRaises
    <2>6. CASE FailJob(j)
      BY <2>6 DEF FailJob, fail
    <2>7. CASE CreateRaises(j) \/ CompleteRaises(j) \/ FailRaises(j)
      <3>1. DbFault
        BY <2>7 DEF CreateRaises, CompleteRaises, FailRaises
      <3>2. dbFaults \in Nat
        OBVIOUS
      <3> QED BY <1>3, <3>1, <3>2 DEF DbFault
    <2> QED BY <1>3, <2>1, <2>2, <2>3, <2>4, <2>5, <2>6, <2>7 DEF TaskStep
  <1>4. ASSUME NEW k \in Keys, Evict(k)
        PROVE  dbFaults' = dbFaults /\ Damaged' \subseteq Damaged
    BY <1>4 DEF Evict, rows, task, faults
  <1>5. CASE Crash
    BY <1>5 DEF Crash, rows, Live
  <1>6. CASE UNCHANGED vars
    BY <1>6 DEF vars
  <1>7. ASSUME NEW j \in Jobs, Arrival(j) \/ TaskStep(j)
        PROVE  \/ dbFaults' = dbFaults /\ Damaged' \subseteq Damaged
               \/ dbFaults' = dbFaults + 1 /\ Damaged' \subseteq Damaged \cup {j}
    BY <1>2, <1>3, <1>7
  <1> HIDE DEF IInv, TypeOK, JobOK, Damaged, Orphaned, Withdrawn
  <1> QED BY <1>4, <1>5, <1>6, <1>7 DEF Next

\* However many jobs run and whatever raises, a store call that raises damages
\* at most one job, and nothing else damages one while its process lives.
THEOREM FaultsDamageOneJobEachHolds == Spec => []FaultsDamageOneJobEach
  <1> DEFINE Bound == Cardinality(Damaged) <= dbFaults
  <1>1. IsFiniteSet(Damaged)
    BY JobsAssumption, FS_Subset DEF Damaged, Orphaned, Withdrawn
  <1>2. Init => Bound
    <2> SUFFICES ASSUME Init PROVE Bound
      OBVIOUS
    <2>1. Damaged = {}
      BY DEF Init, Damaged, Orphaned, Withdrawn
    <2> QED BY <2>1, FS_EmptySet DEF Init
  <1>3. IInv /\ Bound /\ [Next]_vars => Bound'
    <2> SUFFICES ASSUME IInv, Bound, [Next]_vars PROVE Bound'
      OBVIOUS
    <2>1. IsFiniteSet(Damaged') /\ Cardinality(Damaged) \in Nat /\ dbFaults \in Nat
      BY <1>1, JobsAssumption, FS_Subset, FS_CardinalityType
         DEF Damaged, Orphaned, Withdrawn, IInv, TypeOK
    <2>2. CASE dbFaults' = dbFaults /\ Damaged' \subseteq Damaged
      <3>1. Cardinality(Damaged') <= Cardinality(Damaged) /\ Cardinality(Damaged') \in Nat
        BY <1>1, <2>1, <2>2, FS_Subset, FS_CardinalityType
      <3> QED BY <2>1, <2>2, <3>1
    <2>3. ASSUME NEW j \in Jobs, dbFaults' = dbFaults + 1,
                 Damaged' \subseteq Damaged \cup {j}
          PROVE  Bound'
      <3>1. /\ IsFiniteSet(Damaged \cup {j})
            /\ Cardinality(Damaged \cup {j}) <= Cardinality(Damaged) + 1
        <4>1. CASE j \in Damaged
          <5>1. Damaged \cup {j} = Damaged
            BY <4>1
          <5> QED BY <1>1, <2>1, <5>1
        <4>2. CASE j \notin Damaged
          <5>1. IsFiniteSet(Damaged \cup {j})
            BY <1>1, FS_AddElement
          <5>2. Cardinality(Damaged \cup {j}) = Cardinality(Damaged) + 1
            BY <1>1, <4>2, FS_AddElement, Zenon
          <5> QED BY <2>1, <5>1, <5>2
        <4> QED BY <4>1, <4>2
      <3>2. /\ Cardinality(Damaged') <= Cardinality(Damaged \cup {j})
            /\ Cardinality(Damaged') \in Nat /\ Cardinality(Damaged \cup {j}) \in Nat
        BY <2>1, <2>3, <3>1, FS_Subset, FS_CardinalityType
      <3> QED BY <2>1, <2>3, <3>1, <3>2
    <2> QED BY <2>2, <2>3, DamageStep
  <1>4. Bound => FaultsDamageOneJobEach
    BY DEF Damaged, FaultsDamageOneJobEach
  <1> HIDE DEF Bound
  <1> QED BY <1>2, <1>3, <1>4, Invariance, PTL DEF Spec
-----------------------------------------------------------------------------
(* Readers *)

\* What a call under way has read.
ReadOK(rd) ==
    /\ rd.row # "none" => status[rd.job] # "none" /\ request[rd.job].user = rd.user
    /\ rd.row = "completed" => report[rd.job] # NoJob
    /\ rd.report # NoJob => rd.row # "none" /\ rd.report = report[rd.job]
    /\ rd.at = 2 => rd.row # "none"
    /\ rd.at = 3 /\ rd.row = "completed" => rd.report # NoJob
    /\ rd.at = 1 => rd.row = "none"

ReadersOK ==
    /\ reader \in [Readers -> Reads \cup {NoRead}]
    /\ \A r \in Readers : reader[r] # NoRead => ReadOK(reader[r])

ReadInv == IInv /\ ReadersOK

\* Rows are inserted, never deleted; a job's report is written once.
LEMMA RowsStay ==
  ASSUME IInv, [Next]_vars, NEW j \in Jobs
  PROVE  /\ status[j] # "none" => status'[j] # "none" /\ request'[j] = request[j]
         /\ report[j] # NoJob => report'[j] = report[j]
  <1>1. ASSUME status[j] # "none" PROVE status'[j] # "none"
    <2> USE DEF IInv, TypeOK
    <2>1. CASE UNCHANGED rows
      BY <1>1, <2>1 DEF rows
    <2>2. ASSUME NEW i \in Jobs, create(i) \/ complete(i, state[i], TRUE)
                                 \/ complete(i, state[i], FALSE) \/ fail(i)
          PROVE  status'[j] # "none"
      BY <1>1, <2>2 DEF create, complete, fail
    <2> QED
      BY <2>1, <2>2, RowSteps
  <1>2. ASSUME status[j] # "none" PROVE request'[j] = request[j]
    <2>1. pc[j] # "idle"
      BY <1>2 DEF IInv, JobOK
    <2> QED
      BY <2>1, RequestStays DEF IInv
  <1>3. ASSUME report[j] # NoJob PROVE report'[j] = report[j]
    <2>1. pc[j] \notin {"hit", "save"}
      BY <1>3 DEF IInv, JobOK
    <2> QED
      BY <2>1, Publication
  <1> QED
    BY <1>1, <1>2, <1>3

\* What a reader of the tables can count on: a row keeps its request, a report
\* stays the one that was published, and no status follows a failed one.
JobsOnlyAdvance ==
    [][\A j \in Jobs :
           /\ status[j] # "none" => request'[j] = request[j]
           /\ report[j] # NoJob => report'[j] = report[j]
           /\ status[j] = "running" => status'[j] # "none"
           /\ status[j] = "completed" => status'[j] \in {"completed", "failed"}
           /\ status[j] = "failed" => status'[j] = "failed"]_vars

\* An ended job never runs or completes again, and its report is never replaced
\* or removed, whatever raises, crashes or commits late (complete and fail of
\* app/db/store.py, which update a row without looking at its status).
THEOREM JobsOnlyAdvanceHolds == Spec => JobsOnlyAdvance
  <1>1. ASSUME IInv, [Next]_vars, NEW j \in Jobs
        PROVE  /\ status[j] = "running" => status'[j] # "none"
               /\ status[j] = "completed" => status'[j] \in {"completed", "failed"}
               /\ status[j] = "failed" => status'[j] = "failed"
    <2> USE <1>1 DEF IInv, TypeOK
    <2>1. CASE UNCHANGED rows
      BY <2>1 DEF rows
    <2>2. ASSUME NEW i \in Jobs, pc[i] = "create", create(i)
          PROVE  status[j] # "none" => status'[j] = status[j]
      BY <2>2 DEF create, JobOK
    <2>3. ASSUME NEW i \in Jobs, NEW hit \in BOOLEAN, pc[i] \in {"hit", "save"},
                 complete(i, state[i], hit)
          PROVE  /\ status[j] = "running" => status'[j] # "none"
                 /\ status[j] \notin {"none", "running"} => status'[j] = status[j]
      BY <2>3 DEF complete, JobOK
    <2>4. ASSUME NEW i \in Jobs, fail(i)
          PROVE  status'[j] = status[j] \/ status'[j] = "failed"
      BY <2>4 DEF fail
    <2> QED
      BY <2>1, <2>2, <2>3, <2>4, RowSteps
  <1>2. IInv /\ [Next]_vars =>
            [\A j \in Jobs :
                 /\ status[j] # "none" => request'[j] = request[j]
                 /\ report[j] # NoJob => report'[j] = report[j]
                 /\ status[j] = "running" => status'[j] # "none"
                 /\ status[j] = "completed" => status'[j] \in {"completed", "failed"}
                 /\ status[j] = "failed" => status'[j] = "failed"]_vars
    BY <1>1, RowsStay
  <1> QED
    BY <1>2, Invariance, PTL DEF Spec, JobsOnlyAdvance

\* Steps of the service leave what a reader holds true.
LEMMA ServiceKeepsReads ==
  ASSUME ReadInv, [Next]_vars, UNCHANGED reader
  PROVE  ReadersOK'
  <1> SUFFICES ASSUME NEW r \in Readers, reader[r] # NoRead
               PROVE  ReadOK(reader[r])'
    BY DEF ReadInv, ReadersOK
  <1>1. reader[r] \in Reads /\ ReadOK(reader[r]) /\ reader[r].job \in Jobs
    BY DEF ReadInv, ReadersOK, Reads
  <1>2. /\ status[reader[r].job] # "none" =>
               status'[reader[r].job] # "none" /\ request'[reader[r].job] = request[reader[r].job]
        /\ report[reader[r].job] # NoJob => report'[reader[r].job] = report[reader[r].job]
    BY <1>1, RowsStay DEF ReadInv
  <1> QED
    BY <1>1, <1>2 DEF ReadOK

\* A step of reader r concerns no other reader, and leaves r with a true record.
LEMMA OneReader ==
  ASSUME ReadInv, UNCHANGED vars, NEW r \in Readers, NEW rd \in Reads \cup {NoRead},
         reader' = [reader EXCEPT ![r] = rd], rd = NoRead \/ ReadOK(rd)
  PROVE  ReadersOK'
  <1>1. reader' \in [Readers -> Reads \cup {NoRead}]
    BY DEF ReadInv, ReadersOK
  <1>2. ASSUME NEW i \in Readers, reader'[i] # NoRead PROVE ReadOK(reader[i])'
    BY <1>2 DEF ReadInv, ReadersOK, ReadOK, vars
  <1> QED
    BY <1>1, <1>2 DEF ReadersOK

\* What a statement adds to a record keeps its type.
LEMMA ReadTyped ==
  ASSUME NEW rd \in Reads, NEW at \in {1, 2, 3},
         NEW row \in {"none", "running", "completed", "failed"}, NEW rep \in Jobs \cup {NoJob}
  PROVE  /\ [rd EXCEPT !.row = row, !.at = at] \in Reads
         /\ [rd EXCEPT !.report = rep, !.at = at] \in Reads
  <1>1. [rd EXCEPT !.row = row] \in Reads /\ [rd EXCEPT !.report = rep] \in Reads
    BY DEF Reads
  <1>2. ASSUME NEW x \in Reads PROVE [x EXCEPT !.at = at] \in Reads
    BY DEF Reads
  <1> QED
    BY <1>1, <1>2

LEMMA ReadStepInv ==
  ASSUME ReadInv, NEW r \in Readers, ReadStep(r)
  PROVE  ReadInv'
  <1>1. UNCHANGED vars
    BY DEF ReadStep, BeginRead, SelectSession, SelectReport, Respond
  <1>2. IInv'
    BY <1>1, NextInv DEF ReadInv
  <1> SUFFICES ReadersOK'
    BY <1>2 DEF ReadInv
  <1>3. ASSUME NEW u \in Users, NEW j \in Jobs, BeginRead(r, u, j) PROVE ReadersOK'
    <2> DEFINE rd == [user |-> u, job |-> j, at |-> 1, row |-> "none", report |-> NoJob]
    <2>1. rd \in Reads /\ ReadOK(rd)
      BY DEF Reads, ReadOK
    <2> QED
      BY <1>1, <1>3, <2>1, OneReader DEF BeginRead
  <1>4. CASE SelectSession(r)
    <2> DEFINE rd == reader[r]
               next == IF Matches(rd) THEN [rd EXCEPT !.row = status[rd.job], !.at = @ + 1]
                                      ELSE [rd EXCEPT !.at = 3]
    <2>1. rd \in Reads /\ rd # NoRead /\ ReadOK(rd) /\ Selects[rd.at] = "session" /\ rd.at \in 1 .. 2
      BY <1>4 DEF ReadInv, ReadersOK, SelectSession, Reading, Selects
    <2>2. rd.at = 1 /\ rd.row = "none" /\ rd.report = NoJob
      BY <2>1 DEF Selects, ReadOK
    <2>3. status[rd.job] \in {"none", "running", "completed", "failed"}
      BY <2>1 DEF ReadInv, IInv, TypeOK, Reads
    <2>4. next \in Reads
      <3>1. [rd EXCEPT !.row = status[rd.job], !.at = 2] \in Reads
        BY <2>1, <2>3, ReadTyped
      <3>2. [rd EXCEPT !.at = 3] \in Reads
        BY <2>1 DEF Reads
      <3> QED
        BY <2>2, <3>1, <3>2
    <2>5. ReadOK(next)
      <3>1. CASE Matches(rd)
        <4>1. next = [rd EXCEPT !.row = status[rd.job], !.at = 2]
          BY <2>2, <3>1
        <4>2. status[rd.job] = "completed" => report[rd.job] # NoJob
          BY <2>1 DEF ReadInv, IInv, JobOK, Reads
        <4> QED
          BY <2>1, <2>2, <3>1, <4>1, <4>2 DEF ReadOK, Matches, Reads
      <3>2. CASE ~Matches(rd)
        BY <2>1, <2>2, <3>2 DEF ReadOK, Reads
      <3> QED
        BY <3>1, <3>2
    <2> QED
      BY <1>1, <1>4, <2>4, <2>5, OneReader DEF SelectSession
  <1>5. CASE SelectReport(r)
    <2> DEFINE rd == reader[r]
               next == [rd EXCEPT !.report = report[rd.job], !.at = @ + 1]
    <2>1. rd \in Reads /\ rd # NoRead /\ ReadOK(rd) /\ Selects[rd.at] = "report" /\ rd.at \in 1 .. 2
      BY <1>5 DEF ReadInv, ReadersOK, SelectReport, Reading, Selects
    <2>2. rd.at = 2 /\ rd.row # "none"
      BY <2>1 DEF Selects, ReadOK
    <2>3. report[rd.job] \in Jobs \cup {NoJob}
      BY <2>1 DEF ReadInv, IInv, TypeOK, Reads
    <2>4. next = [rd EXCEPT !.report = report[rd.job], !.at = 3] /\ next \in Reads
      <3>1. next = [rd EXCEPT !.report = report[rd.job], !.at = 3]
        BY <2>2
      <3> QED
        BY <2>1, <2>3, <3>1, ReadTyped
    <2>5. ReadOK(next)
      BY <2>1, <2>2, <2>4 DEF ReadOK, Reads
    <2> QED
      BY <1>1, <1>5, <2>4, <2>5, OneReader DEF SelectReport
  <1>6. CASE Respond(r)
    <2>1. reader' = [reader EXCEPT ![r] = NoRead] /\ NoRead \in Reads \cup {NoRead}
      BY <1>6 DEF Respond
    <2> QED
      BY <1>1, <2>1, OneReader, Zenon
  <1> QED
    BY <1>3, <1>4, <1>5, <1>6 DEF ReadStep

LEMMA ReadInitInv == ReadInit => ReadInv
  BY InitInv DEF ReadInit, ReadInv, ReadersOK

LEMMA ReadNextInv == ReadInv /\ [ReadNext]_readVars => ReadInv'
  <1> SUFFICES ASSUME ReadInv, [ReadNext]_readVars
               PROVE  ReadInv'
    OBVIOUS
  <1>1. CASE Next /\ UNCHANGED reader
    BY <1>1, NextInv, ServiceKeepsReads DEF ReadInv
  <1>2. ASSUME NEW r \in Readers, ReadStep(r) PROVE ReadInv'
    BY <1>2, ReadStepInv
  <1>3. CASE UNCHANGED readVars
    BY <1>3, NextInv, ServiceKeepsReads DEF ReadInv, readVars
  <1> QED
    BY <1>1, <1>2, <1>3 DEF ReadNext

\* What readers hold stays true in every reachable state.
THEOREM ReadInvariance == ReadSpec => []ReadInv
  BY ReadInitInv, ReadNextInv, PTL DEF ReadSpec

\* Requests that read jobs leave the service as it was: what is proved of the
\* jobs, and the lifecycle they implement, hold with readers beside them.
THEOREM ReadersDoNotDisturb == ReadSpec => Spec /\ LifecycleSpec
  <1>1. ReadInit => Init
    BY DEF ReadInit
  <1>2. [ReadNext]_readVars => [Next]_vars
    BY DEF ReadNext, ReadStep, readVars, BeginRead, SelectSession, SelectReport, Respond
  <1>3. ReadSpec => Spec
    BY <1>1, <1>2, PTL DEF ReadSpec, Spec
  <1> QED BY <1>3, LifecycleImplemented

\* Nobody is told that a completed job is not ready (get_for_user, whose two
\* statements may have transactions between them).
THEOREM CompletedReadsHaveReportHolds == ReadSpec => []CompletedReadsHaveReport
  <1>1. ReadInv => CompletedReadsHaveReport
    BY DEF ReadInv, ReadersOK, CompletedReadsHaveReport, ReadOK, Returned, research_result
  <1> QED
    BY <1>1, ReadInvariance, PTL

\* Reports are served only to the owner of the job, and are research on his
\* question persisted by a job that ran it.
THEOREM ServedReportsAnswerTheirOwnerHolds == ReadSpec => []ServedReportsAnswerTheirOwner
  <1>1. ASSUME ReadInv, NEW r \in Readers, Returned(r), research_result(reader[r]) = 200
        PROVE  /\ request[reader[r].job].user = reader[r].user
               /\ report[reader[r].report] = reader[r].report
               /\ cache_key(reader[r].report) = cache_key(reader[r].job)
    <2> DEFINE rd == reader[r]
    <2>1. rd \in Reads /\ ReadOK(rd) /\ rd.row = "completed" /\ rd.report # NoJob
      BY <1>1 DEF ReadInv, ReadersOK, Returned, research_result
    <2>2. rd.job \in Jobs /\ rd.report = report[rd.job] /\ request[rd.job].user = rd.user
      BY <2>1 DEF ReadOK, Reads
    <2>3. ReportOK(rd.job)
      BY <1>1, <2>2 DEF ReadInv, IInv
    <2> QED
      BY <2>1, <2>2, <2>3 DEF ReportOK, Source, Settled
  <1>2. ReadInv => ServedReportsAnswerTheirOwner
    BY <1>1 DEF ServedReportsAnswerTheirOwner
  <1> QED
    BY <1>2, ReadInvariance, PTL
=============================================================================
