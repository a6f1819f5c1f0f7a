---------------------------- MODULE EvaluationRun ----------------------------
(***************************************************************************)
(* The evaluation script (evaluation/run_evaluation.py) against the rate   *)
(* limiter: it asks its questions one after the other as one user, polls   *)
(* each job until it ends or a time limit has passed, and writes the       *)
(* results when all are recorded.  Every HTTP error leaves run() and       *)
(* main(), and with it every record made so far.                           *)
(*                                                                         *)
(* The jobs are seen from outside: running until they are completed or     *)
(* failed, if ever; a completed one may be withdrawn (JobLifecycle).       *)
(***************************************************************************)
EXTENDS RateLimiter, Sequences

CONSTANTS
    N,            \* number of questions
    evaluator,    \* the user of EVALUATION_BEARER_TOKEN
    PollSeconds,  \* --poll-seconds
    Timeout,      \* --timeout-seconds
    RequestTime,  \* the longest an answered request takes
    MaxApiFaults  \* bound: requests that fail, apart from the limiter's

ASSUME QuestionsAssumption == N \in Nat /\ Requests = 1 .. N /\ evaluator \in Users
ASSUME PollAssumption ==
    PollSeconds \in Nat \ {0} /\ Timeout \in Nat \ {0} /\ MaxApiFaults \in Nat
\* The call of the limiter is part of POST /research.
ASSUME RequestAssumption == RequestTime \in Nat /\ MaxDelay <= RequestTime

VARIABLES
    stage,      \* what the script does next, or how it ended
    item,       \* number of the question it is at
    started_at, \* when it asked that question
    wake,       \* when it stops sleeping
    sent_at,    \* when it sent the request it waits for
    seen,       \* the status it last read
    latency,    \* latency_seconds of the record it makes
    job,        \* the status of its job; earlier ones are not asked about again
    records,
    apiFaults

script == <<stage, item, started_at, wake, sent_at, seen, latency, records>>
evalVars == <<script, job, apiFaults>>
allVars == <<vars, evalVars>>

EvalInit ==
    /\ Init
    /\ stage = "ready"
    /\ item = 1
    /\ started_at = 0
    /\ wake = 0
    /\ sent_at = 0
    /\ seen = "none"
    /\ latency = 0
    /\ job = "none"
    /\ records = <<>>
    /\ apiFaults = 0

StartRun ==
    /\ stage = "ready"
    /\ stage' = "next"
    /\ UNCHANGED <<vars, item, started_at, wake, sent_at, seen, latency, records, job, apiFaults>>

\* POST /research: the route first calls allow_research.
Ask ==
    /\ stage = "next" /\ item <= N
    /\ Send(item, evaluator)
    /\ started_at' = now /\ sent_at' = now
    /\ stage' = "asking"
    /\ UNCHANGED <<item, wake, seen, latency, records, job, apiFaults>>

\* The script asks for the status of its job.
GetStatus == stage' = "read" /\ sent_at' = now

\* 202 with a job id
Started ==
    /\ stage = "asking" /\ pc[item] = "admitted"
    /\ job' = "running"
    /\ GetStatus
    /\ UNCHANGED <<vars, item, started_at, wake, seen, latency, records, apiFaults>>

\* 429, or 500 from a limiter that raised: raise_for_status
NotStarted ==
    /\ stage = "asking" /\ pc[item] \in {"rejected", "raised"}
    /\ stage' = "aborted"
    /\ UNCHANGED <<vars, item, started_at, wake, sent_at, seen, latency, records, job, apiFaults>>

\* A request that fails or is not answered in time raises.
Fault ==
    /\ apiFaults < MaxApiFaults
    /\ apiFaults' = apiFaults + 1
    /\ stage' = "aborted"

\* The call was admitted, but store.create raised or the answer came too late.
StartFails ==
    /\ stage = "asking" /\ pc[item] = "admitted"
    /\ Fault
    /\ UNCHANGED <<vars, item, started_at, wake, sent_at, seen, latency, records, job>>

ReadStatus ==
    /\ stage = "read"
    /\ seen' = job
    /\ stage' = "check"
    /\ UNCHANGED <<vars, item, started_at, wake, sent_at, latency, records, job, apiFaults>>

ReadFails ==
    /\ stage = "read"
    /\ Fault
    /\ UNCHANGED <<vars, item, started_at, wake, sent_at, seen, latency, records, job>>

\* Mutant of keep_polling: no deadline.
keep_polling_Forever == seen = "running"

\* Mutant of keep_polling: given up at the first look.
keep_polling_Once == seen = "running" /\ now < started_at + PollSeconds

keep_polling == seen = "running" /\ now < started_at + Timeout

Sleep ==
    /\ stage = "check" /\ keep_polling
    /\ wake' = now + PollSeconds
    /\ stage' = "asleep"
    /\ UNCHANGED <<vars, item, started_at, sent_at, seen, latency, records, job, apiFaults>>

WakeUp ==
    /\ stage = "asleep" /\ now >= wake
    /\ GetStatus
    /\ UNCHANGED <<vars, item, started_at, wake, seen, latency, records, job, apiFaults>>

\* The loop is left and the latency taken; a job seen completed is asked for
\* its report.
StopPolling ==
    /\ stage = "check" /\ ~keep_polling
    /\ latency' = now - started_at
    /\ sent_at' = now
    /\ stage' = "report"
    /\ UNCHANGED <<vars, item, started_at, wake, seen, records, job, apiFaults>>

new_record == [question |-> item, status |-> seen, latency |-> latency]

\* Mutant of Record: a question that timed out is passed over.
Record_SkipsTimedOut ==
    /\ stage = "report"
    /\ records' = IF seen = "running" THEN records ELSE Append(records, new_record)
    /\ item' = item + 1
    /\ stage' = "next"
    /\ UNCHANGED <<vars, started_at, wake, sent_at, seen, latency, job, apiFaults>>

\* A job that is still running is recorded as timed out.  api.report serves
\* a job that is completed still.
Record ==
    /\ stage = "report"
    /\ seen = "completed" => job = "completed"
    /\ records' = Append(records, new_record)
    /\ item' = item + 1
    /\ stage' = "next"
    /\ UNCHANGED <<vars, started_at, wake, sent_at, seen, latency, job, apiFaults>>

\* api.report is answered 409: the job was withdrawn since its status was read.
ReportRefused ==
    /\ stage = "report" /\ seen = "completed" /\ job = "failed"
    /\ stage' = "aborted"
    /\ UNCHANGED <<vars, item, started_at, wake, sent_at, seen, latency, records, job, apiFaults>>

ReportFails ==
    /\ stage = "report" /\ seen = "completed"
    /\ Fault
    /\ UNCHANGED <<vars, item, started_at, wake, sent_at, seen, latency, records, job>>

WriteResults ==
    /\ stage = "next" /\ item = N + 1
    /\ stage' = "written"
    /\ UNCHANGED <<vars, item, started_at, wake, sent_at, seen, latency, records, job, apiFaults>>

JobEnds ==
    /\ job = "running"
    /\ job' \in {"completed", "failed"}
    /\ UNCHANGED <<vars, script, apiFaults>>

Withdraw ==
    /\ job = "completed"
    /\ job' = "failed"
    /\ UNCHANGED <<vars, script, apiFaults>>

Limiter ==
    /\ \E r \in Requests : Execute(r) \/ ExecuteLost(r) \/ NotExecuted(r)
    /\ UNCHANGED evalVars

\* The script waits for the answer to a request.
Waiting ==
    \/ stage \in {"asking", "read"}
    \/ stage = "report" /\ seen = "completed"

\* Time passes before the run, while it sleeps and while it waits for an
\* answer; what the script does in between takes no time.
Clock ==
    /\ \/ stage = "ready" /\ now < Window
       \/ stage = "asleep" /\ now < wake
       \/ Waiting /\ now < sent_at + RequestTime
    /\ Tick
    /\ UNCHANGED evalVars

RedisRestarts == Flush /\ UNCHANGED evalVars

ScriptStep ==
    StartRun \/ Ask \/ Started \/ NotStarted \/ StartFails \/ ReadStatus \/ ReadFails
    \/ Sleep \/ WakeUp \/ StopPolling \/ Record \/ ReportRefused \/ ReportFails \/ WriteResults

EvalNext ==
    ScriptStep \/ JobEnds \/ Withdraw \/ Limiter \/ Clock \/ RedisRestarts

\* The script runs and time passes; requests are answered or fail in the end.
\* No job need ever end.
EvalSpec ==
    EvalInit /\ [][EvalNext]_allVars
    /\ WF_allVars(ScriptStep) /\ WF_allVars(Clock) /\ WF_allVars(Limiter)

-----------------------------------------------------------------------------
(* Properties *)

\* The run's state and its records have their types.
EvalTypeOK ==
    /\ TypeOK
    /\ stage \in {"ready", "next", "asking", "read", "check", "asleep", "report", "written", "aborted"}
    /\ item \in 1 .. N + 1
    /\ latency \in Nat
    /\ seen \in {"none", "running", "completed", "failed"}
    /\ job \in {"none", "running", "completed", "failed"}
    /\ records \in Seq([question : 1 .. N, status : {"running", "completed", "failed"}, latency : Nat])

\* The results written have one record for each question, in order, timed-out
\* and failed ones included.
ResultsCoverEveryQuestion ==
    stage = "written" => [i \in DOMAIN records |-> records[i].question] = [i \in 1 .. N |-> i]

\* A job is given up only after the whole time limit.  A question is left less
\* than one polling interval and one request after it, whatever its job does,
\* unless its first two requests alone take longer: the loop looks at the clock
\* before it sleeps and not again until the next status has been read.
TimeLimitKept ==
    \A i \in DOMAIN records :
        /\ records[i].status = "running" => records[i].latency >= Timeout
        /\ \/ records[i].latency < Timeout + PollSeconds + RequestTime
           \/ records[i].latency <= 2 * RequestTime

\* The documented command ends with evaluation/results.json written unless a
\* call fails, or a job it saw completed is withdrawn: the limit on jobs does
\* not stop it half way and lose the records.
EvaluationWritesResults ==
    stage = "aborted" =>
        \/ apiFaults > 0 \/ \E r \in Requests : pc[r] = "raised"
        \/ pc[item] = "admitted" /\ seen = "completed" /\ job = "failed"

\* The run ends, though jobs may stay running for ever.
EvaluationEnds == <>(stage \in {"written", "aborted"})
=============================================================================
