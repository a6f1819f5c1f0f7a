----------------------------- MODULE UiSession -----------------------------
(***************************************************************************)
(* One browser session of the Streamlit page (streamlit_app/app.py) and    *)
(* the service it asks.  The service is JobLifecycle, which ResearchJobs   *)
(* implements, with the owner of each job.                                 *)
(*                                                                         *)
(* The script runs from the top after each click and after st.rerun; the   *)
(* fragment poll_active_job runs alone every two seconds.  A click stops   *)
(* the run in progress where the script next calls Streamlit, which every  *)
(* use of st.session_state does: between any two assignments, and between  *)
(* the reply to a request and the assignment of what it says.  A place is  *)
(* the next statement of that kind, or the request under way.              *)
(***************************************************************************)
EXTENDS Naturals

CONSTANTS
    Jobs, Questions, NoJob, NoQuestion,
    Users, NoUser,
    NoClick,
    MaxClicks,  \* bound: clicks in the session
    MaxFaults   \* bound: requests that fail, refusals included

VARIABLES
    phase, question, published,  \* of JobLifecycle
    owner,    \* owner[j]: who started j
    session,  \* st.session_state; live: the token is not expired
    at,       \* the place in the script, "idle" between two runs
    held,     \* the job id start_research returned
    click,    \* the click the run answers
    last,     \* the job last made the active one
    torn,     \* a run was stopped between the two assignments that open a job
    clicks, faults

service == <<phase, question, published, owner>>
budget == <<clicks, faults>>
vars == <<service, session, at, held, click, last, torn, budget>>

Service == INSTANCE JobLifecycle

Submit == [kind : {"submit"}, question : Questions]
Open == [kind : {"open"}, job : Jobs]

ASSUME NothingAssumption ==
    NoJob \notin Jobs /\ NoUser \notin Users /\ NoClick \notin Submit \cup Open
ASSUME BoundsAssumption == MaxClicks \in Nat /\ MaxFaults \in Nat

Requests == {"start", "status", "report", "history"}
Places == Requests \cup {"idle", "remember", "clear", "keep", "drop", "failed", "open"}

empty == [user |-> NoUser, live |-> FALSE, active |-> NoJob, shown |-> NoJob]

Init ==
    /\ Service!Init
    /\ owner = [j \in Jobs |-> NoUser]
    /\ session = empty
    /\ at = "idle" /\ held = NoJob /\ click = NoClick
    /\ last = NoJob /\ torn = FALSE
    /\ clicks = 0 /\ faults = 0

user == session.user

\* Past the poll a click on Open is found when the history has been loaded.
AfterPoll == IF click \in Open THEN "history" ELSE "idle"
Poll(job, rest) == IF job = NoJob THEN rest ELSE "status"

-----------------------------------------------------------------------------
(* The session *)

\* finish_google_login on the signed-out page, whoever it was before
SignIn(u) ==
    /\ user = NoUser
    /\ session' = [session EXCEPT !.user = u, !.live = TRUE]
    /\ UNCHANGED <<service, at, held, click, last, torn, budget>>

\* A reload, a lost connection
NewSession ==
    /\ session' = empty
    /\ at' = "idle" /\ held' = NoJob /\ click' = NoClick
    /\ last' = NoJob /\ torn' = FALSE
    /\ UNCHANGED <<service, budget>>

Expire ==
    /\ session.live
    /\ session' = [session EXCEPT !.live = FALSE]
    /\ UNCHANGED <<service, at, held, click, last, torn, budget>>

Clicked ==
    /\ user # NoUser /\ at \notin Requests
    /\ clicks < MaxClicks /\ clicks' = clicks + 1
    /\ held' = NoJob
    /\ UNCHANGED <<service, faults>>

\* Mutant of LogOut: only the login is forgotten.
LogOut_KeepsJobs ==
    /\ Clicked
    /\ session' = [session EXCEPT !.user = NoUser, !.live = FALSE]
    /\ at' = "idle" /\ click' = NoClick
    /\ UNCHANGED <<last, torn>>

LogOut ==
    /\ Clicked
    /\ session' = empty
    /\ at' = "idle" /\ click' = NoClick
    /\ last' = NoJob /\ torn' = FALSE

\* The history shows jobs of the user; the model has only so many new ones.
Click(c) ==
    /\ Clicked
    /\ \/ c \in Open /\ owner[c.job] = user
       \/ c \in Submit /\ \E j \in Jobs : phase[j] = "absent"
    /\ click' = c
    /\ at' = IF c \in Submit THEN "start" ELSE Poll(session.active, "history")
    /\ torn' = (torn \/ (at = "clear" /\ session.shown \notin {NoJob, last}))
    /\ UNCHANGED <<session, last>>

\* run_every
Timer ==
    /\ at = "idle" /\ session.active # NoJob
    /\ at' = "status" /\ click' = NoClick
    /\ UNCHANGED <<service, session, held, last, torn, budget>>

-----------------------------------------------------------------------------
(* Opening a job *)

ServeStart(j) ==
    /\ at = "start" /\ session.live
    /\ Service!Start(j, click.question)
    /\ owner' = [owner EXCEPT ![j] = user]
    /\ \/ at' = "remember" /\ held' = j /\ UNCHANGED faults
       \/ /\ faults < MaxFaults /\ faults' = faults + 1  \* the reply is lost
          /\ at' = Poll(session.active, "idle") /\ UNCHANGED held
    /\ UNCHANGED <<session, click, last, torn, clicks>>

\* 401, 429, 500 or no answer, shown as an error; the script goes on.
Fails(request, next) ==
    /\ at = request
    /\ session.live => faults < MaxFaults
    /\ faults' = IF session.live THEN faults + 1 ELSE faults
    /\ at' = next
    /\ UNCHANGED <<service, session, held, click, last, torn, clicks>>

StartFails == Fails("start", Poll(session.active, "idle"))

opened(j) ==
    /\ session' = [session EXCEPT !.active = j]
    /\ last' = j
    /\ at' = "clear"

Remember ==
    /\ at = "remember"
    /\ opened(held)
    /\ held' = NoJob
    /\ UNCHANGED <<service, click, torn, budget>>

ServeHistory ==
    /\ at = "history" /\ session.live
    /\ at' = "open"
    /\ UNCHANGED <<service, session, held, click, last, torn, budget>>

HistoryFails == Fails("history", "idle")

OpenJob ==
    /\ at = "open"
    /\ opened(click.job)
    /\ UNCHANGED <<service, held, click, torn, budget>>

\* Mutant of Clear: the report stays until the next one comes.
Clear_KeepsReport ==
    /\ at = "clear"
    /\ at' = "status" /\ click' = NoClick
    /\ torn' = FALSE
    /\ UNCHANGED <<service, session, held, last, budget>>

\* pop of active_report, st.rerun
Clear ==
    /\ at = "clear"
    /\ session' = [session EXCEPT !.shown = NoJob]
    /\ at' = "status" /\ click' = NoClick
    /\ torn' = FALSE
    /\ UNCHANGED <<service, held, last, budget>>

-----------------------------------------------------------------------------
(* poll_active_job *)

Found(j) == session.live /\ owner[j] = user

\* Mutant of AfterStatus: a failed job stays the active one.
AfterStatus_IgnoresFailed(status) ==
    IF status = "completed" THEN "report" ELSE AfterPoll

AfterStatus(status) ==
    CASE status = "completed" -> "report"
      [] status = "failed" -> "failed"
      [] OTHER -> AfterPoll

ServeStatus ==
    /\ at = "status" /\ Found(session.active)
    /\ at' = AfterStatus(phase[session.active])
    /\ UNCHANGED <<service, session, held, click, last, torn, budget>>

StatusFails == Fails("status", AfterPoll)

DropFailed ==
    /\ at = "failed"
    /\ session' = [session EXCEPT !.active = NoJob]
    /\ at' = AfterPoll
    /\ UNCHANGED <<service, held, click, last, torn, budget>>

\* 200, or 409 when the job was withdrawn since its status was read
ServeReport ==
    /\ at = "report" /\ Found(session.active)
    /\ at' = IF phase[session.active] = "completed" THEN "keep" ELSE AfterPoll
    /\ UNCHANGED <<service, session, held, click, last, torn, budget>>

\* Mutant of ReportFails: the job is given up.
ReportFails_Drops == Fails("report", "failed")

ReportFails == Fails("report", AfterPoll)

Keep ==
    /\ at = "keep"
    /\ session' = [session EXCEPT !.shown = session.active]
    /\ torn' = FALSE
    /\ at' = "drop"
    /\ UNCHANGED <<service, held, click, last, budget>>

\* pop of active_job_id, st.rerun: a click on Open further down is lost.
Drop ==
    /\ at = "drop"
    /\ session' = [session EXCEPT !.active = NoJob]
    /\ at' = "idle" /\ click' = NoClick
    /\ UNCHANGED <<service, held, last, torn, budget>>

-----------------------------------------------------------------------------
ServiceStep ==
    /\ \E j \in Jobs :
           \/ \E origin \in Jobs : Service!Complete(j, origin)
           \/ Service!Fail(j)
           \/ Service!Withdraw(j)
    /\ UNCHANGED <<owner, session, at, held, click, last, torn, budget>>

PageStep ==
    \/ Timer
    \/ \E j \in Jobs : ServeStart(j)
    \/ StartFails \/ Remember
    \/ ServeHistory \/ HistoryFails \/ OpenJob \/ Clear
    \/ ServeStatus \/ StatusFails \/ DropFailed
    \/ ServeReport \/ ReportFails \/ Keep \/ Drop

Next ==
    \/ PageStep
    \/ \E u \in Users : SignIn(u)
    \/ NewSession \/ Expire \/ LogOut
    \/ \E c \in Submit \cup Open : Click(c)
    \/ ServiceStep

Spec == Init /\ [][Next]_vars

\* The script and the browser's timer go on; nobody has to click, and jobs
\* need not end.
FairSpec == Spec /\ WF_vars(PageStep)

-----------------------------------------------------------------------------
TypeOK ==
    /\ owner \in [Jobs -> Users \cup {NoUser}]
    /\ session \in [user : Users \cup {NoUser}, live : BOOLEAN,
                    active : Jobs \cup {NoJob}, shown : Jobs \cup {NoJob}]
    /\ at \in Places
    /\ held \in Jobs \cup {NoJob} /\ last \in Jobs \cup {NoJob}
    /\ click \in Submit \cup Open \cup {NoClick}
    /\ torn \in BOOLEAN
    /\ clicks \in 0..MaxClicks /\ faults \in 0..MaxFaults

\* Whatever runs were stopped and whoever was signed in before: the job the
\* page polls and the report it shows are jobs of the user signed in, and
\* what it shows was published.
SessionIsItsUsers ==
    \A j \in {session.active, session.shown} \ {NoJob} :
        /\ user # NoUser /\ owner[j] = user
        /\ j = session.shown => published[j] # NoJob

\* The report on the page is that of the job opened last, unless a click
\* stopped the run that opened it between its two assignments.
ShownWasOpenedLast ==
    session.shown \in {NoJob, last} \/ at = "clear" \/ torn

\* A completed job the page polls is shown, whatever requests fail in
\* between, unless another is opened, it is withdrawn, or the login ends.
CompletedJobsAreShown ==
    \A j \in Jobs :
        session.active = j /\ phase[j] = "completed" ~>
            \/ session.shown = j
            \/ session.active \in Jobs \ {j}
            \/ phase[j] = "failed"
            \/ ~session.live

\* A failed job, withdrawn ones included, does not stay the active one: no
\* two requests of a poll see it in states between which the page is stuck.
FailedJobsAreDropped ==
    \A j \in Jobs :
        session.active = j /\ phase[j] = "failed" ~>
            session.active # j \/ ~session.live
=============================================================================
