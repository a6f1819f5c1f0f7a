------------------------------ MODULE JobReads ------------------------------
(***************************************************************************)
(* GET /research/{job_id} and /research/{job_id}/status beside the jobs of *)
(* ResearchJobs.  get_for_user (app/db/store.py) reads the session row and *)
(* the report row in two statements; at PostgreSQL's default isolation     *)
(* each sees the rows committed when it runs, so transactions of the       *)
(* background tasks may fall between them.                                 *)
(***************************************************************************)
EXTENDS ResearchJobs, Sequences

CONSTANTS
    Readers,  \* requests being served
    NoRead    \* a reader between two requests

\* A get_for_user call: its arguments, the number of its next statement, and
\* what it has read so far; row is the status read, "none" when no row matched.
Reads == [user : Users, job : Jobs, at : {1, 2, 3},
          row : {"none", "running", "completed", "failed"}, report : Jobs \cup {NoJob}]

ASSUME NoReadAssumption == NoRead \notin Reads

VARIABLE reader   \* reader[r]: the get_for_user call r is in

readVars == <<vars, reader>>

\* Mutant of Selects: the report is read first.
Selects_ReportFirst == <<"report", "session">>

\* The statements of get_for_user, in their order.
Selects == <<"session", "report">>

ReadInit == Init /\ reader = [r \in Readers |-> NoRead]

BeginRead(r, u, j) ==
    /\ reader[r] = NoRead
    /\ reader' = [reader EXCEPT ![r] =
           [user |-> u, job |-> j, at |-> 1, row |-> "none", report |-> NoJob]]
    /\ UNCHANGED vars

\* Mutant of Matches: the row is looked up by its id alone.
Matches_AnyUser(rd) == status[rd.job] # "none"

\* the row with this id and this user_id
Matches(rd) == status[rd.job] # "none" /\ request[rd.job].user = rd.user

Reading(r, select) ==
    /\ reader[r] # NoRead
    /\ reader[r].at \in DOMAIN Selects
    /\ Selects[reader[r].at] = select

\* No matching row: the call returns None without a second statement.
SelectSession(r) ==
    /\ Reading(r, "session")
    /\ LET rd == reader[r] IN
       reader' = [reader EXCEPT ![r] =
           IF Matches(rd) THEN [rd EXCEPT !.row = status[rd.job], !.at = @ + 1]
                          ELSE [rd EXCEPT !.at = 3]]
    /\ UNCHANGED vars

SelectReport(r) ==
    /\ Reading(r, "report")
    /\ LET rd == reader[r] IN
       reader' = [reader EXCEPT ![r] = [rd EXCEPT !.report = report[rd.job], !.at = @ + 1]]
    /\ UNCHANGED vars

Returned(r) == reader[r] # NoRead /\ reader[r].at = 3

\* What research_result answers from the record.
research_result(rd) ==
    CASE rd.row = "none" -> 404
      [] rd.row # "none" /\ (rd.row # "completed" \/ rd.report = NoJob) -> 409
      [] OTHER -> 200

Respond(r) ==
    /\ Returned(r)
    /\ reader' = [reader EXCEPT ![r] = NoRead]
    /\ UNCHANGED vars

ReadStep(r) ==
    \/ \E u \in Users, j \in Jobs : BeginRead(r, u, j)
    \/ SelectSession(r)
    \/ SelectReport(r)
    \/ Respond(r)

ReadNext ==
    \/ Next /\ UNCHANGED reader
    \/ \E r \in Readers : ReadStep(r)

ReadSpec == ReadInit /\ [][ReadNext]_readVars

\* Readers need not come, and they do not hold up the tasks.
FairReadSpec == ReadSpec /\ Fairness

-----------------------------------------------------------------------------
(* Properties *)

\* A record that says "completed" carries its report although the two rows
\* are read apart: nobody is answered 409 "Research job is completed".
CompletedReadsHaveReport ==
    \A r \in Readers : Returned(r) /\ reader[r].row = "completed" => research_result(reader[r]) = 200

\* A report is handed only to the user who asked for the job, and it is
\* research on his question persisted by a job that ran it - even when the
\* job is withdrawn while the reader holds the record.
ServedReportsAnswerTheirOwner ==
    \A r \in Readers :
        Returned(r) /\ research_result(reader[r]) = 200 =>
            LET rd == reader[r] IN
            /\ request[rd.job].user = rd.user
            /\ report[rd.report] = rd.report
            /\ cache_key(rd.report) = cache_key(rd.job)
=============================================================================
