---------------------------- MODULE JobLifecycle ----------------------------
(***************************************************************************)
(* What the research service promises of its jobs, apart from how it runs  *)
(* them.  A job that has been accepted is running until it is completed    *)
(* or failed.  Completing publishes research, once and for all: the job's  *)
(* own, or that of a job for the same question which published its own.    *)
(* A completed job may be withdrawn (reported as failed); nothing else     *)
(* follows a terminal status.                                              *)
(*                                                                         *)
(* ResearchJobs implements this specification.                             *)
(***************************************************************************)

CONSTANTS
    Jobs,       \* job identifiers (uuid4)
    Questions,  \* what a job can be about
    NoJob,      \* "no research published"
    NoQuestion  \* "not accepted yet"

VARIABLES
    phase,      \* phase[j]: what is known of job j
    question,   \* question[j]: what j was accepted for
    published   \* published[j]: the job whose research j publishes

lifecycleVars == <<phase, question, published>>

Phases == {"absent", "running", "completed", "failed"}

Init ==
    /\ phase = [j \in Jobs |-> "absent"]
    /\ question = [j \in Jobs |-> NoQuestion]
    /\ published = [j \in Jobs |-> NoJob]

Start(j, q) ==
    /\ phase[j] = "absent"
    /\ phase' = [phase EXCEPT ![j] = "running"]
    /\ question' = [question EXCEPT ![j] = q]
    /\ UNCHANGED published

\* origin did the research itself, for the question j asks
MayPublish(j, origin) ==
    \/ origin = j
    \/ /\ phase[origin] = "completed"
       /\ published[origin] = origin
       /\ question[origin] = question[j]

Complete(j, origin) ==
    /\ phase[j] = "running"
    /\ MayPublish(j, origin)
    /\ phase' = [phase EXCEPT ![j] = "completed"]
    /\ published' = [published EXCEPT ![j] = origin]
    /\ UNCHANGED question

Fail(j) ==
    /\ phase[j] = "running"
    /\ phase' = [phase EXCEPT ![j] = "failed"]
    /\ UNCHANGED <<question, published>>

Withdraw(j) ==
    /\ phase[j] = "completed"
    /\ phase' = [phase EXCEPT ![j] = "failed"]
    /\ UNCHANGED <<question, published>>

Next ==
    \E j \in Jobs :
        \/ \E q \in Questions : Start(j, q)
        \/ \E origin \in Jobs : Complete(j, origin)
        \/ Fail(j)
        \/ Withdraw(j)

Spec == Init /\ [][Next]_lifecycleVars
=============================================================================
