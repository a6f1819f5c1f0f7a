--------------------------- MODULE UiSessionProofs ---------------------------
(***************************************************************************)
(* Proofs about UiSession for any jobs and users and any number of clicks. *)
(* The page has no lock: what a stopped run leaves behind is harmless      *)
(* because whatever names a job - the session, the reply in hand, the      *)
(* click being served - names one of the user signed in, and nothing of it *)
(* outlives his login.  IInv says so of each of them, at each place.       *)
(***************************************************************************)
EXTENDS UiSession, TLAPS

ServiceOK ==
    /\ phase \in [Jobs -> {"absent", "running", "completed", "failed"}]
    /\ published \in [Jobs -> Jobs \cup {NoJob}]
    /\ owner \in [Jobs -> Users \cup {NoUser}]
    /\ \A j \in Jobs : phase[j] = "completed" => published[j] # NoJob

SessionOK ==
    /\ session = [user |-> session.user, live |-> session.live,
                  active |-> session.active, shown |-> session.shown]
    /\ session.user \in Users \cup {NoUser}
    /\ click \in Submit \cup Open \cup {NoClick}

Own(j) == j \in Jobs /\ user # NoUser /\ owner[j] = user

\* Nothing of a session is left when nobody is signed in.
SignedOutOK ==
    user = NoUser =>
        /\ session.active = NoJob /\ session.shown = NoJob
        /\ at = "idle" /\ click = NoClick

NamesOK ==
    /\ session.active # NoJob => Own(session.active) /\ session.active = last
    /\ session.shown # NoJob => Own(session.shown) /\ published[session.shown] # NoJob
    /\ click \in Open => Own(click.job)

PlaceOK ==
    /\ at = "start" => click \in Submit
    /\ at = "remember" => Own(held)
    /\ at \in {"history", "open"} => click \in Open
    /\ at \in {"clear", "status", "report", "failed", "keep"} => session.active # NoJob
    /\ at = "keep" => published[session.active] # NoJob

IInv ==
    /\ ServiceOK
    /\ SessionOK
    /\ SignedOutOK
    /\ NamesOK
    /\ PlaceOK
    /\ ShownWasOpenedLast

LEMMA ClickKinds ==
    /\ Submit \cap Open = {}
    /\ \A c \in Open : c.job \in Jobs
    /\ NoClick \notin Submit \cup Open
  BY NothingAssumption DEF Submit, Open

LEMMA InitInv == Init => IInv
  BY ClickKinds, NothingAssumption
     DEF Init, Service!Init, IInv, ServiceOK, SessionOK, SignedOutOK, NamesOK, PlaceOK, ShownWasOpenedLast,
         empty, user

\* Between users: nothing is carried over, and a click names a job of the one who clicks.
LEMMA SessionInv ==
  ASSUME IInv
  PROVE  /\ (\E u \in Users : SignIn(u)) => IInv'
         /\ NewSession => IInv'
         /\ Expire => IInv'
         /\ LogOut => IInv'
         /\ (\E c \in Submit \cup Open : Click(c)) => IInv'
  <1> USE ClickKinds, NothingAssumption
      DEF service, budget, user, Own, IInv, ServiceOK, SessionOK, SignedOutOK, NamesOK, PlaceOK,
          ShownWasOpenedLast
  <1>1. (\E u \in Users : SignIn(u)) => IInv'
    BY DEF SignIn, empty
  <1>2. NewSession => IInv'
    BY DEF NewSession, empty
  <1>3. ASSUME Expire
        PROVE  IInv'
    BY <1>3 DEF Expire
  <1>4. LogOut => IInv'
    BY DEF LogOut, Clicked, empty
  <1>5. (\E c \in Submit \cup Open : Click(c)) => IInv'
    BY DEF Click, Clicked, Poll, Requests
  <1> QED
    BY <1>1, <1>2, <1>3, <1>4, <1>5

\* A job becomes the active one: it is the user's, and the last one opened.
LEMMA OpeningInv ==
  ASSUME IInv
  PROVE  /\ (\E j \in Jobs : ServeStart(j)) => IInv'
         /\ StartFails => IInv'
         /\ Remember => IInv'
         /\ ServeHistory => IInv'
         /\ HistoryFails => IInv'
         /\ OpenJob => IInv'
         /\ Clear => IInv'
  <1> USE ClickKinds, NothingAssumption
      DEF service, budget, user, Own, IInv, ServiceOK, SessionOK, SignedOutOK, NamesOK, PlaceOK,
          ShownWasOpenedLast
  <1>1. (\E j \in Jobs : ServeStart(j)) => IInv'
    BY DEF ServeStart, Service!Start, Poll
  <1>2. StartFails => IInv'
    BY DEF StartFails, Fails, Poll
  <1>3. Remember => IInv'
    BY DEF Remember, opened
  <1>4. ServeHistory => IInv'
    BY DEF ServeHistory
  <1>5. HistoryFails => IInv'
    BY DEF HistoryFails, Fails
  <1>6. OpenJob => IInv'
    BY DEF OpenJob, opened
  <1>7. Clear => IInv'
    BY DEF Clear
  <1> QED
    BY <1>1, <1>2, <1>3, <1>4, <1>5, <1>6, <1>7

\* A poll shows only the active job, and only once its report was published.
LEMMA PollingInv ==
  ASSUME IInv
  PROVE  /\ Timer => IInv'
         /\ ServeStatus => IInv'
         /\ StatusFails => IInv'
         /\ DropFailed => IInv'
         /\ ServeReport => IInv'
         /\ ReportFails => IInv'
         /\ Keep => IInv'
         /\ Drop => IInv'
  <1> USE ClickKinds, NothingAssumption
      DEF service, budget, user, Own, IInv, ServiceOK, SessionOK, SignedOutOK, NamesOK, PlaceOK,
          ShownWasOpenedLast
  <1>1. Timer => IInv'
    BY DEF Timer
  <1>2. ServeStatus => IInv'
    BY DEF ServeStatus, AfterStatus, AfterPoll, Found
  <1>3. StatusFails => IInv'
    BY DEF StatusFails, Fails, AfterPoll
  <1>4. DropFailed => IInv'
    BY DEF DropFailed, AfterPoll
  <1>5. ServeReport => IInv'
    BY DEF ServeReport, AfterPoll, Found
  <1>6. ReportFails => IInv'
    BY DEF ReportFails, Fails, AfterPoll
  <1>7. Keep => IInv'
    BY DEF Keep
  <1>8. Drop => IInv'
    BY DEF Drop
  <1> QED
    BY <1>1, <1>2, <1>3, <1>4, <1>5, <1>6, <1>7, <1>8

\* Whatever becomes of a job, its owner and the job it publishes do not change under the page.
LEMMA ServiceStepInv ==
  ASSUME IInv, ServiceStep
  PROVE  IInv'
  BY NothingAssumption
     DEF ServiceStep, Service!Complete, Service!Fail, Service!Withdraw, budget, user, Own,
         IInv, ServiceOK, SessionOK, SignedOutOK, NamesOK, PlaceOK, ShownWasOpenedLast

\* Every state the page and the service reach satisfies IInv.
THEOREM PageInvariance == Spec => []IInv
<1>1. IInv /\ [Next]_vars => IInv'
  <2> SUFFICES ASSUME IInv, [Next]_vars
               PROVE  IInv'
    OBVIOUS
  <2>1. CASE PageStep
    BY <2>1, OpeningInv, PollingInv DEF PageStep
  <2>2. CASE (\E u \in Users : SignIn(u)) \/ NewSession \/ Expire \/ LogOut
             \/ (\E c \in Submit \cup Open : Click(c))
    BY <2>2, SessionInv
  <2>3. CASE ServiceStep
    BY <2>3, ServiceStepInv
  <2>4. CASE UNCHANGED vars
    BY <2>4 DEF vars, service, budget, user, Own, IInv, ServiceOK, SessionOK, SignedOutOK, NamesOK, PlaceOK,
               ShownWasOpenedLast
  <2> QED
    BY <2>1, <2>2, <2>3, <2>4 DEF Next
<1> QED
  BY InitInv, <1>1, PTL DEF Spec

\* What IInv leaves open of the types.
RestTyped ==
    /\ at \in Places
    /\ held \in Jobs \cup {NoJob} /\ last \in Jobs \cup {NoJob}
    /\ session.live \in BOOLEAN /\ torn \in BOOLEAN
    /\ clicks \in 0..MaxClicks /\ faults \in 0..MaxFaults

LEMMA RestTypedInit == Init => RestTyped
  <1> SUFFICES ASSUME Init PROVE RestTyped
    OBVIOUS
  <1>1. session.live \in BOOLEAN /\ torn \in BOOLEAN
    <2>1. session.live = FALSE /\ torn = FALSE
      BY DEF Init, empty
    <2> QED BY <2>1
  <1>2. clicks \in 0..MaxClicks /\ faults \in 0..MaxFaults
    BY BoundsAssumption DEF Init
  <1> QED BY <1>1, <1>2 DEF Init, RestTyped, Places, Requests

LEMMA RefusalTyped ==
  ASSUME RestTyped, NEW request \in Requests, NEW next \in Places, Fails(request, next)
  PROVE  RestTyped'
  BY BoundsAssumption DEF RestTyped, Fails, budget

LEMMA RestTypedNext == IInv /\ RestTyped /\ [Next]_vars => RestTyped'
  <1> SUFFICES ASSUME IInv, RestTyped, [Next]_vars
               PROVE  RestTyped'
    OBVIOUS
  <1> USE BoundsAssumption, ClickKinds
      DEF RestTyped, Places, Requests, budget, AfterPoll, Poll
  <1>1. CASE PageStep
    <2>1. CASE StartFails \/ HistoryFails \/ StatusFails \/ ReportFails
      <3>1. Poll(session.active, "idle") \in Places /\ AfterPoll \in Places /\ "idle" \in Places
        OBVIOUS
      <3>2. "start" \in Requests /\ "history" \in Requests /\ "status" \in Requests /\ "report" \in Requests
        OBVIOUS
      <3> HIDE DEF Requests, Places, Poll, AfterPoll, RestTyped
      <3>3. \E request \in Requests, next \in Places : Fails(request, next)
        BY <2>1, <3>1, <3>2, Zenon
           DEF StartFails, HistoryFails, StatusFails, ReportFails
      <3> QED BY <3>3, RefusalTyped
    <2>2. CASE \E j \in Jobs : ServeStart(j)
      <3>1. PICK j \in Jobs : ServeStart(j)
        BY <2>2
      <3>2. /\ UNCHANGED <<session, last, torn, clicks>>
            /\ at' \in {"remember", "idle", "status"} /\ held' \in {j, held}
            /\ faults' = faults \/ (faults < MaxFaults /\ faults' = faults + 1)
        BY <3>1 DEF ServeStart
      <3>3. faults' \in 0..MaxFaults
        BY <3>2
      <3> QED BY <3>2, <3>3
    <2>3. CASE Remember \/ OpenJob \/ Clear \/ DropFailed \/ Keep \/ Drop
      BY <2>3
         DEF Remember, OpenJob, opened, Clear, DropFailed, Keep, Drop,
             IInv, SessionOK, NamesOK, PlaceOK, Own
    <2>4. CASE Timer \/ ServeHistory \/ ServeStatus \/ ServeReport
      BY <2>4 DEF Timer, ServeHistory, ServeStatus, AfterStatus, ServeReport
    <2> QED BY <1>1, <2>1, <2>2, <2>3, <2>4 DEF PageStep
  <1>2. CASE \E u \in Users : SignIn(u)
    <2>1. session'.live \in BOOLEAN
      <3>1. session'.live = TRUE
        BY <1>2 DEF SignIn, empty
      <3> QED BY <3>1
    <2> QED BY <1>2, <2>1 DEF SignIn
  <1>3. CASE NewSession \/ LogOut
    <2>1. session'.live \in BOOLEAN /\ torn' \in BOOLEAN
      <3>1. session'.live = FALSE /\ torn' = FALSE
        BY <1>3 DEF NewSession, LogOut, empty
      <3> QED BY <3>1
    <2>2. clicks' \in 0..MaxClicks /\ faults' \in 0..MaxFaults
      BY <1>3 DEF NewSession, LogOut, Clicked
    <2>3. at' = "idle" /\ held' = NoJob /\ last' = NoJob
      BY <1>3 DEF NewSession, LogOut, Clicked
    <2> QED BY <2>1, <2>2, <2>3
  <1>4. CASE Expire
    BY <1>4 DEF Expire, IInv, SessionOK
  <1>5. CASE \E c \in Submit \cup Open : Click(c)
    BY <1>5 DEF Click, Clicked
  <1>6. CASE ServiceStep \/ UNCHANGED vars
    BY <1>6 DEF ServiceStep, vars
  <1> QED BY <1>1, <1>2, <1>3, <1>4, <1>5, <1>6 DEF Next

\* The session's state, the script's place and its local variables have their types.
THEOREM TypeCorrect == Spec => []TypeOK
<1>1. IInv /\ RestTyped => TypeOK
  <2> SUFFICES ASSUME IInv, RestTyped PROVE TypeOK
    OBVIOUS
  <2>1. session.active \in Jobs \cup {NoJob} /\ session.shown \in Jobs \cup {NoJob}
    BY DEF IInv, NamesOK, Own
  <2>2. session \in [user : Users \cup {NoUser}, live : BOOLEAN,
                     active : Jobs \cup {NoJob}, shown : Jobs \cup {NoJob}]
    BY <2>1 DEF IInv, SessionOK, RestTyped
  <2> QED BY <2>2 DEF IInv, ServiceOK, SessionOK, RestTyped, TypeOK
<1>2. Spec => []RestTyped
  BY RestTypedInit, RestTypedNext, PageInvariance, PTL DEF Spec
<1> QED
  BY <1>1, <1>2, PageInvariance, PTL

\* What the page polls and shows is the signed-in user's and was published,
\* for any users sharing the browser, any clicks and any requests that fail.
THEOREM SessionIsItsUsersHolds == Spec => []SessionIsItsUsers
<1>1. IInv => SessionIsItsUsers
  BY DEF IInv, NamesOK, Own, SessionIsItsUsers
<1> QED
  BY PageInvariance, <1>1, PTL

\* The page never shows the report of a job other than the last one opened,
\* but where a click cut the opening in two.
THEOREM ShownWasOpenedLastHolds == Spec => []ShownWasOpenedLast
<1>1. IInv => ShownWasOpenedLast
  BY DEF IInv
<1> QED
  BY PageInvariance, <1>1, PTL

\* Behind the page, whatever its user clicks, is the service of JobLifecycle,
\* no more and no less: the one ResearchJobs is proved to implement.
THEOREM ServiceBehindThePage == Spec => Service!Spec
<1>1. Init => Service!Init
  BY DEF Init
<1>2. IInv /\ [Next]_vars => [Service!Next]_(Service!lifecycleVars)
  <2> SUFFICES ASSUME IInv, [Next]_vars
               PROVE  [Service!Next]_(Service!lifecycleVars)
    OBVIOUS
  <2>1. CASE PageStep
    <3>1. CASE \E j \in Jobs : ServeStart(j)
      <4>1. PICK j \in Jobs : ServeStart(j)
        BY <3>1
      <4>2. Service!Start(j, click.question)
        BY <4>1 DEF ServeStart
      <4>3. click.question \in Questions
        BY <4>1 DEF IInv, PlaceOK, ServeStart, Submit
      <4> QED BY <4>2, <4>3 DEF Service!Next
    <3>2. CASE UNCHANGED service
      BY <3>2 DEF service, Service!lifecycleVars
    <3> QED
      BY <2>1, <3>1, <3>2
         DEF PageStep, Timer, StartFails, Fails, Remember, ServeHistory, HistoryFails, OpenJob, Clear,
             ServeStatus, StatusFails, DropFailed, ServeReport, ReportFails, Keep, Drop
  <2>2. CASE (\E u \in Users : SignIn(u)) \/ NewSession \/ Expire \/ LogOut
             \/ (\E c \in Submit \cup Open : Click(c)) \/ UNCHANGED vars
    BY <2>2 DEF SignIn, NewSession, Expire, LogOut, Click, Clicked, vars, service, Service!lifecycleVars
  <2>3. CASE ServiceStep
    BY <2>3 DEF ServiceStep, Service!Next
  <2> QED BY <2>1, <2>2, <2>3 DEF Next
<1> QED
  BY <1>1, <1>2, PageInvariance, PTL DEF Spec, Service!Spec
=============================================================================
