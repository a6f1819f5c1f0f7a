--------------------------- MODULE LimiterProofs ---------------------------
(***************************************************************************)
(* Proofs about RateLimiter for every limit, window, number of users and   *)
(* calls, lost reply and restart; and about EvaluationRun for any number   *)
(* of questions, any limits and any intervals.                             *)
(*                                                                         *)
(* The counter of a window is live whenever a call of that window is       *)
(* executed, because its first value expires no earlier than one second    *)
(* after the window ends (ExpiryOK) and a call is executed at most one     *)
(* second after its window was chosen (CallOK).  So between two restarts   *)
(* the stored count is the number of calls executed, and what was admitted *)
(* is bounded by it (CountOK).                                             *)
(*                                                                         *)
(* Every step of the script is a step of RateLimiter or leaves it alone,   *)
(* so that IInv holds of EvaluationRun too; ScriptOK, TimesOK and          *)
(* RecordsOK follow the script, CountedOK the calls it made: within the    *)
(* limit there are too few of them for a refusal.                          *)
(***************************************************************************)
EXTENDS EvaluationRun, TLAPS

\* the end of window w
end(w) == (w + 1) * Window

CallOK(r) ==
    pc[r] # "idle" =>
        /\ call[r] \in Calls
        /\ call[r].window * Window <= call[r].at
        /\ call[r].at < end(call[r].window)
        /\ call[r].at <= now
        /\ pc[r] = "sent" => now <= call[r].at + MaxDelay

ExpiryOK(k) == count[k] > 0 => expires[k] >= end(k[2]) + 1

\* how much of the quota the current counter has given out
Given(k) == IF count[k] <= Limit THEN count[k] ELSE Limit

CountOK(k) ==
    /\ admitted[k] <= Limit * flushes + Given(k)
    /\ Given(k) <= admitted[k] + lost[k]
    /\ rejected[k] > 0 => Limit <= admitted[k] + lost[k]
    /\ flushes = 0 /\ rejected[k] > 0 => count[k] >= Limit

IInv ==
    /\ TypeOK
    /\ \A r \in Requests : CallOK(r)
    /\ \A k \in Counters : ExpiryOK(k) /\ CountOK(k)

-----------------------------------------------------------------------------
(* Windows *)

\* A moment lies in its window, and its window is one of the modelled ones.
LEMMA InWindow ==
  ASSUME NEW t \in 0 .. MaxTime
  PROVE  /\ window_id(t) \in Windows
         /\ window_id(t) * Window <= t
         /\ t < end(window_id(t))
  BY LimitAssumption, BoundsAssumption DEF window_id, Windows, end

LEMMA EndMonotone ==
  ASSUME NEW w \in Nat
  PROVE  end(w) \in Nat /\ end(w) = w * Window + Window
  BY LimitAssumption DEF end

\* When a call is executed the counter of its window has not expired.
LEMMA CounterLive ==
  ASSUME IInv, NEW r \in Requests, pc[r] = "sent"
  PROVE  LET k == key(call[r]) IN
         /\ k \in Counters
         /\ value(k) = count[k]
         /\ now + ttl >= end(k[2]) + 1
  <1> USE DEF IInv, TypeOK
  <1>1. /\ call[r] \in Calls /\ key(call[r]) \in Counters
        /\ key(call[r])[2] = call[r].window
    BY DEF CallOK, Calls, key, Counters
  <1>2. call[r].window \in Nat /\ call[r].at \in Nat /\ now \in Nat
    BY <1>1, BoundsAssumption DEF Calls, Windows
  <1>3. PICK e \in Nat : e = end(call[r].window) /\ e = call[r].window * Window + Window
    BY <1>2, EndMonotone
  <1>4. call[r].window * Window <= call[r].at /\ call[r].at < e
        /\ call[r].at <= now /\ now <= call[r].at + MaxDelay
    BY <1>3 DEF CallOK
  <1>5. PICK b \in Nat : b = call[r].window * Window
    BY <1>2, LimitAssumption
  <1>6. now <= e /\ now + ttl >= e + 1
    BY <1>2, <1>3, <1>4, <1>5, DelayAssumption, LimitAssumption DEF ttl
  <1>7. PICK k \in Counters : k = key(call[r]) /\ end(k[2]) = e
    BY <1>1, <1>3
  <1>8. count[k] \in Nat /\ expires[k] \in Nat
    OBVIOUS
  <1>9. value(k) = count[k]
    BY <1>2, <1>6, <1>7, <1>8 DEF ExpiryOK, value
  <1> QED BY <1>6, <1>7, <1>9

-----------------------------------------------------------------------------
(* The invariant *)

LEMMA InitInv == Init => IInv
  <1> SUFFICES ASSUME Init PROVE IInv
    OBVIOUS
  <1>1. TypeOK
    BY BoundsAssumption DEF Init, TypeOK
  <1>2. \A r \in Requests : CallOK(r)
    BY DEF Init, CallOK
  <1>3. \A k \in Counters : ExpiryOK(k) /\ CountOK(k)
    BY LimitAssumption DEF Init, ExpiryOK, CountOK, Given
  <1> QED BY <1>1, <1>2, <1>3 DEF IInv

\* What one more counted call changes.
LEMMA Counted ==
  ASSUME IInv, NEW r \in Requests, pc[r] = "sent", transaction(key(call[r]))
  PROVE  LET k == key(call[r]) IN
         /\ k \in Counters
         /\ count' = [count EXCEPT ![k] = count[k] + 1]
         /\ expires' = [expires EXCEPT ![k] = now + ttl]
         /\ now + ttl >= end(k[2]) + 1
  BY CounterLive DEF transaction

LEMMA ExecuteStep ==
  ASSUME IInv, NEW r \in Requests, Execute(r) \/ ExecuteLost(r)
  PROVE  IInv'
  <1> USE DEF IInv, TypeOK
  <1>0. pc[r] = "sent" /\ transaction(key(call[r]))
    BY DEF Execute, ExecuteLost
  <1>1. PICK k \in Counters :
           /\ k = key(call[r])
           /\ count' = [count EXCEPT ![k] = count[k] + 1]
           /\ expires' = [expires EXCEPT ![k] = now + ttl]
           /\ now + ttl >= end(k[2]) + 1
           /\ value(k) = count[k]
    BY <1>0, Counted, CounterLive
  <1>2. /\ UNCHANGED <<now, call, flushes>>
        /\ \E outcome \in {"admitted", "rejected", "raised"} : pc' = [pc EXCEPT ![r] = outcome]
    BY DEF Execute, ExecuteLost
  <1>3. \/ /\ count[k] + 1 <= Limit
           /\ admitted' = [admitted EXCEPT ![k] = @ + 1] /\ UNCHANGED <<rejected, lost>>
        \/ /\ ~(count[k] + 1 <= Limit)
           /\ rejected' = [rejected EXCEPT ![k] = @ + 1] /\ UNCHANGED <<admitted, lost>>
        \/ lost' = [lost EXCEPT ![k] = @ + 1] /\ UNCHANGED <<admitted, rejected>>
    BY <1>1 DEF Execute, ExecuteLost, allowed
  <1>4. ttl \in Nat /\ now \in Nat
    BY LimitAssumption, BoundsAssumption DEF ttl
  <1>5. TypeOK'
    BY <1>1, <1>2, <1>3, <1>4
  <1>6. \A q \in Requests : CallOK(q)'
    BY <1>0, <1>2 DEF CallOK
  <1>7. ASSUME NEW i \in Counters PROVE ExpiryOK(i)'
    BY <1>1, <1>2, <1>4 DEF ExpiryOK, end
  <1>8. ASSUME NEW i \in Counters PROVE CountOK(i)'
    <2>1. CASE i # k
      BY <1>1, <1>2, <1>3, <2>1 DEF CountOK, Given
    <2>2. CASE i = k
      <3>1. PICK q \in Nat : q = Limit * flushes
        BY LimitAssumption
      <3>2. count[k] \in Nat /\ admitted[k] \in Nat /\ lost[k] \in Nat /\ rejected[k] \in Nat
            /\ Limit \in Nat /\ count'[k] = count[k] + 1
        BY <1>1, LimitAssumption
      <3>3. /\ admitted[k] <= q + Given(k)
            /\ Given(k) <= admitted[k] + lost[k]
            /\ rejected[k] > 0 => Limit <= admitted[k] + lost[k]
            /\ flushes = 0 /\ rejected[k] > 0 => count[k] >= Limit
        BY <3>1 DEF CountOK
      <3>4. flushes' = flushes /\ Limit * flushes' = q
        BY <1>2, <3>1
      <3>5. CASE /\ count[k] + 1 <= Limit
                 /\ admitted' = [admitted EXCEPT ![k] = @ + 1] /\ UNCHANGED <<rejected, lost>>
        <4>1. admitted'[k] = admitted[k] + 1 /\ rejected'[k] = rejected[k] /\ lost'[k] = lost[k]
          BY <3>5
        <4> QED BY <2>2, <3>2, <3>3, <3>4, <3>5, <4>1 DEF CountOK, Given
      <3>6. CASE /\ ~(count[k] + 1 <= Limit)
                 /\ rejected' = [rejected EXCEPT ![k] = @ + 1] /\ UNCHANGED <<admitted, lost>>
        <4>1. admitted'[k] = admitted[k] /\ rejected'[k] = rejected[k] + 1 /\ lost'[k] = lost[k]
          BY <3>6
        <4> QED BY <2>2, <3>2, <3>3, <3>4, <3>6, <4>1 DEF CountOK, Given
      <3>7. CASE lost' = [lost EXCEPT ![k] = @ + 1] /\ UNCHANGED <<admitted, rejected>>
        <4>1. admitted'[k] = admitted[k] /\ rejected'[k] = rejected[k] /\ lost'[k] = lost[k] + 1
          BY <3>7
        <4> QED BY <2>2, <3>2, <3>3, <3>4, <4>1 DEF CountOK, Given
      <3> QED BY <1>3, <3>5, <3>6, <3>7
    <2> QED BY <2>1, <2>2
  <1> QED BY <1>5, <1>6, <1>7, <1>8

LEMMA SendStep ==
  ASSUME IInv, NEW r \in Requests, NEW u \in Users, Send(r, u)
  PROVE  IInv'
  <1> USE DEF IInv, TypeOK
  <1>1. now \in 0 .. MaxTime /\ UNCHANGED <<now, count, expires, admitted, rejected, lost, flushes>>
    BY DEF Send, answers
  <1>2. call'[r] = [user |-> u, window |-> window_id(now), at |-> now] /\ call'[r] \in Calls
    BY <1>1, InWindow DEF Send, Calls
  <1>3. TypeOK'
    BY <1>1, <1>2 DEF Send
  <1>4. CallOK(r)'
    BY <1>1, <1>2, InWindow, DelayAssumption, BoundsAssumption DEF CallOK, end
  <1>5. ASSUME NEW q \in Requests, q # r PROVE CallOK(q)'
    BY <1>1, <1>5 DEF CallOK, Send
  <1>6. \A k \in Counters : ExpiryOK(k)' /\ CountOK(k)'
    BY <1>1 DEF ExpiryOK, CountOK, Given
  <1> QED BY <1>3, <1>4, <1>5, <1>6

LEMMA NotExecutedStep ==
  ASSUME IInv, NEW r \in Requests, NotExecuted(r)
  PROVE  IInv'
  BY DEF IInv, TypeOK, NotExecuted, answers, CallOK, ExpiryOK, CountOK, Given

LEMMA TickStep ==
  ASSUME IInv, Tick
  PROVE  IInv'
  <1> USE DEF IInv, TypeOK, Tick, answers
  <1>1. TypeOK'
    BY BoundsAssumption
  <1>2. ASSUME NEW r \in Requests PROVE CallOK(r)'
    <2>1. CASE pc[r] = "idle"
      BY <2>1 DEF CallOK
    <2>2. CASE pc[r] # "idle"
      <3>1. call[r].at \in Nat /\ now \in Nat
        BY <2>2, BoundsAssumption DEF CallOK, Calls
      <3> QED BY <2>2, <3>1, DelayAssumption DEF CallOK
    <2> QED BY <2>1, <2>2
  <1>3. \A k \in Counters : ExpiryOK(k)' /\ CountOK(k)'
    BY DEF ExpiryOK, CountOK, Given
  <1> QED BY <1>1, <1>2, <1>3

LEMMA FlushStep ==
  ASSUME IInv, Flush
  PROVE  IInv'
  <1> USE DEF IInv, TypeOK, Flush, answers
  <1>1. TypeOK'
    OBVIOUS
  <1>2. \A r \in Requests : CallOK(r)'
    BY DEF CallOK
  <1>3. ASSUME NEW k \in Counters PROVE ExpiryOK(k)' /\ CountOK(k)'
    <2>1. Limit * (flushes + 1) = Limit * flushes + Limit /\ Limit * flushes \in Nat
      BY LimitAssumption
    <2> QED BY <2>1, LimitAssumption DEF ExpiryOK, CountOK, Given
  <1> QED BY <1>1, <1>2, <1>3

LEMMA NextInv == IInv /\ [Next]_vars => IInv'
  <1> SUFFICES ASSUME IInv, [Next]_vars PROVE IInv'
    OBVIOUS
  <1>1. CASE UNCHANGED vars
    BY <1>1 DEF vars, IInv, TypeOK, CallOK, ExpiryOK, CountOK, Given
  <1> QED BY <1>1, ExecuteStep, SendStep, NotExecutedStep, TickStep, FlushStep DEF Next

\* What the counters say of the calls admitted, refused and lost holds in every
\* reachable state, whatever allow_research is called with and when.
THEOREM Invariance == Spec => []IInv
  BY InitInv, NextInv, PTL DEF Spec

\* Clock, counters and calls always have their types.
THEOREM TypeCorrect == Spec => []TypeOK
  <1>1. IInv => TypeOK
    BY DEF IInv
  <1> QED BY <1>1, Invariance, PTL

\* No user starts more than Limit jobs in a window, restarts of Redis apart.
THEOREM QuotaHolds == Spec => []QuotaPerWindow
  <1>1. IInv => QuotaPerWindow
    <2> SUFFICES ASSUME IInv, NEW k \in Counters
                 PROVE  admitted[k] <= Limit * (flushes + 1)
      BY DEF QuotaPerWindow
    <2>1. flushes \in Nat /\ admitted[k] \in Nat /\ count[k] \in Nat
      BY DEF IInv, TypeOK
    <2>2. Limit * (flushes + 1) = Limit * flushes + Limit /\ Limit * flushes \in Nat
      BY <2>1, LimitAssumption
    <2>3. admitted[k] <= Limit * flushes + Given(k) /\ Given(k) <= Limit
      BY <2>1, LimitAssumption DEF IInv, CountOK, Given
    <2> QED BY <2>1, <2>2, <2>3, LimitAssumption DEF Given
  <1> QED BY <1>1, Invariance, PTL

\* No user is refused before Limit of his own calls were counted.
THEOREM RefusedOnlyOverQuotaHolds == Spec => []RefusedOnlyOverQuota
  <1>1. IInv => RefusedOnlyOverQuota
    BY LimitAssumption DEF IInv, TypeOK, CountOK, RefusedOnlyOverQuota
  <1> QED BY <1>1, Invariance, PTL

\* No call is admitted in a window where one was refused, restarts of Redis apart.
THEOREM RefusalIsFinalHolds == Spec => RefusalIsFinal
  <1>1. IInv /\ [Next]_vars =>
           [\A k \in Counters :
               rejected[k] > 0 /\ flushes' = 0 => admitted'[k] = admitted[k]]_vars
    <2> SUFFICES ASSUME IInv, Next, NEW k \in Counters, rejected[k] > 0, flushes' = 0
                 PROVE  admitted'[k] = admitted[k]
      OBVIOUS
    <2> USE DEF IInv, TypeOK
    <2>1. ASSUME NEW r \in Requests, Execute(r) PROVE admitted'[k] = admitted[k]
      <3>1. flushes = 0 /\ pc[r] = "sent"
        BY <2>1 DEF Execute
      <3>2. count[k] >= Limit /\ count[k] \in Nat /\ Limit \in Nat
        BY <3>1, LimitAssumption DEF CountOK
      <3>3. PICK i \in Counters : i = key(call[r]) /\ value(i) = count[i]
        BY <3>1, CounterLive
      <3>4. i = k => ~allowed(value(i) + 1)
        BY <3>2, <3>3 DEF allowed
      <3> QED BY <2>1, <3>3, <3>4 DEF Execute
    <2>2. ASSUME NEW r \in Requests,
                 ExecuteLost(r) \/ NotExecuted(r) \/ \E u \in Users : Send(r, u)
          PROVE  admitted'[k] = admitted[k]
      BY <2>2 DEF ExecuteLost, NotExecuted, Send, answers
    <2>3. CASE Tick \/ Flush
      BY <2>3 DEF Tick, Flush, answers
    <2> QED BY <2>1, <2>2, <2>3 DEF Next
  <1> QED BY <1>1, Invariance, PTL DEF Spec, RefusalIsFinal
-----------------------------------------------------------------------------
(* The evaluation script *)

Stages == {"ready", "next", "asking", "read", "check", "asleep", "report", "written", "aborted"}
Asked == stage \in {"asking", "read", "check", "asleep", "report"}
Records == [question : 1 .. N, status : {"running", "completed", "failed"}, latency : Nat]

\* The bounds on how long a question is worked on: t is a time since it was asked.
InTime(t) == t < Timeout + PollSeconds + RequestTime \/ t <= 2 * RequestTime

\* The call of a question is under way exactly while the script waits for it.
ScriptOK ==
    /\ stage \in Stages
    /\ item \in 1 .. N + 1
    /\ started_at \in Nat /\ wake \in Nat /\ sent_at \in Nat /\ latency \in Nat
    /\ seen \in {"none", "running", "completed", "failed"}
    /\ job \in {"none", "running", "completed", "failed"}
    /\ apiFaults \in Nat
    /\ Asked \/ stage = "aborted" => item <= N
    /\ stage \in {"read", "check", "asleep", "report"} => pc[item] = "admitted" /\ job # "none"
    /\ stage \in {"check", "report"} => seen # "none"
    /\ stage = "asking" => pc[item] \in {"sent", "admitted", "rejected", "raised"}
    /\ \A r \in Requests :
           /\ r > item \/ (r = item /\ stage \in {"ready", "next"}) => pc[r] = "idle"
           /\ pc[r] = "sent" => r = item /\ stage = "asking"

\* A status is asked for after the first answer, or after a sleep that began
\* before the deadline.
TimesOK ==
    /\ Asked => started_at <= now
    /\ stage = "asking" => sent_at = started_at /\ now <= started_at + RequestTime
    /\ stage = "read" =>
           /\ now <= sent_at + RequestTime
           /\ \/ sent_at <= started_at + RequestTime
              \/ sent_at < started_at + Timeout + PollSeconds
    /\ stage = "check" => InTime(now - started_at)
    /\ stage = "asleep" => now <= wake /\ wake < started_at + Timeout + PollSeconds
    /\ stage = "report" => InTime(latency) /\ (seen = "running" => latency >= Timeout)

RecordOK(i) ==
    /\ records[i].question = i
    /\ records[i].status = "running" => records[i].latency >= Timeout
    /\ InTime(records[i].latency)

RecordsOK ==
    /\ records \in Seq(Records)
    /\ Len(records) = item - 1
    /\ \A i \in 1 .. Len(records) : RecordOK(i)
    /\ stage = "written" => item = N + 1

\* Calls the limiter has counted.
CountedCalls == IF stage \in {"ready", "next", "written"} \/ pc[item] = "sent" THEN item - 1 ELSE item

CountedOK ==
    /\ \A k \in Counters : admitted[k] + rejected[k] + lost[k] <= CountedCalls
    /\ Asked \/ stage = "aborted" =>
           (pc[item] = "rejected" => \E k \in Counters : rejected[k] > 0)

\* Only these stop the script.
StoppedOK ==
    stage = "aborted" =>
        \/ apiFaults > 0
        \/ pc[item] \in {"rejected", "raised"}
        \/ pc[item] = "admitted" /\ seen = "completed" /\ job = "failed"

EvalInv ==
    /\ IInv
    /\ ScriptOK
    /\ TimesOK
    /\ RecordsOK
    /\ CountedOK
    /\ StoppedOK

LEMMA EvalInitInv == EvalInit => EvalInv
  <1> SUFFICES ASSUME EvalInit PROVE EvalInv
    OBVIOUS
  <1>1. IInv
    BY InitInv DEF EvalInit
  <1>2. ScriptOK /\ TimesOK
    BY QuestionsAssumption DEF EvalInit, Init, ScriptOK, TimesOK, Stages, Asked
  <1>3. RecordsOK
    BY DEF EvalInit, RecordsOK
  <1>4. CountedOK /\ StoppedOK
    BY DEF EvalInit, Init, CountedOK, CountedCalls, StoppedOK, Asked
  <1> QED
    BY <1>1, <1>2, <1>3, <1>4 DEF EvalInv

\* To the limiter every step of the evaluation is one of its own, or none.
LEMMA LimiterStep ==
  ASSUME ScriptOK, [EvalNext]_allVars
  PROVE  [Next]_vars
  <1>1. evaluator \in Users /\ (item <= N => item \in Requests)
    BY QuestionsAssumption DEF ScriptOK
  <1>2. ASSUME Ask PROVE [Next]_vars
    BY <1>1, <1>2 DEF Ask, Next
  <1>3. ASSUME Limiter \/ Clock \/ RedisRestarts PROVE [Next]_vars
    BY <1>3 DEF Limiter, Clock, RedisRestarts, Next
  <1> QED
    BY <1>2, <1>3 DEF EvalNext, ScriptStep, StartRun, Started, NotStarted, ReadStatus, ReadFails, Sleep,
          WakeUp, StartFails, StopPolling, Record, ReportRefused, ReportFails, WriteResults, JobEnds, Withdraw,
          allVars

\* The values the script computes with are numbers.
LEMMA Numbers ==
  ASSUME EvalInv
  PROVE  /\ N \in Nat /\ Requests = 1 .. N /\ item \in Nat /\ now \in Nat
         /\ started_at \in Nat /\ wake \in Nat /\ sent_at \in Nat /\ latency \in Nat
         /\ RequestTime \in Nat /\ MaxDelay <= RequestTime
         /\ Timeout \in Nat \ {0} /\ PollSeconds \in Nat \ {0} /\ MaxDelay \in {0, 1}
         /\ \A k \in Counters : admitted[k] \in Nat /\ rejected[k] \in Nat /\ lost[k] \in Nat
         /\ pc \in [Requests -> {"idle", "sent", "admitted", "rejected", "raised"}]
         /\ call \in [Requests -> Calls \cup {NoCall}]
  BY QuestionsAssumption, PollAssumption, RequestAssumption, DelayAssumption, BoundsAssumption
     DEF EvalInv, IInv, TypeOK, ScriptOK

\* Steps of the script between the answer to a question and its record, which
\* leave the limiter alone.
LEMMA ScriptInv ==
  ASSUME EvalInv,
         \/ StartRun \/ Started \/ NotStarted \/ StartFails \/ ReadStatus \/ ReadFails \/ Sleep \/ WakeUp
         \/ StopPolling \/ ReportRefused \/ ReportFails \/ WriteResults \/ JobEnds \/ Withdraw
  PROVE  (ScriptOK /\ TimesOK /\ RecordsOK /\ CountedOK /\ StoppedOK)'
  <1> USE Numbers DEF EvalInv
  <1>1. UNCHANGED <<vars, item, started_at, records>>
    BY DEF StartRun, Started, NotStarted, StartFails, ReadStatus, ReadFails, Sleep, WakeUp, StopPolling,
           ReportRefused, ReportFails, WriteResults, JobEnds, Withdraw, script
  <1>2. /\ UNCHANGED <<now, call, pc, admitted, rejected, lost>>
    BY <1>1 DEF vars
  <1>3. (ScriptOK /\ TimesOK)'
    <2>1. CASE StartRun
      BY <1>1, <1>2, <2>1 DEF StartRun, ScriptOK, TimesOK, Stages, Asked
    <2>2. CASE NotStarted \/ StartFails \/ ReadFails \/ ReportRefused \/ ReportFails
      <3>1. Asked /\ stage' = "aborted" /\ pc[item] # "sent" /\ UNCHANGED <<sent_at, latency, wake, seen, job>>
        BY <2>2 DEF NotStarted, StartFails, ReadFails, ReportRefused, ReportFails, Fault, Asked, ScriptOK
      <3>2. apiFaults' \in Nat
        BY <2>2 DEF NotStarted, StartFails, ReadFails, ReportRefused, ReportFails, Fault, ScriptOK
      <3> QED
        BY <1>1, <1>2, <3>1, <3>2 DEF ScriptOK, TimesOK, Stages, Asked
    <2>3. CASE Started
      BY <1>1, <1>2, <2>3 DEF Started, GetStatus, ScriptOK, TimesOK, Stages, Asked
    <2>4. CASE ReadStatus
      BY <1>1, <1>2, <2>4 DEF ReadStatus, ScriptOK, TimesOK, InTime, Stages, Asked
    <2>5. CASE Sleep
      BY <1>1, <1>2, <2>5 DEF Sleep, keep_polling, ScriptOK, TimesOK, Stages, Asked
    <2>6. CASE WakeUp
      BY <1>1, <1>2, <2>6 DEF WakeUp, GetStatus, ScriptOK, TimesOK, Stages, Asked
    <2>7. CASE StopPolling
      BY <1>1, <1>2, <2>7 DEF StopPolling, keep_polling, ScriptOK, TimesOK, InTime, Stages, Asked
    <2>8. CASE WriteResults \/ JobEnds \/ Withdraw
      BY <1>1, <1>2, <2>8 DEF WriteResults, JobEnds, Withdraw, script, ScriptOK, TimesOK, InTime, Stages, Asked
    <2> QED
      BY <2>1, <2>2, <2>3, <2>4, <2>5, <2>6, <2>7, <2>8
  <1> USE DEF StartRun, Started, NotStarted, StartFails, ReadStatus, ReadFails, Sleep, WakeUp, StopPolling,
              ReportRefused, ReportFails, WriteResults, JobEnds, Withdraw, script, GetStatus, Fault
  <1>5. RecordsOK'
    BY <1>1, <1>2 DEF RecordsOK, RecordOK, ScriptOK
  <1>6. CountedOK'
    BY <1>1, <1>2 DEF CountedOK, CountedCalls, ScriptOK, Asked
  <1>7. StoppedOK'
    BY <1>1, <1>2 DEF StoppedOK, ScriptOK
  <1> QED
    BY <1>3, <1>5, <1>6, <1>7

LEMMA AskInv ==
  ASSUME EvalInv, Ask
  PROVE  (ScriptOK /\ TimesOK /\ RecordsOK /\ CountedOK /\ StoppedOK)'
  <1> USE Numbers DEF EvalInv, Ask
  <1> DEFINE sent == [user |-> evaluator, window |-> window_id(now), at |-> now]
  <1>1. /\ call' = [call EXCEPT ![item] = sent] /\ pc' = [pc EXCEPT ![item] = "sent"]
        /\ UNCHANGED <<now, admitted, rejected, lost, item, wake, seen, latency, records, job, apiFaults>>
        /\ item \in Requests /\ started_at' = now /\ sent_at' = now /\ stage = "next" /\ stage' = "asking"
    BY DEF Send, answers, ScriptOK
  <1>2. call'[item].at = now /\ pc'[item] = "sent" /\ \A r \in Requests \ {item} : pc'[r] = pc[r]
    BY <1>1
  <1>3. ScriptOK'
    BY <1>1, <1>2 DEF ScriptOK, Stages, Asked
  <1>4. TimesOK'
    BY <1>1 DEF TimesOK, Asked
  <1>5. RecordsOK'
    BY <1>1 DEF RecordsOK, RecordOK
  <1>6. CountedOK'
    BY <1>1, <1>2 DEF CountedOK, CountedCalls, Asked
  <1>7. StoppedOK'
    BY <1>1 DEF StoppedOK
  <1> QED
    BY <1>3, <1>4, <1>5, <1>6, <1>7

LEMMA RecordInv ==
  ASSUME EvalInv, Record
  PROVE  (ScriptOK /\ TimesOK /\ RecordsOK /\ CountedOK /\ StoppedOK)'
  <1> USE Numbers DEF EvalInv
  <1> DEFINE new == [question |-> item, status |-> seen, latency |-> latency]
  <1>1. /\ UNCHANGED <<now, call, pc, admitted, rejected, lost, started_at, wake, sent_at, seen, latency, job,
                       apiFaults>>
        /\ stage = "report" /\ records' = Append(records, new)
        /\ item' = item + 1 /\ stage' = "next"
    BY DEF Record, new_record, vars
  <1>2. /\ pc[item] = "admitted" /\ item \in 1 .. N /\ seen \in {"running", "completed", "failed"}
        /\ InTime(latency) /\ (seen = "running" => latency >= Timeout)
    BY <1>1 DEF ScriptOK, TimesOK, Asked
  <1>3. ScriptOK'
    BY <1>1, <1>2 DEF ScriptOK, Stages, Asked
  <1>4. TimesOK' /\ StoppedOK'
    BY <1>1 DEF TimesOK, Asked, StoppedOK
  <1>5. RecordsOK'
    <2>1. new \in Records
      BY <1>2 DEF Records
    <2>2. /\ records' \in Seq(Records) /\ Len(records') = Len(records) + 1
          /\ \A i \in 1 .. Len(records) : records'[i] = records[i]
          /\ records'[Len(records) + 1] = new
      BY <1>1, <2>1 DEF RecordsOK
    <2>3. new.status = "running" => new.latency >= Timeout
      BY <1>2
    <2>4. InTime(new.latency)
      BY <1>2
    <2>5. ASSUME NEW i \in 1 .. Len(records') PROVE RecordOK(i)'
      <3>1. CASE i \in 1 .. Len(records)
        BY <2>2, <3>1 DEF RecordsOK, RecordOK
      <3>2. CASE i = Len(records) + 1
        BY <2>2, <2>3, <2>4, <3>2 DEF RecordsOK, RecordOK
      <3> QED
        BY <2>2, <3>1, <3>2 DEF RecordsOK
    <2> QED
      BY <1>1, <2>2, <2>5 DEF RecordsOK
  <1>6. CountedOK'
    BY <1>1, <1>2 DEF CountedOK, CountedCalls, Asked
  <1> QED
    BY <1>3, <1>4, <1>5, <1>6

\* The limiter executes the call the script waits for, and no other.
LEMMA LimiterInv ==
  ASSUME EvalInv, Limiter
  PROVE  (ScriptOK /\ TimesOK /\ RecordsOK /\ CountedOK /\ StoppedOK)'
  <1> USE Numbers DEF EvalInv
  <1>1. /\ UNCHANGED <<stage, item, started_at, wake, sent_at, seen, latency, records, job, apiFaults>>
        /\ Execute(item) \/ ExecuteLost(item) \/ NotExecuted(item)
        /\ stage = "asking" /\ pc[item] = "sent" /\ item \in Requests
    BY DEF Limiter, evalVars, script, ScriptOK, Execute, ExecuteLost, NotExecuted, Asked
  <1> DEFINE k == key(call[item])
  <1>2. k \in Counters
    BY <1>1, CounterLive
  <1>3. /\ \E p \in {"admitted", "rejected", "raised"} : pc' = [pc EXCEPT ![item] = p]
        /\ UNCHANGED <<now, call>>
        /\ \/ admitted' = [admitted EXCEPT ![k] = @ + 1] /\ UNCHANGED <<rejected, lost>>
           \/ rejected' = [rejected EXCEPT ![k] = @ + 1] /\ UNCHANGED <<admitted, lost>>
           \/ lost' = [lost EXCEPT ![k] = @ + 1] /\ UNCHANGED <<admitted, rejected>>
           \/ UNCHANGED <<admitted, rejected, lost>>
        /\ pc'[item] = "rejected" => rejected' = [rejected EXCEPT ![k] = @ + 1]
    BY <1>1 DEF Execute, ExecuteLost, NotExecuted, answers
  <1>4. pc'[item] \in {"admitted", "rejected", "raised"} /\ \A r \in Requests \ {item} : pc'[r] = pc[r]
    BY <1>1, <1>3
  <1>5. ScriptOK'
    BY <1>1, <1>3, <1>4 DEF ScriptOK, Asked
  <1>6. TimesOK' /\ RecordsOK' /\ StoppedOK'
    BY <1>1, <1>3 DEF TimesOK, RecordsOK, RecordOK, StoppedOK, Asked
  <1>7. ASSUME NEW c \in Counters
        PROVE  admitted'[c] + rejected'[c] + lost'[c] <= CountedCalls'
    <2>1. CountedCalls = item - 1 /\ CountedCalls' = item
      BY <1>1, <1>4 DEF CountedCalls
    <2>2. admitted[c] + rejected[c] + lost[c] <= item - 1
      BY <2>1 DEF CountedOK
    <2> DEFINE more(old, new) == new = [old EXCEPT ![k] = @ + 1]
    <2>3. ASSUME NEW old \in [Counters -> Nat], NEW new, more(old, new)
          PROVE  new[c] \in Nat /\ new[c] <= old[c] + 1
      BY <1>2, <2>3
    <2>4. /\ admitted \in [Counters -> Nat] /\ rejected \in [Counters -> Nat] /\ lost \in [Counters -> Nat]
          /\ admitted[c] \in Nat /\ rejected[c] \in Nat /\ lost[c] \in Nat
      BY DEF IInv, TypeOK
    <2>5. \/ more(admitted, admitted') /\ UNCHANGED <<rejected, lost>>
          \/ more(rejected, rejected') /\ UNCHANGED <<admitted, lost>>
          \/ more(lost, lost') /\ UNCHANGED <<admitted, rejected>>
          \/ UNCHANGED <<admitted, rejected, lost>>
      BY <1>3
    <2> HIDE DEF more
    <2>6. /\ admitted'[c] \in Nat /\ rejected'[c] \in Nat /\ lost'[c] \in Nat
          /\ \/ admitted'[c] <= admitted[c] + 1 /\ rejected'[c] = rejected[c] /\ lost'[c] = lost[c]
             \/ admitted'[c] = admitted[c] /\ rejected'[c] <= rejected[c] + 1 /\ lost'[c] = lost[c]
             \/ admitted'[c] = admitted[c] /\ rejected'[c] = rejected[c] /\ lost'[c] <= lost[c] + 1
      <3>1. CASE more(admitted, admitted') /\ UNCHANGED <<rejected, lost>>
        BY <2>3, <2>4, <3>1
      <3>2. CASE more(rejected, rejected') /\ UNCHANGED <<admitted, lost>>
        BY <2>3, <2>4, <3>2
      <3>3. CASE more(lost, lost') /\ UNCHANGED <<admitted, rejected>>
        BY <2>3, <2>4, <3>3
      <3>4. CASE UNCHANGED <<admitted, rejected, lost>>
        BY <2>4, <3>4
      <3> QED
        BY <2>5, <3>1, <3>2, <3>3, <3>4
    <2>7. item \in Nat
      OBVIOUS
    <2> QED
      BY ONLY <2>1, <2>2, <2>4, <2>6, <2>7
  <1>8. pc'[item] = "rejected" => rejected'[k] > 0
    BY <1>2, <1>3 DEF IInv, TypeOK
  <1> QED
    BY <1>1, <1>2, <1>5, <1>6, <1>7, <1>8 DEF CountedOK

LEMMA ClockInv ==
  ASSUME EvalInv, Clock \/ RedisRestarts \/ UNCHANGED allVars
  PROVE  (ScriptOK /\ TimesOK /\ RecordsOK /\ CountedOK /\ StoppedOK)'
  <1> USE Numbers DEF EvalInv
  <1>1. UNCHANGED <<stage, item, started_at, wake, sent_at, seen, latency, records, job, apiFaults,
                    call, pc, admitted, rejected, lost>>
    BY DEF Clock, RedisRestarts, Tick, Flush, evalVars, script, answers, allVars, vars
  <1>2. now' = now \/ (Clock /\ now' = now + 1)
    BY DEF Clock, RedisRestarts, Tick, Flush, allVars, vars
  <1>3. TimesOK'
    <2>1. CASE now' = now
      BY <1>1, <2>1 DEF TimesOK, Asked
    <2>2. CASE Clock /\ now' = now + 1
      <3>1. CASE stage \in {"ready", "asleep"}
        BY <1>1, <2>2, <3>1 DEF Clock, Waiting, TimesOK, Asked
      <3>2. CASE stage \in {"asking", "read", "report"}
        <4>1. stage \in {"asking", "read"} => now < sent_at + RequestTime
          BY <2>2, <3>2 DEF Clock, Waiting
        <4> QED
          BY <1>1, <2>2, <3>2, <4>1 DEF TimesOK, Asked
      <3> QED
        BY <2>2, <3>1, <3>2 DEF Clock, Waiting
    <2> QED
      BY <1>2, <2>1, <2>2
  <1>4. ScriptOK' /\ RecordsOK' /\ CountedOK' /\ StoppedOK'
    BY <1>1 DEF ScriptOK, RecordsOK, RecordOK, CountedOK, CountedCalls, StoppedOK, Asked
  <1> QED
    BY <1>3, <1>4

LEMMA EvalNextInv == EvalInv /\ [EvalNext]_allVars => EvalInv'
  <1> SUFFICES ASSUME EvalInv, [EvalNext]_allVars PROVE EvalInv'
    OBVIOUS
  <1>1. IInv'
    BY LimiterStep, NextInv DEF EvalInv
  <1>2. (ScriptOK /\ TimesOK /\ RecordsOK /\ CountedOK /\ StoppedOK)'
    BY ScriptInv, AskInv, RecordInv, LimiterInv, ClockInv DEF EvalNext, ScriptStep
  <1> QED
    BY <1>1, <1>2 DEF EvalInv

-----------------------------------------------------------------------------
\* Every step of the script, the limiter, the jobs and the clock keeps the
\* invariant.
THEOREM EvalInvariance == EvalSpec => []EvalInv
  BY EvalInitInv, EvalNextInv, PTL DEF EvalSpec

\* To the limiter the script is a client like any other, in whatever state its
\* jobs are: what is proved of the limiter holds in an evaluation run.
THEOREM EvaluationIsAClient == EvalSpec => Spec
  <1>1. EvalInit => Init
    BY DEF EvalInit
  <1>2. EvalInv /\ [EvalNext]_allVars => [Next]_vars
    BY LimiterStep DEF EvalInv
  <1> QED BY <1>1, <1>2, EvalInvariance, PTL DEF EvalSpec, Spec

\* The script's state and its records always have their types.
THEOREM EvalTypeCorrect == EvalSpec => []EvalTypeOK
  <1>1. EvalInv => EvalTypeOK
    BY DEF EvalInv, IInv, ScriptOK, RecordsOK, EvalTypeOK, Stages, Records
  <1> QED BY <1>1, EvalInvariance, PTL

\* run() records every question in its order before the results are written.
THEOREM ResultsCoverEveryQuestionHolds == EvalSpec => []ResultsCoverEveryQuestion
  <1>1. EvalInv => ResultsCoverEveryQuestion
    <2> SUFFICES ASSUME EvalInv, stage = "written"
                 PROVE  [i \in DOMAIN records |-> records[i].question] = [i \in 1 .. N |-> i]
      BY DEF ResultsCoverEveryQuestion
    <2>1. records \in Seq(Records) /\ Len(records) = N /\ \A i \in 1 .. N : records[i].question = i
      BY QuestionsAssumption DEF EvalInv, RecordsOK, RecordOK
    <2> QED
      BY <2>1
  <1> QED
    BY EvalInvariance, <1>1, PTL

\* The polling loop keeps its deadline from both sides, whatever the limit, the
\* interval and the time a request takes.
THEOREM TimeLimitKeptHolds == EvalSpec => []TimeLimitKept
  <1>1. EvalInv => TimeLimitKept
    <2> SUFFICES ASSUME EvalInv, NEW i \in DOMAIN records
                 PROVE  /\ records[i].status = "running" => records[i].latency >= Timeout
                        /\ InTime(records[i].latency)
      BY DEF TimeLimitKept, InTime
    <2> QED
      BY DEF EvalInv, RecordsOK, RecordOK
  <1> QED
    BY EvalInvariance, <1>1, PTL

\* With no more questions than the limit admits, the limiter never stops the
\* run: whatever the windows, restarts of Redis and lost replies.
THEOREM EvaluationWritesResultsHolds ==
  ASSUME N <= Limit
  PROVE  EvalSpec => []EvaluationWritesResults
  <1>1. EvalInv => EvaluationWritesResults
    <2> SUFFICES ASSUME EvalInv, stage = "aborted", apiFaults = 0, pc[item] = "rejected"
                 PROVE  FALSE
      BY QuestionsAssumption DEF EvalInv, ScriptOK, StoppedOK, EvaluationWritesResults
    <2> USE Numbers
    <2>1. item <= N
      BY DEF EvalInv, ScriptOK
    <2>2. PICK k \in Counters : rejected[k] > 0
      BY DEF EvalInv, CountedOK
    <2>3. admitted[k] + rejected[k] + lost[k] <= item
      BY DEF EvalInv, CountedOK, CountedCalls
    <2>4. Limit <= admitted[k] + lost[k] /\ Limit \in Nat
      BY <2>2, LimitAssumption DEF EvalInv, IInv, CountOK
    <2> QED
      BY <2>1, <2>2, <2>3, <2>4
  <1> QED
    BY EvalInvariance, <1>1, PTL
=============================================================================
