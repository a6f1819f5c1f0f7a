----------------------------- MODULE RateLimiter -----------------------------
(***************************************************************************)
(* RedisServices.allow_research (app/cache/redis_services.py): a counter   *)
(* per user and fixed window, incremented and given its time to live in    *)
(* one Redis transaction.  The window is chosen by the API's clock before  *)
(* the transaction is sent; Redis executes it later, interleaved with      *)
(* those of other requests.  Redis keeps nothing on disk: a restart        *)
(* forgets every counter.  The reply of a transaction may be lost.         *)
(***************************************************************************)
EXTENDS Naturals

CONSTANTS
    Users,
    Requests,    \* calls of allow_research
    Limit,       \* rate_limit_jobs
    Window,      \* rate_limit_window_seconds
    NoCall,      \* the request has not called yet
    MaxDelay,    \* seconds between reading the clock and Redis executing
    MaxTime,     \* bound: the clock
    MaxFlushes,  \* bound: restarts of Redis
    MaxLost      \* bound: lost replies

ASSUME LimitAssumption == Limit \in Nat \ {0} /\ Window \in Nat \ {0}
\* The second that "self._window + 1" adds to the TTL is the delay it absorbs.
ASSUME DelayAssumption == MaxDelay \in {0, 1}
ASSUME BoundsAssumption == MaxTime \in Nat /\ MaxFlushes \in Nat /\ MaxLost \in Nat

VARIABLES
    now,       \* the clock, in seconds
    count,     \* value of a counter when it was last written
    expires,   \* when that value expires
    call,      \* call[r]: whose call r is, its window and when that was chosen
    pc,        \* "idle", "sent" to Redis, or how the call ended
    admitted,  \* calls answered True, per user and window
    rejected,  \* calls answered False
    lost,      \* calls executed without an answer
    flushes    \* restarts of Redis

vars == <<now, count, expires, call, pc, admitted, rejected, lost, flushes>>
answers == <<admitted, rejected, lost>>

window_id(t) == t \div Window
Windows == 0 .. window_id(MaxTime)
Counters == Users \X Windows
Calls == [user : Users, window : Windows, at : 0 .. MaxTime]

\* The Redis key of a call: research:rate:{user_id}:{window_id}
key(c) == <<c.user, c.window>>

\* What GET would answer: an expired counter is gone.
value(k) == IF expires[k] > now THEN count[k] ELSE 0

Init ==
    /\ now = 0
    /\ count = [k \in Counters |-> 0]
    /\ expires = [k \in Counters |-> 0]
    /\ call = [r \in Requests |-> NoCall]
    /\ pc = [r \in Requests |-> "idle"]
    /\ admitted = [k \in Counters |-> 0]
    /\ rejected = [k \in Counters |-> 0]
    /\ lost = [k \in Counters |-> 0]
    /\ flushes = 0

\* Mutant of Send: the clock itself in the place of the window.
Send_NotDivided(r, u) ==
    /\ pc[r] = "idle"
    /\ call' = [call EXCEPT ![r] = [user |-> u, window |-> now, at |-> now]]
    /\ pc' = [pc EXCEPT ![r] = "sent"]
    /\ UNCHANGED <<now, count, expires, answers, flushes>>

\* The key is formed from the clock and the transaction is on its way.
Send(r, u) ==
    /\ pc[r] = "idle"
    /\ call' = [call EXCEPT ![r] = [user |-> u, window |-> window_id(now), at |-> now]]
    /\ pc' = [pc EXCEPT ![r] = "sent"]
    /\ UNCHANGED <<now, count, expires, answers, flushes>>

\* Mutant of ttl: no second to spare.
ttl_Window == Window

ttl == Window + 1

\* Mutant of transaction: the time to live is set by the first INCR alone.
transaction_ExpireOnce(k) ==
    /\ count' = [count EXCEPT ![k] = value(k) + 1]
    /\ expires' = [expires EXCEPT ![k] = IF value(k) = 0 THEN now + Window ELSE @]

\* MULTI, INCR key, EXPIRE key, EXEC
transaction(k) ==
    /\ count' = [count EXCEPT ![k] = value(k) + 1]
    /\ expires' = [expires EXCEPT ![k] = now + ttl]

\* Mutant of allowed: the limit itself is refused.
allowed_Strict(n) == n < Limit

allowed(n) == n <= Limit

Execute(r) ==
    /\ pc[r] = "sent"
    /\ LET k == key(call[r]) IN
       /\ transaction(k)
       /\ \/ /\ allowed(value(k) + 1)
             /\ admitted' = [admitted EXCEPT ![k] = @ + 1] /\ UNCHANGED rejected
             /\ pc' = [pc EXCEPT ![r] = "admitted"]
          \/ /\ ~allowed(value(k) + 1)
             /\ rejected' = [rejected EXCEPT ![k] = @ + 1] /\ UNCHANGED admitted
             /\ pc' = [pc EXCEPT ![r] = "rejected"]
    /\ UNCHANGED <<now, call, lost, flushes>>

\* Executed, but the connection breaks before the reply: the exception
\* reaches the route, which answers 500 and starts no job.
ExecuteLost(r) ==
    /\ pc[r] = "sent"
    /\ LET k == key(call[r]) IN
       /\ lost[k] < MaxLost
       /\ transaction(k)
       /\ lost' = [lost EXCEPT ![k] = @ + 1]
    /\ pc' = [pc EXCEPT ![r] = "raised"]
    /\ UNCHANGED <<now, call, admitted, rejected, flushes>>

\* Redis cannot be reached: nothing is counted, nothing is admitted.
NotExecuted(r) ==
    /\ pc[r] = "sent"
    /\ pc' = [pc EXCEPT ![r] = "raised"]
    /\ UNCHANGED <<now, count, expires, call, answers, flushes>>

\* A transaction under way is executed, or given up, within MaxDelay.
Tick ==
    /\ now < MaxTime
    /\ \A r \in Requests : pc[r] = "sent" => now < call[r].at + MaxDelay
    /\ now' = now + 1
    /\ UNCHANGED <<count, expires, call, pc, answers, flushes>>

\* Redis restarts empty.
Flush ==
    /\ flushes < MaxFlushes
    /\ flushes' = flushes + 1
    /\ count' = [k \in Counters |-> 0]
    /\ expires' = [k \in Counters |-> 0]
    /\ UNCHANGED <<now, call, pc, answers>>

Next ==
    \/ \E r \in Requests :
           \/ \E u \in Users : Send(r, u)
           \/ Execute(r)
           \/ ExecuteLost(r)
           \/ NotExecuted(r)
    \/ Tick
    \/ Flush

Spec == Init /\ [][Next]_vars

-----------------------------------------------------------------------------
(* Properties *)

\* Clock, counters and calls have their types.
TypeOK ==
    /\ now \in 0 .. MaxTime
    /\ count \in [Counters -> Nat]
    /\ expires \in [Counters -> Nat]
    /\ call \in [Requests -> Calls \cup {NoCall}]
    /\ pc \in [Requests -> {"idle", "sent", "admitted", "rejected", "raised"}]
    /\ admitted \in [Counters -> Nat]
    /\ rejected \in [Counters -> Nat]
    /\ lost \in [Counters -> Nat]
    /\ flushes \in Nat

\* In one window a user starts at most Limit jobs, and at most Limit more for
\* each time Redis restarted - also when a call of the window's last second is
\* executed in the next window, when the first counter values are about to expire.
QuotaPerWindow ==
    \A k \in Counters : admitted[k] <= Limit * (flushes + 1)

\* A user is refused in a window only after Limit of his own calls of that
\* window were counted, whatever other users and other windows did.
RefusedOnlyOverQuota ==
    \A k \in Counters : rejected[k] > 0 => admitted[k] + lost[k] >= Limit

\* Once refused in a window, a user stays refused in it: the counter neither
\* expires nor restarts before the last call of the window is executed (as
\* long as Redis itself does not restart).
RefusalIsFinal ==
    [][\A k \in Counters :
           rejected[k] > 0 /\ flushes' = 0 => admitted'[k] = admitted[k]]_vars
=============================================================================
