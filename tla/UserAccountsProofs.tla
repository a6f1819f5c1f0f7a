------------------------- MODULE UserAccountsProofs -------------------------
(***************************************************************************)
(* Proofs about UserAccounts, for any users, tokens of Google, calls and   *)
(* lifetimes.  The rows are safe because a transaction that has seen a     *)
(* profile finds one when it commits, and one that has seen a made-up row  *)
(* replaces all of it: IInv says so of what every call saw.                *)
(***************************************************************************)
EXTENDS UserAccounts, TLAPS

\* What the logins of u can leave in his row.
Mixed(u) ==
    {[email |-> p[1].email, name |-> p[2].name] :
        p \in {g \in Payloads : g.id = u /\ g.email_verified}
           \X {g \in Payloads : g.id = u /\ g.email_verified}}

RowOK(u) == users[u] \in {NoUser, placeholder(u)} \cup Mixed(u)

SawOK(c) ==
    saw[c] # NoUser =>
        /\ users[call[c].user] # NoUser
        /\ saw[c] \in Profile \cup {placeholder(call[c].user)}
        /\ saw[c] \in Profile => users[call[c].user] \in Profile

\* The token a call was authenticated with, where one is needed.
Authenticated(c) ==
    \E t \in tokens : t.user = call[c].user /\ call[c].at < t.exp /\ t.exp <= call[c].at + Ttl

Asked(c) == pc[c] \notin {"idle", "refused"}

CallOK(c) ==
    /\ Asked(c) => call[c] \in Request
    /\ ~Asked(c) => saw[c] = NoUser
    /\ pc[c] \in {"upsert", "issue"} => call[c].kind = "login"
    /\ pc[c] \in {"insert", "conflict"} => call[c].kind = "create"
    /\ Asked(c) /\ call[c].kind = "login" =>
           \E g \in Payloads : /\ g.id = call[c].user /\ g.email_verified
                               /\ call[c].email = g.email /\ call[c].name = g.name
    /\ Asked(c) /\ call[c].kind = "create" /\ ~dev_auth => Authenticated(c)
    /\ pc[c] = "issue" => users[call[c].user] \in Profile
    /\ pc[c] = "insert" /\ ~dev_auth => saw[c] # NoUser
    /\ pc[c] = "conflict" => dev_auth /\ users[call[c].user] # NoUser
    /\ c \in jobs => pc[c] \in {"done", "raised"} /\ call[c].kind = "create"

TokenOK(t) == users[t.user] \in Profile /\ t.exp <= now + Ttl

NoneMadeUp == ~dev_auth => \A u \in Users : users[u] # placeholder(u)

IInv ==
    /\ TypeOK
    /\ \A u \in Users : RowOK(u)
    /\ \A c \in Calls : SawOK(c) /\ CallOK(c)
    /\ \A t \in tokens : TokenOK(t)
    /\ NoneMadeUp

\* No Google profile is a made-up one.
LEMMA PlaceholderApart ==
  ASSUME NEW u \in Users
  PROVE  /\ placeholder(u) # NoUser /\ placeholder(u) \notin Profile
         /\ placeholder(u).email \notin Emails /\ placeholder(u).name \notin Names
         /\ NoUser \notin Profile
  BY RowsAssumption DEF placeholder, Profile

LEMMA MixedProfiles == ASSUME NEW u PROVE Mixed(u) \subseteq Profile
  BY PayloadsAssumption DEF Mixed, Profile

\* Whatever a login saw, it leaves a row made of verified payloads.
LEMMA UpsertedMixed ==
  ASSUME IInv, NEW c \in Calls, pc[c] = "upsert"
  PROVE  upserted(c, users[call[c].user]) \in Mixed(call[c].user)
  <1> DEFINE u == call[c].user
             row == users[u]
             Own == {g \in Payloads : g.id = u /\ g.email_verified}
  <1>1. u \in Users /\ SawOK(c) /\ RowOK(u)
    BY DEF IInv, CallOK, Asked, Request
  <1>2. PICK g \in Own : call[c].email = g.email /\ call[c].name = g.name
    BY DEF IInv, CallOK, Asked
  <1>3. g.email \in Emails /\ g.name \in Names
    BY PayloadsAssumption
  <1>4. ASSUME NEW a \in Own, NEW b \in Own
        PROVE  [email |-> a.email, name |-> b.name] \in Mixed(u)
    <2>1. <<a, b>> \in Own \X Own /\ <<a, b>>[1] = a /\ <<a, b>>[2] = b
      OBVIOUS
    <2> QED
      BY <2>1 DEF Mixed
  <1>5. CASE saw[c] = NoUser
    BY <1>2, <1>4, <1>5 DEF upserted
  <1>6. CASE saw[c] # NoUser /\ row = placeholder(u)
    <2>1. saw[c] = placeholder(u)
      BY <1>1, <1>6, PlaceholderApart DEF SawOK
    <2>2. call[c].email # saw[c].email /\ call[c].name # saw[c].name
      BY <1>1, <1>2, <1>3, <2>1, PlaceholderApart
    <2> QED
      BY <1>2, <1>4, <1>6, <2>2 DEF upserted
  <1>7. CASE saw[c] # NoUser /\ row # placeholder(u)
    <2>1. row \in Mixed(u)
      BY <1>1, <1>7 DEF SawOK, RowOK
    <2>2. PICK a \in Own, b \in Own : row = [email |-> a.email, name |-> b.name]
      BY <2>1 DEF Mixed
    <2>3. row.email = a.email /\ row.name = b.name
      BY <2>2
    <2>4. upserted(c, row) =
              [email |-> IF call[c].email = saw[c].email THEN a.email ELSE g.email,
               name |-> IF call[c].name = saw[c].name THEN b.name ELSE g.name]
      BY <1>2, <1>7, <2>3 DEF upserted
    <2> QED
      BY <1>2, <1>4, <2>2, <2>4
  <1> QED
    BY <1>5, <1>6, <1>7

\* A table in which no row vanishes and no profile is taken away keeps what
\* the calls saw and what the tokens stand for.
Grows == \A u \in Users : /\ users[u] # NoUser => users'[u] # NoUser
                          /\ users[u] \in Profile => users'[u] \in Profile

\* What remains to be shown of a step of call c.
LEMMA StepOf ==
  ASSUME IInv, UNCHANGED dev_auth, NEW c \in Calls, TypeOK', \A u \in Users : RowOK(u)', Grows, NoneMadeUp',
         now' >= now, tokens \subseteq tokens', \A t \in tokens' \ tokens : TokenOK(t)',
         jobs' \subseteq jobs \cup {c},
         \A d \in Calls \ {c} : pc'[d] = pc[d] /\ call'[d] = call[d] /\ saw'[d] = saw[d],
         SawOK(c)', CallOK(c)'
  PROVE  IInv'
  <1>1. ASSUME NEW t \in tokens PROVE TokenOK(t)'
    <2>1. t.user \in Users /\ t.exp \in Int /\ now \in Int /\ now' \in Int /\ Ttl \in Int
      BY BoundsAssumption DEF IInv, TypeOK
    <2>2. users'[t.user] \in Profile /\ t.exp <= now + Ttl
      BY <2>1 DEF IInv, TokenOK, Grows
    <2> QED
      BY <2>1, <2>2 DEF TokenOK
  <1>2. ASSUME NEW d \in Calls, d # c PROVE SawOK(d)' /\ CallOK(d)'
    <2>1. pc'[d] = pc[d] /\ call'[d] = call[d] /\ saw'[d] = saw[d] /\ (d \in jobs' => d \in jobs)
      BY <1>2
    <2>2. SawOK(d) /\ CallOK(d) /\ (Asked(d) => call[d].user \in Users)
      BY DEF IInv, CallOK, Request
    <2>3. saw[d] # NoUser => call[d].user \in Users
      BY <2>2 DEF CallOK
    <2>4. SawOK(d)'
      BY <2>1, <2>2, <2>3 DEF SawOK, Grows
    <2>5. Authenticated(d) => Authenticated(d)'
      BY <2>1 DEF Authenticated
    <2>6. pc[d] \in {"issue", "conflict"} => call[d].user \in Users
      BY <2>2 DEF Asked
    <2>7. /\ users[call[d].user] # NoUser /\ call[d].user \in Users => users'[call[d].user] # NoUser
          /\ users[call[d].user] \in Profile /\ call[d].user \in Users => users'[call[d].user] \in Profile
      BY DEF Grows
    <2>8. CallOK(d)'
      BY <2>1, <2>2, <2>5, <2>6, <2>7 DEF CallOK, Asked
    <2> QED
      BY <2>4, <2>8
  <1>3. \A t \in tokens' : TokenOK(t)'
    BY <1>1
  <1>4. \A d \in Calls : SawOK(d)' /\ CallOK(d)'
    BY <1>2
  <1> QED
    BY <1>3, <1>4 DEF IInv

LEMMA InitInv == Init => IInv
  BY BoundsAssumption, PlaceholderApart
     DEF Init, IInv, TypeOK, RowOK, SawOK, CallOK, Asked, NoneMadeUp

LEMMA LoginInv ==
  ASSUME IInv, UNCHANGED dev_auth, NEW c \in Calls, NEW g \in Payloads, Login(c, g)
  PROVE  IInv'
  <1> DEFINE r == [kind |-> "login", user |-> g.id, email |-> g.email, name |-> g.name, at |-> now]
  <1>1. r \in Request
    BY PayloadsAssumption DEF IInv, TypeOK, Request
  <1>2. /\ call' = [call EXCEPT ![c] = r] /\ pc' = [pc EXCEPT ![c] = "get"]
        /\ pc[c] = "idle" /\ g.email_verified
        /\ UNCHANGED <<users, jobs, tokens, saw, now>>
    BY DEF Login, GoTo, verified
  <1>3. TypeOK'
    BY <1>1, <1>2 DEF IInv, TypeOK
  <1>4. call'[c] = r /\ pc'[c] = "get" /\ saw'[c] = NoUser /\ c \notin jobs'
    BY <1>2 DEF IInv, TypeOK, CallOK, Asked
  <1>5. SawOK(c)' /\ CallOK(c)'
    BY <1>1, <1>2, <1>4 DEF SawOK, CallOK, Asked
  <1>6. /\ \A u \in Users : RowOK(u)'
        /\ Grows /\ NoneMadeUp' /\ now' >= now
    BY <1>2 DEF IInv, RowOK, Mixed, placeholder, Grows, NoneMadeUp, TypeOK
  <1>7. \A d \in Calls \ {c} : pc'[d] = pc[d] /\ call'[d] = call[d] /\ saw'[d] = saw[d]
    BY <1>2 DEF IInv, TypeOK
  <1> QED
    BY <1>2, <1>3, <1>5, <1>6, <1>7, StepOf

LEMMA StartResearchInv ==
  ASSUME IInv, UNCHANGED dev_auth, NEW c \in Calls, NEW u \in Users, StartResearch(c, u)
  PROVE  IInv'
  <1> DEFINE r == [kind |-> "create", user |-> u, email |-> NoUser, name |-> NoUser, at |-> now]
  <1>1. r \in Request
    BY DEF IInv, TypeOK, Request
  <1>2. /\ call' = [call EXCEPT ![c] = r] /\ pc' = [pc EXCEPT ![c] = "get"]
        /\ pc[c] = "idle" /\ CurrentUser(u)
        /\ UNCHANGED <<users, jobs, tokens, saw, now>>
    BY DEF StartResearch, GoTo
  <1>3. TypeOK'
    BY <1>1, <1>2 DEF IInv, TypeOK
  <1>4. call'[c] = r /\ pc'[c] = "get" /\ saw'[c] = NoUser /\ c \notin jobs'
    BY <1>2 DEF IInv, TypeOK, CallOK, Asked
  <1>5. ~dev_auth => Authenticated(c)'
    BY <1>2, <1>4 DEF CurrentUser, accepted, Authenticated, IInv, TokenOK
  <1>6. SawOK(c)' /\ CallOK(c)'
    BY <1>1, <1>2, <1>4, <1>5 DEF SawOK, CallOK, Asked
  <1>7. /\ \A v \in Users : RowOK(v)'
        /\ Grows /\ NoneMadeUp' /\ now' >= now
    BY <1>2 DEF IInv, RowOK, Mixed, placeholder, Grows, NoneMadeUp, TypeOK
  <1>8. \A d \in Calls \ {c} : pc'[d] = pc[d] /\ call'[d] = call[d] /\ saw'[d] = saw[d]
    BY <1>2 DEF IInv, TypeOK
  <1> QED
    BY <1>2, <1>3, <1>6, <1>7, <1>8, StepOf

LEMMA GetUserInv ==
  ASSUME IInv, UNCHANGED dev_auth, NEW c \in Calls, GetUser(c)
  PROVE  IInv'
  <1> DEFINE u == call[c].user
             next == IF call[c].kind = "login" THEN "upsert" ELSE "insert"
  <1>1. /\ pc[c] = "get" /\ saw' = [saw EXCEPT ![c] = users[u]] /\ pc' = [pc EXCEPT ![c] = next]
        /\ UNCHANGED <<users, jobs, tokens, call, now>>
    BY DEF GetUser, GoTo
  <1>2. call[c] \in Request /\ u \in Users /\ c \notin jobs /\ CallOK(c) /\ RowOK(u)
    BY <1>1 DEF IInv, CallOK, Asked, Request
  <1>3. call[c].kind \in {"login", "create"} /\ users[u] \in Row \cup {NoUser}
    BY <1>2 DEF IInv, TypeOK, Request
  <1>4. TypeOK'
    BY <1>1, <1>3 DEF IInv, TypeOK
  <1>5. saw'[c] = users[u] /\ pc'[c] = next
    BY <1>1 DEF IInv, TypeOK
  <1>6. SawOK(c)'
    BY <1>1, <1>2, <1>5, MixedProfiles DEF SawOK, RowOK, placeholder
  <1>7. Authenticated(c) => Authenticated(c)' /\ users[u] \in Profile
    BY <1>1 DEF IInv, Authenticated, TokenOK
  <1>8. CallOK(c)'
    <2>1. CASE call[c].kind = "login"
      BY <1>1, <1>2, <1>5, <2>1 DEF CallOK, Asked
    <2>2. CASE call[c].kind = "create"
      <3>1. ~dev_auth => Authenticated(c)' /\ saw'[c] # NoUser
        BY <1>1, <1>2, <1>5, <1>7, <2>2, PlaceholderApart DEF CallOK, Asked
      <3> QED
        BY <1>1, <1>2, <1>5, <2>2, <3>1 DEF CallOK, Asked
    <2> QED
      BY <1>3, <2>1, <2>2
  <1>9. /\ \A v \in Users : RowOK(v)'
        /\ Grows /\ NoneMadeUp' /\ now' >= now
    BY <1>1 DEF IInv, RowOK, Mixed, placeholder, Grows, NoneMadeUp, TypeOK
  <1>10. \A d \in Calls \ {c} : pc'[d] = pc[d] /\ call'[d] = call[d] /\ saw'[d] = saw[d]
    BY <1>1 DEF IInv, TypeOK
  <1> QED
    BY <1>1, <1>4, <1>6, <1>8, <1>9, <1>10, StepOf

LEMMA RefuseLoginInv ==
  ASSUME IInv, UNCHANGED dev_auth, NEW c \in Calls, RefuseLogin(c)
  PROVE  IInv'
  <1>1. /\ pc[c] = "idle" /\ pc' = [pc EXCEPT ![c] = "refused"]
        /\ UNCHANGED <<users, jobs, tokens, call, saw, now>>
    BY DEF RefuseLogin, GoTo
  <1>2. TypeOK' /\ pc'[c] = "refused" /\ saw'[c] = NoUser /\ c \notin jobs'
    BY <1>1 DEF IInv, TypeOK, CallOK, Asked
  <1>3. SawOK(c)' /\ CallOK(c)'
    BY <1>1, <1>2 DEF SawOK, CallOK, Asked
  <1>4. /\ \A v \in Users : RowOK(v)'
        /\ Grows /\ NoneMadeUp' /\ now' >= now
    BY <1>1 DEF IInv, RowOK, Mixed, placeholder, Grows, NoneMadeUp, TypeOK
  <1>5. \A d \in Calls \ {c} : pc'[d] = pc[d] /\ call'[d] = call[d] /\ saw'[d] = saw[d]
    BY <1>1 DEF IInv, TypeOK
  <1> QED
    BY <1>1, <1>2, <1>3, <1>4, <1>5, StepOf

\* The effect of upsert_user, whoever else wrote since the row was read.
LEMMA Upserts ==
  ASSUME IInv, UNCHANGED dev_auth, NEW c \in Calls, pc[c] = "upsert", upsert_user(c)
  PROVE  /\ users' \in [Users -> Row \cup {NoUser}]
         /\ \A u \in Users : RowOK(u)'
         /\ Grows /\ NoneMadeUp'
         /\ call[c].user \in Users /\ users'[call[c].user] \in Profile
  <1> DEFINE u == call[c].user
             row == upserted(c, users[u])
  <1>1. u \in Users
    BY DEF IInv, CallOK, Asked, Request
  <1>2. users' = [users EXCEPT ![u] = row] /\ row \in Mixed(u) /\ row \in Profile
    <2>1. users' = [users EXCEPT ![u] = row]
      BY DEF upsert_user
    <2>2. row \in Mixed(u)
      BY UpsertedMixed
    <2> QED
      BY <2>1, <2>2, MixedProfiles
  <1>3. users'[u] = row /\ \A v \in Users \ {u} : users'[v] = users[v]
    BY <1>1, <1>2 DEF IInv, TypeOK
  <1>4. row # NoUser /\ row # placeholder(u)
    BY <1>1, <1>2, PlaceholderApart
  <1>5. users' \in [Users -> Row \cup {NoUser}]
    BY <1>2 DEF IInv, TypeOK, Row
  <1>6. ASSUME NEW v \in Users PROVE RowOK(v)'
    <2>1. users'[v] \in {NoUser, placeholder(v)} \cup Mixed(v)
      BY <1>2, <1>3 DEF IInv, RowOK
    <2> QED
      BY <2>1 DEF RowOK, Mixed, placeholder
  <1>7. Grows /\ NoneMadeUp'
    BY <1>2, <1>3, <1>4 DEF IInv, Grows, NoneMadeUp, placeholder
  <1> QED
    BY <1>1, <1>2, <1>3, <1>5, <1>6, <1>7

\* A login between its commit and its answer.
LEMMA LoginStepInv ==
  ASSUME IInv, UNCHANGED dev_auth, NEW c \in Calls, CommitLogin(c) \/ LoginRaises(c) \/ IssueToken(c)
  PROVE  IInv'
  <1>1. /\ pc[c] \in {"upsert", "issue"}
        /\ UNCHANGED <<jobs, call, saw, now>>
    BY DEF CommitLogin, LoginRaises, IssueToken
  <1>2. /\ call[c] \in Request /\ call[c].kind = "login" /\ call[c].user \in Users /\ c \notin jobs
        /\ SawOK(c) /\ CallOK(c)
    BY <1>1 DEF IInv, CallOK, Asked, Request
  <1>3. CASE CommitLogin(c) \/ (LoginRaises(c) /\ upsert_user(c))
    <2>1. /\ pc[c] = "upsert" /\ upsert_user(c) /\ UNCHANGED tokens
          /\ \E p \in {"issue", "raised"} : pc' = [pc EXCEPT ![c] = p]
      BY <1>3 DEF CommitLogin, LoginRaises, GoTo
    <2>2. /\ users' \in [Users -> Row \cup {NoUser}]
          /\ \A u \in Users : RowOK(u)'
          /\ Grows /\ NoneMadeUp'
          /\ users'[call[c].user] \in Profile
      BY <2>1, Upserts
    <2>3. TypeOK' /\ pc'[c] \in {"issue", "raised"}
      BY <1>1, <2>1, <2>2 DEF IInv, TypeOK
    <2>4. SawOK(c)' /\ CallOK(c)'
      BY <1>1, <1>2, <2>1, <2>2, <2>3 DEF SawOK, CallOK, Asked, Grows
    <2>5. \A d \in Calls \ {c} : pc'[d] = pc[d] /\ call'[d] = call[d] /\ saw'[d] = saw[d]
      BY <1>1, <2>1 DEF IInv, TypeOK
    <2>6. now' >= now
      BY <1>1 DEF IInv, TypeOK
    <2> QED
      BY <1>1, <2>1, <2>2, <2>3, <2>4, <2>5, <2>6, StepOf
  <1>4. CASE (LoginRaises(c) /\ UNCHANGED users) \/ IssueToken(c)
    <2> DEFINE t == [user |-> call[c].user, exp |-> now + Ttl]
    <2>1. /\ UNCHANGED users
          /\ \E p \in {"done", "raised"} : pc' = [pc EXCEPT ![c] = p]
          /\ tokens' = tokens \/ (pc[c] = "issue" /\ tokens' = tokens \cup {t})
      BY <1>4 DEF LoginRaises, IssueToken, GoTo
    <2>2. t \in [user : Users, exp : Ttl..(MaxTime + Ttl)]
      BY <1>2, BoundsAssumption DEF IInv, TypeOK
    <2>3. TypeOK' /\ pc'[c] \in {"done", "raised"}
      BY <1>1, <2>1, <2>2 DEF IInv, TypeOK
    <2>4. \A x \in tokens' \ tokens : TokenOK(x)'
      BY <1>1, <1>2, <2>1, BoundsAssumption DEF IInv, TypeOK, TokenOK, CallOK
    <2>5. SawOK(c)' /\ CallOK(c)'
      BY <1>1, <1>2, <2>1, <2>3 DEF SawOK, CallOK, Asked
    <2>6. /\ \A v \in Users : RowOK(v)'
          /\ Grows /\ NoneMadeUp' /\ now' >= now
      BY <1>1, <2>1 DEF IInv, RowOK, Mixed, placeholder, Grows, NoneMadeUp, TypeOK
    <2>7. \A d \in Calls \ {c} : pc'[d] = pc[d] /\ call'[d] = call[d] /\ saw'[d] = saw[d]
      BY <1>1, <2>1 DEF IInv, TypeOK
    <2> QED
      BY <1>1, <2>1, <2>3, <2>4, <2>5, <2>6, <2>7, StepOf
  <1> QED
    BY <1>3, <1>4 DEF LoginRaises

\* The effect of inserting the user of a job, or of finding him.
LEMMA Inserts ==
  ASSUME IInv, UNCHANGED dev_auth, NEW c \in Calls, pc[c] = "insert", insert_user(c) \/ UNCHANGED users
  PROVE  /\ users' \in [Users -> Row \cup {NoUser}]
         /\ \A u \in Users : RowOK(u)'
         /\ Grows /\ NoneMadeUp'
  <1> DEFINE u == call[c].user
  <1>1. u \in Users /\ (~dev_auth => saw[c] # NoUser)
    BY DEF IInv, CallOK, Asked, Request
  <1>2. CASE UNCHANGED users
    BY <1>2 DEF IInv, TypeOK, RowOK, Mixed, placeholder, Grows, NoneMadeUp
  <1>3. CASE saw[c] = NoUser /\ users[u] = NoUser /\ users' = [users EXCEPT ![u] = placeholder(u)]
    <2>1. users'[u] = placeholder(u) /\ \A v \in Users \ {u} : users'[v] = users[v]
      BY <1>1, <1>3 DEF IInv, TypeOK
    <2>2. placeholder(u) # NoUser /\ NoUser \notin Profile
      BY <1>1, PlaceholderApart
    <2>3. users' \in [Users -> Row \cup {NoUser}]
      BY <1>1, <1>3 DEF IInv, TypeOK, Row
    <2>4. \A v \in Users : RowOK(v)'
      BY <2>1 DEF IInv, RowOK, Mixed, placeholder
    <2>5. Grows /\ NoneMadeUp'
      BY <1>1, <1>3, <2>1, <2>2 DEF Grows, NoneMadeUp
    <2> QED
      BY <2>3, <2>4, <2>5
  <1> QED
    BY <1>2, <1>3 DEF insert_user

LEMMA CreateStepInv ==
  ASSUME IInv, UNCHANGED dev_auth, NEW c \in Calls, CommitCreate(c) \/ CreateConflicts(c) \/ CreateRaises(c)
  PROVE  IInv'
  <1>1. /\ pc[c] = "insert" /\ UNCHANGED <<tokens, call, saw, now>>
        /\ jobs' \subseteq jobs \cup {c}
        /\ insert_user(c) \/ UNCHANGED users
        /\ \/ pc' = [pc EXCEPT ![c] = "done"] \/ pc' = [pc EXCEPT ![c] = "raised"]
           \/ /\ pc' = [pc EXCEPT ![c] = "conflict"] /\ jobs' = jobs /\ UNCHANGED users
              /\ saw[c] = NoUser /\ users[call[c].user] # NoUser
    BY DEF CommitCreate, CreateConflicts, CreateRaises, create, GoTo
  <1>2. /\ users' \in [Users -> Row \cup {NoUser}]
        /\ \A u \in Users : RowOK(u)'
        /\ Grows /\ NoneMadeUp'
    BY <1>1, Inserts
  <1>3. /\ call[c] \in Request /\ call[c].kind = "create" /\ call[c].user \in Users /\ c \notin jobs
        /\ SawOK(c) /\ CallOK(c)
    BY <1>1 DEF IInv, CallOK, Asked, Request
  <1>4. TypeOK'
    BY <1>1, <1>2 DEF IInv, TypeOK
  <1>5. /\ pc'[c] \in {"done", "raised", "conflict"}
        /\ pc'[c] = "conflict" => /\ c \notin jobs' /\ UNCHANGED users
                                 /\ saw[c] = NoUser /\ users[call[c].user] # NoUser
    BY <1>1, <1>3 DEF IInv, TypeOK
  <1>6. Authenticated(c) => Authenticated(c)'
    BY <1>1 DEF Authenticated
  <1>7. SawOK(c)'
    BY <1>1, <1>2, <1>3 DEF SawOK, Grows
  <1>8. CallOK(c)'
    BY <1>1, <1>3, <1>5, <1>6 DEF CallOK, Asked
  <1>9. /\ now' >= now
        /\ \A d \in Calls \ {c} : pc'[d] = pc[d] /\ call'[d] = call[d] /\ saw'[d] = saw[d]
    BY <1>1 DEF IInv, TypeOK
  <1> QED
    BY <1>1, <1>2, <1>4, <1>7, <1>8, <1>9, StepOf

\* The clock, and steps of others: nothing but now may change.
LEMMA TickInv ==
  ASSUME IInv, UNCHANGED dev_auth, Tick \/ UNCHANGED vars
  PROVE  IInv'
  <1>1. /\ UNCHANGED <<users, jobs, tokens, call, saw, pc>>
        /\ now' = now \/ (now < MaxTime /\ now' = now + 1)
    BY DEF Tick, vars
  <1>2. TypeOK' /\ now' >= now
    BY <1>1, BoundsAssumption DEF IInv, TypeOK
  <1>3. ASSUME NEW t \in tokens PROVE TokenOK(t)'
    <2>1. t.exp \in Int /\ now \in Int /\ now' \in Int /\ Ttl \in Int
      BY <1>2, BoundsAssumption DEF IInv, TypeOK
    <2> QED
      BY <1>1, <1>2, <2>1 DEF IInv, TokenOK
  <1>4. \A c \in Calls : SawOK(c)' /\ CallOK(c)'
    BY <1>1 DEF IInv, SawOK, CallOK, Asked, Authenticated, placeholder
  <1>5. (\A u \in Users : RowOK(u)') /\ NoneMadeUp'
    BY <1>1 DEF IInv, RowOK, Mixed, placeholder, NoneMadeUp
  <1> QED
    BY <1>1, <1>2, <1>3, <1>4, <1>5 DEF IInv

LEMMA NextInv == IInv /\ [Next]_vars => IInv'
  BY LoginInv, RefuseLoginInv, GetUserInv, LoginStepInv, StartResearchInv, CreateStepInv, TickInv
     DEF Next, Step, vars

-----------------------------------------------------------------------------
\* Every step of the two endpoints keeps the invariant.
THEOREM Invariance == Spec => []IInv
  BY InitInv, NextInv, PTL DEF Spec

\* Rows, tokens and calls keep their types.
THEOREM TypeCorrect == Spec => []TypeOK
  <1>1. IInv => TypeOK
    BY DEF IInv
  <1> QED
    BY Invariance, <1>1, PTL

\* However the transactions of upsert_user and create interleave, a row holds
\* what verified tokens of its user said, or what create makes up for him.
THEOREM ProfilesAreVerifiedHolds == Spec => []ProfilesAreVerified
  <1>1. ASSUME NEW u \in Users, users[u] \in Mixed(u)
        PROVE  \E g, h \in Payloads :
                   /\ g.id = u /\ g.email_verified /\ users[u].email = g.email
                   /\ h.id = u /\ h.email_verified /\ users[u].name = h.name
    <2> DEFINE Own == {g \in Payloads : g.id = u /\ g.email_verified}
    <2>1. PICK p \in Own \X Own : users[u] = [email |-> p[1].email, name |-> p[2].name]
      BY <1>1 DEF Mixed
    <2>2. p[1] \in Own /\ p[2] \in Own /\ users[u].email = p[1].email /\ users[u].name = p[2].name
      BY <2>1
    <2> QED
      BY <2>2
  <1>2. IInv => ProfilesAreVerified
    BY <1>1 DEF IInv, RowOK, ProfilesAreVerified
  <1> QED
    BY Invariance, <1>2, PTL

\* google_login issues tokens only to users with a profile, who keep one.
THEOREM TokensHaveAccountsHolds == Spec => []TokensHaveAccounts
  <1>1. IInv => TokensHaveAccounts
    BY DEF IInv, TokenOK, TokensHaveAccounts
  <1> QED
    BY Invariance, <1>1, PTL

\* Without development authentication every job follows a login by no more
\* than session_ttl_seconds.
THEOREM JobsFollowLoginsHolds == Spec => []JobsFollowLogins
  <1>1. IInv => JobsFollowLogins
    BY DEF IInv, TypeOK, CallOK, Asked, Authenticated, JobsFollowLogins
  <1> QED
    BY Invariance, <1>1, PTL

\* Without development authentication create never makes up a user.
THEOREM SignedInUsersExistHolds == Spec => []SignedInUsersExist
  <1>1. IInv => SignedInUsersExist
    BY DEF IInv, CallOK, NoneMadeUp, SignedInUsersExist
  <1> QED
    BY Invariance, <1>1, PTL

\* No step of any transaction takes a Google profile away.
THEOREM LoginsStickHolds == Spec => LoginsStick
  <1>1. IInv /\ [Next]_vars => [\A u \in Users : users[u] \in Profile => users'[u] \in Profile]_vars
    <2> SUFFICES ASSUME IInv, Next PROVE Grows
      BY DEF Grows
    <2> UNCHANGED dev_auth
      BY DEF Next
    <2>1. UNCHANGED users => Grows
      BY DEF Grows
    <2>2. ASSUME NEW c \in Calls, CommitLogin(c) \/ LoginRaises(c) PROVE Grows
      BY <2>1, <2>2, Upserts DEF CommitLogin, LoginRaises
    <2>3. ASSUME NEW c \in Calls, CommitCreate(c) \/ CreateRaises(c) PROVE Grows
      BY <2>3, Inserts DEF CommitCreate, CreateRaises, create
    <2> QED
      BY <2>1, <2>2, <2>3
         DEF Next, Step, Login, RefuseLogin, GetUser, IssueToken, StartResearch, CreateConflicts, Tick
  <1> QED
    BY Invariance, <1>1, PTL DEF Spec, LoginsStick
=============================================================================
