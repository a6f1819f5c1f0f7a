---------------------------- MODULE UserAccounts ----------------------------
(***************************************************************************)
(* Who may start research, and the users table behind it: POST             *)
(* /auth/google and get_current_user_id (app/api/routes.py, auth.py),      *)
(* upsert_user and the part of create that inserts the user                *)
(* (app/db/store.py).  Both transactions read the user's row, await, and   *)
(* insert or update it when they commit; at PostgreSQL's default isolation *)
(* others may commit in between.  An INSERT that meets an uncommitted one  *)
(* waits for it, so that a commit is one step.                             *)
(***************************************************************************)
EXTENDS Integers

CONSTANTS
    Users,        \* Google subjects, and ids of the X-User-ID header
    Emails, Names,
    Payloads,     \* what Google ID tokens for this client say
    Calls,        \* requests to log in or to start research
    NoUser,       \* no row
    NoCall,
    Ttl,          \* session_ttl_seconds
    MaxTime       \* bound: the clock

\* The columns of users.  create knows no profile and makes one up, which
\* no Google account has.
placeholder(u) == [email |-> <<u, "local.invalid">>, name |-> u]
Profile == [email : Emails, name : Names]
Request == [kind : {"login", "create"}, user : Users,
            email : Emails \cup {NoUser}, name : Names \cup {NoUser}, at : 0..MaxTime]

ASSUME PayloadsAssumption ==
    Payloads \subseteq
        [id : Users, email : Emails, name : Names, email_verified : BOOLEAN]
ASSUME RowsAssumption ==
    /\ \A u \in Users : placeholder(u).email \notin Emails /\ u \notin Names
    /\ NoUser \notin Profile \cup {placeholder(u) : u \in Users}
    /\ NoCall \notin Request
ASSUME BoundsAssumption ==
    Ttl \in Nat \ {0} /\ MaxTime \in Nat

VARIABLES
    dev_auth, \* allow_dev_auth in a development or test environment; never changes
    users,   \* users[u]: the row of u
    jobs,    \* calls whose research_sessions row is committed
    tokens,  \* session tokens issued
    call,    \* call[c]: what c asks, for whom, and when it was authenticated
    saw,     \* saw[c]: the row c's transaction read
    pc,
    now

vars == <<dev_auth, users, jobs, tokens, call, saw, pc, now>>

Init ==
    /\ dev_auth \in BOOLEAN
    /\ users = [u \in Users |-> NoUser]
    /\ jobs = {}
    /\ tokens = {}
    /\ call = [c \in Calls |-> NoCall]
    /\ saw = [c \in Calls |-> NoUser]
    /\ pc = [c \in Calls |-> "idle"]
    /\ now = 0

GoTo(c, place) == pc' = [pc EXCEPT ![c] = place]

-----------------------------------------------------------------------------
(* google_login *)

\* Mutant of verified: any address will do.
verified_Unchecked(g) == g \in Payloads

\* verify_google_identity
verified(g) == g.email_verified

Login(c, g) ==
    /\ pc[c] = "idle"
    /\ verified(g)
    /\ call' = [call EXCEPT ![c] =
           [kind |-> "login", user |-> g.id, email |-> g.email, name |-> g.name, at |-> now]]
    /\ GoTo(c, "get")
    /\ UNCHANGED <<users, jobs, tokens, saw, now>>

\* 401: not verified; 503: not configured
RefuseLogin(c) ==
    /\ pc[c] = "idle"
    /\ GoTo(c, "refused")
    /\ UNCHANGED <<users, jobs, tokens, call, saw, now>>

\* session.get of upsert_user and of create
GetUser(c) ==
    /\ pc[c] = "get"
    /\ saw' = [saw EXCEPT ![c] = users[call[c].user]]
    /\ GoTo(c, IF call[c].kind = "login" THEN "upsert" ELSE "insert")
    /\ UNCHANGED <<users, jobs, tokens, call, now>>

\* What the transaction writes over row: INSERT of all columns, or UPDATE of
\* those whose values differ from the ones it read.
upserted(c, row) ==
    IF saw[c] = NoUser
    THEN [email |-> call[c].email, name |-> call[c].name]
    ELSE [email |-> IF call[c].email = saw[c].email THEN row.email ELSE call[c].email,
          name |-> IF call[c].name = saw[c].name THEN row.name ELSE call[c].name]

\* The primary key or the unique email is taken.
Conflict(c, row) ==
    LET u == call[c].user IN
    \/ saw[c] = NoUser /\ users[u] # NoUser
    \/ \E v \in Users \ {u} : users[v] # NoUser /\ users[v].email = row.email

upsert_user(c) ==
    LET u == call[c].user
        row == upserted(c, users[u])
    IN  /\ ~Conflict(c, row)
        /\ users' = [users EXCEPT ![u] = row]

CommitLogin(c) ==
    /\ pc[c] = "upsert"
    /\ upsert_user(c)
    /\ GoTo(c, "issue")
    /\ UNCHANGED <<jobs, tokens, call, saw, now>>

\* Mutant of LoginRaises: a login does not depend on the users table.
LoginRaises_Ignored(c) ==
    /\ pc[c] = "upsert"
    /\ GoTo(c, "issue")
    /\ UNCHANGED <<users, jobs, tokens, call, saw, now>>

\* 500: the constraints refuse the row, or the database raises, with the
\* transaction committed or not; 503: committed, but there is no secret.
LoginRaises(c) ==
    /\ pc[c] = "upsert"
    /\ upsert_user(c) \/ UNCHANGED users
    /\ GoTo(c, "raised")
    /\ UNCHANGED <<jobs, tokens, call, saw, now>>

IssueToken(c) ==
    /\ pc[c] = "issue"
    /\ tokens' = tokens \cup {[user |-> call[c].user, exp |-> now + Ttl]}
    /\ GoTo(c, "done")
    /\ UNCHANGED <<users, jobs, call, saw, now>>

-----------------------------------------------------------------------------
(* start_research: authentication, then create *)

\* Mutant of accepted: the expiry is not looked at.
accepted_Expired(t) == t \in tokens

\* SessionTokens.verify
accepted(t) == t \in tokens /\ now < t.exp

\* The user a request acts for: the subject of its token, or, only where
\* development authentication is on, whoever the header names.
CurrentUser(u) == dev_auth \/ \E t \in tokens : accepted(t) /\ t.user = u

StartResearch(c, u) ==
    /\ pc[c] = "idle"
    /\ CurrentUser(u)
    /\ call' = [call EXCEPT ![c] =
           [kind |-> "create", user |-> u, email |-> NoUser, name |-> NoUser, at |-> now]]
    /\ GoTo(c, "get")
    /\ UNCHANGED <<users, jobs, tokens, saw, now>>

\* Mutant of insert_user: session.merge, whatever the row says.
insert_user_Merged(c) ==
    users' = [users EXCEPT ![call[c].user] = placeholder(call[c].user)]

\* Only where no row was seen; refused when there is one by now.
insert_user(c) ==
    LET u == call[c].user IN
    \/ saw[c] # NoUser /\ UNCHANGED users
    \/ saw[c] = NoUser /\ users[u] = NoUser /\ users' = [users EXCEPT ![u] = placeholder(u)]

\* The user and the job in one transaction
create(c) ==
    /\ insert_user(c)
    /\ jobs' = jobs \cup {c}

CommitCreate(c) ==
    /\ pc[c] = "insert"
    /\ create(c)
    /\ GoTo(c, "done")
    /\ UNCHANGED <<tokens, call, saw, now>>

\* 500: another transaction inserted the user since he was looked up.
CreateConflicts(c) ==
    /\ pc[c] = "insert"
    /\ saw[c] = NoUser /\ users[call[c].user] # NoUser
    /\ GoTo(c, "conflict")
    /\ UNCHANGED <<users, jobs, tokens, call, saw, now>>

\* 500: the database raises, with the transaction committed or not.
CreateRaises(c) ==
    /\ pc[c] = "insert"
    /\ create(c) \/ UNCHANGED <<users, jobs>>
    /\ GoTo(c, "raised")
    /\ UNCHANGED <<tokens, call, saw, now>>

Tick ==
    /\ now < MaxTime
    /\ now' = now + 1
    /\ UNCHANGED <<users, jobs, tokens, call, saw, pc>>

-----------------------------------------------------------------------------
Step(c) ==
    \/ \E g \in Payloads : Login(c, g)
    \/ RefuseLogin(c)
    \/ GetUser(c)
    \/ CommitLogin(c) \/ LoginRaises(c) \/ IssueToken(c)
    \/ \E u \in Users : StartResearch(c, u)
    \/ CommitCreate(c) \/ CreateConflicts(c) \/ CreateRaises(c)

Next ==
    /\ (\E c \in Calls : Step(c)) \/ Tick
    /\ UNCHANGED dev_auth

Spec == Init /\ [][Next]_vars

-----------------------------------------------------------------------------
Row == Profile \cup {placeholder(u) : u \in Users}

TypeOK ==
    /\ dev_auth \in BOOLEAN
    /\ users \in [Users -> Row \cup {NoUser}]
    /\ jobs \subseteq Calls
    /\ tokens \subseteq [user : Users, exp : Ttl..(MaxTime + Ttl)]
    /\ call \in [Calls -> Request \cup {NoCall}]
    /\ saw \in [Calls -> Row \cup {NoUser}]
    /\ pc \in [Calls -> {"idle", "get", "upsert", "issue", "insert", "done",
                         "refused", "conflict", "raised"}]
    /\ now \in 0..MaxTime

\* A user's row is the one create makes up for that very user, or holds what
\* verified Google tokens of that user said.  Two concurrent logins of one
\* user may leave the address of one and the name of the other, but nothing
\* of another user, and no half of a made-up row, survives any interleaving.
ProfilesAreVerified ==
    \A u \in Users :
        \/ users[u] \in {NoUser, placeholder(u)}
        \/ \E g, h \in Payloads :
               /\ g.id = u /\ g.email_verified /\ users[u].email = g.email
               /\ h.id = u /\ h.email_verified /\ users[u].name = h.name

\* Whoever holds a session token has an account with a Google profile: a
\* login whose row was refused, or lost, hands out no token, and no create
\* that looked for the user before the login committed undoes the profile.
TokensHaveAccounts == \A t \in tokens : users[t.user] \in Profile

\* Without development authentication, research is started only by users who
\* logged in no more than session_ttl_seconds before.
JobsFollowLogins ==
    ~dev_auth => \A c \in jobs :
        \E t \in tokens : /\ t.user = call[c].user
                          /\ call[c].at < t.exp /\ t.exp <= call[c].at + Ttl

\* Without development authentication create always finds its user: it never
\* makes up a row and never meets the race.
SignedInUsersExist ==
    ~dev_auth => /\ \A u \in Users : users[u] # placeholder(u)
                 /\ \A c \in Calls : pc[c] # "conflict"

\* No step takes a user's Google profile away again, whatever was read before.
LoginsStick == [][\A u \in Users : users[u] \in Profile => users'[u] \in Profile]_vars
=============================================================================
