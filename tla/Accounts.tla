------------------------------- MODULE Accounts -------------------------------
(***************************************************************************)
(* The accounts of teachers: registration, one-time codes by mail and      *)
(* WhatsApp, password recovery, login with its lockout, and what an        *)
(* administrator does to an account.                                       *)
(*                                                                         *)
(* Every operation of auth_store is one statement, and every handler is a  *)
(* lookup, a decision, and at most one or two statements after it.  The    *)
(* lookup and the decision are one step here: nothing shared is touched in *)
(* between.  A handler that returns early leaves everything as it was and  *)
(* is no step.                                                             *)
(***************************************************************************)
EXTENDS Integers, FiniteSets

CONSTANTS
  Users,              \* usernames, each with an e-mail address of its own
  Servers, Threads,   \* server processes and their HTTP threads
  Home,               \* Home[t]: the server of thread t
  kMaxOtpAttempts,    \* wrong codes until a code is disabled
  kLoginFailureLimit, \* wrong passwords until a login is locked
  MaxCodes,           \* bound: generated codes
  Workloads,          \* bound: how many requests of each kind a behaviour has
  MaxEvents           \* bound: MaxEvents[k] failures of kind k, "any" of all kinds

Events == {"stmt_failure", "mail_failure", "restart", "any"}

Kinds == {"register", "guess", "renew", "login", "admin", "time",
          "redeem", "activate", "voucher"}

ASSUME AccountsAssumption ==
  /\ IsFiniteSet(Users) /\ IsFiniteSet(Threads) /\ Home \in [Threads -> Servers]
  /\ kMaxOtpAttempts \in Nat \ {0} /\ kLoginFailureLimit \in Nat \ {0}
  /\ MaxCodes \in Nat
  /\ Workloads \subseteq [Kinds -> Nat]
  /\ MaxEvents \in [Events -> Nat]

NoCode == 0
Codes  == 1..MaxCodes

\* A row of admin_users, as far as these handlers write it.  The other
\* columns are written by edit_user and by the vouchers.
Row == [id : Nat, status : {"none", "pending_otp", "active", "suspended"},
        code : Codes \cup {NoCode}, tries : Nat]

NoRow == [id |-> 0, status |-> "none", code |-> NoCode, tries |-> 0]

VARIABLES
  users,    \* table admin_users
  shadow,   \* shadow[v]: the map g_users of auth_store.cpp in server v
  ids,      \* the last id of admin_users and of the maps
  codes,    \* the number of codes generated so far
  age,      \* age[c]: "new" for the first 60 s, "old" after its 15 minutes
  fails,    \* fails[v][u]: g_login_failures of server v
  hot,      \* hot[v]: the users whose last failure is less than 15 minutes ago
  pc, req,  \* per thread: its stage, and the request it serves
  left,     \* the requests of each kind that are still to come
  env,
  wrong,    \* history: wrong[c]: wrong guesses that were compared with c
  stands,   \* history: users suspended when no activation was under way
  shadowed  \* history: users that some map has ever held

tables   == <<users, shadow, ids, stands, shadowed>>
otp      == <<codes, age, wrong>>
lockout  == <<fails, hot>>
handlers == <<pc, req>>
accountVars == <<tables, otp, lockout, handlers, left, env>>

Stages == {"idle", "insert", "mail", "delete", "bump", "disable", "activate",
           "password", "renew", "count", "welcome", "status", "verify"}

NoReq == [op |-> "none", user |-> "none", row |-> NoRow]

Occur(k) == /\ env[k] < MaxEvents[k] /\ env["any"] < MaxEvents["any"]
            /\ env' = [e \in Events |-> IF e \in {k, "any"} THEN env[e] + 1 ELSE env[e]]

Spend(k) == left[k] > 0 /\ left' = [left EXCEPT ![k] = @ - 1]

\* Thread t takes a request of kind k and goes on at stage s.
Take(t, k, s, op, u, r) ==
  /\ pc[t] = "idle" /\ Spend(k)
  /\ pc'  = [pc EXCEPT ![t] = s]
  /\ req' = [req EXCEPT ![t] = [op |-> op, user |-> u, row |-> r]]

Goto(t, s) ==
  /\ pc'  = [pc EXCEPT ![t] = s]
  /\ req' = IF s = "idle" THEN [req EXCEPT ![t] = NoReq] ELSE req

-----------------------------------------------------------------------------
(***************************************************************************)
(* auth_store: the map of the server first, then the table.                *)
(***************************************************************************)
InMemory(t, u) == shadow[Home[t]][u].status # "none"

Found(t, u) == IF InMemory(t, u) THEN shadow[Home[t]][u] ELSE users[u]

\* An operation of auth_store writes r for user u.
Store(t, u, r) ==
  IF InMemory(t, u)
  THEN shadow' = [shadow EXCEPT ![Home[t]][u] = r] /\ UNCHANGED users
  ELSE users' = [users EXCEPT ![u] = r] /\ UNCHANGED shadow

\* activate_registered_user, update_user_otp and update_user_password: an
\* UPDATE by name, of whatever row has the name by now; of no row, nothing.
Activated(r) == [r EXCEPT !.status = "active", !.code = NoCode]
WithCode(r, c) == [r EXCEPT !.code = c, !.tries = 0]

Update(t, u, r) ==
  /\ IF Found(t, u).status = "none" THEN UNCHANGED <<users, shadow>> ELSE Store(t, u, r)
  /\ UNCHANGED <<ids, stands, shadowed>>

\* An UPDATE that fails is not noticed by any of the handlers.
Fails(t, u) == ~InMemory(t, u) /\ Occur("stmt_failure") /\ UNCHANGED tables

Erase(t, u) ==
  /\ Store(t, u, NoRow)
  /\ stands' = IF InMemory(t, u) THEN stands ELSE stands \ {u}
  /\ UNCHANGED <<ids, shadowed>>

ReusedCode == IF codes = 0 THEN 1 ELSE codes  \* mutant: the code of the request before
FreshCode == codes + 1

Generate ==
  /\ codes < MaxCodes
  /\ codes' = codes + 1
  /\ age' = [age EXCEPT ![codes + 1] = "new"]
  /\ UNCHANGED wrong

-----------------------------------------------------------------------------
(***************************************************************************)
(* register_handler.                                                       *)
(***************************************************************************)
\* The name is free, or it cannot be looked up.
Register(t) ==
  /\ \E u \in Users :
       /\ Take(t, "register", "insert", "register", u, NoRow)
       /\ \/ Found(t, u).status = "none" /\ UNCHANGED env
          \/ ~InMemory(t, u) /\ users[u].status # "none" /\ Occur("stmt_failure")
  /\ UNCHANGED <<tables, otp, lockout>>

\* insert_registered_user(r).  When the table does not take the row, because
\* the name is taken or a statement fails, the map of the server does; when that
\* has the name too, the answer is a refusal.
InsertUser(t, u, r, next) ==
  \/ /\ users[u].status = "none"
     /\ users' = [users EXCEPT ![u] = r]
     /\ Goto(t, next)
     /\ UNCHANGED <<shadow, shadowed, env>>
  \/ /\ \/ users[u].status # "none" /\ UNCHANGED <<users, env>>
        \/ /\ users[u].status = "none" /\ Occur("stmt_failure")
           /\ users' \in {users, [users EXCEPT ![u] = r]}
     /\ IF InMemory(t, u)
        THEN Goto(t, "idle") /\ UNCHANGED <<shadow, shadowed>>
        ELSE /\ shadow' = [shadow EXCEPT ![Home[t]][u] = r]
             /\ shadowed' = shadowed \cup {u}
             /\ Goto(t, next)

\* Without e-mail verification the account is active at once.
Insert(t) ==
  /\ pc[t] = "insert"
  /\ \/ /\ Generate
        /\ InsertUser(t, req[t].user, [id |-> ids + 1, status |-> "pending_otp",
                                      code |-> FreshCode, tries |-> 0], "mail")
     \/ /\ InsertUser(t, req[t].user, [id |-> ids + 1, status |-> "active",
                                      code |-> NoCode, tries |-> 0], "idle")
        /\ UNCHANGED otp
  /\ ids' = ids + 1
  /\ UNCHANGED <<stands, lockout, left>>

\* The code is mailed; when that fails the account is deleted by its name.
Mail(t) ==
  /\ pc[t] = "mail" /\ Goto(t, "idle")
  /\ \/ UNCHANGED <<tables, env>>
     \/ Occur("mail_failure") /\ Erase(t, req[t].user)
  /\ UNCHANGED <<otp, lockout, left>>

-----------------------------------------------------------------------------
(***************************************************************************)
(* register_confirm_handler, reset_password_handler, webhook.              *)
(***************************************************************************)
Seen(t, op, u) == IF op = "webhook" THEN users[u] ELSE Found(t, u)

\* mutant: the status of the account is not asked for
AwaitedAny(op) == {"pending_otp", "active", "suspended"}

\* The status in which a code is accepted.
Awaited(op) == {IF op = "reset" THEN "active" ELSE "pending_otp"}

\* A code is compared with that of the account: when it is too old, when it is
\* the right one, and else.  An empty code is refused by the forms; the webhook
\* compares it, and counts.
Guess(t, op, expired, right) ==
  /\ \E u \in Users :
       LET r == Seen(t, op, u)
           old == r.code # NoCode /\ age[r.code] = "old" IN
       /\ r.status \in Awaited(op)
       /\ r.code = NoCode => op = "webhook"
       /\ \/ old /\ Take(t, "guess", expired, op, u, r) /\ UNCHANGED wrong
          \/ /\ ~old /\ r.code # NoCode
             /\ Take(t, "guess", right, op, u, r) /\ UNCHANGED wrong
          \/ /\ ~old /\ Take(t, "guess", "bump", op, u, r)
             /\ wrong' = IF r.code = NoCode THEN wrong ELSE [wrong EXCEPT ![r.code] = @ + 1]
  /\ UNCHANGED <<tables, codes, age, lockout, env>>

Confirm(t) == Guess(t, "confirm", "delete", "activate")
Reset(t)   == Guess(t, "reset", "disable", "password")
Webhook(t) == Guess(t, "webhook", "disable", "activate")

ExhaustedLate(n) == n > kMaxOtpAttempts  \* mutant: one more
Exhausted(n) == n >= kMaxOtpAttempts

\* bump_otp_attempts: the row is incremented and its new count returned.
Bump(t) ==
  LET u == req[t].user
      r == Found(t, u) IN
  /\ pc[t] = "bump"
  /\ \/ /\ r.status # "none"
        /\ Store(t, u, [r EXCEPT !.tries = @ + 1])
        /\ Goto(t, IF Exhausted(r.tries + 1) THEN "disable" ELSE "idle")
        /\ UNCHANGED <<ids, stands, shadowed, env>>
     \/ \* No row, or no answer: the handler goes on as after a first mistake.
        /\ IF r.status = "none" THEN UNCHANGED <<tables, env>>
           ELSE /\ ~InMemory(t, u) /\ Occur("stmt_failure")
                /\ users' \in {users, [users EXCEPT ![u].tries = @ + 1]}
                /\ UNCHANGED <<shadow, ids, stands, shadowed>>
        /\ Goto(t, "idle")
  /\ UNCHANGED <<otp, lockout, left>>

\* update_user_otp with an empty code.
Disable(t) ==
  /\ pc[t] = "disable" /\ Goto(t, "idle")
  /\ \/ Update(t, req[t].user, WithCode(Found(t, req[t].user), NoCode)) /\ UNCHANGED env
     \/ Fails(t, req[t].user)
  /\ UNCHANGED <<otp, lockout, left>>

\* A code that has expired: confirm deletes the account by its name.
DeleteExpired(t) ==
  /\ pc[t] = "delete" /\ Goto(t, "idle")
  /\ \/ Erase(t, req[t].user) /\ UNCHANGED env
     \/ Fails(t, req[t].user)
  /\ UNCHANGED <<otp, lockout, left>>

\* The webhook updates the table, whatever the map holds.
Activate(t) ==
  LET u == req[t].user IN
  /\ pc[t] = "activate" /\ Goto(t, "idle")
  /\ \/ /\ IF req[t].op = "webhook"
           THEN /\ users' = IF users[u].status = "none" THEN users
                            ELSE [users EXCEPT ![u] = Activated(@)]
                /\ UNCHANGED <<shadow, ids, stands, shadowed>>
           ELSE Update(t, u, Activated(Found(t, u)))
        /\ UNCHANGED env
     \/ /\ req[t].op = "webhook" \/ ~InMemory(t, u)
        /\ Occur("stmt_failure") /\ UNCHANGED tables
  /\ UNCHANGED <<otp, lockout, left>>

Password(t) ==
  /\ pc[t] = "password" /\ Goto(t, "idle")
  /\ \/ Update(t, req[t].user, WithCode(Found(t, req[t].user), NoCode)) /\ UNCHANGED env
     \/ Fails(t, req[t].user)
  /\ UNCHANGED <<otp, lockout, left>>

-----------------------------------------------------------------------------
(***************************************************************************)
(* resend_otp and forgot_password_handler.                                 *)
(***************************************************************************)
\* No code in the first 60 s of the last one.
AskCode(t, op, status) ==
  /\ \E u \in Users :
       LET r == Found(t, u) IN
       /\ r.status = status
       /\ r.code # NoCode => age[r.code] # "new"
       /\ Take(t, "renew", "renew", op, u, r)
  /\ UNCHANGED <<tables, otp, lockout, env>>

Resend(t) == AskCode(t, "resend", "pending_otp")
Forgot(t) == AskCode(t, "forgot", "active")

\* The new code is mailed whether or not it was stored.
Renew(t) ==
  LET u == req[t].user IN
  /\ pc[t] = "renew" /\ Goto(t, "idle") /\ Generate
  /\ \/ Update(t, u, WithCode(Found(t, u), FreshCode)) /\ UNCHANGED env
     \/ Fails(t, req[t].user)
  /\ UNCHANGED <<lockout, left>>

-----------------------------------------------------------------------------
(***************************************************************************)
(* login_handler.                                                          *)
(***************************************************************************)
Locked(v, u) == u \in hot[v] /\ fails[v][u] >= kLoginFailureLimit

\* The lockout is looked at, then the password is compared, then the outcome
\* is counted.
Login(t) ==
  LET v == Home[t] IN
  /\ \E u \in Users, right \in BOOLEAN :
       /\ ~Locked(v, u)
       /\ Take(t, "login", IF right /\ users[u].status = "active" THEN "welcome" ELSE "count",
               "login", u, NoRow)
       /\ fails' = IF u \in hot[v] THEN fails ELSE [fails EXCEPT ![v][u] = 0]
  /\ UNCHANGED <<tables, otp, hot, env>>

LoginFailed(t) ==
  LET v == Home[t]
      u == req[t].user IN
  /\ pc[t] = "count" /\ Goto(t, "idle")
  /\ fails' = [fails EXCEPT ![v][u] = @ + 1]
  /\ hot' = [hot EXCEPT ![v] = @ \cup {u}]
  /\ UNCHANGED <<tables, otp, left, env>>

LoggedIn(t) ==
  /\ pc[t] = "welcome" /\ Goto(t, "idle")
  /\ fails' = [fails EXCEPT ![Home[t]][req[t].user] = 0]
  /\ UNCHANGED <<tables, otp, hot, left, env>>

-----------------------------------------------------------------------------
(***************************************************************************)
(* What an administrator does; rows are found by their id.                 *)
(***************************************************************************)
CreateUser ==
  /\ Spend("admin")
  /\ \E u \in Users :
       /\ users[u].status = "none"
       /\ users' = [users EXCEPT ![u] = [NoRow EXCEPT !.id = ids + 1, !.status = "active"]]
  /\ ids' = ids + 1
  /\ UNCHANGED <<shadow, stands, shadowed, otp, lockout, handlers, env>>

Deleted(u) ==
  /\ users[u].status # "none"
  /\ users' = [users EXCEPT ![u] = NoRow] /\ stands' = stands \ {u}

DeleteUser ==
  /\ Spend("admin")
  /\ \E u \in Users : Deleted(u)
  /\ UNCHANGED <<shadow, ids, shadowed, otp, lockout, handlers, env>>

\* user_toggle_status and user_verify read the status and then write it.
AskStatus(t, op, statuses) ==
  /\ \E u \in Users : users[u].status \in statuses /\ Take(t, "admin", op, op, u, users[u])
  /\ UNCHANGED <<tables, otp, lockout, env>>

ToggleStatus(t) == AskStatus(t, "status", {"active", "suspended"})
Verify(t)       == AskStatus(t, "verify", {"pending_otp"})

\* A thread that is about to activate the account of u.
Activating(t, u) == pc[t] \in {"activate", "verify"} /\ req[t].user = u

SetStatus(t) ==
  LET u == req[t].user
      to == IF req[t].row.status = "active" THEN "suspended" ELSE "active" IN
  /\ pc[t] \in {"status", "verify"} /\ Goto(t, "idle")
  /\ \/ /\ users[u].id = req[t].row.id
        /\ users' = [users EXCEPT ![u] = IF pc[t] = "verify" THEN Activated(@)
                                         ELSE [@ EXCEPT !.status = to]]
        /\ stands' = IF pc[t] = "status" /\ to = "suspended"
                        /\ \A s \in Threads : ~Activating(s, u)
                     THEN stands \cup {u} ELSE stands \ {u}
        /\ UNCHANGED env
     \/ users[u].id # req[t].row.id /\ UNCHANGED <<users, stands, env>>
     \/ Occur("stmt_failure") /\ UNCHANGED <<users, stands>>
  /\ UNCHANGED <<shadow, ids, shadowed, otp, lockout, left>>

-----------------------------------------------------------------------------
(***************************************************************************)
(* Time, and a restart of a server: its maps are gone.                     *)
(***************************************************************************)
TimePasses ==
  /\ Spend("time")
  /\ \/ /\ \E c \in 1..codes :
             /\ age[c] # "old"
             /\ age' = [age EXCEPT ![c] = IF @ = "new" THEN "good" ELSE "old"]
        /\ UNCHANGED hot
     \/ /\ \E v \in Servers, u \in Users : u \in hot[v] /\ hot' = [hot EXCEPT ![v] = @ \ {u}]
        /\ UNCHANGED age
  /\ UNCHANGED <<tables, codes, wrong, fails, handlers, env>>

Restart(v) ==
  LET mine == {t \in Threads : Home[t] = v} IN
  /\ Occur("restart")
  /\ shadow' = [shadow EXCEPT ![v] = [u \in Users |-> NoRow]]
  /\ fails'  = [fails EXCEPT ![v] = [u \in Users |-> 0]]
  /\ hot'    = [hot EXCEPT ![v] = {}]
  /\ pc'  = [t \in Threads |-> IF t \in mine THEN "idle" ELSE pc[t]]
  /\ req' = [t \in Threads |-> IF t \in mine THEN NoReq ELSE req[t]]
  /\ UNCHANGED <<users, ids, stands, shadowed, otp, left>>

\* Some accounts exist, with a rank in the order in which they were made.
AccountInit ==
  /\ \E Old \in SUBSET Users : \E rank \in [Old -> 1..Cardinality(Old)] :
       /\ \A a, b \in Old : rank[a] = rank[b] => a = b
       /\ users = [u \in Users |-> IF u \in Old THEN [NoRow EXCEPT !.id = rank[u], !.status = "active"]
                                  ELSE NoRow]
       /\ ids = Cardinality(Old)
  /\ shadow = [v \in Servers |-> [u \in Users |-> NoRow]]
  /\ codes = 0 /\ age = [c \in Codes |-> "new"]
  /\ fails = [v \in Servers |-> [u \in Users |-> 0]] /\ hot = [v \in Servers |-> {}]
  /\ pc = [t \in Threads |-> "idle"] /\ req = [t \in Threads |-> NoReq]
  /\ left \in Workloads /\ env = [e \in Events |-> 0]
  /\ wrong = [c \in Codes |-> 0] /\ stands = {} /\ shadowed = {}

Step(t) ==
  \/ Register(t) \/ Insert(t) \/ Mail(t)
  \/ Confirm(t) \/ Reset(t) \/ Webhook(t) \/ Bump(t) \/ Disable(t) \/ DeleteExpired(t) \/ Activate(t) \/ Password(t)
  \/ Resend(t) \/ Forgot(t) \/ Renew(t)
  \/ Login(t) \/ LoginFailed(t) \/ LoggedIn(t)
  \/ ToggleStatus(t) \/ Verify(t) \/ SetStatus(t)

AccountNext ==
  \/ \E t \in Threads : Step(t)
  \/ CreateUser \/ DeleteUser \/ TimePasses
  \/ \E v \in Servers : Restart(v)

AccountSpec == AccountInit /\ [][AccountNext]_accountVars

-----------------------------------------------------------------------------
\* No two accounts hold the same code.
CodesDistinct == \A u, w \in Users :
  users[u].code = users[w].code /\ users[u].code # NoCode => u = w

AccountsTypeOK ==
  /\ users \in [Users -> Row] /\ CodesDistinct
  /\ shadow \in [Servers -> [Users -> Row]]
  /\ ids \in Nat /\ codes \in 0..MaxCodes
  /\ age \in [Codes -> {"new", "good", "old"}]
  /\ fails \in [Servers -> [Users -> Nat]] /\ hot \in [Servers -> SUBSET Users]
  /\ DOMAIN pc = Threads
  /\ req \in [Threads -> [op : {"none", "register", "confirm", "reset", "webhook", "resend",
                                "forgot", "login", "status", "verify", "redeem", "activate"},
                          user : Users \cup {"none"}, row : Row]]
  /\ left \in [Kinds -> Nat] /\ env \in [Events -> Nat]
  /\ wrong \in [Codes -> Nat] /\ stands \subseteq Users /\ shadowed \subseteq Users

\* However many threads guess at once, by the form, the reset page or the
\* webhook: a code is compared with fewer than kMaxOtpAttempts wrong ones, and
\* one more for each thread, then and at each restart, which forgets guesses
\* that were compared and not yet counted.  (bump_otp_attempts increments and
\* returns in one statement.)  It needs every statement to be executed, and no
\* account in the map of a server.
OtpGuessesBounded ==
  env["stmt_failure"] = 0 /\ shadowed = {} =>
    \A c \in Codes : wrong[c] < kMaxOtpAttempts + Cardinality(Threads) * (env["restart"] + 1)

\* The same for the passwords of a login, per server.
LoginGuessesBounded ==
  \A v \in Servers, u \in Users :
    fails[v][u] < kLoginFailureLimit + Cardinality({t \in Threads : Home[t] = v})

GuessesBounded == OtpGuessesBounded /\ LoginGuessesBounded

\* An account that was suspended when no activation of it was under way stays
\* suspended until an administrator changes that: no code, whenever it was
\* sent, opens it again.
SuspensionStands ==
  shadowed = {} => \A u \in stands : users[u].status = "suspended"
===============================================================================
