----------------------------- MODULE VouchersProofs -----------------------------
(***************************************************************************)
(* Proofs about Vouchers and the Accounts it extends, for every number of  *)
(* users, servers and threads, and whatever the bounds are.                *)
(***************************************************************************)
EXTENDS Vouchers, FiniteSetTheorems, TLAPS

\* The variables that decide about suspensions.
RowTypeOK ==
  /\ users \in [Users -> Row] /\ shadow \in [Servers -> [Users -> Row]]
  /\ ids \in Nat /\ codes \in 0..MaxCodes
  /\ DOMAIN pc = Threads /\ DOMAIN req = Threads
  /\ stands \subseteq Users

\* A request of an account names it.
Serving == \A t \in Threads : pc[t] \notin {"idle", "toggle"} => req[t].user \in Users

\* What a map of a server holds was counted.
MapsCounted ==
  \A v \in Servers, u \in Users : shadow[v][u].status # "none" => u \in shadowed

\* No activation of a suspended account is under way: that is what "stands"
\* remembers, and no thread begins one while the account is suspended.
Standing ==
  shadowed = {} => \A u \in stands :
    users[u].status = "suspended" /\ \A t \in Threads : ~Activating(t, u)

SuspInv == RowTypeOK /\ Serving /\ MapsCounted /\ Standing

-----------------------------------------------------------------------------
LEMMA HomeServer == \A t \in Threads : Home[t] \in Servers
  BY AccountsAssumption

LEMMA NoRowType == NoRow \in Row
  BY DEF NoRow, Row, NoCode

\* While no map holds an account, every look-up is one in the table.
LEMMA FoundInTable ==
  ASSUME SuspInv, NEW t \in Threads, NEW u \in Users
  PROVE  /\ Found(t, u) \in Row
         /\ InMemory(t, u) => shadowed # {}
         /\ shadowed = {} => Found(t, u) = users[u]
  BY HomeServer DEF SuspInv, RowTypeOK, MapsCounted, Found, InMemory

LEMMA StoreFacts ==
  ASSUME SuspInv, NEW t \in Threads, NEW u, NEW r \in Row, Store(t, u, r)
  PROVE  /\ users' \in [Users -> Row] /\ shadow' \in [Servers -> [Users -> Row]]
         /\ \A x \in Users : users'[x] = users[x] \/ (x = u /\ ~InMemory(t, u) /\ users'[x] = r)
         /\ \A v \in Servers, x \in Users :
              shadow'[v][x].status # "none" => shadow[v][x].status # "none"
<1>1. CASE InMemory(t, u)
  <2> DEFINE h == Home[t]
  <2>1. users' = users /\ shadow' = [shadow EXCEPT ![h] = [shadow[h] EXCEPT ![u] = r]]
    BY <1>1 DEF Store
  <2>2. h \in Servers /\ shadow[h] \in [Users -> Row] /\ shadow[h][u].status # "none"
    BY <1>1, HomeServer DEF SuspInv, RowTypeOK, InMemory
  <2> HIDE DEF h
  <2>3. [shadow[h] EXCEPT ![u] = r] \in [Users -> Row]
    BY <2>2
  <2>4. shadow' \in [Servers -> [Users -> Row]]
    BY <2>1, <2>2, <2>3 DEF SuspInv, RowTypeOK
  <2>5. \A v \in Servers, x \in Users :
          shadow'[v][x].status # "none" => shadow[v][x].status # "none"
    BY <2>1, <2>2 DEF SuspInv, RowTypeOK
  <2> QED  BY <2>1, <2>4, <2>5 DEF SuspInv, RowTypeOK
<1>2. CASE ~InMemory(t, u)
  <2>1. users' = [users EXCEPT ![u] = r] /\ shadow' = shadow
    BY <1>2 DEF Store
  <2> QED  BY <1>2, <2>1 DEF SuspInv, RowTypeOK
<1> QED  BY <1>1, <1>2

-----------------------------------------------------------------------------
(***************************************************************************)
(* What a step may do to the tables and to the threads.                    *)
(***************************************************************************)
\* Nobody begins to activate an account that is suspended for good.
NoneBegins ==
  shadowed' = {} => \A u \in stands, t \in Threads : Activating(t, u)' => Activating(t, u)

\* No row that stands is written, or else its status is left.
RowsKept ==
  /\ users' \in [Users -> Row] /\ shadow' \in [Servers -> [Users -> Row]]
  /\ ids' \in Nat /\ codes' \in 0..MaxCodes
  /\ shadowed \subseteq shadowed'
  /\ \A v \in Servers, u \in Users :
       shadow'[v][u].status # "none" => shadow[v][u].status # "none" \/ u \in shadowed'
  /\ stands' \subseteq stands
  /\ shadowed' = {} => \A u \in stands' : users[u].status = "suspended"
                         => users'[u].status = "suspended"

Threaded == DOMAIN pc' = Threads /\ DOMAIN req' = Threads /\ Serving'

LEMMA KeptStanding ==
  ASSUME SuspInv, Threaded, NoneBegins, RowsKept
  PROVE  SuspInv'
<1>1. RowTypeOK' /\ MapsCounted'
  BY DEF SuspInv, RowTypeOK, MapsCounted, Threaded, RowsKept
<1>2. Standing'
  BY DEF SuspInv, RowTypeOK, Standing, Threaded, NoneBegins, RowsKept
<1> QED  BY <1>1, <1>2 DEF SuspInv, Threaded

LEMMA TablesKept ==
  ASSUME SuspInv, UNCHANGED tables, codes' \in 0..MaxCodes
  PROVE  RowsKept
  BY DEF SuspInv, RowTypeOK, MapsCounted, RowsKept, tables

\* A thread goes on, but not to activate.
LEMMA GoesOn ==
  ASSUME SuspInv, NEW t \in Threads, NEW s, s \notin {"activate", "verify"},
         pc' = [pc EXCEPT ![t] = s], 
         req' = req \/ \E q : req' = [req EXCEPT ![t] = q],
         s \notin {"idle", "toggle"} => req'[t].user \in Users
  PROVE  Threaded /\ NoneBegins
<1>1. Threaded
  <2>1. \A x \in Threads : x # t => pc'[x] = pc[x] /\ req'[x] = req[x]
    BY DEF SuspInv, RowTypeOK
  <2>2. pc'[t] = s
    BY DEF SuspInv, RowTypeOK
  <2> QED  BY <2>1, <2>2 DEF SuspInv, RowTypeOK, Serving, Threaded
<1>2. ASSUME NEW u, NEW x \in Threads, Activating(x, u)'
      PROVE  Activating(x, u)
  <2>1. x # t
    BY <1>2 DEF Activating, SuspInv, RowTypeOK
  <2>2. pc'[x] = pc[x] /\ req'[x] = req[x]
    BY <2>1 DEF SuspInv, RowTypeOK
  <2> QED  BY <1>2, <2>2 DEF Activating
<1> QED  BY <1>1, <1>2 DEF NoneBegins

LEMMA GotoGoesOn ==
  ASSUME SuspInv, NEW t \in Threads, NEW s, s \notin {"activate", "verify"}, Goto(t, s),
         s # "idle" => pc[t] \notin {"idle", "toggle"}
  PROVE  Threaded /\ NoneBegins
<1>1. pc' = [pc EXCEPT ![t] = s] /\ (req' = req \/ \E q : req' = [req EXCEPT ![t] = q])
  BY DEF Goto
<1>2. s # "idle" => req'[t].user \in Users
  BY DEF Goto, SuspInv, Serving
<1> QED  BY <1>1, <1>2, GoesOn

\* A request is taken; one that may activate is of an account that waits.
LEMMA TakeGoesOn ==
  ASSUME SuspInv, NEW t \in Threads, NEW k, NEW s, NEW op, NEW u \in Users, NEW r,
         Take(t, k, s, op, u, r),
         s \in {"activate", "verify"} => (shadowed = {} => users[u].status # "suspended"),
         shadowed' = shadowed
  PROVE  Threaded /\ NoneBegins
<1>1. pc' = [pc EXCEPT ![t] = s] /\ req' = [req EXCEPT ![t] = [op |-> op, user |-> u, row |-> r]]
  BY DEF Take
<1>2. Threaded
  <2>1. \A x \in Threads : x # t => pc'[x] = pc[x] /\ req'[x] = req[x]
    BY <1>1 DEF SuspInv, RowTypeOK
  <2>2. pc'[t] = s /\ req'[t].user = u
    BY <1>1 DEF SuspInv, RowTypeOK
  <2> QED  BY <1>1, <2>1, <2>2 DEF SuspInv, RowTypeOK, Serving, Threaded
<1>3. ASSUME NEW w \in stands, NEW x \in Threads, shadowed' = {}, Activating(x, w)'
      PROVE  Activating(x, w)
  <2>1. CASE x # t
    <3>1. pc'[x] = pc[x] /\ req'[x] = req[x]
      BY <1>1, <2>1 DEF SuspInv, RowTypeOK
    <3> QED  BY <1>3, <3>1 DEF Activating
  <2>2. CASE x = t
    <3>1. pc'[t] = s /\ req'[t].user = u
      BY <1>1 DEF SuspInv, RowTypeOK
    <3>2. s \in {"activate", "verify"} /\ u = w
      BY <1>3, <2>2, <3>1 DEF Activating
    <3> QED  BY <1>3, <3>2 DEF SuspInv, Standing
  <2> QED  BY <2>1, <2>2
<1> QED  BY <1>2, <1>3 DEF NoneBegins
-----------------------------------------------------------------------------
(***************************************************************************)
(* The requests.                                                           *)
(***************************************************************************)
LEMMA GenerateCodes == SuspInv /\ (Generate \/ UNCHANGED codes) => codes' \in 0..MaxCodes
  BY AccountsAssumption DEF SuspInv, RowTypeOK, Generate

LEMMA AskKeeps ==
  ASSUME SuspInv, NEW t \in Threads,
         Register(t) \/ Resend(t) \/ Forgot(t) \/ ToggleStatus(t) \/ Verify(t) \/ Login(t)
  PROVE  SuspInv'
<1>1. RowsKept /\ shadowed' = shadowed
  BY TablesKept DEF Register, Resend, Forgot, AskCode, ToggleStatus, Verify, AskStatus, Login,
     tables, otp, SuspInv, RowTypeOK
<1>2. ASSUME NEW u \in Users, NEW k, NEW s, NEW op, NEW r, Take(t, k, s, op, u, r),
             s \in {"activate", "verify"} => users[u].status # "suspended"
      PROVE  SuspInv'
  <2>1. Threaded /\ NoneBegins
    BY <1>1, <1>2, TakeGoesOn
  <2> QED  BY <1>1, <2>1, KeptStanding
<1>3. CASE Register(t)
  BY <1>2, <1>3 DEF Register
<1>4. CASE Resend(t) \/ Forgot(t)
  BY <1>2, <1>4 DEF Resend, Forgot, AskCode
<1>5. CASE ToggleStatus(t) \/ Verify(t)
  <2>1. CASE ToggleStatus(t)
    BY <1>2, <2>1 DEF ToggleStatus, AskStatus
  <2>2. CASE Verify(t)
    <3>1. PICK u \in Users : users[u].status = "pending_otp"
                            /\ Take(t, "admin", "verify", "verify", u, users[u])
      BY <2>2 DEF Verify, AskStatus
    <3> QED  BY <1>2, <3>1
  <2> QED  BY <1>5, <2>1, <2>2
<1>6. CASE Login(t)
  BY <1>2, <1>6 DEF Login
<1> QED  BY <1>3, <1>4, <1>5, <1>6

LEMMA GuessKeeps ==
  ASSUME SuspInv, NEW t \in Threads, Confirm(t) \/ Reset(t) \/ Webhook(t)
  PROVE  SuspInv'
<1>1. RowsKept /\ shadowed' = shadowed
  BY TablesKept DEF Confirm, Reset, Webhook, Guess, tables, SuspInv, RowTypeOK
<1>2. ASSUME NEW op \in {"confirm", "reset", "webhook"}, NEW expired \in {"delete", "disable"},
             NEW right, right = IF op = "reset" THEN "password" ELSE "activate",
             Guess(t, op, expired, right)
      PROVE  SuspInv'
  <2>1. PICK u \in Users :
          /\ Seen(t, op, u).status \in Awaited(op)
          /\ \E s \in {expired, right, "bump"} : Take(t, "guess", s, op, u, Seen(t, op, u))
    BY <1>2 DEF Guess
  <2>2. op # "reset" => (shadowed = {} => users[u].status = "pending_otp")
    BY <2>1, FoundInTable DEF Seen, Awaited
  <2>3. PICK s \in {expired, right, "bump"} : Take(t, "guess", s, op, u, Seen(t, op, u))
    BY <2>1
  <2>4. s \in {"activate", "verify"} => op # "reset"
    BY <1>2
  <2> QED  BY <1>1, <2>2, <2>3, <2>4, TakeGoesOn, KeptStanding
<1> QED  BY <1>2 DEF Confirm, Reset, Webhook

-----------------------------------------------------------------------------
(***************************************************************************)
(* The statements.                                                         *)
(***************************************************************************)
\* A row is overwritten with one of the same status, or the account's
\* suspension is over.
LEMMA StoreKept ==
  ASSUME SuspInv, NEW t \in Threads, NEW u \in Users, NEW r \in Row, Store(t, u, r),
         ids' \in Nat, codes' \in 0..MaxCodes, shadowed' = shadowed, stands' \subseteq stands,
         (shadowed = {} /\ u \in stands') => (users[u].status = "suspended" => r.status = "suspended")
  PROVE  RowsKept
<1>1. /\ users' \in [Users -> Row] /\ shadow' \in [Servers -> [Users -> Row]]
      /\ \A x \in Users : users'[x] = users[x] \/ (x = u /\ ~InMemory(t, u) /\ users'[x] = r)
      /\ \A v \in Servers, x \in Users :
           shadow'[v][x].status # "none" => shadow[v][x].status # "none"
  BY StoreFacts
<1> QED  BY <1>1 DEF RowsKept, SuspInv, RowTypeOK

LEMMA RowUpdates ==
  ASSUME NEW r \in Row, NEW c \in Codes \cup {NoCode}
  PROVE  /\ WithCode(r, c) \in Row /\ WithCode(r, c).status = r.status
         /\ Activated(r) \in Row
         /\ [r EXCEPT !.tries = r.tries + 1] \in Row
         /\ [r EXCEPT !.tries = r.tries + 1].status = r.status
         /\ \A s \in {"active", "suspended"} : [r EXCEPT !.status = s] \in Row
<1>1. WithCode(r, c) \in Row /\ WithCode(r, c).status = r.status
  BY DEF Row, WithCode
<1>2. Activated(r) \in Row
  BY DEF Row, Activated
<1>3. r.tries + 1 \in Nat
  BY DEF Row
<1>4. [r EXCEPT !.tries = r.tries + 1] \in Row /\ [r EXCEPT !.tries = r.tries + 1].status = r.status
  BY <1>3 DEF Row
<1>5. \A s \in {"active", "suspended"} : [r EXCEPT !.status = s] \in Row
  BY DEF Row
<1> QED  BY <1>1, <1>2, <1>4, <1>5

LEMMA UpdateKept ==
  ASSUME SuspInv, NEW t \in Threads, NEW u \in Users, NEW c \in Codes \cup {NoCode},
         \/ Update(t, u, WithCode(Found(t, u), c))
         \/ Fails(t, u),
         codes' \in 0..MaxCodes
  PROVE  RowsKept
<1> DEFINE r == WithCode(Found(t, u), c)
<1>1. r \in Row /\ (shadowed = {} => r.status = users[u].status)
  BY FoundInTable, RowUpdates
<1>2. CASE Store(t, u, r) /\ UNCHANGED <<ids, stands, shadowed>>
  <2> HIDE DEF r
  <2> QED  BY <1>1, <1>2, StoreKept DEF SuspInv, RowTypeOK
<1>3. CASE UNCHANGED tables
  BY <1>3, TablesKept
<1> QED  BY <1>2, <1>3 DEF Update, Fails, tables

LEMMA EraseKept ==
  ASSUME SuspInv, NEW t \in Threads, NEW u \in Users, Erase(t, u), codes' \in 0..MaxCodes
  PROVE  RowsKept
<1>1. Store(t, u, NoRow) /\ UNCHANGED <<ids, shadowed>>
      /\ stands' = IF InMemory(t, u) THEN stands ELSE stands \ {u}
  BY DEF Erase
<1>2. shadowed = {} => u \notin stands'
  BY <1>1, FoundInTable
<1> QED  BY <1>1, <1>2, NoRowType, StoreKept DEF SuspInv, RowTypeOK

LEMMA InsertKeeps ==
  ASSUME SuspInv, NEW t \in Threads, Insert(t)
  PROVE  SuspInv'
<1>0. codes' \in 0..MaxCodes
  BY GenerateCodes DEF Insert, otp
<1>1. \E r \in Row, next \in {"mail", "idle"} : InsertUser(t, req[t].user, r, next)
  <2> DEFINE waits  == [id |-> ids + 1, status |-> "pending_otp", code |-> FreshCode, tries |-> 0]
             active == [id |-> ids + 1, status |-> "active", code |-> NoCode, tries |-> 0]
  <2>1. active \in Row
    BY DEF Row, SuspInv, RowTypeOK
  <2>2. Generate => waits \in Row
    BY AccountsAssumption DEF Row, FreshCode, Codes, Generate, SuspInv, RowTypeOK
  <2>3. \/ Generate /\ InsertUser(t, req[t].user, waits, "mail")
        \/ InsertUser(t, req[t].user, active, "idle")
    BY DEF Insert
  <2> HIDE DEF waits, active
  <2> QED  BY <2>1, <2>2, <2>3
<1>r. PICK r \in Row, next \in {"mail", "idle"} : InsertUser(t, req[t].user, r, next)
  BY <1>1
<1> DEFINE u == req[t].user
           h == Home[t]
<1>2. pc[t] = "insert" /\ u \in Users /\ h \in Servers /\ ids' = ids + 1 /\ UNCHANGED stands
  BY HomeServer DEF Insert, SuspInv, Serving
<1>3. \E s \in {"mail", "idle"} : Goto(t, s)
  BY <1>r DEF InsertUser
<1>4. Threaded /\ NoneBegins
  BY <1>2, <1>3, GotoGoesOn
<1>5. \/ shadow' = shadow /\ shadowed' = shadowed
      \/ shadow' = [shadow EXCEPT ![h][u] = r] /\ shadowed' = shadowed \cup {u}
  BY <1>r DEF InsertUser
<1>6. users' = users \/ (users[u].status = "none" /\ users' = [users EXCEPT ![u] = r])
  BY <1>r DEF InsertUser
<1> HIDE DEF u, h
<1>7. users' \in [Users -> Row]
      /\ \A x \in Users : users'[x] = users[x] \/ users[x].status = "none"
  BY <1>r, <1>2, <1>6 DEF SuspInv, RowTypeOK
<1>8. /\ shadow' \in [Servers -> [Users -> Row]] /\ shadowed \subseteq shadowed'
      /\ \A v \in Servers, x \in Users :
           shadow'[v][x].status # "none" => shadow[v][x].status # "none" \/ x \in shadowed'
  <2>1. CASE shadow' = [shadow EXCEPT ![h][u] = r] /\ shadowed' = shadowed \cup {u}
    <3>1. shadow' = [shadow EXCEPT ![h] = [shadow[h] EXCEPT ![u] = r]]
      BY <2>1
    <3>2. shadow[h] \in [Users -> Row] /\ [shadow[h] EXCEPT ![u] = r] \in [Users -> Row]
      BY <1>r, <1>2 DEF SuspInv, RowTypeOK
    <3>3. shadow' \in [Servers -> [Users -> Row]]
      BY <1>2, <3>1, <3>2 DEF SuspInv, RowTypeOK
    <3>4. \A v \in Servers, x \in Users : shadow'[v][x] = shadow[v][x] \/ x = u
      BY <1>2, <3>1, <3>2 DEF SuspInv, RowTypeOK
    <3> QED  BY <2>1, <3>3, <3>4
  <2>2. CASE shadow' = shadow /\ shadowed' = shadowed
    BY <2>2 DEF SuspInv, RowTypeOK
  <2> QED  BY <1>5, <2>1, <2>2
<1>9. RowsKept
  BY <1>0, <1>2, <1>7, <1>8 DEF RowsKept, SuspInv, RowTypeOK
<1> QED  BY <1>4, <1>9, KeptStanding

LEMMA MailKeeps ==
  ASSUME SuspInv, NEW t \in Threads, Mail(t) \/ DeleteExpired(t)
  PROVE  SuspInv'
<1>1. Goto(t, "idle") /\ req[t].user \in Users /\ codes' \in 0..MaxCodes
  BY DEF Mail, DeleteExpired, otp, SuspInv, Serving, RowTypeOK
<1>2. Threaded /\ NoneBegins
  BY <1>1, GotoGoesOn
<1>3. Erase(t, req[t].user) \/ UNCHANGED tables
  BY DEF Mail, DeleteExpired, Fails
<1>4. RowsKept
  BY <1>1, <1>3, EraseKept, TablesKept
<1> QED  BY <1>2, <1>4, KeptStanding

LEMMA BumpKeeps ==
  ASSUME SuspInv, NEW t \in Threads, Bump(t)
  PROVE  SuspInv'
<1> DEFINE u == req[t].user
           f == Found(t, u)
           r == [f EXCEPT !.tries = f.tries + 1]
<1>1. pc[t] = "bump" /\ u \in Users /\ UNCHANGED codes
  BY DEF Bump, otp, SuspInv, Serving
<1>2. \E s \in {"disable", "idle"} : Goto(t, s)
  BY DEF Bump
<1>3. Threaded /\ NoneBegins
  BY <1>1, <1>2, GotoGoesOn
<1>4. f \in Row /\ r \in Row /\ r.status = f.status /\ (shadowed = {} => f.status = users[u].status)
  <2>1. NoCode \in Codes \cup {NoCode}
    OBVIOUS
  <2> QED  BY <1>1, <2>1, FoundInTable, RowUpdates
<1>5. \/ Store(t, u, r) /\ UNCHANGED <<ids, stands, shadowed>>
      \/ UNCHANGED tables
      \/ users' = [users EXCEPT ![u].tries = @ + 1] /\ UNCHANGED <<shadow, ids, stands, shadowed>>
  BY DEF Bump, tables
<1>6. CASE Store(t, u, r) /\ UNCHANGED <<ids, stands, shadowed>>
  <2> HIDE DEF u, f, r
  <2>1. RowsKept
    BY <1>1, <1>4, <1>6, StoreKept DEF SuspInv, RowTypeOK
  <2> QED  BY <1>3, <2>1, KeptStanding
<1>7. CASE UNCHANGED tables
  <2>1. RowsKept
    BY <1>1, <1>7, TablesKept DEF SuspInv, RowTypeOK
  <2> QED  BY <1>3, <2>1, KeptStanding
<1>8. CASE users' = [users EXCEPT ![u].tries = @ + 1] /\ UNCHANGED <<shadow, ids, stands, shadowed>>
  <2> HIDE DEF u
  <2>1. users' = [users EXCEPT ![u] = [users[u] EXCEPT !.tries = users[u].tries + 1]]
    BY <1>8
  <2>2. users[u] \in Row /\ NoCode \in Codes \cup {NoCode}
    BY <1>1 DEF SuspInv, RowTypeOK
  <2>3. [users[u] EXCEPT !.tries = users[u].tries + 1] \in Row
        /\ [users[u] EXCEPT !.tries = users[u].tries + 1].status = users[u].status
    BY <2>2, RowUpdates
  <2>4. users' \in [Users -> Row] /\ \A x \in Users : users'[x].status = users[x].status
    BY <1>1, <2>1, <2>3 DEF SuspInv, RowTypeOK
  <2>5. RowsKept
    BY <1>1, <1>8, <2>4 DEF RowsKept, SuspInv, RowTypeOK
  <2> QED  BY <1>3, <2>5, KeptStanding
<1> QED  BY <1>5, <1>6, <1>7, <1>8

LEMMA CodeKeeps ==
  ASSUME SuspInv, NEW t \in Threads, Disable(t) \/ Password(t) \/ Renew(t)
  PROVE  SuspInv'
<1>1. Goto(t, "idle") /\ req[t].user \in Users /\ codes' \in 0..MaxCodes
  BY GenerateCodes DEF Disable, Password, Renew, otp, SuspInv, Serving, RowTypeOK
<1>2. Threaded /\ NoneBegins
  BY <1>1, GotoGoesOn
<1>3. \E c \in Codes \cup {NoCode} :
        \/ Update(t, req[t].user, WithCode(Found(t, req[t].user), c))
        \/ Fails(t, req[t].user)
  <2>1. Renew(t) => FreshCode \in Codes
    BY AccountsAssumption DEF Renew, Generate, FreshCode, Codes, SuspInv, RowTypeOK
  <2> QED  BY <2>1 DEF Disable, Password, Renew
<1>4. RowsKept
  BY <1>1, <1>3, UpdateKept
<1> QED  BY <1>2, <1>4, KeptStanding

LEMMA ActivateKeeps ==
  ASSUME SuspInv, NEW t \in Threads, Activate(t)
  PROVE  SuspInv'
<1> DEFINE u == req[t].user
           r == Activated(Found(t, u))
<1>1. pc[t] = "activate" /\ Goto(t, "idle") /\ u \in Users /\ UNCHANGED codes
  BY DEF Activate, otp, SuspInv, Serving
<1>2. Threaded /\ NoneBegins
  BY <1>1, GotoGoesOn
<1>3. shadowed = {} => u \notin stands
  BY <1>1 DEF SuspInv, Standing, Activating
<1>4. codes' \in 0..MaxCodes
  BY <1>1 DEF SuspInv, RowTypeOK
<1>5. \/ Store(t, u, r) /\ UNCHANGED <<ids, stands, shadowed>>
      \/ UNCHANGED tables
      \/ users' = [users EXCEPT ![u] = Activated(users[u])]
         /\ UNCHANGED <<shadow, ids, stands, shadowed>>
  BY DEF Activate, Update, tables
<1>6. NoCode \in Codes \cup {NoCode}
  OBVIOUS
<1>7. CASE Store(t, u, r) /\ UNCHANGED <<ids, stands, shadowed>>
  <2>1. r \in Row
    BY <1>1, <1>6, FoundInTable, RowUpdates
  <2> HIDE DEF u, r
  <2>2. RowsKept
    BY <1>1, <1>3, <1>4, <1>7, <2>1, StoreKept DEF SuspInv, RowTypeOK
  <2> QED  BY <1>2, <2>2, KeptStanding
<1>8. CASE UNCHANGED tables
  BY <1>2, <1>4, <1>8, TablesKept, KeptStanding
<1>9. CASE users' = [users EXCEPT ![u] = Activated(users[u])]
           /\ UNCHANGED <<shadow, ids, stands, shadowed>>
  <2>1. Activated(users[u]) \in Row
    BY <1>1, <1>6, RowUpdates DEF SuspInv, RowTypeOK
  <2> HIDE DEF u
  <2>2. users' \in [Users -> Row] /\ \A x \in Users : x # u => users'[x] = users[x]
    BY <1>1, <1>9, <2>1 DEF SuspInv, RowTypeOK
  <2>3. RowsKept
    BY <1>3, <1>4, <1>9, <2>2 DEF RowsKept, SuspInv, RowTypeOK
  <2> QED  BY <1>2, <2>3, KeptStanding
<1> QED  BY <1>5, <1>7, <1>8, <1>9

LEMMA LoginKeeps ==
  ASSUME SuspInv, NEW t \in Threads, LoginFailed(t) \/ LoggedIn(t)
  PROVE  SuspInv'
<1>1. Goto(t, "idle") /\ UNCHANGED tables /\ UNCHANGED codes
  BY DEF LoginFailed, LoggedIn, otp
<1>2. Threaded /\ NoneBegins
  BY <1>1, GotoGoesOn
<1>3. RowsKept
  BY <1>1, TablesKept DEF SuspInv, RowTypeOK
<1> QED  BY <1>2, <1>3, KeptStanding

\* The administrator's UPDATE is the one that makes a suspension stand, when
\* no thread is about to activate the account.
LEMMA SetStatusKeeps ==
  ASSUME SuspInv, NEW t \in Threads, SetStatus(t)
  PROVE  SuspInv'
<1>0. PICK u \in Users : u = req[t].user
  BY DEF SetStatus, SuspInv, Serving
<1> DEFINE to == IF req[t].row.status = "active" THEN "suspended" ELSE "active"
           r == IF pc[t] = "verify" THEN Activated(users[u]) ELSE [users[u] EXCEPT !.status = to]
<1>1. pc[t] \in {"status", "verify"} /\ Goto(t, "idle")
      /\ UNCHANGED <<shadow, ids, shadowed, codes>>
  BY DEF SetStatus, otp
<1>2. Threaded /\ NoneBegins
  BY <1>1, GotoGoesOn
<1>3. \/ UNCHANGED <<users, stands>>
      \/ users' = [users EXCEPT ![u] = r] /\ stands' = stands \ {u}
      \/ /\ users' = [users EXCEPT ![u] = r] /\ stands' = stands \cup {u}
         /\ pc[t] = "status" /\ to = "suspended" /\ \A s \in Threads : ~Activating(s, u)
  BY <1>0 DEF SetStatus
<1>4. r \in Row /\ (pc[t] = "status" /\ to = "suspended" => r.status = "suspended")
  <2>1. users[u] \in Row /\ to \in {"active", "suspended"} /\ NoCode \in Codes \cup {NoCode}
    BY <1>1 DEF SuspInv, RowTypeOK
  <2>2. Activated(users[u]) \in Row /\ [users[u] EXCEPT !.status = to] \in Row
    BY <2>1, RowUpdates
  <2>3. [users[u] EXCEPT !.status = to].status = to
    BY <2>1 DEF Row
  <2> QED  BY <2>2, <2>3
<1> HIDE DEF to, r
<1>5. CASE UNCHANGED <<users, stands>>
  <2>1. RowsKept
    BY <1>1, <1>5, TablesKept DEF tables, SuspInv, RowTypeOK
  <2> QED  BY <1>2, <2>1, KeptStanding
<1>6. users' = [users EXCEPT ![u] = r] =>
        users' \in [Users -> Row] /\ users'[u] = r /\ \A x \in Users : x # u => users'[x] = users[x]
  BY <1>1, <1>4 DEF SuspInv, RowTypeOK
<1>7. CASE users' = [users EXCEPT ![u] = r] /\ stands' = stands \ {u}
  <2>1. RowsKept
    BY <1>1, <1>6, <1>7 DEF RowsKept, SuspInv, RowTypeOK
  <2> QED  BY <1>2, <2>1, KeptStanding
<1>8. CASE /\ users' = [users EXCEPT ![u] = r] /\ stands' = stands \cup {u}
           /\ pc[t] = "status" /\ to = "suspended" /\ \A s \in Threads : ~Activating(s, u)
  <2>1. RowTypeOK' /\ MapsCounted' /\ Serving'
    BY <1>1, <1>2, <1>6, <1>8 DEF SuspInv, RowTypeOK, MapsCounted, Threaded
  <2>2. \A s \in Threads : ~Activating(s, u)'
    <3>1. pc' = [pc EXCEPT ![t] = "idle"] /\ req' = [req EXCEPT ![t] = NoReq]
      BY <1>1 DEF Goto
    <3>2. \A s \in Threads : s # t => pc'[s] = pc[s] /\ req'[s] = req[s]
      BY <3>1 DEF SuspInv, RowTypeOK
    <3>3. pc'[t] = "idle"
      BY <3>1 DEF SuspInv, RowTypeOK
    <3> QED  BY <1>8, <3>2, <3>3 DEF Activating
  <2>3. ASSUME NEW x \in stands', shadowed' = {}
        PROVE  users'[x].status = "suspended" /\ \A s \in Threads : ~Activating(s, x)'
    <3>1. CASE x = u
      BY <1>4, <1>6, <1>8, <2>2, <3>1
    <3>2. CASE x # u
      <4>1. x \in stands /\ shadowed = {} /\ users'[x] = users[x]
        BY <1>1, <1>6, <1>8, <2>3, <3>2 DEF SuspInv, RowTypeOK
      <4> QED  BY <1>1, <1>2, <2>3, <4>1 DEF SuspInv, Standing, NoneBegins
    <3> QED  BY <3>1, <3>2
  <2>4. Standing'
    BY <2>3 DEF Standing
  <2> QED  BY <2>1, <2>4 DEF SuspInv
<1> QED  BY <1>3, <1>5, <1>7, <1>8

LEMMA AdminKeeps ==
  ASSUME SuspInv, CreateUser \/ DeleteUser
  PROVE  SuspInv'
<1>1. UNCHANGED <<pc, req, codes, shadow, shadowed>>
  BY DEF CreateUser, DeleteUser, handlers, otp
<1>2. Threaded /\ NoneBegins
  BY <1>1 DEF Threaded, NoneBegins, Activating, SuspInv, RowTypeOK, Serving
<1>3. CASE CreateUser
  <2>1. PICK u \in Users : users[u].status = "none"
          /\ users' = [users EXCEPT ![u] = [NoRow EXCEPT !.id = ids + 1, !.status = "active"]]
    BY <1>3 DEF CreateUser
  <2>2. [NoRow EXCEPT !.id = ids + 1, !.status = "active"] \in Row
    <3>1. ids + 1 \in Nat
      BY DEF SuspInv, RowTypeOK
    <3>2. ASSUME NEW r \in Row, NEW n \in Nat
          PROVE  [r EXCEPT !.id = n, !.status = "active"] \in Row
      BY DEF Row
    <3> QED  BY <3>1, <3>2, NoRowType
  <2>3. users' \in [Users -> Row] /\ \A x \in Users : users[x].status # "none" => users'[x] = users[x]
    BY <2>1, <2>2 DEF SuspInv, RowTypeOK
  <2>4. ids' \in Nat /\ stands' = stands
    BY <1>3 DEF CreateUser, SuspInv, RowTypeOK
  <2>5. RowsKept
    BY <1>1, <2>3, <2>4 DEF RowsKept, SuspInv, RowTypeOK
  <2> QED  BY <1>2, <2>5, KeptStanding
<1>4. CASE DeleteUser
  <2>1. PICK u \in Users : users' = [users EXCEPT ![u] = NoRow] /\ stands' = stands \ {u}
    BY <1>4 DEF DeleteUser, Deleted
  <2>2. users' \in [Users -> Row] /\ \A x \in Users : x # u => users'[x] = users[x]
    BY <2>1, NoRowType DEF SuspInv, RowTypeOK
  <2>3. ids' = ids
    BY <1>4 DEF DeleteUser
  <2>4. RowsKept
    BY <1>1, <2>1, <2>2, <2>3 DEF RowsKept, SuspInv, RowTypeOK
  <2> QED  BY <1>2, <2>4, KeptStanding
<1> QED  BY <1>3, <1>4

LEMMA RestartKeeps ==
  ASSUME SuspInv, NEW v \in Servers, Restart(v)
  PROVE  SuspInv'
<1> DEFINE mine == {t \in Threads : Home[t] = v}
<1>1. /\ shadow' = [shadow EXCEPT ![v] = [u \in Users |-> NoRow]]
      /\ pc'  = [t \in Threads |-> IF t \in mine THEN "idle" ELSE pc[t]]
      /\ req' = [t \in Threads |-> IF t \in mine THEN NoReq ELSE req[t]]
      /\ UNCHANGED <<users, ids, stands, shadowed, codes>>
  BY DEF Restart, otp
<1> HIDE DEF mine
<1>2. Threaded /\ NoneBegins
  BY <1>1 DEF Threaded, NoneBegins, Activating, SuspInv, RowTypeOK, Serving
<1>3. [u \in Users |-> NoRow] \in [Users -> Row]
  BY NoRowType
<1>4. shadow' \in [Servers -> [Users -> Row]]
  BY <1>1, <1>3 DEF SuspInv, RowTypeOK
<1>5. \A w \in Servers, u \in Users :
        shadow'[w][u].status # "none" => shadow[w][u].status # "none"
  BY <1>1 DEF SuspInv, RowTypeOK, NoRow
<1>6. RowsKept
  BY <1>1, <1>4, <1>5 DEF RowsKept, SuspInv, RowTypeOK
<1> QED  BY <1>2, <1>6, KeptStanding

LEMMA StepKeeps ==
  ASSUME SuspInv, AccountNext
  PROVE  SuspInv'
<1>1. ASSUME NEW t \in Threads, Step(t)  PROVE SuspInv'
  BY <1>1, AskKeeps, GuessKeeps, InsertKeeps, MailKeeps, BumpKeeps, CodeKeeps, ActivateKeeps,
     LoginKeeps, SetStatusKeeps DEF Step
<1>2. CASE TimePasses
  <2>1. UNCHANGED tables /\ UNCHANGED <<pc, req, codes>>
    BY <1>2 DEF TimePasses, handlers
  <2>2. Threaded /\ NoneBegins
    BY <2>1 DEF Threaded, NoneBegins, Activating, SuspInv, RowTypeOK, Serving
  <2>3. RowsKept
    BY <2>1, TablesKept DEF SuspInv, RowTypeOK
  <2> QED  BY <2>2, <2>3, KeptStanding
<1> QED  BY <1>1, <1>2, AdminKeeps, RestartKeeps DEF AccountNext

-----------------------------------------------------------------------------
(***************************************************************************)
(* The transactions of vouchers touch no account.                          *)
(***************************************************************************)
LEMMA LedgerKeeps ==
  ASSUME SuspInv, NEW t \in Threads, UNCHANGED tables, UNCHANGED codes,
         \/ \E s \in TxStages \cup {"idle"} : Goto(t, s) /\ (s # "idle" => pc[t] \notin {"idle", "toggle"})
         \/ \E k \in {"redeem", "activate"}, s \in {"lock", "pick"}, u \in Users :
              Take(t, k, s, k, u, users[u])
         \/ pc' = [pc EXCEPT ![t] = "toggle"] /\ req' = req
  PROVE  SuspInv'
<1>1. RowsKept /\ shadowed' = shadowed
  BY TablesKept DEF tables, SuspInv, RowTypeOK
<1>2. ASSUME NEW s \in TxStages \cup {"idle"}, Goto(t, s),
             s # "idle" => pc[t] \notin {"idle", "toggle"}
      PROVE  Threaded /\ NoneBegins
  <2>1. s \notin {"activate", "verify"}
    BY DEF TxStages
  <2> QED  BY <1>2, <2>1, GotoGoesOn
<1>3. ASSUME NEW k \in {"redeem", "activate"}, NEW s \in {"lock", "pick"}, NEW u \in Users,
             Take(t, k, s, k, u, users[u])
      PROVE  Threaded /\ NoneBegins
  <2>1. s \notin {"activate", "verify"}
    OBVIOUS
  <2> QED  BY <1>1, <1>3, <2>1, TakeGoesOn
<1>4. ASSUME NEW s, s = "toggle", pc' = [pc EXCEPT ![t] = s], req' = req
      PROVE  Threaded /\ NoneBegins
  <2>1. s \notin {"activate", "verify"} /\ s \in {"idle", "toggle"}
    BY <1>4
  <2> QED  BY <1>4, <2>1, GoesOn
<1>5. Threaded /\ NoneBegins
  <2>1. CASE \E s \in TxStages \cup {"idle"} :
               Goto(t, s) /\ (s # "idle" => pc[t] \notin {"idle", "toggle"})
    BY <1>2, <2>1
  <2>2. CASE \E k \in {"redeem", "activate"}, s \in {"lock", "pick"}, u \in Users :
               Take(t, k, s, k, u, users[u])
    <3>1. PICK k \in {"redeem", "activate"}, s \in {"lock", "pick"}, u \in Users :
            Take(t, k, s, k, u, users[u])
      BY <2>2
    <3> QED  BY <1>3, <3>1
  <2>3. CASE pc' = [pc EXCEPT ![t] = "toggle"] /\ req' = req
    BY <1>4, <2>3
  <2> QED  BY <2>1, <2>2, <2>3
<1> QED  BY <1>1, <1>5, KeptStanding

LEMMA TransactionKeeps ==
  ASSUME SuspInv, NEW t \in Threads,
         \/ Redeem(t) \/ LockVoucher(t) \/ WriteRedemption(t) \/ Entitle(t) \/ CommitRedeem(t)
         \/ Activation(t) \/ PickRedemption(t) \/ PauseOthers(t) \/ CommitActivate(t)
         \/ Rollback(t) \/ AskToggle(t) \/ SetToggle(t)
  PROVE  SuspInv'
<1>1. CASE Redeem(t) \/ Activation(t)
  <2>1. UNCHANGED tables /\ UNCHANGED codes
    BY <1>1 DEF Redeem, Activation, otp
  <2>2. \E k \in {"redeem", "activate"}, s \in {"lock", "pick"}, u \in Users :
          Take(t, k, s, k, u, users[u])
    BY <1>1 DEF Redeem, Activation, Begin
  <2> QED  BY <2>1, <2>2, LedgerKeeps
<1>2. CASE AskToggle(t)
  BY <1>2, LedgerKeeps DEF AskToggle, otp
<1>3. CASE \/ CommitRedeem(t) \/ CommitActivate(t) \/ Rollback(t) \/ SetToggle(t)
  <2>1. Goto(t, "idle") /\ UNCHANGED tables /\ UNCHANGED codes
    BY <1>3 DEF CommitRedeem, CommitActivate, Rollback, SetToggle, otp
  <2> QED  BY <2>1, LedgerKeeps
<1>4. CASE \/ LockVoucher(t) \/ WriteRedemption(t) \/ Entitle(t)
           \/ PickRedemption(t) \/ PauseOthers(t)
  <2>1. /\ UNCHANGED tables /\ UNCHANGED codes /\ pc[t] \notin {"idle", "toggle"}
        /\ \E s \in TxStages : Goto(t, s)
    BY <1>4 DEF LockVoucher, WriteRedemption, Entitle, PickRedemption, PauseOthers, otp, TxStages
  <2> QED  BY <2>1, LedgerKeeps
<1> QED  BY <1>1, <1>2, <1>3, <1>4

LEMMA VoucherTablesKeep ==
  ASSUME SuspInv,
         \/ CreateVoucher \/ CreateBatch \/ DeleteVoucher \/ SavePackages
         \/ EditUser \/ DeactivatePackage \/ VoucherExpires
         \/ UNCHANGED vars
  PROVE  SuspInv'
<1>1. UNCHANGED <<tables, pc, req, codes>>
  BY DEF CreateVoucher, CreateBatch, DeleteVoucher, SavePackages, EditUser, DeactivatePackage,
     PackageByHand, VoucherExpires, vars, accountVars, handlers, otp
<1>2. Threaded /\ NoneBegins
  BY <1>1 DEF Threaded, NoneBegins, Activating, SuspInv, RowTypeOK, Serving
<1>3. RowsKept
  BY <1>1, TablesKept DEF SuspInv, RowTypeOK
<1> QED  BY <1>2, <1>3, KeptStanding

-----------------------------------------------------------------------------
LEMMA SuspInit == VoucherInit => SuspInv
<1> SUFFICES ASSUME AccountInit  PROVE SuspInv
  BY DEF VoucherInit
<1>1. PICK Old \in SUBSET Users : \E rank \in [Old -> 1..Cardinality(Old)] :
        /\ users = [u \in Users |-> IF u \in Old
                    THEN [NoRow EXCEPT !.id = rank[u], !.status = "active"] ELSE NoRow]
        /\ ids = Cardinality(Old)
  BY DEF AccountInit
<1>2. PICK rank \in [Old -> 1..Cardinality(Old)] :
        users = [u \in Users |-> IF u \in Old
                  THEN [NoRow EXCEPT !.id = rank[u], !.status = "active"] ELSE NoRow]
  BY <1>1
<1>3. ids \in Nat
  <2>1. IsFiniteSet(Users)
    BY AccountsAssumption
  <2>2. IsFiniteSet(Old)
    BY <2>1, FS_Subset
  <2> QED  BY <1>1, <2>2, FS_CardinalityType
<1>4. users \in [Users -> Row]
  <2>1. ASSUME NEW u \in Old  PROVE [NoRow EXCEPT !.id = rank[u], !.status = "active"] \in Row
    <3>1. rank[u] \in Nat
      BY <2>1
    <3>2. ASSUME NEW r \in Row, NEW n \in Nat
          PROVE  [r EXCEPT !.id = n, !.status = "active"] \in Row
      BY DEF Row
    <3> QED  BY <3>1, <3>2, NoRowType
  <2> QED  BY <1>2, <2>1, NoRowType
<1>5. shadow \in [Servers -> [Users -> Row]]
  <2>1. [u \in Users |-> NoRow] \in [Users -> Row]
    BY NoRowType
  <2>2. shadow = [v \in Servers |-> [u \in Users |-> NoRow]]
    BY DEF AccountInit
  <2> QED  BY <2>1, <2>2
<1>6. \A v \in Servers, u \in Users : shadow[v][u].status = "none"
  BY DEF AccountInit, NoRow
<1>7. /\ codes = 0 /\ stands = {} /\ shadowed = {}
      /\ pc = [t \in Threads |-> "idle"] /\ req = [t \in Threads |-> NoReq]
  BY DEF AccountInit
<1>8. codes \in 0..MaxCodes
  BY <1>7, AccountsAssumption
<1> QED  BY <1>3, <1>4, <1>5, <1>6, <1>7, <1>8 DEF SuspInv, RowTypeOK, Serving, MapsCounted, Standing

\* What the suspensions rest on holds in every behaviour.
LEMMA SuspAlways == Spec => []SuspInv
<1>1. VoucherInit => SuspInv
  BY SuspInit
<1>2. SuspInv /\ [VoucherNext]_vars => SuspInv'
  <2> SUFFICES ASSUME SuspInv, [VoucherNext]_vars  PROVE SuspInv'
    OBVIOUS
  <2>1. CASE AccountStep
    BY <2>1, StepKeeps DEF AccountStep
  <2>2. ASSUME NEW t \in Threads,
               \/ Redeem(t) \/ LockVoucher(t) \/ WriteRedemption(t) \/ Entitle(t) \/ CommitRedeem(t)
               \/ Activation(t) \/ PickRedemption(t) \/ PauseOthers(t) \/ CommitActivate(t)
               \/ Rollback(t) \/ AskToggle(t) \/ SetToggle(t)
        PROVE  SuspInv'
    BY <2>2, TransactionKeeps
  <2>3. CASE \/ CreateVoucher \/ CreateBatch \/ DeleteVoucher \/ SavePackages
             \/ EditUser \/ DeactivatePackage \/ VoucherExpires
             \/ UNCHANGED vars
    BY <2>3, VoucherTablesKeep
  <2> QED  BY <2>1, <2>2, <2>3 DEF VoucherNext, Quiet
<1> QED  BY <1>1, <1>2, PTL DEF Spec

\* No code opens an account that an administrator suspended while no activation
\* of it was under way, whatever the interleaving of requests, statements that
\* fail, and restarts.
THEOREM SuspensionHolds == Spec => []SuspensionStands
<1>1. SuspInv => SuspensionStands
  BY DEF SuspInv, Standing, SuspensionStands
<1> QED  BY <1>1, SuspAlways, PTL

-----------------------------------------------------------------------------
(***************************************************************************)
(* The types of Accounts, and that a code belongs to one account: what a   *)
(* step does to the counters, to the threads and to the codes of the rows. *)
(***************************************************************************)
Request == [op : {"none", "register", "confirm", "reset", "webhook", "resend",
                  "forgot", "login", "status", "verify", "redeem", "activate"},
            user : Users \cup {"none"}, row : Row]

Counters ==
  /\ age \in [Codes -> {"new", "good", "old"}] /\ wrong \in [Codes -> Nat]
  /\ fails \in [Servers -> [Users -> Nat]] /\ hot \in [Servers -> SUBSET Users]
  /\ left \in [Kinds -> Nat] /\ env \in [Events -> Nat] /\ shadowed \subseteq Users

Threading == pc \in [Threads -> Stages \cup TxStages] /\ req \in [Threads -> Request]

\* A code that a row holds was generated, and is no other row's.
CodesOK == (\A u \in Users : users[u].code <= codes) /\ CodesDistinct

\* There is nothing in a row that is not there.
Blank == \A u \in Users : users[u].status = "none" => users[u] = NoRow

AccountInv == SuspInv /\ Counters /\ Threading /\ CodesOK /\ Blank

\* What a step may have happen, spend, count and look at.
EnvStep == UNCHANGED env \/ (\E k \in Events \ {"restart"} : Occur(k))

LEMMA Occurs ==
  ASSUME Counters, NEW k \in Events, Occur(k)
  PROVE  /\ env' \in [Events -> Nat] /\ env'[k] # 0
         /\ \A e \in Events : env'[e] >= env[e] /\ (e \notin {k, "any"} => env'[e] = env[e])
<1>1. /\ env \in [Events -> Nat]
      /\ env' = [e \in Events |-> IF e \in {k, "any"} THEN env[e] + 1 ELSE env[e]]
  BY DEF Occur, Counters
<1> QED  BY <1>1

LEMMA EnvSteps ==
  ASSUME Counters, EnvStep
  PROVE  /\ env' \in [Events -> Nat] /\ env'["restart"] = env["restart"]
         /\ env'["stmt_failure"] >= env["stmt_failure"]
<1>1. CASE UNCHANGED env
  BY <1>1 DEF Counters, Events
<1>2. CASE \E k \in Events \ {"restart"} : Occur(k)
  <2>1. PICK k \in Events \ {"restart"} : Occur(k)
    BY <1>2
  <2>2. k \in Events /\ (k = "any" \/ "restart" \notin {k, "any"})
    BY <2>1
  <2>3. /\ env["restart"] \in Nat
        /\ env' = [e \in Events |-> IF e \in {k, "any"} THEN env[e] + 1 ELSE env[e]]
    BY <2>1 DEF Occur, Counters, Events
  <2>4. env'["restart"] = env["restart"]
    BY <2>1, <2>3 DEF Events
  <2>5. env'["stmt_failure"] >= env["stmt_failure"]
    BY <2>1, Occurs DEF Events
  <2> QED  BY <2>1, <2>4, <2>5, Occurs
<1> QED  BY <1>1, <1>2 DEF EnvStep

LEMMA Spends ==
  ASSUME Counters, NEW k \in Kinds, Spend(k)
  PROVE  left' \in [Kinds -> Nat]
  BY DEF Counters, Spend

LEMMA Generates ==
  ASSUME SuspInv, Counters, Generate
  PROVE  /\ age' \in [Codes -> {"new", "good", "old"}] /\ wrong' = wrong
         /\ codes' = codes + 1 /\ codes + 1 \in Codes
  BY AccountsAssumption DEF Generate, Counters, SuspInv, RowTypeOK, Codes

\* Everything but the counters of the login is kept or counted up.
Counted ==
  /\ EnvStep
  /\ UNCHANGED left \/ \E k \in Kinds : Spend(k)
  /\ Generate \/ UNCHANGED otp
     \/ (UNCHANGED <<codes, age>> /\ \E c \in Codes : wrong' = [wrong EXCEPT ![c] = @ + 1])
  /\ shadowed' \subseteq Users

LEMMA CountersKept ==
  ASSUME SuspInv, Counters, Counted,
         fails' \in [Servers -> [Users -> Nat]] /\ hot' \in [Servers -> SUBSET Users]
  PROVE  Counters'
<1>1. env' \in [Events -> Nat]
  BY EnvSteps DEF Counted
<1>2. left' \in [Kinds -> Nat]
  BY Spends DEF Counted, Counters
<1>3. age' \in [Codes -> {"new", "good", "old"}] /\ wrong' \in [Codes -> Nat]
  <2>1. CASE Generate
    BY <2>1, Generates DEF Counters
  <2>2. CASE UNCHANGED otp
    BY <2>2 DEF Counters, otp
  <2>3. ASSUME NEW c \in Codes, wrong' = [wrong EXCEPT ![c] = @ + 1], UNCHANGED <<codes, age>>
        PROVE  age' \in [Codes -> {"new", "good", "old"}] /\ wrong' \in [Codes -> Nat]
    BY <2>3 DEF Counters
  <2> QED  BY <2>1, <2>2, <2>3 DEF Counted
<1> QED  BY <1>1, <1>2, <1>3 DEF Counters, Counted

LEMMA GuessCounts ==
  ASSUME SuspInv, Counters, NEW t \in Threads, Confirm(t) \/ Reset(t) \/ Webhook(t)
  PROVE  Counted /\ UNCHANGED lockout
<1>1. ASSUME NEW op, NEW expired, NEW right, Guess(t, op, expired, right)
      PROVE  Counted /\ UNCHANGED lockout
  <2>1. PICK u \in Users :
          LET r == Seen(t, op, u) IN
          /\ \E s : Take(t, "guess", s, op, u, r)
          /\ \/ UNCHANGED wrong
             \/ wrong' = IF r.code = NoCode THEN wrong ELSE [wrong EXCEPT ![r.code] = @ + 1]
    BY <1>1 DEF Guess
  <2>2. Seen(t, op, u).code \in Codes \cup {NoCode}
    BY FoundInTable DEF Seen, Row, SuspInv, RowTypeOK
  <2>3. \E k \in Kinds : Spend(k)
    BY <2>1 DEF Take, Kinds
  <2>4. UNCHANGED <<codes, age, tables, env, lockout>>
    BY <1>1 DEF Guess
  <2>5. UNCHANGED wrong \/ \E c \in Codes : wrong' = [wrong EXCEPT ![c] = @ + 1]
    <3> DEFINE c == Seen(t, op, u).code
    <3>1. UNCHANGED wrong \/ (wrong' = [wrong EXCEPT ![c] = @ + 1] /\ c # NoCode)
      BY <2>1
    <3> HIDE DEF c
    <3>2. c \in Codes \cup {NoCode}
      BY <2>2 DEF c
    <3> QED  BY <3>1, <3>2
  <2> QED  BY <2>3, <2>4, <2>5 DEF Counted, EnvStep, otp, tables, Counters
<1> QED  BY <1>1 DEF Confirm, Reset, Webhook

LEMMA StepCounts ==
  ASSUME SuspInv, Counters, NEW t \in Threads, Step(t)
  PROVE  Counted
<1>1. CASE Register(t) \/ Resend(t) \/ Forgot(t) \/ ToggleStatus(t) \/ Verify(t) \/ Login(t)
  <2>1. UNCHANGED <<tables, otp>> /\ \E k \in Kinds : Spend(k)
    BY <1>1 DEF Register, Resend, Forgot, AskCode, ToggleStatus, Verify, AskStatus, Login,
       Take, Kinds
  <2>2. EnvStep
    BY <1>1 DEF Register, Resend, Forgot, AskCode, ToggleStatus, Verify, AskStatus, Login,
       EnvStep, Events
  <2> QED  BY <2>1, <2>2 DEF Counted, tables, Counters
<1>2. CASE Confirm(t) \/ Reset(t) \/ Webhook(t)
  BY <1>2, GuessCounts
<1>3. CASE Insert(t)
  <2>1. PICK r, next : InsertUser(t, req[t].user, r, next)
    BY <1>3 DEF Insert
  <2>2. EnvStep /\ shadowed' \subseteq Users
    <3>1. req[t].user \in Users
      BY <1>3 DEF Insert, SuspInv, Serving
    <3> QED  BY <2>1, <3>1 DEF InsertUser, EnvStep, Events, Counters
  <2> QED  BY <1>3, <2>2 DEF Insert, Counted
<1>4. CASE \/ Mail(t) \/ Bump(t) \/ Disable(t) \/ DeleteExpired(t) \/ Activate(t) \/ Password(t)
           \/ SetStatus(t)
  <2>1. shadowed' = shadowed /\ UNCHANGED <<otp, left>>
    BY <1>4 DEF Mail, Bump, Disable, DeleteExpired, Activate, Password, SetStatus, Erase, Update,
       Fails, tables
  <2>2. EnvStep
    BY <1>4 DEF Mail, Bump, Disable, DeleteExpired, Activate, Password, SetStatus, Fails,
       EnvStep, Events
  <2> QED  BY <2>1, <2>2 DEF Counted, Counters
<1>5. CASE Renew(t)
  <2>1. shadowed' = shadowed /\ UNCHANGED left /\ Generate
    BY <1>5 DEF Renew, Update, Fails, tables
  <2>2. EnvStep
    BY <1>5 DEF Renew, Fails, EnvStep, Events
  <2> QED  BY <2>1, <2>2 DEF Counted, Counters
<1>6. CASE LoginFailed(t) \/ LoggedIn(t)
  BY <1>6 DEF LoginFailed, LoggedIn, Counted, EnvStep, tables, Counters
<1> QED  BY <1>1, <1>2, <1>3, <1>4, <1>5, <1>6 DEF Step

\* Only the three steps of the login touch its counters.
LEMMA LoginCounts ==
  ASSUME SuspInv, Counters, NEW t \in Threads, Step(t)
  PROVE  /\ fails' \in [Servers -> [Users -> Nat]] /\ hot' \in [Servers -> SUBSET Users]
         /\ UNCHANGED lockout \/ Login(t) \/ LoginFailed(t) \/ LoggedIn(t)
<1>1. CASE Confirm(t) \/ Reset(t) \/ Webhook(t)
  BY <1>1, GuessCounts DEF lockout, Counters
<1>2. CASE \/ Register(t) \/ Resend(t) \/ Forgot(t) \/ ToggleStatus(t) \/ Verify(t) \/ Insert(t)
           \/ Mail(t) \/ Bump(t) \/ Disable(t) \/ DeleteExpired(t) \/ Activate(t) \/ Password(t)
           \/ SetStatus(t) \/ Renew(t)
  <2>1. UNCHANGED lockout
    BY <1>2 DEF Register, Resend, Forgot, AskCode, ToggleStatus, Verify, AskStatus, Insert, Mail,
       Bump, Disable, DeleteExpired, Activate, Password, SetStatus, Renew
  <2> QED  BY <2>1 DEF lockout, Counters
<1>3. CASE Login(t) \/ LoginFailed(t) \/ LoggedIn(t)
  <2> DEFINE h == Home[t]
  <2>1. h \in Servers
    BY HomeServer
  <2>2. \E u \in Users : \E n \in Nat :
          fails' = fails \/ fails' = [fails EXCEPT ![h][u] = n]
    <3>1. CASE Login(t)
      BY <3>1 DEF Login
    <3>2. CASE LoginFailed(t)
      <4>1. /\ req[t].user \in Users
            /\ fails' = [fails EXCEPT ![h][req[t].user] = fails[h][req[t].user] + 1]
        BY <3>2 DEF LoginFailed, SuspInv, Serving
      <4>2. fails[h][req[t].user] + 1 \in Nat
        BY <2>1, <4>1 DEF Counters
      <4> QED  BY <4>1, <4>2
    <3>3. CASE LoggedIn(t)
      <4>1. req[t].user \in Users /\ fails' = [fails EXCEPT ![h][req[t].user] = 0]
        BY <3>3 DEF LoggedIn, SuspInv, Serving
      <4> QED  BY <4>1
    <3> QED  BY <1>3, <3>1, <3>2, <3>3
  <2>3. PICK u \in Users, n \in Nat : fails' = fails \/ fails' = [fails EXCEPT ![h][u] = n]
    BY <2>2
  <2>4. hot' = hot \/ \E x \in Users : hot' = [hot EXCEPT ![h] = @ \cup {x}]
    BY <1>3 DEF Login, LoginFailed, LoggedIn, SuspInv, Serving
  <2> HIDE DEF h
  <2>5. fails' \in [Servers -> [Users -> Nat]]
    <3>1. CASE fails' = [fails EXCEPT ![h][u] = n]
      <4>1. fails[h] \in [Users -> Nat]
        BY <2>1 DEF Counters
      <4>2. fails' = [fails EXCEPT ![h] = [fails[h] EXCEPT ![u] = n]]
        BY <3>1
      <4>3. [fails[h] EXCEPT ![u] = n] \in [Users -> Nat]
        BY <4>1
      <4> QED  BY <4>2, <4>3 DEF Counters
    <3> QED  BY <2>3, <3>1 DEF Counters
  <2>6. hot' \in [Servers -> SUBSET Users]
    BY <2>1, <2>4 DEF Counters
  <2> QED  BY <1>3, <2>5, <2>6
<1> QED  BY <1>1, <1>2, <1>3 DEF Step

-----------------------------------------------------------------------------
LEMMA CountersAfter ==
  ASSUME SuspInv, Counters, AccountNext
  PROVE  Counters'
<1>1. ASSUME NEW t \in Threads, Step(t)  PROVE Counters'
  BY <1>1, StepCounts, LoginCounts, CountersKept
<1>2. CASE CreateUser \/ DeleteUser
  <2>1. UNCHANGED <<otp, lockout, env, shadowed>> /\ Spend("admin")
    BY <1>2 DEF CreateUser, DeleteUser
  <2>2. left' \in [Kinds -> Nat]
    BY <2>1, Spends DEF Kinds
  <2> QED  BY <2>1, <2>2 DEF otp, lockout, Counters
<1>3. CASE TimePasses
  <2>1. left' \in [Kinds -> Nat]
    BY <1>3, Spends DEF Kinds, TimePasses
  <2>2. age' = age \/ \E c \in 1..codes, a \in {"good", "old"} : age' = [age EXCEPT ![c] = a]
    BY <1>3 DEF TimePasses
  <2>3. hot' = hot \/ \E v \in Servers, u \in Users : hot' = [hot EXCEPT ![v] = @ \ {u}]
    BY <1>3 DEF TimePasses
  <2>4. UNCHANGED <<wrong, fails, env, shadowed>>
    BY <1>3 DEF TimePasses, tables
  <2>5. age' \in [Codes -> {"new", "good", "old"}] /\ hot' \in [Servers -> SUBSET Users]
    BY <2>2, <2>3 DEF Counters
  <2> QED  BY <2>1, <2>4, <2>5 DEF Counters
<1>4. ASSUME NEW v \in Servers, Restart(v)  PROVE Counters'
  <2>1. env' \in [Events -> Nat]
    BY <1>4, Occurs DEF Restart, Events
  <2>2. UNCHANGED <<otp, left, shadowed>> /\ hot' = [hot EXCEPT ![v] = {}]
        /\ fails' = [fails EXCEPT ![v] = [u \in Users |-> 0]]
    BY <1>4 DEF Restart
  <2>3. fails' \in [Servers -> [Users -> Nat]] /\ hot' \in [Servers -> SUBSET Users]
    BY <2>2 DEF Counters
  <2> QED  BY <2>1, <2>2, <2>3 DEF otp, Counters
<1> QED  BY <1>1, <1>2, <1>3, <1>4 DEF AccountNext

-----------------------------------------------------------------------------
\* A thread goes on with its request, or takes one.
LEMMA GotoThreading ==
  ASSUME SuspInv, Threading, NEW t \in Threads, NEW s \in Stages \cup TxStages, Goto(t, s)
  PROVE  Threading'
<1>1. NoReq \in Request
  BY NoRowType DEF NoReq, Request
<1> QED  BY <1>1 DEF Goto, Threading

LEMMA TakeThreading ==
  ASSUME SuspInv, Threading, NEW t \in Threads, NEW k, NEW s \in Stages \cup TxStages,
         NEW op \in {"register", "confirm", "reset", "webhook", "resend", "forgot", "login",
                     "status", "verify", "redeem", "activate"},
         NEW u \in Users, NEW r \in Row, Take(t, k, s, op, u, r)
  PROVE  Threading'
<1>1. [op |-> op, user |-> u, row |-> r] \in Request
  BY DEF Request
<1> QED  BY <1>1 DEF Take, Threading

LEMMA GuessThreading ==
  ASSUME SuspInv, Threading, NEW t \in Threads, Confirm(t) \/ Reset(t) \/ Webhook(t)
  PROVE  Threading'
<1>1. ASSUME NEW op \in {"confirm", "reset", "webhook"},
             NEW expired \in {"delete", "disable"}, NEW right \in {"activate", "password"},
             Guess(t, op, expired, right)
      PROVE  Threading'
  <2>1. PICK u \in Users, s \in {expired, right, "bump"} :
          Take(t, "guess", s, op, u, Seen(t, op, u))
    BY <1>1 DEF Guess
  <2>2. Seen(t, op, u) \in Row /\ s \in Stages \cup TxStages
    BY FoundInTable DEF Seen, Stages, SuspInv, RowTypeOK
  <2> QED  BY <2>1, <2>2, TakeThreading
<1> QED  BY <1>1 DEF Confirm, Reset, Webhook

LEMMA ThreadingAfter ==
  ASSUME SuspInv, Threading, AccountNext
  PROVE  Threading'
<1>1. ASSUME NEW t \in Threads, Step(t)  PROVE Threading'
  <2>1. CASE Register(t) \/ Login(t)
    <3>1. PICK u \in Users, s \in Stages, op \in {"register", "login"}, k \in Kinds :
            Take(t, k, s, op, u, NoRow)
      BY <2>1 DEF Register, Login, Stages, Kinds
    <3> QED  BY <3>1, NoRowType, TakeThreading
  <2>2. CASE Resend(t) \/ Forgot(t)
    <3>1. PICK u \in Users, op \in {"resend", "forgot"} :
            Take(t, "renew", "renew", op, u, Found(t, u))
      BY <2>2 DEF Resend, Forgot, AskCode
    <3> QED  BY <3>1, FoundInTable, TakeThreading DEF Stages
  <2>3. CASE ToggleStatus(t) \/ Verify(t)
    <3>1. PICK u \in Users, op \in {"status", "verify"} : Take(t, "admin", op, op, u, users[u])
      BY <2>3 DEF ToggleStatus, Verify, AskStatus
    <3>2. users[u] \in Row
      BY DEF SuspInv, RowTypeOK
    <3> QED  BY <3>1, <3>2, TakeThreading DEF Stages
  <2>4. CASE Confirm(t) \/ Reset(t) \/ Webhook(t)
    BY <2>4, GuessThreading
  <2>5. CASE Insert(t)
    <3>1. PICK r, next : next \in {"mail", "idle"} /\ InsertUser(t, req[t].user, r, next)
      BY <2>5 DEF Insert
    <3> QED  BY <3>1, GotoThreading DEF InsertUser, Stages
  <2>6. CASE \/ Mail(t) \/ Bump(t) \/ Disable(t) \/ DeleteExpired(t) \/ Activate(t)
             \/ Password(t) \/ Renew(t) \/ LoginFailed(t) \/ LoggedIn(t) \/ SetStatus(t)
    <3>1. PICK s \in {"idle", "disable"} : Goto(t, s)
      BY <2>6 DEF Mail, Bump, Disable, DeleteExpired, Activate, Password, Renew,
         LoginFailed, LoggedIn, SetStatus
    <3> QED  BY <3>1, GotoThreading DEF Stages
  <2> QED  BY <1>1, <2>1, <2>2, <2>3, <2>4, <2>5, <2>6 DEF Step
<1>2. CASE CreateUser \/ DeleteUser \/ TimePasses
  BY <1>2 DEF CreateUser, DeleteUser, TimePasses, handlers, Threading
<1>3. ASSUME NEW v \in Servers, Restart(v)  PROVE Threading'
  <2>1. NoReq \in Request /\ "idle" \in Stages
    BY NoRowType DEF NoReq, Request, Stages
  <2> QED  BY <1>3, <2>1 DEF Restart, Threading
<1> QED  BY <1>1, <1>2, <1>3 DEF AccountNext

-----------------------------------------------------------------------------
(***************************************************************************)
(* What a step does to the codes and the attempts in the rows.             *)
(***************************************************************************)
\* Row x holds the code that this step has generated.
Renewed(x) == codes' = codes + 1 /\ users'[x].code = codes + 1

CodeStep(x) ==
  /\ users'[x].code \in {users[x].code, NoCode} \/ Renewed(x)
  /\ users'[x].status = "none" => users'[x] \in {users[x], NoRow}

CodeSteps ==
  /\ codes' >= codes /\ \A x \in Users : CodeStep(x)
  /\ \A x, y \in Users : Renewed(x) /\ Renewed(y) => x = y

\* The attempts go on with the code, or start again with another or none.
TriesStep(x) ==
  \/ users'[x].code = users[x].code /\ users'[x].tries = users[x].tries
  \/ users'[x].code = NoCode /\ users'[x].tries \in {users[x].tries, 0}
  \/ Renewed(x) /\ users'[x].tries = 0

RowSteps == CodeSteps /\ \A x \in Users : TriesStep(x)

LEMMA CodesAfter ==
  ASSUME SuspInv, SuspInv', CodesOK, Blank, CodeSteps
  PROVE  CodesOK' /\ Blank'
<1>1. \A x \in Users : users[x].code \in Nat /\ users'[x].code \in Nat
  BY AccountsAssumption DEF SuspInv, RowTypeOK, Row, Codes, NoCode
<1>2. codes \in Nat /\ codes' \in Nat
  BY AccountsAssumption DEF SuspInv, RowTypeOK
<1>3. \A x \in Users : users'[x].code <= codes'
  BY <1>1, <1>2 DEF CodesOK, CodeSteps, CodeStep, Renewed, NoCode
<1>4. ASSUME NEW x \in Users, NEW y \in Users,
             users'[x].code = users'[y].code, users'[x].code # NoCode
      PROVE  x = y
  <2>1. users[x].code <= codes /\ users[y].code <= codes
    BY DEF CodesOK
  <2>2. CASE Renewed(x) \/ Renewed(y)
    BY <1>1, <1>2, <1>4, <2>1, <2>2 DEF CodeSteps, CodeStep, Renewed
  <2>3. CASE ~Renewed(x) /\ ~Renewed(y)
    BY <1>4, <2>3 DEF CodeSteps, CodeStep, CodesOK, CodesDistinct
  <2> QED  BY <2>2, <2>3
<1>5. Blank'
  BY DEF Blank, CodeSteps, CodeStep
<1> QED  BY <1>3, <1>4, <1>5 DEF CodesOK, CodesDistinct

LEMMA RowsSame ==
  ASSUME SuspInv, CodesOK, users' = users, codes' \in Nat, codes' >= codes
  PROVE  RowSteps
<1>1. \A x \in Users : ~Renewed(x)
  <2>1. \A x \in Users : users[x].code \in Nat /\ users[x].code <= codes
    BY AccountsAssumption DEF SuspInv, RowTypeOK, Row, Codes, NoCode, CodesOK
  <2>2. codes \in Nat
    BY AccountsAssumption DEF SuspInv, RowTypeOK
  <2> QED  BY <2>1, <2>2 DEF Renewed
<1> QED  BY <1>1 DEF RowSteps, CodeSteps, CodeStep, TriesStep

\* One row is written.
LEMMA RowWritten ==
  ASSUME SuspInv, CodesOK, NEW u \in Users, NEW r \in Row, users' = [users EXCEPT ![u] = r],
         codes' \in Nat, codes' >= codes, r.status = "none" => r \in {users[u], NoRow},
         r.code \in {users[u].code, NoCode} \/ (codes' = codes + 1 /\ r.code = codes + 1)
  PROVE  /\ CodeSteps /\ users'[u] = r
         /\ \A x \in Users : x # u => TriesStep(x) /\ users'[x] = users[x]
<1>1. \A x \in Users : users[x].code \in Nat /\ users[x].code <= codes
  BY AccountsAssumption DEF SuspInv, RowTypeOK, Row, Codes, NoCode, CodesOK
<1>2. codes \in Nat
  BY AccountsAssumption DEF SuspInv, RowTypeOK
<1>3. users'[u] = r /\ \A x \in Users : x # u => users'[x] = users[x]
  BY DEF SuspInv, RowTypeOK
<1>4. \A x \in Users : x # u => ~Renewed(x)
  BY <1>1, <1>2, <1>3 DEF Renewed
<1>5. \A x \in Users : CodeStep(x)
  BY <1>3 DEF CodeStep, Renewed
<1>6. \A x \in Users : x # u => TriesStep(x)
  BY <1>3 DEF TriesStep
<1> QED  BY <1>3, <1>4, <1>5, <1>6 DEF CodeSteps

LEMMA RowRestarted ==
  ASSUME SuspInv, CodesOK, NEW u \in Users, NEW r \in Row, users' = [users EXCEPT ![u] = r],
         codes' \in Nat, codes' >= codes, r.status = "none" => r \in {users[u], NoRow},
         \/ r.code = users[u].code /\ r.tries = users[u].tries
         \/ r.code = NoCode /\ r.tries \in {users[u].tries, 0}
         \/ codes' = codes + 1 /\ r.code = codes + 1 /\ r.tries = 0
  PROVE  RowSteps
<1>1. /\ CodeSteps /\ users'[u] = r
      /\ \A x \in Users : x # u => TriesStep(x) /\ users'[x] = users[x]
  BY RowWritten
<1>2. TriesStep(u)
  BY <1>1 DEF TriesStep, Renewed
<1> QED  BY <1>1, <1>2 DEF RowSteps

-----------------------------------------------------------------------------
LEMMA EraseRows ==
  ASSUME SuspInv, CodesOK, NEW t \in Threads, NEW u \in Users, Erase(t, u), UNCHANGED codes
  PROVE  RowSteps
<1>1. users' = users \/ users' = [users EXCEPT ![u] = NoRow]
  BY DEF Erase, Store
<1>2. codes' \in Nat /\ codes' >= codes
  BY AccountsAssumption DEF SuspInv, RowTypeOK
<1>3. NoRow.code = NoCode /\ NoRow.tries = 0
  BY DEF NoRow
<1> QED  BY <1>1, <1>2, <1>3, NoRowType, RowsSame, RowRestarted

\* A row that is there is updated: update_user_otp and update_user_password
\* begin to count again, the activation forgets the code.
LEMMA UpdateRows ==
  ASSUME SuspInv, CodesOK, NEW u \in Users, NEW c \in Codes \cup {NoCode},
         users[u].status # "none",
         \/ users' = [users EXCEPT ![u] = WithCode(users[u], c)]
         \/ users' = [users EXCEPT ![u] = Activated(users[u])],
         codes' \in Nat, codes' >= codes,
         c = NoCode \/ (codes' = codes + 1 /\ c = codes + 1)
  PROVE  RowSteps
<1>1. /\ WithCode(users[u], c) \in Row /\ WithCode(users[u], c).status = users[u].status
      /\ Activated(users[u]) \in Row
  BY RowUpdates DEF SuspInv, RowTypeOK
<1>2. /\ WithCode(users[u], c).code = c /\ WithCode(users[u], c).tries = 0
      /\ Activated(users[u]).code = NoCode /\ Activated(users[u]).tries = users[u].tries
      /\ Activated(users[u]).status = "active"
  BY DEF SuspInv, RowTypeOK, WithCode, Activated, Row
<1>3. CASE users' = [users EXCEPT ![u] = WithCode(users[u], c)]
  <2> DEFINE r == WithCode(users[u], c)
  <2>1. /\ r \in Row /\ r.status # "none" /\ r.code = c /\ r.tries = 0
        /\ users' = [users EXCEPT ![u] = r]
    BY <1>1, <1>2, <1>3
  <2> HIDE DEF r
  <2> QED  BY <2>1, RowRestarted
<1>4. CASE users' = [users EXCEPT ![u] = Activated(users[u])]
  <2> DEFINE r == Activated(users[u])
  <2>1. /\ r \in Row /\ r.status # "none" /\ r.code = NoCode /\ r.tries = users[u].tries
        /\ users' = [users EXCEPT ![u] = r]
    BY <1>1, <1>2, <1>4
  <2> HIDE DEF r
  <2> QED  BY <2>1, RowRestarted
<1> QED  BY <1>3, <1>4

LEMMA InsertRows ==
  ASSUME SuspInv, CodesOK, NEW t \in Threads, Insert(t)
  PROVE  RowSteps
<1> DEFINE waits  == [id |-> ids + 1, status |-> "pending_otp", code |-> FreshCode, tries |-> 0]
           active == [id |-> ids + 1, status |-> "active", code |-> NoCode, tries |-> 0]
<1>1. req[t].user \in Users
  BY DEF Insert, SuspInv, Serving
<1>2. PICK u \in Users : u = req[t].user
  BY <1>1
<1>3. CASE Generate /\ InsertUser(t, u, waits, "mail")
  <2>1. waits \in Row
    BY <1>3, AccountsAssumption DEF Row, FreshCode, Codes, Generate, SuspInv, RowTypeOK
  <2>2. codes' = codes + 1 /\ codes' \in Nat /\ codes' >= codes
    BY <1>3, AccountsAssumption DEF Generate, SuspInv, RowTypeOK
  <2>3. waits.code = codes + 1 /\ waits.tries = 0 /\ waits.status # "none"
    BY DEF FreshCode
  <2> HIDE DEF waits
  <2>4. users' = users \/ users' = [users EXCEPT ![u] = waits]
    BY <1>3 DEF InsertUser
  <2> QED  BY <2>1, <2>2, <2>3, <2>4, RowsSame, RowRestarted
<1>4. CASE UNCHANGED otp /\ InsertUser(t, u, active, "idle")
  <2>1. active \in Row
    BY DEF Row, SuspInv, RowTypeOK
  <2>2. codes' \in Nat /\ codes' >= codes
    BY <1>4, AccountsAssumption DEF otp, SuspInv, RowTypeOK
  <2>3. active.code = NoCode /\ active.tries = 0 /\ active.status # "none"
    OBVIOUS
  <2> HIDE DEF active
  <2>4. users' = users \/ users' = [users EXCEPT ![u] = active]
    BY <1>4 DEF InsertUser
  <2> QED  BY <2>1, <2>2, <2>3, <2>4, RowsSame, RowRestarted
<1> QED  BY <1>2, <1>3, <1>4 DEF Insert

LEMMA CodeRows ==
  ASSUME SuspInv, CodesOK, NEW t \in Threads, Disable(t) \/ Password(t) \/ Renew(t)
  PROVE  RowSteps
<1>1. req[t].user \in Users
  BY DEF Disable, Password, Renew, SuspInv, Serving
<1>2. PICK u \in Users : u = req[t].user
  BY <1>1
<1>3. \E c \in Codes \cup {NoCode} :
        /\ c = NoCode \/ (codes' = codes + 1 /\ c = codes + 1)
        /\ Update(t, u, WithCode(Found(t, u), c)) \/ Fails(t, u)
  <2>1. Renew(t) => FreshCode \in Codes /\ FreshCode = codes + 1 /\ codes' = codes + 1
    BY AccountsAssumption DEF Renew, Generate, FreshCode, Codes, SuspInv, RowTypeOK
  <2> QED  BY <1>2, <2>1 DEF Disable, Password, Renew
<1>4. PICK c \in Codes \cup {NoCode} :
        /\ c = NoCode \/ (codes' = codes + 1 /\ c = codes + 1)
        /\ Update(t, u, WithCode(Found(t, u), c)) \/ Fails(t, u)
  BY <1>3
<1>5. codes' \in Nat /\ codes' >= codes
  BY AccountsAssumption DEF Disable, Password, Renew, Generate, otp, SuspInv, RowTypeOK
<1>6. \/ users' = users
      \/ users[u].status # "none" /\ users' = [users EXCEPT ![u] = WithCode(users[u], c)]
  BY <1>4 DEF Update, Fails, Store, Found, tables
<1> QED  BY <1>4, <1>5, <1>6, RowsSame, UpdateRows

LEMMA ActivateRows ==
  ASSUME SuspInv, CodesOK, NEW t \in Threads, Activate(t)
  PROVE  RowSteps
<1>1. req[t].user \in Users
  BY DEF Activate, SuspInv, Serving
<1>2. PICK u \in Users : u = req[t].user
  BY <1>1
<1>3. codes' \in Nat /\ codes' >= codes
  BY AccountsAssumption DEF Activate, otp, SuspInv, RowTypeOK
<1>4. \/ users' = users
      \/ users[u].status # "none" /\ users' = [users EXCEPT ![u] = Activated(users[u])]
  BY <1>2 DEF Activate, Update, Store, Found, tables
<1> QED  BY <1>3, <1>4, RowsSame, UpdateRows

LEMMA SetStatusRows ==
  ASSUME SuspInv, CodesOK, NEW t \in Threads, SetStatus(t)
  PROVE  RowSteps
<1>0. req[t].user \in Users
  BY DEF SetStatus, SuspInv, Serving
<1>1. PICK u \in Users : u = req[t].user
  BY <1>0
<1> DEFINE to == IF req[t].row.status = "active" THEN "suspended" ELSE "active"
<1>2. codes' \in Nat /\ codes' >= codes
  BY AccountsAssumption DEF SetStatus, otp, SuspInv, RowTypeOK
<1>3. \/ users' = users
      \/ users' = [users EXCEPT ![u] = Activated(users[u])]
      \/ users' = [users EXCEPT ![u] = [users[u] EXCEPT !.status = to]]
  BY <1>1 DEF SetStatus
<1>4. users[u] \in Row /\ NoCode \in Codes \cup {NoCode}
  BY DEF SuspInv, RowTypeOK
<1>5. /\ Activated(users[u]) \in Row /\ [users[u] EXCEPT !.status = to] \in Row
      /\ Activated(users[u]).status # "none" /\ [users[u] EXCEPT !.status = to].status # "none"
      /\ Activated(users[u]).code = NoCode /\ Activated(users[u]).tries = users[u].tries
      /\ [users[u] EXCEPT !.status = to].code = users[u].code
      /\ [users[u] EXCEPT !.status = to].tries = users[u].tries
  <2>1. to \in {"active", "suspended"}
    OBVIOUS
  <2>2. Activated(users[u]) \in Row /\ [users[u] EXCEPT !.status = to] \in Row
    BY <1>4, <2>1, RowUpdates
  <2> QED  BY <1>4, <2>1, <2>2 DEF Row, Activated
<1>6. \E r \in Row :
        /\ users' = users \/ users' = [users EXCEPT ![u] = r]
        /\ r.status # "none" /\ r.tries = users[u].tries /\ r.code \in {users[u].code, NoCode}
  <2> DEFINE a == Activated(users[u])
             b == [users[u] EXCEPT !.status = to]
  <2>1. (users' = users \/ users' = [users EXCEPT ![u] = a]) \/ users' = [users EXCEPT ![u] = b]
    BY <1>3
  <2>2. /\ a \in Row /\ b \in Row /\ a.status # "none" /\ b.status # "none"
        /\ a.code = NoCode /\ a.tries = users[u].tries
        /\ b.code = users[u].code /\ b.tries = users[u].tries
    BY <1>5
  <2> HIDE DEF a, b
  <2> QED  BY <2>1, <2>2
<1>7. PICK r \in Row :
        /\ users' = users \/ users' = [users EXCEPT ![u] = r]
        /\ r.status # "none" /\ r.tries = users[u].tries /\ r.code \in {users[u].code, NoCode}
  BY <1>6
<1> QED  BY <1>2, <1>7, RowsSame, RowRestarted

\* The increment is the only step that counts a row up.
Incremented(u) == [users EXCEPT ![u] = [users[u] EXCEPT !.tries = users[u].tries + 1]]

LEMMA BumpRows ==
  ASSUME SuspInv, CodesOK, NEW t \in Threads, Bump(t)
  PROVE  /\ CodeSteps /\ req[t].user \in Users /\ UNCHANGED otp
         /\ \A u \in Users : users' = Incremented(u) =>
              /\ users'[u] = [users[u] EXCEPT !.tries = users[u].tries + 1]
              /\ users'[u].code = users[u].code /\ users'[u].tries = users[u].tries + 1
              /\ \A x \in Users : x # u => users'[x] = users[x]
         /\ users' = users \/ (users' = Incremented(req[t].user)
                               /\ users[req[t].user].status # "none")
<1>1. req[t].user \in Users /\ UNCHANGED otp
  BY DEF Bump, SuspInv, Serving
<1>2. PICK u \in Users : u = req[t].user
  BY <1>1
<1>3. codes' \in Nat /\ codes' >= codes
  BY <1>1, AccountsAssumption DEF otp, SuspInv, RowTypeOK
<1>4. ASSUME NEW x \in Users
      PROVE  LET r == [users[x] EXCEPT !.tries = users[x].tries + 1] IN
             r \in Row /\ r.status = users[x].status /\ r.code = users[x].code
             /\ r.tries = users[x].tries + 1
  <2>1. users[x] \in Row /\ NoCode \in Codes \cup {NoCode}
    BY DEF SuspInv, RowTypeOK
  <2>2. [users[x] EXCEPT !.tries = users[x].tries + 1] \in Row
    BY <2>1, RowUpdates
  <2> QED  BY <2>1, <2>2 DEF Row
<1>5. users' = users \/ (users' = Incremented(u) /\ users[u].status # "none")
  <2> DEFINE f == Found(t, u)
  <2>1. \/ f.status # "none" /\ Store(t, u, [f EXCEPT !.tries = f.tries + 1])
        \/ users' = users
        \/ f.status # "none" /\ ~InMemory(t, u) /\ users' = [users EXCEPT ![u].tries = @ + 1]
    BY <1>2 DEF Bump, tables
  <2>2. InMemory(t, u) /\ Store(t, u, [f EXCEPT !.tries = f.tries + 1]) => users' = users
    BY DEF Store
  <2>3. ~InMemory(t, u) => f = users[u]
    BY DEF Found
  <2>4. ~InMemory(t, u) /\ Store(t, u, [f EXCEPT !.tries = f.tries + 1]) => users' = Incremented(u)
    BY <2>3 DEF Store, Incremented
  <2> QED  BY <2>1, <2>2, <2>3, <2>4 DEF Incremented
<1>6. ASSUME NEW x \in Users, users' = Incremented(x)
      PROVE  /\ users'[x] = [users[x] EXCEPT !.tries = users[x].tries + 1]
             /\ users'[x].code = users[x].code /\ users'[x].tries = users[x].tries + 1
             /\ \A y \in Users : y # x => users'[y] = users[y]
  <2>1. users \in [Users -> Row]
    BY DEF SuspInv, RowTypeOK
  <2>2. users'[x] = [users[x] EXCEPT !.tries = users[x].tries + 1]
        /\ \A y \in Users : y # x => users'[y] = users[y]
    BY <1>6, <2>1 DEF Incremented
  <2> QED  BY <1>4, <2>2
<1>7. CodeSteps
  <2>1. CASE users' = users
    BY <1>3, <2>1, RowsSame DEF RowSteps
  <2>2. CASE users' = Incremented(u) /\ users[u].status # "none"
    <3> DEFINE r == [users[u] EXCEPT !.tries = users[u].tries + 1]
    <3>1. r \in Row /\ r.status = users[u].status /\ r.code = users[u].code
      BY <1>4
    <3>2. users' = [users EXCEPT ![u] = r]
      BY <2>2 DEF Incremented
    <3> HIDE DEF r
    <3> QED  BY <1>3, <2>2, <3>1, <3>2, RowWritten
  <2> QED  BY <1>5, <2>1, <2>2
<1> QED  BY <1>1, <1>2, <1>5, <1>6, <1>7

-----------------------------------------------------------------------------
LEMMA StepRows ==
  ASSUME SuspInv, CodesOK, NEW t \in Threads, Step(t)
  PROVE  CodeSteps /\ (Bump(t) \/ RowSteps)
<1>1. CASE \/ Register(t) \/ Resend(t) \/ Forgot(t) \/ ToggleStatus(t) \/ Verify(t) \/ Login(t)
           \/ Confirm(t) \/ Reset(t) \/ Webhook(t) \/ LoginFailed(t) \/ LoggedIn(t)
  <2>1. users' = users /\ codes' = codes
    BY <1>1 DEF Register, Resend, Forgot, AskCode, ToggleStatus, Verify, AskStatus, Login,
       Confirm, Reset, Webhook, Guess, LoginFailed, LoggedIn, tables, otp
  <2>2. codes' \in Nat /\ codes' >= codes
    BY <2>1, AccountsAssumption DEF SuspInv, RowTypeOK
  <2> QED  BY <2>1, <2>2, RowsSame DEF RowSteps
<1>2. CASE Mail(t) \/ DeleteExpired(t)
  <2>1. UNCHANGED codes /\ req[t].user \in Users
    BY <1>2 DEF Mail, DeleteExpired, otp, SuspInv, Serving
  <2>2. Erase(t, req[t].user) \/ users' = users
    BY <1>2 DEF Mail, DeleteExpired, Fails, tables
  <2>3. codes' \in Nat /\ codes' >= codes
    BY <2>1, AccountsAssumption DEF SuspInv, RowTypeOK
  <2> QED  BY <2>1, <2>2, <2>3, EraseRows, RowsSame DEF RowSteps
<1> QED  BY <1>1, <1>2, InsertRows, CodeRows, ActivateRows, SetStatusRows, BumpRows
         DEF Step, RowSteps

LEMMA OtherRows ==
  ASSUME SuspInv, CodesOK, CreateUser \/ DeleteUser \/ TimePasses \/ \E v \in Servers : Restart(v)
  PROVE  RowSteps
<1>1. codes' \in Nat /\ codes' >= codes
  BY AccountsAssumption DEF CreateUser, DeleteUser, TimePasses, Restart, otp, SuspInv, RowTypeOK
<1>2. CASE CreateUser
  <2>1. PICK u \in Users : users[u].status = "none"
          /\ users' = [users EXCEPT ![u] = [NoRow EXCEPT !.id = ids + 1, !.status = "active"]]
    BY <1>2 DEF CreateUser
  <2> DEFINE r == [NoRow EXCEPT !.id = ids + 1, !.status = "active"]
  <2>2. ids + 1 \in Nat /\ NoRow.code = NoCode /\ NoRow.tries = 0
    BY DEF NoRow, SuspInv, RowTypeOK
  <2>3. r \in Row /\ r.status # "none" /\ r.code = NoCode /\ r.tries = 0
    <3>1. ASSUME NEW x \in Row, NEW n \in Nat
          PROVE  LET y == [x EXCEPT !.id = n, !.status = "active"] IN
                 y \in Row /\ y.status = "active" /\ y.code = x.code /\ y.tries = x.tries
      BY DEF Row
    <3> QED  BY <2>2, <3>1, NoRowType
  <2>4. users' = [users EXCEPT ![u] = r]
    BY <2>1
  <2> HIDE DEF r
  <2> QED  BY <1>1, <2>3, <2>4, RowRestarted
<1>3. CASE DeleteUser
  <2>1. PICK u \in Users : users' = [users EXCEPT ![u] = NoRow]
    BY <1>3 DEF DeleteUser, Deleted
  <2>2. NoRow.code = NoCode /\ NoRow.tries = 0
    BY DEF NoRow
  <2> QED  BY <1>1, <2>1, <2>2, NoRowType, RowRestarted
<1>4. CASE TimePasses \/ \E v \in Servers : Restart(v)
  <2>1. users' = users
    BY <1>4 DEF TimePasses, Restart, tables
  <2> QED  BY <1>1, <2>1, RowsSame
<1> QED  BY <1>2, <1>3, <1>4

LEMMA AccountKeeps ==
  ASSUME AccountInv, AccountNext
  PROVE  AccountInv'
<1>1. SuspInv' /\ Counters' /\ Threading'
  BY StepKeeps, CountersAfter, ThreadingAfter DEF AccountInv
<1>2. CodeSteps
  BY StepRows, OtherRows DEF AccountInv, AccountNext, RowSteps
<1>3. CodesOK' /\ Blank'
  BY <1>1, <1>2, CodesAfter DEF AccountInv
<1> QED  BY <1>1, <1>3 DEF AccountInv

\* What the transactions of vouchers leave, and how their threads go on.
VoucherMove(t) ==
  \/ \E s \in TxStages \cup {"idle"} : Goto(t, s) /\ pc[t] \in TxStages
  \/ \E k \in {"redeem", "activate"}, s \in {"lock", "pick"}, u \in Users :
       Take(t, k, s, k, u, users[u])
  \/ pc[t] = "idle" /\ pc' = [pc EXCEPT ![t] = "toggle"] /\ req' = req

VoucherLeft == UNCHANGED <<tables, otp, lockout>> /\ EnvStep
               /\ (UNCHANGED left \/ \E k \in Kinds : Spend(k))

LEMMA VoucherMoves ==
  ASSUME NEW t \in Threads,
         \/ Redeem(t) \/ LockVoucher(t) \/ WriteRedemption(t) \/ Entitle(t) \/ CommitRedeem(t)
         \/ Activation(t) \/ PickRedemption(t) \/ PauseOthers(t) \/ CommitActivate(t)
         \/ Rollback(t) \/ AskToggle(t) \/ SetToggle(t)
  PROVE  VoucherMove(t) /\ VoucherLeft
<1>1. CASE Redeem(t) \/ Activation(t)
  <2>1. \E u \in Users, k \in {"redeem", "activate"}, s \in {"lock", "pick"} :
          Take(t, k, s, k, u, users[u]) /\ Admitted(u)
    <3>1. CASE Redeem(t)
      <4>1. PICK u \in Users, c \in VoucherCodes :
              Begin(t, "redeem", "lock", u, c, NoRedemption)
        BY <3>1 DEF Redeem
      <4> QED  BY <4>1 DEF Begin
    <3>2. CASE Activation(t)
      <4>1. PICK u \in Users, r \in Redemptions : Begin(t, "activate", "pick", u, "none", r)
        BY <3>2 DEF Activation
      <4> QED  BY <4>1 DEF Begin
    <3> QED  BY <1>1, <3>1, <3>2
  <2>p. PICK u \in Users, k \in {"redeem", "activate"}, s \in {"lock", "pick"} :
          Take(t, k, s, k, u, users[u]) /\ Admitted(u)
    BY <2>1
  <2>2. EnvStep
    BY <2>p DEF Admitted, EnvStep, Events
  <2>3. UNCHANGED <<tables, otp, lockout>>
    BY <1>1 DEF Redeem, Activation
  <2>4. \E x \in Kinds : Spend(x)
    BY <2>p DEF Take, Kinds
  <2> QED  BY <2>1, <2>2, <2>3, <2>4 DEF VoucherMove, VoucherLeft
<1>2. CASE AskToggle(t)
  <2>1. pc[t] = "idle" /\ pc' = [pc EXCEPT ![t] = "toggle"] /\ req' = req
    BY <1>2 DEF AskToggle
  <2>2. UNCHANGED <<tables, otp, lockout, env>> /\ Spend("voucher")
    BY <1>2 DEF AskToggle, voucherTables
  <2> QED  BY <2>1, <2>2 DEF VoucherMove, VoucherLeft, EnvStep, Kinds
<1>3. CASE \/ CommitRedeem(t) \/ CommitActivate(t) \/ Rollback(t) \/ SetToggle(t)
  <2>1. Goto(t, "idle") /\ UNCHANGED <<tables, otp, lockout, env, left>>
    BY <1>3 DEF CommitRedeem, CommitActivate, Rollback, SetToggle
  <2>2. pc[t] \in TxStages
    BY <1>3 DEF CommitRedeem, CommitActivate, Rollback, SetToggle, TxStages
  <2> QED  BY <2>1, <2>2 DEF VoucherMove, VoucherLeft, EnvStep
<1>4. CASE \/ LockVoucher(t) \/ WriteRedemption(t) \/ Entitle(t)
           \/ PickRedemption(t) \/ PauseOthers(t)
  <2>1. \E s \in TxStages : Goto(t, s) /\ pc[t] \in TxStages
    BY <1>4 DEF LockVoucher, WriteRedemption, Entitle, PickRedemption, PauseOthers, TxStages
  <2>2. UNCHANGED <<tables, otp, lockout, env, left>>
    BY <1>4 DEF LockVoucher, WriteRedemption, Entitle, PickRedemption, PauseOthers
  <2> QED  BY <2>1, <2>2 DEF VoucherMove, VoucherLeft, EnvStep
<1> QED  BY <1>1, <1>2, <1>3, <1>4

LEMMA VoucherTablesLeft ==
  ASSUME \/ CreateVoucher \/ CreateBatch \/ DeleteVoucher \/ SavePackages
         \/ EditUser \/ DeactivatePackage \/ VoucherExpires
         \/ UNCHANGED vars
  PROVE  VoucherLeft /\ UNCHANGED handlers
  BY DEF CreateVoucher, CreateBatch, DeleteVoucher, SavePackages, EditUser, DeactivatePackage,
     PackageByHand, VoucherExpires, vars, accountVars, VoucherLeft, EnvStep, Kinds

LEMMA VoucherThreading ==
  ASSUME AccountInv, NEW t \in Threads, VoucherMove(t)
  PROVE  Threading'
<1>1. CASE \E s \in TxStages \cup {"idle"} : Goto(t, s)
  BY <1>1, GotoThreading DEF AccountInv, Stages
<1>2. CASE \E k \in {"redeem", "activate"}, s \in {"lock", "pick"}, u \in Users :
             Take(t, k, s, k, u, users[u])
  <2>1. PICK k \in {"redeem", "activate"}, s \in {"lock", "pick"}, u \in Users :
          Take(t, k, s, k, u, users[u])
    BY <1>2
  <2>2. users[u] \in Row /\ s \in Stages \cup TxStages
    BY DEF AccountInv, SuspInv, RowTypeOK, TxStages
  <2> QED  BY <2>1, <2>2, TakeThreading DEF AccountInv
<1>3. CASE pc' = [pc EXCEPT ![t] = "toggle"] /\ req' = req
  BY <1>3 DEF AccountInv, Threading, TxStages
<1> QED  BY <1>1, <1>2, <1>3 DEF VoucherMove

LEMMA VouchersKeepAccounts ==
  ASSUME AccountInv, SuspInv', VoucherLeft, Threading'
  PROVE  AccountInv'
<1>1. Counters'
  <2>1. Counted
    BY DEF VoucherLeft, Counted, tables, AccountInv, Counters
  <2>2. UNCHANGED lockout
    BY DEF VoucherLeft
  <2> QED  BY <2>1, <2>2, CountersKept DEF AccountInv, Counters, lockout
<1>2. CodesOK' /\ Blank'
  BY DEF VoucherLeft, tables, otp, AccountInv, CodesOK, CodesDistinct, Blank
<1> QED  BY <1>1, <1>2 DEF AccountInv

LEMMA AccountInitially == VoucherInit => AccountInv
<1> SUFFICES ASSUME SuspInv, AccountInit  PROVE AccountInv
  BY SuspInit DEF VoucherInit
<1>1. \A u \in Users : \/ users[u] = NoRow
                       \/ users[u].status = "active" /\ users[u].code = NoCode
  <2>1. PICK Old \in SUBSET Users : \E rank \in [Old -> 1..Cardinality(Old)] :
          /\ users = [u \in Users |-> IF u \in Old
                      THEN [NoRow EXCEPT !.id = rank[u], !.status = "active"] ELSE NoRow]
          /\ ids = Cardinality(Old)
    BY DEF AccountInit
  <2>2. PICK rank \in [Old -> 1..Cardinality(Old)] :
          users = [u \in Users |-> IF u \in Old
                    THEN [NoRow EXCEPT !.id = rank[u], !.status = "active"] ELSE NoRow]
    BY <2>1
  <2>3. ASSUME NEW n  PROVE [NoRow EXCEPT !.id = n, !.status = "active"].status = "active"
                            /\ [NoRow EXCEPT !.id = n, !.status = "active"].code = NoCode
    BY DEF NoRow
  <2>4. ASSUME NEW u \in Users, u \in Old
        PROVE  users[u].status = "active" /\ users[u].code = NoCode
    <3>1. users[u] = [NoRow EXCEPT !.id = rank[u], !.status = "active"]
      BY <2>2, <2>4
    <3> QED  BY <2>3, <3>1
  <2>5. ASSUME NEW u \in Users, u \notin Old
        PROVE  users[u] = NoRow
    BY <2>2, <2>5
  <2> QED  BY <2>4, <2>5
<1>2. CodesOK /\ Blank
  <2>1. codes = 0
    BY DEF AccountInit
  <2>2. \A u \in Users : users[u].code = NoCode
    BY <1>1 DEF NoRow
  <2>3. Blank
    BY <1>1 DEF Blank, NoRow
  <2> QED  BY <2>1, <2>2, <2>3 DEF CodesOK, CodesDistinct, NoCode
<1>3. Counters
  <2>1. /\ age = [c \in Codes |-> "new"] /\ wrong = [c \in Codes |-> 0]
        /\ fails = [v \in Servers |-> [u \in Users |-> 0]] /\ hot = [v \in Servers |-> {}]
        /\ left \in Workloads /\ env = [e \in Events |-> 0] /\ shadowed = {}
    BY DEF AccountInit
  <2>2. left \in [Kinds -> Nat]
    BY <2>1, AccountsAssumption
  <2>3. fails \in [Servers -> [Users -> Nat]]
    <3>1. [u \in Users |-> 0] \in [Users -> Nat]
      OBVIOUS
    <3> QED  BY <2>1, <3>1
  <2> QED  BY <2>1, <2>2, <2>3 DEF Counters
<1>4. Threading
  <2>1. NoReq \in Request /\ "idle" \in Stages
    BY NoRowType DEF NoReq, Request, Stages
  <2>2. pc = [t \in Threads |-> "idle"] /\ req = [t \in Threads |-> NoReq]
    BY DEF AccountInit
  <2> QED  BY <2>1, <2>2 DEF Threading
<1> QED  BY <1>2, <1>3, <1>4 DEF AccountInv

LEMMA NextKeepsAccounts ==
  ASSUME AccountInv, [VoucherNext]_vars
  PROVE  AccountInv'
<1>1. CASE AccountStep
  BY <1>1, AccountKeeps DEF AccountStep
<1>2. ASSUME NEW t \in Threads,
             \/ Redeem(t) \/ LockVoucher(t) \/ WriteRedemption(t) \/ Entitle(t) \/ CommitRedeem(t)
             \/ Activation(t) \/ PickRedemption(t) \/ PauseOthers(t) \/ CommitActivate(t)
             \/ Rollback(t) \/ AskToggle(t) \/ SetToggle(t)
      PROVE  AccountInv'
  <2>1. SuspInv'
    BY <1>2, TransactionKeeps DEF AccountInv
  <2> QED  BY <1>2, <2>1, VoucherMoves, VoucherThreading, VouchersKeepAccounts
<1>3. CASE \/ CreateVoucher \/ CreateBatch \/ DeleteVoucher \/ SavePackages
           \/ EditUser \/ DeactivatePackage \/ VoucherExpires
           \/ UNCHANGED vars
  <2>1. SuspInv'
    BY <1>3, VoucherTablesKeep DEF AccountInv
  <2>2. VoucherLeft /\ UNCHANGED handlers
    BY <1>3, VoucherTablesLeft
  <2>3. Threading'
    BY <2>2 DEF handlers, AccountInv, Threading
  <2> QED  BY <2>1, <2>2, <2>3, VouchersKeepAccounts
<1> QED  BY <1>1, <1>2, <1>3 DEF VoucherNext, Quiet

\* Accounts keeps to its types, and no code is ever the code of two accounts,
\* whatever fails and whichever server restarts.
LEMMA AccountsAlways == Spec => []AccountInv
<1> QED  BY AccountInitially, NextKeepsAccounts, PTL DEF Spec

LEMMA AccountTypes == AccountInv => AccountsTypeOK
  BY DEF AccountInv, SuspInv, RowTypeOK, Counters, Threading, Request, CodesOK, AccountsTypeOK

-----------------------------------------------------------------------------
(***************************************************************************)
(* How often a code is guessed.  A wrong guess is compared first and       *)
(* counted in a statement of its own; until then it is on its way, and a   *)
(* restart forgets it.  So the guesses at a code are no more than those    *)
(* its row has counted, those on their way, and those lost in restarts;    *)
(* and a row counts no further than one short of the limit but for the     *)
(* threads that are about to disable its code.                             *)
(***************************************************************************)
Plain == env["stmt_failure"] = 0 /\ shadowed = {}

Guessed(c)   == {t \in Threads : pc[t] = "bump" /\ req[t].row.code = c}
Disabling(u) == {t \in Threads : pc[t] = "disable" /\ req[t].user = u}
Lost == Cardinality(Threads) * env["restart"]

\* A request knows no code that is still to come, and a guess that is not yet
\* counted was at a code of the account that it is going to be counted for.
Told ==
  /\ \A t \in Threads : req[t].row.code <= codes
  /\ \A t \in Threads, u \in Users :
       pc[t] = "bump" /\ users[u].code = req[t].row.code /\ users[u].code # NoCode
         => req[t].user = u

Unguessed == \A c \in Codes : c > codes => wrong[c] = 0

TriesOK(u) == users[u].tries <= kMaxOtpAttempts - 1 + Cardinality(Disabling(u)) + Lost

WrongOK(u) == users[u].code # NoCode =>
  /\ wrong[users[u].code] <= users[u].tries + Cardinality(Guessed(users[u].code)) + Lost
  /\ wrong[users[u].code] <= kMaxOtpAttempts - 1 + Cardinality(Guessed(users[u].code))
                               + Cardinality(Disabling(u)) + Lost

Bounded == \A c \in Codes : wrong[c] <= kMaxOtpAttempts - 1 + Cardinality(Threads) + Lost

OtpOK == Plain => Told /\ Unguessed /\ (\A u \in Users : TriesOK(u) /\ WrongOK(u)) /\ Bounded

-----------------------------------------------------------------------------
LEMMA ThreadSet ==
  ASSUME NEW S \in SUBSET Threads
  PROVE  /\ IsFiniteSet(S) /\ Cardinality(S) \in Nat /\ Cardinality(S) <= Cardinality(Threads)
         /\ \A R \in SUBSET S : IsFiniteSet(R) /\ Cardinality(R) \in Nat
                                /\ Cardinality(R) <= Cardinality(S)
<1>1. IsFiniteSet(Threads)
  BY AccountsAssumption
<1>2. IsFiniteSet(S)
  BY <1>1, FS_Subset
<1> QED  BY <1>1, <1>2, FS_Subset, FS_CardinalityType

LEMMA ApartSets ==
  ASSUME NEW A \in SUBSET Threads, NEW B \in SUBSET Threads, A \cap B = {}
  PROVE  Cardinality(A) + Cardinality(B) <= Cardinality(Threads)
<1>1. IsFiniteSet(A) /\ IsFiniteSet(B) /\ Cardinality(A) \in Nat /\ Cardinality(B) \in Nat
  BY ThreadSet
<1>2. Cardinality(A \cup B) = Cardinality(A) + Cardinality(B) - Cardinality(A \cap B)
  BY <1>1, FS_Union
<1>3. Cardinality(A \cap B) = 0
  BY FS_EmptySet
<1>4. Cardinality(A \cup B) <= Cardinality(Threads)
  <2>1. A \cup B \in SUBSET Threads
    OBVIOUS
  <2> QED  BY <2>1, ThreadSet
<1> QED  BY <1>1, <1>2, <1>3, <1>4

LEMMA LostType ==
  ASSUME Counters
  PROVE  Lost \in Nat /\ Cardinality(Threads) \in Nat /\ env["restart"] \in Nat
<1>1. Cardinality(Threads) \in Nat /\ env["restart"] \in Nat
  BY ThreadSet DEF Counters, Events
<1>2. ASSUME NEW m \in Nat, NEW n \in Nat  PROVE m * n \in Nat
  OBVIOUS
<1> QED  BY <1>1, <1>2 DEF Lost

\* The guesses that were counted and those on their way are of other threads.
LEMMA OtpSets ==
  ASSUME NEW c, NEW u
  PROVE  /\ Guessed(c) \in SUBSET Threads /\ Disabling(u) \in SUBSET Threads
         /\ Cardinality(Guessed(c)) \in Nat /\ Cardinality(Disabling(u)) \in Nat
         /\ Cardinality(Guessed(c)) + Cardinality(Disabling(u)) <= Cardinality(Threads)
<1>1. Guessed(c) \in SUBSET Threads /\ Disabling(u) \in SUBSET Threads
  BY DEF Guessed, Disabling
<1>2. Guessed(c) \cap Disabling(u) = {}
  BY DEF Guessed, Disabling
<1> QED  BY <1>1, <1>2, ThreadSet, ApartSets

LEMMA OtpSetsAfter ==
  ASSUME NEW c, NEW u
  PROVE  /\ Guessed(c)' \in SUBSET Threads /\ Disabling(u)' \in SUBSET Threads
         /\ Cardinality(Guessed(c))' \in Nat /\ Cardinality(Disabling(u))' \in Nat
         /\ Cardinality(Guessed(c))' + Cardinality(Disabling(u))' <= Cardinality(Threads)
<1>1. Guessed(c)' \in SUBSET Threads /\ Disabling(u)' \in SUBSET Threads
  BY DEF Guessed, Disabling
<1>2. Guessed(c)' \cap Disabling(u)' = {}
  BY DEF Guessed, Disabling
<1> QED  BY <1>1, <1>2, ThreadSet, ApartSets

\* A thread neither takes up nor loses a guess that is on its way, and one that
\* is done with disabling a code leaves a row without one.
Disabled(u) == users'[u].code = NoCode /\ users'[u].tries = 0

Otherwise(t) ==
  \/ pc'[t] = pc[t] /\ req'[t] = req[t]
  \/ /\ pc[t] # "bump" /\ pc'[t] # "bump" /\ req'[t].row.code <= codes'
     /\ pc[t] = "disable" => Disabled(req[t].user)

LEMMA OtpFrame ==
  ASSUME AccountInv, AccountInv', Plain, OtpOK, RowSteps, wrong' = wrong,
         env'["restart"] = env["restart"], \A t \in Threads : Otherwise(t)
  PROVE  OtpOK'
<1>1. Lost' = Lost /\ Lost \in Nat
  BY LostType DEF Lost, AccountInv
<1>2. /\ codes \in Nat /\ codes' \in Nat /\ codes' >= codes
      /\ kMaxOtpAttempts \in Nat \ {0}
  BY AccountsAssumption DEF AccountInv, SuspInv, RowTypeOK, RowSteps, CodeSteps
<1>3. \A u \in Users : /\ users[u].tries \in Nat /\ users[u].code \in Codes \cup {NoCode}
                       /\ users'[u].tries \in Nat /\ users'[u].code \in Codes \cup {NoCode}
  BY DEF AccountInv, SuspInv, RowTypeOK, Row
<1>4. Told /\ Unguessed /\ (\A u \in Users : TriesOK(u) /\ WrongOK(u)) /\ Bounded
  BY DEF OtpOK
<1>5. wrong \in [Codes -> Nat]
  BY DEF AccountInv, Counters
<1>6. \A c : Guessed(c)' = Guessed(c)
  BY DEF Guessed, Otherwise
<1>7. \A u \in Users : ~Disabled(u) => Cardinality(Disabling(u)) <= Cardinality(Disabling(u))'
  <2>1. ASSUME NEW u \in Users, ~Disabled(u)
        PROVE  Disabling(u) \subseteq Disabling(u)'
    BY <2>1 DEF Disabling, Otherwise
  <2> QED  BY <2>1, OtpSetsAfter, ThreadSet
<1>8. Told'
  <2>1. \A t \in Threads : req'[t].row.code <= codes'
    <3> SUFFICES ASSUME NEW t \in Threads  PROVE req'[t].row.code <= codes'
      OBVIOUS
    <3>1. CASE req'[t] = req[t]
      <4>1. req[t].row.code \in Nat
        BY AccountsAssumption DEF AccountInv, Threading, Request, Row, Codes, NoCode
      <4> QED  BY <1>2, <1>4, <3>1, <4>1 DEF Told
    <3> QED  BY <3>1 DEF Otherwise
  <2>2. ASSUME NEW t \in Threads, NEW u \in Users, pc'[t] = "bump",
               users'[u].code = req'[t].row.code, users'[u].code # NoCode
        PROVE  req'[t].user = u
    <3>1. pc[t] = "bump" /\ req'[t] = req[t]
      BY <2>2 DEF Otherwise
    <3>2. req[t].row.code <= codes /\ req[t].row.code \in Nat
      BY <1>4, AccountsAssumption
         DEF Told, AccountInv, Threading, Request, Row, Codes, NoCode
    <3>3. ~Renewed(u)
      BY <1>2, <2>2, <3>1, <3>2 DEF Renewed
    <3>4. users'[u].code = users[u].code
      BY <2>2, <3>3 DEF RowSteps, TriesStep
    <3> QED  BY <1>4, <2>2, <3>1, <3>4 DEF Told
  <2> QED  BY <2>1, <2>2 DEF Told
<1>9. Unguessed'
  BY <1>2, <1>4 DEF Unguessed, Codes
<1>10. ASSUME NEW u \in Users  PROVE TriesOK(u)' /\ WrongOK(u)'
  <2> DEFINE d == Cardinality(Disabling(u))
             e == Cardinality(Disabling(u))'
             c == users'[u].code
             g == Cardinality(Guessed(c))
  <2>1. d \in Nat /\ e \in Nat /\ (~Disabled(u) => d <= e)
    BY <1>7, OtpSets, OtpSetsAfter
  <2>2. PICK x \in Codes \cup {NoCode} : x = c
    BY <1>3
  <2>3. g \in Nat
    BY OtpSets
  <2>4. TriesOK(u)'
    <3>1. users'[u].tries <= kMaxOtpAttempts - 1 + e + Lost
      <4>1. CASE users'[u].tries = users[u].tries /\ d <= e
        <5>1. users[u].tries <= kMaxOtpAttempts - 1 + d + Lost
          BY <1>4 DEF TriesOK
        <5> HIDE DEF d, e
        <5> QED  BY <1>1, <1>2, <1>3, <2>1, <4>1, <5>1
      <4>2. CASE users'[u].tries = 0
        <5> HIDE DEF d, e
        <5> QED  BY <1>1, <1>2, <2>1, <4>2
      <4>3. users'[u].tries = users[u].tries \/ users'[u].tries = 0
        BY DEF RowSteps, TriesStep
      <4> QED  BY <2>1, <4>1, <4>2, <4>3 DEF Disabled
    <3> QED  BY <1>1, <3>1 DEF TriesOK
  <2>5. WrongOK(u)'
    <3> SUFFICES ASSUME c # NoCode
                 PROVE  /\ wrong'[x] <= users'[u].tries + Cardinality(Guessed(x))' + Lost'
                        /\ wrong'[x] <= kMaxOtpAttempts - 1 + Cardinality(Guessed(x))' + e + Lost'
      BY <2>2 DEF WrongOK
    <3>1. Cardinality(Guessed(x))' = g /\ wrong'[x] = wrong[x] /\ x \in Codes
      BY <1>6, <2>2
    <3>2. CASE users'[u].code = users[u].code /\ users'[u].tries = users[u].tries
      <4>1. /\ wrong[x] <= users[u].tries + g + Lost
            /\ wrong[x] <= kMaxOtpAttempts - 1 + g + d + Lost
        BY <1>4, <2>2, <3>2 DEF WrongOK
      <4>2. d <= e
        BY <2>1 DEF Disabled
      <4>3. wrong[x] \in Nat
        BY <1>5, <3>1
      <4> HIDE DEF d, e, g, c
      <4> QED  BY <1>1, <1>2, <1>3, <2>1, <2>3, <3>1, <3>2, <4>1, <4>2, <4>3
    <3>3. CASE Renewed(u)
      <4>1. wrong[x] = 0
        BY <1>2, <1>4, <2>2, <3>1, <3>3 DEF Renewed, Unguessed
      <4> HIDE DEF d, e, g, c
      <4> QED  BY <1>1, <1>2, <1>3, <2>1, <2>3, <3>1, <4>1
    <3> QED  BY <3>2, <3>3 DEF RowSteps, TriesStep
  <2> QED  BY <2>4, <2>5
<1>11. Bounded'
  BY <1>1, <1>4 DEF Bounded
<1> QED  BY <1>8, <1>9, <1>10, <1>11 DEF OtpOK

\* A wrong guess is on its way from when it was compared.
LEMMA OtpGuess ==
  ASSUME AccountInv, AccountInv', Plain, OtpOK, NEW t \in Threads, NEW u \in Users, NEW op,
         pc[t] = "idle", pc' = [pc EXCEPT ![t] = "bump"],
         req' = [req EXCEPT ![t] = [op |-> op, user |-> u, row |-> users[u]]],
         UNCHANGED <<users, codes, env>>,
         wrong' = IF users[u].code = NoCode THEN wrong
                  ELSE [wrong EXCEPT ![users[u].code] = @ + 1]
  PROVE  OtpOK'
<1>1. Lost' = Lost /\ Lost \in Nat /\ Cardinality(Threads) \in Nat
  BY LostType DEF Lost, AccountInv
<1>2. codes \in Nat /\ kMaxOtpAttempts \in Nat \ {0}
  BY AccountsAssumption DEF AccountInv, SuspInv, RowTypeOK
<1>3. \A w \in Users : users[w].tries \in Nat /\ users[w].code \in Codes \cup {NoCode}
                       /\ users[w].code <= codes
  BY DEF AccountInv, SuspInv, RowTypeOK, Row, CodesOK
<1>4. Told /\ Unguessed /\ (\A w \in Users : TriesOK(w) /\ WrongOK(w)) /\ Bounded
  BY DEF OtpOK
<1>5. wrong \in [Codes -> Nat]
  BY DEF AccountInv, Counters
<1>6. PICK c \in Codes \cup {NoCode} : c = users[u].code
  BY <1>3
<1>7. /\ pc'[t] = "bump" /\ req'[t].row.code = c /\ req'[t].user = u
      /\ \A x \in Threads : x # t => pc'[x] = pc[x] /\ req'[x] = req[x]
  BY <1>6 DEF AccountInv, Threading
<1>8. \A w : Disabling(w)' = Disabling(w)
  BY <1>7 DEF Disabling
<1>9. /\ \A d : d # c => Guessed(d)' = Guessed(d)
      /\ Cardinality(Guessed(c))' = Cardinality(Guessed(c)) + 1
  <2>1. \A d : Guessed(d)' = IF d = c THEN Guessed(d) \cup {t} ELSE Guessed(d)
    BY <1>7 DEF Guessed
  <2>2. t \notin Guessed(c) /\ IsFiniteSet(Guessed(c))
    BY ThreadSet, OtpSets DEF Guessed
  <2> QED  BY <2>1, <2>2, FS_AddElement
<1>10. c # NoCode => c \in Codes /\ wrong'[c] = wrong[c] + 1
       /\ \A d \in Codes : d # c => wrong'[d] = wrong[d]
  BY <1>5, <1>6
<1>11. c = NoCode => wrong' = wrong
  BY <1>6
<1>12. Told'
  <2>1. \A x \in Threads : req'[x].row.code <= codes'
    BY <1>3, <1>4, <1>6, <1>7 DEF Told
  <2>2. ASSUME NEW x \in Threads, NEW w \in Users, pc'[x] = "bump",
               users'[w].code = req'[x].row.code, users'[w].code # NoCode
        PROVE  req'[x].user = w
    <3>1. CASE x = t
      BY <1>6, <1>7, <2>2, <3>1 DEF AccountInv, CodesOK, CodesDistinct
    <3>2. CASE x # t
      BY <1>4, <1>7, <2>2, <3>2 DEF Told
    <3> QED  BY <3>1, <3>2
  <2> QED  BY <2>1, <2>2 DEF Told
<1>13. Unguessed'
  BY <1>2, <1>3, <1>4, <1>6, <1>10, <1>11 DEF Unguessed, Codes
<1>14. ASSUME NEW w \in Users  PROVE TriesOK(w)' /\ WrongOK(w)'
  <2>1. TriesOK(w)'
    BY <1>1, <1>4, <1>8 DEF TriesOK
  <2>2. WrongOK(w)'
    <3>1. PICK d \in Codes \cup {NoCode} : d = users[w].code
      BY <1>3
    <3> SUFFICES ASSUME d # NoCode
                 PROVE  /\ wrong'[d] <= users[w].tries + Cardinality(Guessed(d))' + Lost
                        /\ wrong'[d] <= kMaxOtpAttempts - 1 + Cardinality(Guessed(d))'
                                         + Cardinality(Disabling(w)) + Lost
      BY <1>1, <1>8, <3>1 DEF WrongOK
    <3>2. /\ wrong[d] <= users[w].tries + Cardinality(Guessed(d)) + Lost
          /\ wrong[d] <= kMaxOtpAttempts - 1 + Cardinality(Guessed(d))
                           + Cardinality(Disabling(w)) + Lost
      BY <1>4, <3>1 DEF WrongOK
    <3>3. /\ Cardinality(Guessed(d)) \in Nat /\ Cardinality(Disabling(w)) \in Nat
          /\ d \in Codes /\ wrong[d] \in Nat /\ users[w].tries \in Nat
      BY <1>3, <1>5, OtpSets
    <3>4. CASE d = c
      BY <1>1, <1>2, <1>9, <1>10, <3>2, <3>3, <3>4
    <3>5. CASE d # c
      BY <1>9, <1>10, <1>11, <3>2, <3>3, <3>5
    <3> QED  BY <3>4, <3>5
  <2> QED  BY <2>1, <2>2
<1>15. Bounded'
  <2> SUFFICES ASSUME NEW d \in Codes
               PROVE  wrong'[d] <= kMaxOtpAttempts - 1 + Cardinality(Threads) + Lost
    BY <1>1 DEF Bounded
  <2>1. CASE d = c
    <3>1. wrong'[d] <= kMaxOtpAttempts - 1 + Cardinality(Guessed(d))'
                         + Cardinality(Disabling(u))' + Lost
      <4>1. d # NoCode /\ users'[u].code = d
        BY <1>6, <2>1 DEF Codes, NoCode
      <4> QED  BY <1>1, <1>14, <4>1 DEF WrongOK
    <3>2. Cardinality(Guessed(d))' \in Nat /\ Cardinality(Disabling(u))' \in Nat
          /\ Cardinality(Guessed(d))' + Cardinality(Disabling(u))' <= Cardinality(Threads)
      BY OtpSetsAfter
    <3>3. wrong'[d] \in Nat
      BY DEF AccountInv, Counters
    <3> QED  BY <1>1, <1>2, <3>1, <3>2, <3>3
  <2>2. CASE d # c
    BY <1>4, <1>10, <1>11, <2>2 DEF Bounded
  <2> QED  BY <2>1, <2>2
<1> QED  BY <1>12, <1>13, <1>14, <1>15 DEF OtpOK

\* It is counted: the row has it, or has no code any more, and at the limit the
\* thread goes on to disable the code.
LEMMA OtpBump ==
  ASSUME AccountInv, AccountInv', Plain, Plain', OtpOK, NEW t \in Threads, Bump(t)
  PROVE  OtpOK'
<1>0. PICK u \in Users : u = req[t].user
  BY BumpRows DEF AccountInv
<1> DEFINE n == users[u].tries + 1
<1>1. /\ pc[t] = "bump" /\ UNCHANGED <<codes, wrong, env>>
      /\ \/ /\ users[u].status # "none" /\ users' = Incremented(u)
            /\ Goto(t, IF n >= kMaxOtpAttempts THEN "disable" ELSE "idle")
         \/ users[u].status = "none" /\ users' = users /\ Goto(t, "idle")
  <2>1. Found(t, u) = users[u] /\ ~InMemory(t, u)
    BY FoundInTable DEF AccountInv, Plain
  <2>2. ~Occur("stmt_failure")
    BY Occurs DEF AccountInv, Plain, Events
  <2>3. pc[t] = "bump" /\ UNCHANGED <<codes, wrong>>
    BY DEF Bump, otp
  <2>4. \/ /\ users[u].status # "none"
           /\ Store(t, u, [users[u] EXCEPT !.tries = @ + 1])
           /\ Goto(t, IF Exhausted(n) THEN "disable" ELSE "idle")
           /\ UNCHANGED env
        \/ users[u].status = "none" /\ UNCHANGED <<tables, env>> /\ Goto(t, "idle")
    BY <1>0, <2>1, <2>2 DEF Bump
  <2> QED  BY <2>1, <2>3, <2>4 DEF Store, Incremented, Exhausted, tables
<1>2. Lost' = Lost /\ Lost \in Nat
  BY <1>1, LostType DEF Lost, AccountInv
<1>3. kMaxOtpAttempts \in Nat \ {0} /\ codes \in Nat
  BY AccountsAssumption DEF AccountInv, SuspInv, RowTypeOK
<1>4. \A w \in Users : users[w].tries \in Nat /\ users[w].code \in Codes \cup {NoCode}
                       /\ users'[w].tries \in Nat
  BY DEF AccountInv, SuspInv, RowTypeOK, Row
<1>5. Told /\ Unguessed /\ (\A w \in Users : TriesOK(w) /\ WrongOK(w)) /\ Bounded
  BY DEF OtpOK
<1>6. \A w \in Users : users'[w].code = users[w].code /\ (w # u => users'[w] = users[w])
  BY <1>1, BumpRows DEF AccountInv
<1>7. \/ users[u].status = "none" /\ users' = users
      \/ users'[u].tries = n /\ users[u].status # "none"
  BY <1>1, BumpRows DEF AccountInv
<1>8. /\ \A x \in Threads : x # t => pc'[x] = pc[x] /\ req'[x] = req[x]
      /\ pc'[t] \in {"disable", "idle"} /\ (pc'[t] = "disable" => req'[t] = req[t])
      /\ req'[t] \in {req[t], NoReq}
      /\ users[u].status # "none" /\ n >= kMaxOtpAttempts => pc'[t] = "disable"
  BY <1>1 DEF Goto, AccountInv, Threading
<1>9. \A c : Guessed(c)' = Guessed(c) \ {t}
  BY <1>8 DEF Guessed
<1>10. \A w : Disabling(w) \subseteq Disabling(w)'
  BY <1>1, <1>8 DEF Disabling
<1>11. users[u].status # "none" /\ n >= kMaxOtpAttempts =>
         Cardinality(Disabling(u))' = Cardinality(Disabling(u)) + 1
  <2> SUFFICES ASSUME users[u].status # "none", n >= kMaxOtpAttempts
               PROVE  Cardinality(Disabling(u))' = Cardinality(Disabling(u)) + 1
    OBVIOUS
  <2>1. Disabling(u)' = Disabling(u) \cup {t} /\ t \notin Disabling(u)
    BY <1>0, <1>1, <1>8 DEF Disabling
  <2>2. IsFiniteSet(Disabling(u))
    BY ThreadSet, OtpSets
  <2> QED  BY <2>1, <2>2, FS_AddElement
<1>12. Told'
  <2>1. \A x \in Threads : req'[x].row.code <= codes'
    <3>1. NoReq.row.code <= codes
      BY <1>3 DEF NoReq, NoRow, NoCode
    <3> QED  BY <1>1, <1>5, <1>8, <3>1 DEF Told
  <2> QED  BY <1>5, <1>6, <1>8, <2>1 DEF Told
<1>13. Unguessed' /\ Bounded'
  BY <1>1, <1>2, <1>5 DEF Unguessed, Bounded
<1>14. ASSUME NEW w \in Users  PROVE TriesOK(w)' /\ WrongOK(w)'
  <2>1. PICK c \in Codes \cup {NoCode} : c = users[w].code
    BY <1>4
  <2> DEFINE d == Cardinality(Disabling(w))
             e == Cardinality(Disabling(w))'
             g == Cardinality(Guessed(c))
             h == Cardinality(Guessed(c))'
  <2>2. d \in Nat /\ e \in Nat /\ g \in Nat /\ h \in Nat /\ d <= e
    BY <1>10, OtpSets, OtpSetsAfter, ThreadSet
  <2>3. h = g \/ (h = g - 1 /\ t \in Guessed(c))
    <3>1. IsFiniteSet(Guessed(c))
      BY ThreadSet, OtpSets
    <3> QED  BY <1>9, <3>1, FS_RemoveElement
  <2>4. c # NoCode /\ t \in Guessed(c) => w = u /\ users[u].status # "none"
    <3> SUFFICES ASSUME c # NoCode, t \in Guessed(c)
                 PROVE  w = u /\ users[u].status # "none"
      OBVIOUS
    <3>1. w = u
      BY <1>0, <1>5, <2>1 DEF Told, Guessed
    <3>2. users[u] # NoRow
      BY <2>1, <3>1 DEF NoRow
    <3> QED  BY <3>1, <3>2 DEF AccountInv, Blank
  <2>5. users[w].tries <= kMaxOtpAttempts - 1 + d + Lost
    BY <1>5 DEF TriesOK
  <2>6. c # NoCode => /\ wrong[c] <= users[w].tries + g + Lost
                      /\ wrong[c] <= kMaxOtpAttempts - 1 + g + d + Lost
    BY <1>5, <2>1 DEF WrongOK
  <2>7. c # NoCode => wrong[c] \in Nat
    BY DEF AccountInv, Counters
  <2>8. w = u /\ users[u].status # "none" =>
          users'[w].tries = users[w].tries + 1
          /\ (users[w].tries + 1 >= kMaxOtpAttempts => e = d + 1)
    BY <1>7, <1>11
  <2>9. ~(w = u /\ users[u].status # "none") => users'[w].tries = users[w].tries
    BY <1>6, <1>7
  <2>10. users[w].tries \in Nat
    BY <1>4
  <2> HIDE DEF d, e, g, h, n
  <2>11. users'[w].tries <= kMaxOtpAttempts - 1 + e + Lost
    BY <1>2, <1>3, <2>2, <2>5, <2>8, <2>9, <2>10
  <2>12. c # NoCode => /\ wrong[c] <= users'[w].tries + h + Lost
                       /\ wrong[c] <= kMaxOtpAttempts - 1 + h + e + Lost
    <3> SUFFICES ASSUME c # NoCode
                 PROVE  /\ wrong[c] <= users'[w].tries + h + Lost
                        /\ wrong[c] <= kMaxOtpAttempts - 1 + h + e + Lost
      OBVIOUS
    <3>1. CASE h = g
      BY <1>2, <1>3, <2>2, <2>6, <2>7, <2>8, <2>9, <2>10, <3>1
    <3>2. CASE h = g - 1 /\ t \in Guessed(c)
      BY <1>2, <1>3, <2>2, <2>4, <2>6, <2>7, <2>8, <2>10, <3>2
    <3> QED  BY <2>3, <3>1, <3>2
  <2>13. TriesOK(w)'
    BY <1>2, <2>11 DEF TriesOK, e
  <2>14. WrongOK(w)'
    BY <1>1, <1>2, <1>6, <2>1, <2>12 DEF WrongOK, e, h
  <2> QED  BY <2>13, <2>14
<1> QED  BY <1>12, <1>13, <1>14 DEF OtpOK

\* A restart forgets at most a guess of every thread.
LEMMA OtpRestart ==
  ASSUME AccountInv, AccountInv', Plain, OtpOK, NEW v \in Servers, Restart(v)
  PROVE  OtpOK'
<1>1. UNCHANGED <<users, codes, wrong>>
      /\ \A t \in Threads : \/ pc'[t] = pc[t] /\ req'[t] = req[t]
                            \/ pc'[t] = "idle" /\ req'[t] = NoReq
  BY DEF Restart, otp
<1>2. Lost' = Lost + Cardinality(Threads) /\ Lost \in Nat /\ Cardinality(Threads) \in Nat
  <2>1. env'["restart"] = env["restart"] + 1
    BY DEF Restart, Occur, Events
  <2>2. Lost \in Nat /\ Cardinality(Threads) \in Nat /\ env["restart"] \in Nat
    BY LostType DEF AccountInv
  <2>3. ASSUME NEW m \in Nat, NEW n \in Nat  PROVE m * (n + 1) = m * n + m
    OBVIOUS
  <2> QED  BY <2>1, <2>2, <2>3 DEF Lost
<1>3. kMaxOtpAttempts \in Nat \ {0} /\ codes \in Nat
  BY AccountsAssumption DEF AccountInv, SuspInv, RowTypeOK
<1>4. \A u \in Users : users[u].tries \in Nat /\ users[u].code \in Codes \cup {NoCode}
  BY DEF AccountInv, SuspInv, RowTypeOK, Row
<1>5. Told /\ Unguessed /\ (\A u \in Users : TriesOK(u) /\ WrongOK(u)) /\ Bounded
  BY DEF OtpOK
<1>6. wrong \in [Codes -> Nat]
  BY DEF AccountInv, Counters
<1>7. Told'
  <2>1. NoReq.row.code <= codes
    BY <1>3 DEF NoReq, NoRow, NoCode
  <2> QED  BY <1>1, <1>5, <2>1 DEF Told
<1>8. Unguessed'
  BY <1>1, <1>5 DEF Unguessed
<1>9. Bounded'
  BY <1>1, <1>2, <1>3, <1>5, <1>6 DEF Bounded
<1>10. ASSUME NEW u \in Users  PROVE TriesOK(u)' /\ WrongOK(u)'
  <2>1. PICK c \in Codes \cup {NoCode} : c = users[u].code
    BY <1>4
  <2> DEFINE d == Cardinality(Disabling(u))
             e == Cardinality(Disabling(u))'
             g == Cardinality(Guessed(c))
             h == Cardinality(Guessed(c))'
             m == Cardinality(Threads)
  <2>2. /\ d \in Nat /\ e \in Nat /\ g \in Nat /\ h \in Nat /\ m \in Nat
        /\ g + d <= m
    BY <1>2, OtpSets, OtpSetsAfter
  <2>3. users[u].tries <= kMaxOtpAttempts - 1 + d + Lost
    BY <1>5 DEF TriesOK
  <2>4. c # NoCode => /\ wrong[c] <= users[u].tries + g + Lost
                      /\ wrong[c] <= kMaxOtpAttempts - 1 + g + d + Lost
    BY <1>5, <2>1 DEF WrongOK
  <2>5. users[u].tries \in Nat /\ (c # NoCode => wrong[c] \in Nat)
    BY <1>4, <1>6
  <2>6. Lost' = Lost + m
    BY <1>2
  <2> HIDE DEF d, e, g, h, m
  <2>7. users[u].tries <= kMaxOtpAttempts - 1 + e + Lost'
    BY <1>2, <1>3, <2>2, <2>3, <2>5, <2>6
  <2>8. c # NoCode => /\ wrong[c] <= users[u].tries + h + Lost'
                      /\ wrong[c] <= kMaxOtpAttempts - 1 + h + e + Lost'
    BY <1>2, <1>3, <2>2, <2>4, <2>5, <2>6
  <2> QED  BY <1>1, <2>1, <2>7, <2>8 DEF TriesOK, WrongOK, e, h
<1> QED  BY <1>7, <1>8, <1>9, <1>10 DEF OtpOK

-----------------------------------------------------------------------------
(***************************************************************************)
(* Every other step.                                                       *)
(***************************************************************************)
LEMMA PlainBefore ==
  ASSUME AccountInv, [VoucherNext]_vars, Plain'
  PROVE  Plain
<1> SUFFICES env'["stmt_failure"] >= env["stmt_failure"] /\ shadowed \subseteq shadowed'
  <2>1. env["stmt_failure"] \in Nat
    BY DEF AccountInv, Counters, Events
  <2> QED  BY <2>1 DEF Plain
<1>0. EnvStep => env'["stmt_failure"] >= env["stmt_failure"]
  BY EnvSteps DEF AccountInv
<1>1. ASSUME NEW t \in Threads, Step(t)
      PROVE  EnvStep /\ shadowed \subseteq shadowed'
  <2>1. EnvStep
    BY <1>1, StepCounts DEF AccountInv, Counted
  <2>2. CASE \/ Register(t) \/ Resend(t) \/ Forgot(t) \/ ToggleStatus(t) \/ Verify(t) \/ Login(t)
             \/ Confirm(t) \/ Reset(t) \/ Webhook(t) \/ LoginFailed(t) \/ LoggedIn(t)
    BY <2>1, <2>2 DEF Register, Resend, Forgot, AskCode, ToggleStatus, Verify, AskStatus, Login,
       Confirm, Reset, Webhook, Guess, LoginFailed, LoggedIn, tables
  <2>3. CASE Insert(t)
    BY <2>1, <2>3 DEF Insert, InsertUser
  <2>4. CASE \/ Mail(t) \/ Bump(t) \/ Disable(t) \/ DeleteExpired(t) \/ Activate(t) \/ Password(t)
             \/ SetStatus(t) \/ Renew(t)
    BY <2>1, <2>4 DEF Mail, Bump, Disable, DeleteExpired, Activate, Password, SetStatus, Renew,
       Erase, Update, Fails, tables
  <2> QED  BY <1>1, <2>1, <2>2, <2>3, <2>4 DEF Step
<1>2. CASE CreateUser \/ DeleteUser \/ TimePasses
  BY <1>0, <1>2 DEF CreateUser, DeleteUser, TimePasses, tables, EnvStep
<1>3. ASSUME NEW v \in Servers, Restart(v)
      PROVE  env'["stmt_failure"] >= env["stmt_failure"] /\ shadowed \subseteq shadowed'
  BY <1>3, Occurs DEF Restart, Events, AccountInv
<1>4. VoucherLeft => EnvStep /\ shadowed \subseteq shadowed'
  BY DEF VoucherLeft, tables
<1>5. CASE AccountStep
  BY <1>0, <1>1, <1>2, <1>3, <1>5 DEF AccountStep, AccountNext
<1>6. CASE ~AccountStep
  BY <1>0, <1>4, <1>6, VoucherMoves, VoucherTablesLeft DEF VoucherNext, Quiet
<1> QED  BY <1>5, <1>6

LEMMA GotoOtherwise ==
  ASSUME AccountInv, codes' >= codes, codes' \in Nat, Told, NEW t \in Threads, NEW s, s # "bump",
         Goto(t, s), pc[t] # "bump", pc[t] = "disable" => Disabled(req[t].user)
  PROVE  \A x \in Threads : Otherwise(x)
<1>1. /\ \A x \in Threads : x # t => pc'[x] = pc[x] /\ req'[x] = req[x]
      /\ pc'[t] = s /\ req'[t] \in {req[t], NoReq}
  BY DEF Goto, AccountInv, Threading
<1>2. req'[t].row.code <= codes'
  <2>1. req[t].row.code <= codes /\ req[t].row.code \in Nat /\ NoReq.row.code = 0
    BY AccountsAssumption
       DEF Told, AccountInv, Threading, Request, Row, Codes, NoCode, NoReq, NoRow
  <2>2. codes \in Nat
    BY AccountsAssumption DEF AccountInv, SuspInv, RowTypeOK
  <2> QED  BY <1>1, <2>1, <2>2
<1> QED  BY <1>1, <1>2 DEF Otherwise

LEMMA TakeOtherwise ==
  ASSUME AccountInv, UNCHANGED codes, NEW t \in Threads, NEW k, NEW s, s # "bump", NEW op,
         NEW u, NEW r, Take(t, k, s, op, u, r), r.code <= codes
  PROVE  \A x \in Threads : Otherwise(x)
<1>1. /\ \A x \in Threads : x # t => pc'[x] = pc[x] /\ req'[x] = req[x]
      /\ pc[t] = "idle" /\ pc'[t] = s /\ req'[t].row = r
  BY DEF Take, AccountInv, Threading
<1> QED  BY <1>1 DEF Otherwise

\* What a thread looks up is in the table, and so is its code.
LEMMA LookedUp ==
  ASSUME AccountInv, Plain, NEW t \in Threads, NEW u \in Users
  PROVE  /\ Found(t, u) = users[u] /\ ~InMemory(t, u) /\ users[u].code <= codes
         /\ NoRow.code <= codes
         /\ \A op : Seen(t, op, u) = users[u]
<1>1. Found(t, u) = users[u] /\ ~InMemory(t, u)
  BY FoundInTable DEF AccountInv, Plain
<1>2. NoRow.code <= codes
  BY AccountsAssumption DEF AccountInv, SuspInv, RowTypeOK, NoRow, NoCode
<1> QED  BY <1>1, <1>2 DEF Seen, AccountInv, CodesOK

LEMMA OtpAsk ==
  ASSUME AccountInv, AccountInv', Plain, OtpOK, NEW t \in Threads,
         Register(t) \/ Resend(t) \/ Forgot(t) \/ ToggleStatus(t) \/ Verify(t) \/ Login(t)
  PROVE  OtpOK'
<1>1. UNCHANGED <<users, codes, wrong>>
  BY DEF Register, Resend, Forgot, AskCode, ToggleStatus, Verify, AskStatus, Login, tables, otp
<1>2. RowSteps
  BY <1>1, RowsSame, AccountsAssumption DEF AccountInv, SuspInv, RowTypeOK
<1>3. EnvStep
  BY StepCounts DEF Step, AccountInv, Counted
<1>4. \E k, op : \E s \in Stages \ {"bump"} : \E u \in Users : \E r \in {NoRow, users[u]} :
        Take(t, k, s, op, u, r)
  <2>1. CASE Register(t)
    BY <2>1 DEF Register, Stages
  <2>2. CASE Resend(t) \/ Forgot(t)
    BY <2>2, LookedUp DEF Resend, Forgot, AskCode, Stages
  <2>3. CASE ToggleStatus(t) \/ Verify(t)
    BY <2>3 DEF ToggleStatus, Verify, AskStatus, Stages
  <2>4. CASE Login(t)
    BY <2>4 DEF Login, Stages
  <2> QED  BY <2>1, <2>2, <2>3, <2>4
<1>5. \A x \in Threads : Otherwise(x)
  <2>1. PICK k, op, s, u, r : /\ s # "bump" /\ u \in Users /\ r \in {NoRow, users[u]}
                              /\ Take(t, k, s, op, u, r)
    BY <1>4
  <2> QED  BY <1>1, <2>1, LookedUp, TakeOtherwise
<1> QED  BY <1>1, <1>2, <1>3, <1>5, EnvSteps, OtpFrame DEF AccountInv

LEMMA OtpGuesses ==
  ASSUME AccountInv, AccountInv', Plain, OtpOK, NEW t \in Threads,
         Confirm(t) \/ Reset(t) \/ Webhook(t)
  PROVE  OtpOK'
<1>1. ASSUME NEW op \in {"confirm", "reset", "webhook"},
             NEW expired \in {"delete", "disable"}, NEW right \in {"activate", "password"},
             Guess(t, op, expired, right)
      PROVE  OtpOK'
  <2>1. UNCHANGED <<users, codes, env>>
    BY <1>1 DEF Guess, tables
  <2>2. PICK u \in Users :
          \/ \E s \in {expired, right} :
               Take(t, "guess", s, op, u, Seen(t, op, u)) /\ UNCHANGED wrong
          \/ /\ Take(t, "guess", "bump", op, u, Seen(t, op, u))
             /\ wrong' = IF Seen(t, op, u).code = NoCode THEN wrong
                         ELSE [wrong EXCEPT ![Seen(t, op, u).code] = @ + 1]
    BY <1>1 DEF Guess
  <2>3. Seen(t, op, u) = users[u] /\ users[u].code <= codes
    BY LookedUp
  <2>4. CASE \E s \in {expired, right} : Take(t, "guess", s, op, u, users[u]) /\ UNCHANGED wrong
    <3>1. PICK s \in {expired, right} : Take(t, "guess", s, op, u, users[u])
      BY <2>4
    <3>2. \A x \in Threads : Otherwise(x)
      BY <2>1, <2>3, <3>1, TakeOtherwise
    <3>3. RowSteps
      BY <2>1, RowsSame, AccountsAssumption DEF AccountInv, SuspInv, RowTypeOK
    <3> QED  BY <2>1, <2>4, <3>2, <3>3, OtpFrame
  <2>5. CASE /\ Take(t, "guess", "bump", op, u, users[u])
             /\ wrong' = IF users[u].code = NoCode THEN wrong
                         ELSE [wrong EXCEPT ![users[u].code] = @ + 1]
    BY <2>1, <2>5, OtpGuess DEF Take
  <2> QED  BY <2>2, <2>3, <2>4, <2>5
<1> QED  BY <1>1 DEF Confirm, Reset, Webhook

\* Without failing statements the row of a code that was guessed too often has
\* no code when the thread is done.
LEMMA OtpDisable ==
  ASSUME AccountInv, AccountInv', Plain, Plain', OtpOK, NEW t \in Threads, Disable(t)
  PROVE  OtpOK'
<1>0. req[t].user \in Users
  BY DEF Disable, AccountInv, SuspInv, Serving
<1>1. PICK u \in Users : u = req[t].user
  BY <1>0
<1>2. Found(t, u) = users[u] /\ ~InMemory(t, u)
  BY LookedUp
<1>3. ~Occur("stmt_failure")
  BY Occurs DEF AccountInv, Plain, Events
<1>4. /\ pc[t] = "disable" /\ Goto(t, "idle") /\ UNCHANGED <<codes, wrong, env>>
      /\ Update(t, u, WithCode(users[u], NoCode))
  BY <1>1, <1>2, <1>3 DEF Disable, Fails, otp
<1>5. Disabled(u)
  <2>1. CASE users[u].status = "none"
    <3>1. users' = users /\ users[u] = NoRow
      BY <1>2, <1>4, <2>1 DEF Update, AccountInv, Blank
    <3> QED  BY <3>1 DEF Disabled, NoRow
  <2>2. CASE users[u].status # "none"
    <3>1. users' = [users EXCEPT ![u] = WithCode(users[u], NoCode)]
      BY <1>2, <1>4, <2>2 DEF Update, Store
    <3>2. users'[u] = WithCode(users[u], NoCode)
      BY <3>1 DEF AccountInv, SuspInv, RowTypeOK
    <3>3. users[u] \in Row
      BY DEF AccountInv, SuspInv, RowTypeOK
    <3> QED  BY <3>2, <3>3 DEF Disabled, WithCode, Row
  <2> QED  BY <2>1, <2>2
<1>6. RowSteps
  BY CodeRows DEF AccountInv
<1>7. \A x \in Threads : Otherwise(x)
  <2>1. codes' >= codes /\ codes' \in Nat
    BY <1>4, AccountsAssumption DEF AccountInv, SuspInv, RowTypeOK
  <2> QED  BY <1>1, <1>4, <1>5, <2>1, GotoOtherwise DEF OtpOK
<1> QED  BY <1>4, <1>6, <1>7, OtpFrame

LEMMA OtpStatement ==
  ASSUME AccountInv, AccountInv', Plain, OtpOK, NEW t \in Threads,
         \/ Insert(t) \/ Mail(t) \/ DeleteExpired(t) \/ Activate(t) \/ Password(t) \/ Renew(t)
         \/ LoginFailed(t) \/ LoggedIn(t) \/ SetStatus(t)
  PROVE  OtpOK'
<1>1. EnvStep
  BY StepCounts DEF Step, AccountInv, Counted
<1>2. pc[t] \notin {"bump", "disable"}
  BY DEF Insert, Mail, DeleteExpired, Activate, Password, Renew, LoginFailed, LoggedIn, SetStatus
<1>3. RowSteps
  BY <1>2, StepRows DEF Step, AccountInv, Bump
<1>4. wrong' = wrong
  BY DEF Insert, Mail, DeleteExpired, Activate, Password, Renew, LoginFailed, LoggedIn, SetStatus,
     Generate, otp
<1>5. \E s \in {"idle", "mail"} : Goto(t, s)
  <2>1. CASE Insert(t)
    <3>1. \E r, next : next \in {"mail", "idle"} /\ InsertUser(t, req[t].user, r, next)
      BY <2>1 DEF Insert
    <3> QED  BY <3>1 DEF InsertUser
  <2> QED  BY <2>1 DEF Mail, DeleteExpired, Activate, Password, Renew, LoginFailed, LoggedIn,
              SetStatus
<1>6. codes' \in Nat /\ codes' >= codes
  BY <1>3, AccountsAssumption DEF RowSteps, CodeSteps, AccountInv, SuspInv, RowTypeOK
<1>7. \A x \in Threads : Otherwise(x)
  BY <1>2, <1>5, <1>6, GotoOtherwise DEF OtpOK
<1> QED  BY <1>1, <1>3, <1>4, <1>7, EnvSteps, OtpFrame DEF AccountInv

LEMMA OtpVoucher ==
  ASSUME AccountInv, AccountInv', Plain, OtpOK, VoucherLeft,
         UNCHANGED handlers \/ \E t \in Threads : VoucherMove(t)
  PROVE  OtpOK'
<1>1. UNCHANGED <<users, codes, wrong>>
  BY DEF VoucherLeft, tables, otp
<1>2. RowSteps
  BY <1>1, RowsSame, AccountsAssumption DEF AccountInv, SuspInv, RowTypeOK
<1>3. env'["restart"] = env["restart"]
  BY EnvSteps DEF VoucherLeft, AccountInv
<1>4. ASSUME NEW t \in Threads, VoucherMove(t)
      PROVE  \A x \in Threads : Otherwise(x)
  <2>1. codes' >= codes /\ codes' \in Nat
    BY <1>1, AccountsAssumption DEF AccountInv, SuspInv, RowTypeOK
  <2>2. CASE \E s \in TxStages \cup {"idle"} : Goto(t, s) /\ pc[t] \in TxStages
    <3>1. PICK s \in TxStages \cup {"idle"} : Goto(t, s) /\ pc[t] \in TxStages
      BY <2>2
    <3>2. s # "bump" /\ pc[t] \notin {"bump", "disable"}
      BY <3>1 DEF TxStages
    <3> QED  BY <2>1, <3>1, <3>2, GotoOtherwise DEF OtpOK
  <2>3. CASE \E k \in {"redeem", "activate"}, s \in {"lock", "pick"}, u \in Users :
               Take(t, k, s, k, u, users[u])
    <3>1. PICK k \in {"redeem", "activate"}, s \in {"lock", "pick"}, u \in Users :
            Take(t, k, s, k, u, users[u])
      BY <2>3
    <3> QED  BY <1>1, <3>1, LookedUp, TakeOtherwise
  <2>4. CASE pc[t] = "idle" /\ pc' = [pc EXCEPT ![t] = "toggle"] /\ req' = req
    <3>1. \A x \in Threads : pc'[x] = IF x = t THEN "toggle" ELSE pc[x]
      BY <2>4 DEF AccountInv, Threading
    <3> QED  BY <1>1, <2>4, <3>1 DEF Otherwise, OtpOK, Told
  <2> QED  BY <1>4, <2>2, <2>3, <2>4 DEF VoucherMove
<1>5. \A x \in Threads : Otherwise(x)
  BY <1>4 DEF handlers, Otherwise
<1> QED  BY <1>1, <1>2, <1>3, <1>5, OtpFrame

LEMMA OtpKeeps ==
  ASSUME AccountInv, OtpOK, [VoucherNext]_vars
  PROVE  OtpOK'
<1> SUFFICES ASSUME Plain'  PROVE OtpOK'
  BY DEF OtpOK
<1>1. AccountInv' /\ Plain
  BY NextKeepsAccounts, PlainBefore
<1>2. ASSUME NEW t \in Threads, Step(t)  PROVE OtpOK'
  BY <1>1, <1>2, OtpAsk, OtpGuesses, OtpBump, OtpDisable, OtpStatement DEF Step
<1>3. CASE CreateUser \/ DeleteUser \/ TimePasses
  <2>1. RowSteps
    BY <1>3, OtherRows DEF AccountInv
  <2>2. wrong' = wrong /\ UNCHANGED <<codes, handlers, env>>
    BY <1>3 DEF CreateUser, DeleteUser, TimePasses, otp
  <2>3. \A t \in Threads : Otherwise(t)
    BY <2>2 DEF handlers, Otherwise
  <2> QED  BY <1>1, <2>1, <2>2, <2>3, OtpFrame
<1>4. CASE AccountStep
  BY <1>1, <1>2, <1>3, <1>4, OtpRestart DEF AccountStep, AccountNext
<1>5. CASE ~AccountStep
  BY <1>1, <1>5, VoucherMoves, VoucherTablesLeft, OtpVoucher DEF VoucherNext, Quiet
<1> QED  BY <1>4, <1>5

LEMMA OtpInitially == VoucherInit => OtpOK
<1> SUFFICES ASSUME AccountInv, AccountInit  PROVE OtpOK
  BY AccountInitially DEF VoucherInit
<1>1. /\ wrong = [c \in Codes |-> 0] /\ pc = [t \in Threads |-> "idle"]
      /\ req = [t \in Threads |-> NoReq] /\ codes = 0
  BY DEF AccountInit
<1>2. \A u \in Users : users[u].code = NoCode /\ users[u].tries = 0
  <2>1. PICK Old \in SUBSET Users : \E rank \in [Old -> 1..Cardinality(Old)] :
          /\ users = [u \in Users |-> IF u \in Old
                      THEN [NoRow EXCEPT !.id = rank[u], !.status = "active"] ELSE NoRow]
          /\ ids = Cardinality(Old)
    BY DEF AccountInit
  <2>2. PICK rank \in [Old -> 1..Cardinality(Old)] :
          users = [u \in Users |-> IF u \in Old
                    THEN [NoRow EXCEPT !.id = rank[u], !.status = "active"] ELSE NoRow]
    BY <2>1
  <2>3. ASSUME NEW n  PROVE /\ [NoRow EXCEPT !.id = n, !.status = "active"].code = NoCode
                            /\ [NoRow EXCEPT !.id = n, !.status = "active"].tries = 0
    BY DEF NoRow
  <2>4. NoRow.code = NoCode /\ NoRow.tries = 0
    BY DEF NoRow
  <2>5. ASSUME NEW u \in Users, u \in Old
        PROVE  users[u].code = NoCode /\ users[u].tries = 0
    <3>1. users[u] = [NoRow EXCEPT !.id = rank[u], !.status = "active"]
      BY <2>2, <2>5
    <3> QED  BY <2>3, <3>1
  <2>6. ASSUME NEW u \in Users, u \notin Old
        PROVE  users[u].code = NoCode /\ users[u].tries = 0
    <3>1. users[u] = NoRow
      BY <2>2, <2>6
    <3> QED  BY <2>4, <3>1
  <2> QED  BY <2>5, <2>6
<1>3. Lost \in Nat /\ Cardinality(Threads) \in Nat /\ kMaxOtpAttempts \in Nat \ {0}
  BY LostType, AccountsAssumption DEF AccountInv
<1>4. Told
  BY <1>1, <1>2 DEF Told, NoReq, NoRow, NoCode
<1>5. Unguessed /\ Bounded
  BY <1>1, <1>3 DEF Unguessed, Bounded
<1>6. ASSUME NEW u \in Users  PROVE TriesOK(u) /\ WrongOK(u)
  BY <1>2, <1>3, OtpSets DEF TriesOK, WrongOK
<1> QED  BY <1>4, <1>5, <1>6 DEF OtpOK

-----------------------------------------------------------------------------
(***************************************************************************)
(* How often the password of a login is tried: failures that were counted, *)
(* and those that are on their way to be.                                  *)
(***************************************************************************)
Counting(v, u) == {t \in Threads : Home[t] = v /\ pc[t] = "count" /\ req[t].user = u}
ThreadsOf(v)   == {t \in Threads : Home[t] = v}

LoginOK == \A v \in Servers, u \in Users :
  fails[v][u] + Cardinality(Counting(v, u)) <= kLoginFailureLimit - 1 + Cardinality(ThreadsOf(v))

LEMMA LoginSets ==
  ASSUME NEW v, NEW u
  PROVE  /\ IsFiniteSet(Counting(v, u)) /\ Cardinality(ThreadsOf(v)) \in Nat
         /\ Cardinality(Counting(v, u)) \in Nat /\ Cardinality(Counting(v, u))' \in Nat
         /\ Cardinality(Counting(v, u))' <= Cardinality(ThreadsOf(v))
         /\ Cardinality(Counting(v, u)) <= Cardinality(ThreadsOf(v))
<1>1. /\ ThreadsOf(v) \in SUBSET Threads /\ Counting(v, u) \in SUBSET ThreadsOf(v)
      /\ Counting(v, u)' \in SUBSET ThreadsOf(v)
  BY DEF ThreadsOf, Counting
<1> QED  BY <1>1, ThreadSet

LEMMA LoginFrame ==
  ASSUME AccountInv, LoginOK, fails' = fails,
         \A t \in Threads : \/ pc'[t] = pc[t] /\ req'[t] = req[t]
                            \/ pc[t] # "count" /\ pc'[t] # "count"
  PROVE  LoginOK'
<1>1. \A v, u : Counting(v, u)' = Counting(v, u)
  BY DEF Counting
<1> QED  BY <1>1 DEF LoginOK, ThreadsOf

\* A login counts a failure of one user, and begins only below the limit.
LEMMA LoginAsked ==
  ASSUME AccountInv, LoginOK, NEW t \in Threads, Login(t)
  PROVE  LoginOK'
<1> DEFINE h == Home[t]
<1>1. PICK u \in Users, s \in {"welcome", "count"} :
        /\ ~Locked(h, u) /\ Take(t, "login", s, "login", u, NoRow)
        /\ fails' = IF u \in hot[h] THEN fails ELSE [fails EXCEPT ![h][u] = 0]
  BY DEF Login
<1>2. h \in Servers /\ kLoginFailureLimit \in Nat \ {0}
  BY HomeServer, AccountsAssumption
<1>3. \A v \in Servers, w \in Users : fails[v][w] \in Nat
  BY DEF AccountInv, Counters
<1>4. /\ \A x \in Threads : x # t => pc'[x] = pc[x] /\ req'[x] = req[x]
      /\ pc[t] = "idle" /\ req'[t].user = u
  BY <1>1 DEF Take, AccountInv, Threading
<1> HIDE DEF h
<1>5. \A v \in Servers, w \in Users : v # h \/ w # u => Counting(v, w)' = Counting(v, w)
  BY <1>4 DEF Counting, h
<1>6. /\ \A v \in Servers, w \in Users : v # h \/ w # u => fails'[v][w] = fails[v][w]
      /\ fails'[h][u] \in Nat /\ fails'[h][u] <= kLoginFailureLimit - 1
  <2>1. CASE u \in hot[h]
    BY <1>1, <1>2, <1>3, <2>1 DEF Locked
  <2>2. CASE u \notin hot[h]
    <3>1. fails' = [fails EXCEPT ![h] = [fails[h] EXCEPT ![u] = 0]]
      BY <1>1, <2>2
    <3>2. fails \in [Servers -> [Users -> Nat]]
      BY DEF AccountInv, Counters
    <3>3. fails[h] \in [Users -> Nat]
      BY <1>2, <3>2
    <3>4. fails'[h] = [fails[h] EXCEPT ![u] = 0] /\ \A v \in Servers : v # h => fails'[v] = fails[v]
      BY <1>2, <3>1, <3>2
    <3>5. fails'[h][u] = 0 /\ \A w \in Users : w # u => fails'[h][w] = fails[h][w]
      BY <3>3, <3>4
    <3>6. ASSUME NEW v \in Servers, NEW w \in Users, v # h \/ w # u
          PROVE  fails'[v][w] = fails[v][w]
      <4>1. CASE v # h
        BY <3>4, <4>1
      <4>2. CASE v = h
        BY <3>5, <3>6, <4>2
      <4> QED  BY <4>1, <4>2
    <3>7. 0 \in Nat /\ 0 <= kLoginFailureLimit - 1
      BY <1>2
    <3> QED  BY <3>5, <3>6, <3>7
  <2> QED  BY <2>1, <2>2
<1>7. ASSUME NEW v \in Servers, NEW w \in Users
      PROVE  fails'[v][w] + Cardinality(Counting(v, w))'
               <= kLoginFailureLimit - 1 + Cardinality(ThreadsOf(v))
  <2>1. CASE v # h \/ w # u
    BY <1>5, <1>6, <2>1 DEF LoginOK
  <2>2. CASE v = h /\ w = u
    <3> DEFINE a == Cardinality(Counting(v, w))'
               b == Cardinality(ThreadsOf(v))
    <3>1. a \in Nat /\ b \in Nat /\ a <= b
      BY LoginSets
    <3> HIDE DEF a, b
    <3>2. fails'[v][w] + a <= kLoginFailureLimit - 1 + b
      BY <1>2, <1>6, <2>2, <3>1
    <3> QED  BY <3>2 DEF a, b
  <2> QED  BY <2>1, <2>2
<1> QED  BY <1>7 DEF LoginOK, ThreadsOf

LEMMA LoginEnds ==
  ASSUME AccountInv, LoginOK, NEW t \in Threads, LoginFailed(t) \/ LoggedIn(t)
  PROVE  LoginOK'
<1> DEFINE h == Home[t]
<1>0. req[t].user \in Users
  BY DEF LoginFailed, LoggedIn, AccountInv, SuspInv, Serving
<1>1. PICK u \in Users : u = req[t].user
  BY <1>0
<1>2. h \in Servers /\ kLoginFailureLimit \in Nat \ {0}
  BY HomeServer, AccountsAssumption
<1>3. fails \in [Servers -> [Users -> Nat]]
  BY DEF AccountInv, Counters
<1>4. /\ \A x \in Threads : x # t => pc'[x] = pc[x] /\ req'[x] = req[x]
      /\ pc[t] \in {"count", "welcome"} /\ pc'[t] = "idle"
  BY DEF LoginFailed, LoggedIn, Goto, AccountInv, Threading
<1>5. PICK n \in Nat : /\ fails' = [fails EXCEPT ![h][u] = n]
                       /\ n = 0 \/ (pc[t] = "count" /\ n = fails[h][u] + 1)
  <2>1. fails[h][u] + 1 \in Nat
    BY <1>2, <1>3
  <2> QED  BY <1>1, <2>1 DEF LoginFailed, LoggedIn
<1> HIDE DEF h
<1>6. /\ \A v \in Servers, w \in Users : v # h \/ w # u => fails'[v][w] = fails[v][w]
      /\ fails'[h][u] = n
  <2>1. fails' = [fails EXCEPT ![h] = [fails[h] EXCEPT ![u] = n]]
    BY <1>5
  <2>2. fails[h] \in [Users -> Nat]
    BY <1>2, <1>3
  <2>3. fails'[h] = [fails[h] EXCEPT ![u] = n] /\ \A v \in Servers : v # h => fails'[v] = fails[v]
    BY <1>2, <1>3, <2>1
  <2>4. fails'[h][u] = n /\ \A w \in Users : w # u => fails'[h][w] = fails[h][w]
    BY <2>2, <2>3
  <2> QED  BY <1>2, <2>3, <2>4
<1>7. \A v, w : Counting(v, w)' = Counting(v, w) \ {t}
  BY <1>4 DEF Counting
<1>8. pc[t] = "count" => t \in Counting(h, u)
  BY <1>1 DEF Counting, h
<1>9. \A v \in Servers, w \in Users : v # h \/ w # u => t \notin Counting(v, w)
  BY <1>1 DEF Counting, h
<1>10. ASSUME NEW v \in Servers, NEW w \in Users
       PROVE  fails'[v][w] + Cardinality(Counting(v, w))'
                <= kLoginFailureLimit - 1 + Cardinality(ThreadsOf(v))
  <2> DEFINE a == Cardinality(Counting(v, w))
             b == Cardinality(Counting(v, w))'
             m == Cardinality(ThreadsOf(v))
  <2>1. a \in Nat /\ b \in Nat /\ m \in Nat /\ b <= m
    BY LoginSets
  <2>2. fails[v][w] + a <= kLoginFailureLimit - 1 + m
    BY DEF LoginOK
  <2>3. b = IF t \in Counting(v, w) THEN a - 1 ELSE a
    BY <1>7, LoginSets, FS_RemoveElement
  <2>4. fails[v][w] \in Nat
    BY <1>3
  <2> HIDE DEF a, b, m
  <2>5. CASE v # h \/ w # u
    BY <1>6, <1>9, <2>2, <2>3, <2>5 DEF a, b, m
  <2>6. CASE v = h /\ w = u /\ n = 0
    <3>1. n + b <= kLoginFailureLimit - 1 + m
      BY <1>2, <2>1, <2>6
    <3> QED  BY <1>6, <2>6, <3>1 DEF b, m
  <2>7. CASE v = h /\ w = u /\ pc[t] = "count" /\ n = fails[h][u] + 1
    <3>1. b = a - 1
      BY <1>8, <2>3, <2>7
    <3>2. n + b <= kLoginFailureLimit - 1 + m
      BY <1>2, <2>1, <2>2, <2>4, <2>7, <3>1
    <3> QED  BY <1>6, <2>7, <3>2 DEF b, m
  <2> QED  BY <1>5, <2>5, <2>6, <2>7
<1> QED  BY <1>10 DEF LoginOK, ThreadsOf

\* Nobody else counts, and no other step ends a failure that is on its way.
Elsewhere == \A t \in Threads : \/ pc'[t] = pc[t] /\ req'[t] = req[t]
                                \/ pc[t] # "count" /\ pc'[t] # "count"

LEMMA GotoElsewhere ==
  ASSUME AccountInv, NEW t \in Threads, NEW s, s # "count", Goto(t, s), pc[t] # "count"
  PROVE  Elsewhere
  BY DEF Goto, Elsewhere, AccountInv, Threading

LEMMA TakeElsewhere ==
  ASSUME AccountInv, NEW t \in Threads, NEW k, NEW s, s # "count", NEW op, NEW u, NEW r,
         Take(t, k, s, op, u, r)
  PROVE  Elsewhere
  BY DEF Take, Elsewhere, AccountInv, Threading

LEMMA StepElsewhere ==
  ASSUME AccountInv, NEW t \in Threads, Step(t), ~Login(t), ~LoginFailed(t), ~LoggedIn(t)
  PROVE  Elsewhere
<1>1. CASE Register(t) \/ Resend(t) \/ Forgot(t) \/ ToggleStatus(t) \/ Verify(t)
  <2>1. \E k, op, u, r : \E s \in {"insert", "renew", "status", "verify"} : Take(t, k, s, op, u, r)
    BY <1>1 DEF Register, Resend, Forgot, AskCode, ToggleStatus, Verify, AskStatus
  <2> QED  BY <2>1, TakeElsewhere
<1>2. ASSUME NEW op, NEW expired \in {"delete", "disable"}, NEW right \in {"activate", "password"},
             Guess(t, op, expired, right)
      PROVE  Elsewhere
  <2>1. \E u, r : \E s \in {expired, right, "bump"} : Take(t, "guess", s, op, u, r)
    BY <1>2 DEF Guess
  <2> QED  BY <2>1, TakeElsewhere
<1>3. CASE Confirm(t) \/ Reset(t) \/ Webhook(t)
  BY <1>2, <1>3 DEF Confirm, Reset, Webhook
<1>4. CASE Insert(t)
  <2>1. \E r, next : next \in {"mail", "idle"} /\ InsertUser(t, req[t].user, r, next)
    BY <1>4 DEF Insert
  <2>2. pc[t] = "insert" /\ \E s \in {"mail", "idle"} : Goto(t, s)
    BY <1>4, <2>1 DEF Insert, InsertUser
  <2> QED  BY <2>2, GotoElsewhere
<1>5. CASE \/ Mail(t) \/ Bump(t) \/ Disable(t) \/ DeleteExpired(t) \/ Activate(t)
           \/ Password(t) \/ Renew(t) \/ SetStatus(t)
  <2>1. \E s \in {"idle", "disable"} : Goto(t, s)
    BY <1>5 DEF Mail, Bump, Disable, DeleteExpired, Activate, Password, Renew, SetStatus
  <2>2. pc[t] # "count"
    BY <1>5 DEF Mail, Bump, Disable, DeleteExpired, Activate, Password, Renew, SetStatus
  <2> QED  BY <2>1, <2>2, GotoElsewhere
<1> QED  BY <1>1, <1>3, <1>4, <1>5 DEF Step

LEMMA LoginRestart ==
  ASSUME AccountInv, LoginOK, NEW v \in Servers, Restart(v)
  PROVE  LoginOK'
<1>1. /\ fails' = [fails EXCEPT ![v] = [u \in Users |-> 0]]
      /\ pc' = [t \in Threads |-> IF Home[t] = v THEN "idle" ELSE pc[t]]
      /\ req' = [t \in Threads |-> IF Home[t] = v THEN NoReq ELSE req[t]]
  BY DEF Restart
<1>2. fails \in [Servers -> [Users -> Nat]] /\ kLoginFailureLimit \in Nat \ {0}
  BY AccountsAssumption DEF AccountInv, Counters
<1>3. ASSUME NEW w \in Servers, NEW u \in Users
      PROVE  fails'[w][u] + Cardinality(Counting(w, u))'
               <= kLoginFailureLimit - 1 + Cardinality(ThreadsOf(w))
  <2>1. CASE w = v
    <3>1. fails'[w] = [x \in Users |-> 0]
      BY <1>1, <1>2, <2>1
    <3>2. fails'[w][u] = 0
      BY <3>1
    <3> DEFINE a == Cardinality(Counting(w, u))'
               b == Cardinality(ThreadsOf(w))
    <3>3. a \in Nat /\ b \in Nat /\ a <= b
      BY LoginSets
    <3> HIDE DEF a, b
    <3>4. 0 + a <= kLoginFailureLimit - 1 + b
      BY <1>2, <3>3
    <3> QED  BY <3>2, <3>4 DEF a, b
  <2>2. CASE w # v
    <3>1. Counting(w, u)' = Counting(w, u)
      BY <1>1, <2>2 DEF Counting
    <3>2. fails'[w] = fails[w]
      BY <1>1, <1>2, <2>2
    <3> QED  BY <3>1, <3>2 DEF LoginOK
  <2> QED  BY <2>1, <2>2
<1> QED  BY <1>3 DEF LoginOK, ThreadsOf

LEMMA LoginStepKeeps ==
  ASSUME AccountInv, LoginOK, [VoucherNext]_vars
  PROVE  LoginOK'
<1>0. Elsewhere /\ fails' = fails => LoginOK'
  BY LoginFrame DEF Elsewhere
<1>1. ASSUME NEW t \in Threads, Step(t)  PROVE LoginOK'
  <2>1. CASE Login(t) \/ LoginFailed(t) \/ LoggedIn(t)
    BY <2>1, LoginAsked, LoginEnds
  <2>2. CASE ~Login(t) /\ ~LoginFailed(t) /\ ~LoggedIn(t)
    <3>1. Elsewhere
      BY <1>1, <2>2, StepElsewhere
    <3>2. fails' = fails
      BY <1>1, <2>2, LoginCounts DEF lockout, AccountInv
    <3> QED  BY <1>0, <3>1, <3>2
  <2> QED  BY <2>1, <2>2
<1>2. CASE CreateUser \/ DeleteUser \/ TimePasses
  <2>1. UNCHANGED <<handlers, fails>>
    BY <1>2 DEF CreateUser, DeleteUser, TimePasses, lockout
  <2> QED  BY <1>0, <2>1 DEF handlers, Elsewhere
<1>3. CASE AccountStep
  BY <1>1, <1>2, <1>3, LoginRestart DEF AccountStep, AccountNext
<1>4. ASSUME NEW t \in Threads, VoucherMove(t)  PROVE Elsewhere
  <2>1. CASE \E s \in TxStages \cup {"idle"} : Goto(t, s) /\ pc[t] \in TxStages
    <3>1. PICK s \in TxStages \cup {"idle"} : Goto(t, s) /\ pc[t] \in TxStages
      BY <2>1
    <3>2. s # "count" /\ pc[t] # "count"
      BY <3>1 DEF TxStages
    <3> QED  BY <3>1, <3>2, GotoElsewhere
  <2>2. CASE \E k \in {"redeem", "activate"}, s \in {"lock", "pick"}, u \in Users :
               Take(t, k, s, k, u, users[u])
    BY <2>2, TakeElsewhere
  <2>3. CASE pc[t] = "idle" /\ pc' = [pc EXCEPT ![t] = "toggle"] /\ req' = req
    BY <2>3 DEF Elsewhere, AccountInv, Threading
  <2> QED  BY <1>4, <2>1, <2>2, <2>3 DEF VoucherMove
<1>5. CASE ~AccountStep
  <2>1. VoucherLeft /\ (UNCHANGED handlers \/ \E t \in Threads : VoucherMove(t))
    BY <1>5, VoucherMoves, VoucherTablesLeft DEF VoucherNext, Quiet
  <2>2. fails' = fails
    BY <2>1 DEF VoucherLeft, lockout
  <2>3. Elsewhere
    BY <1>4, <2>1 DEF handlers, Elsewhere
  <2> QED  BY <1>0, <2>2, <2>3
<1> QED  BY <1>3, <1>5

LEMMA LoginInitially == VoucherInit => LoginOK
<1> SUFFICES ASSUME AccountInit, NEW v \in Servers, NEW u \in Users
             PROVE  fails[v][u] + Cardinality(Counting(v, u))
                      <= kLoginFailureLimit - 1 + Cardinality(ThreadsOf(v))
  BY DEF VoucherInit, LoginOK
<1>1. fails = [x \in Servers |-> [w \in Users |-> 0]]
  BY DEF AccountInit
<1>2. fails[v][u] = 0
  BY <1>1
<1>3. kLoginFailureLimit \in Nat \ {0}
  BY AccountsAssumption
<1> DEFINE a == Cardinality(Counting(v, u))
           b == Cardinality(ThreadsOf(v))
<1>4. a \in Nat /\ b \in Nat /\ a <= b
  BY LoginSets
<1> HIDE DEF a, b
<1>5. 0 + a <= kLoginFailureLimit - 1 + b
  BY <1>3, <1>4
<1> QED  BY <1>2, <1>5 DEF a, b

\* A code is compared with fewer than kMaxOtpAttempts wrong ones and one more
\* for each thread, then and at each restart, as long as every statement is
\* executed and no account is in the map of a server; a login is tried with fewer
\* than kLoginFailureLimit wrong passwords and one more for each thread of the
\* server.  However many threads there are, and whatever they guess.
THEOREM GuessesAreBounded == Spec => []GuessesBounded
<1>1. VoucherInit => OtpOK /\ LoginOK
  BY OtpInitially, LoginInitially
<1>2. AccountInv /\ OtpOK /\ LoginOK /\ [VoucherNext]_vars => OtpOK' /\ LoginOK'
  BY OtpKeeps, LoginStepKeeps
<1>3. AccountInv /\ OtpOK /\ LoginOK => GuessesBounded
  <2> SUFFICES ASSUME AccountInv, OtpOK, LoginOK  PROVE GuessesBounded
    OBVIOUS
  <2>1. ASSUME Plain, NEW c \in Codes
        PROVE  wrong[c] < kMaxOtpAttempts + Cardinality(Threads) * (env["restart"] + 1)
    <3>1. wrong[c] <= kMaxOtpAttempts - 1 + Cardinality(Threads) + Lost
      BY <2>1 DEF OtpOK, Bounded
    <3>2. Lost \in Nat /\ Cardinality(Threads) \in Nat /\ env["restart"] \in Nat
      BY LostType DEF AccountInv
    <3>3. ASSUME NEW m \in Nat, NEW n \in Nat  PROVE m * (n + 1) = m * n + m
      OBVIOUS
    <3>4. Cardinality(Threads) * (env["restart"] + 1) = Lost + Cardinality(Threads)
      BY <3>2, <3>3 DEF Lost
    <3>5. kMaxOtpAttempts \in Nat /\ wrong[c] \in Nat
      BY AccountsAssumption DEF AccountInv, Counters
    <3> QED  BY <3>1, <3>2, <3>4, <3>5
  <2>2. ASSUME NEW v \in Servers, NEW u \in Users
        PROVE  fails[v][u] < kLoginFailureLimit + Cardinality({t \in Threads : Home[t] = v})
    <3> DEFINE a == Cardinality(Counting(v, u))
               b == Cardinality(ThreadsOf(v))
    <3>1. fails[v][u] + a <= kLoginFailureLimit - 1 + b
      BY DEF LoginOK
    <3>2. a \in Nat /\ b \in Nat
      BY LoginSets
    <3>3. kLoginFailureLimit \in Nat /\ fails[v][u] \in Nat
      BY AccountsAssumption DEF AccountInv, Counters
    <3> HIDE DEF a, b
    <3>4. fails[v][u] < kLoginFailureLimit + b
      BY <3>1, <3>2, <3>3
    <3> QED  BY <3>4 DEF b, ThreadsOf
  <2> QED  BY <2>1, <2>2 DEF GuessesBounded, OtpGuessesBounded, LoginGuessesBounded, Plain
<1> QED  BY <1>1, <1>2, <1>3, AccountsAlways, PTL DEF Spec
===============================================================================
