-------------------------- MODULE VoucherLedgerProofs --------------------------
(***************************************************************************)
(* The ledger of the vouchers: quota, redemptions and packages agree, for  *)
(* every number of users, threads, servers and vouchers.                   *)
(*                                                                         *)
(* The argument is about row locks: who has read a voucher that is not     *)
(* used up keeps others from it until its COMMIT, and the redemptions that *)
(* an activation has locked stay the user's.                               *)
(***************************************************************************)
EXTENDS VouchersProofs

TxType == [code : VoucherCodes \cup {"none"}, red : Redemptions \cup {NoRedemption},
           rows : SUBSET Redemptions, voucher : Voucher]

LedgerTypeOK ==
  /\ vouchers \in [VoucherCodes -> Voucher]
  /\ redemptions \in [Redemptions -> Redemption]
  /\ entitled \in [Users -> Redemptions \cup {NoRedemption}]
  /\ serial \in 0..MaxSerial
  /\ tx \in [Threads -> TxType]
  /\ spent \in [Redemptions -> Nat]

\* An id of admin_users belongs to one row, and was given out.
UserIds ==
  /\ \A u \in Users : users[u].id <= ids /\ (users[u].status = "none" <=> users[u].id = 0)
  /\ \A u, w \in Users : users[u].id = users[w].id /\ users[u].id # 0 => u = w

\* The same of vouchers; what was not given out is used nowhere.
Serials ==
  /\ \A c \in VoucherCodes : vouchers[c].id <= serial
  /\ \A b, c \in VoucherCodes : vouchers[b].id = vouchers[c].id /\ vouchers[b].id # 0 => b = c
  /\ \A r \in Redemptions : redemptions[r].voucher <= serial
  /\ \A u \in Users : entitled[u] <= serial
  /\ \A i \in Redemptions : i > serial => spent[i] = 0 /\ redemptions[i] = NoneRedeemed

\* The foreign key of a redemption.
Owned ==
  \A r \in Redemptions : redemptions[r] # NoneRedeemed =>
    \E u \in Users : users[u].id # 0 /\ users[u].id = redemptions[r].user

TablesOK == UserIds /\ Serials /\ Owned /\ VoucherLedger

-----------------------------------------------------------------------------
\* What a thread is doing.
InTx(t)       == pc[t] \in TxStages \ {"toggle"} /\ req[t].op \in {"redeem", "activate"}
HasVoucher(t) == req[t].op = "redeem" /\ pc[t] \in {"write", "entitle", "commit"}
HasNew(t)     == req[t].op = "redeem" /\ pc[t] \in {"entitle", "commit"}
HasRows(t)    == req[t].op = "activate" /\ pc[t] \in {"pause", "entitle", "commit"}

StageOK(t) ==
  /\ pc[t] \in {"status", "verify"} => Uid(t) # 0
  /\ pc[t] \in {"lock", "write"} => req[t].op = "redeem"
  /\ pc[t] \in {"pick", "pause"} => req[t].op = "activate"

\* A transaction is of one user, whatever becomes of his row.
NamedOK(t) == InTx(t) =>
  /\ Uid(t) \in 1..ids /\ \A u \in Users : users[u].id = Uid(t) => u = req[t].user
  /\ req[t].op = "redeem" => tx[t].code \in VoucherCodes
  /\ req[t].op = "activate" => tx[t].red \in Redemptions

\* Its voucher is not used up, ...
VoucherOK(t) == HasVoucher(t) =>
  vouchers[tx[t].code].id # 0 /\ vouchers[tx[t].code].used < vouchers[tx[t].code].max

\* ... its new redemption is nobody's, and its user is there, ...
NewOK(t) == HasNew(t) =>
  /\ users[req[t].user].id = Uid(t) /\ tx[t].red \in 1..serial
  /\ redemptions[tx[t].red] = NoneRedeemed /\ \A u \in Users : entitled[u] # tx[t].red

\* ... and the redemptions that it has locked are its user's.
RowsOK(t) == HasRows(t) =>
  tx[t].red \in tx[t].rows /\ \A r \in tx[t].rows : redemptions[r].user = Uid(t)

ThreadOK(t) == StageOK(t) /\ NamedOK(t) /\ VoucherOK(t) /\ NewOK(t) /\ RowsOK(t)

\* Two transactions work on different vouchers and redemptions.
Apart(s, t) ==
  /\ HasVoucher(s) /\ HasVoucher(t) => tx[s].code # tx[t].code
  /\ HasNew(s) /\ HasNew(t) => tx[s].red # tx[t].red

ThreadsOK ==
  /\ \A t \in Threads : ThreadOK(t)
  /\ \A s, t \in Threads : s # t => Apart(s, t)

LedgerInv == LedgerTypeOK /\ TablesOK /\ ThreadsOK

-----------------------------------------------------------------------------
(***************************************************************************)
(* What a step of Accounts does to the rows.                               *)
(***************************************************************************)
RowChange(u) ==
  \/ users'[u].id = users[u].id /\ (users'[u].status = "none" <=> users[u].status = "none")
  \/ users'[u].id = 0 /\ users'[u].status = "none"
  \/ users[u].id = 0 /\ users'[u].id = ids + 1 /\ ids' = ids + 1 /\ users'[u].status # "none"

OneRow ==
  /\ ids' >= ids
  /\ \/ users' = users
     \/ \E u \in Users : RowChange(u) /\ \A x \in Users : x # u => users'[x] = users[x]

LEMMA SameRows ==
  ASSUME SuspInv, users' = users, ids' = ids
  PROVE  OneRow
  BY DEF OneRow, SuspInv, RowTypeOK

LEMMA RowSet ==
  ASSUME SuspInv, NEW u \in Users, NEW r \in Row, users' = [users EXCEPT ![u] = r],
         \/ ids' = ids /\ r.id = users[u].id /\ (r.status = "none" <=> users[u].status = "none")
         \/ ids' = ids /\ r.id = 0 /\ r.status = "none"
         \/ users[u].id = 0 /\ r.id = ids + 1 /\ ids' = ids + 1 /\ r.status # "none"
  PROVE  OneRow
<1>1. users'[u] = r /\ \A x \in Users : x # u => users'[x] = users[x]
  BY DEF SuspInv, RowTypeOK
<1>2. RowChange(u)
  BY <1>1 DEF RowChange
<1>3. ids' >= ids
  BY DEF SuspInv, RowTypeOK
<1> QED  BY <1>1, <1>2, <1>3 DEF OneRow

LEMMA RowStored ==
  ASSUME SuspInv, NEW t \in Threads, NEW u \in Users, NEW r \in Row, Store(t, u, r), ids' = ids,
         \/ ~InMemory(t, u) => r.id = users[u].id /\ (r.status = "none" <=> users[u].status = "none")
         \/ r.id = 0 /\ r.status = "none"
  PROVE  OneRow
<1>1. CASE InMemory(t, u)
  BY <1>1, SameRows DEF Store
<1>2. CASE ~InMemory(t, u)
  <2>1. users' = [users EXCEPT ![u] = r]
    BY <1>2 DEF Store
  <2> QED  BY <1>2, <2>1, RowSet
<1> QED  BY <1>1, <1>2

\* The updates keep the id.
LEMMA UpdatedRows ==
  ASSUME NEW r \in Row, NEW c \in Codes \cup {NoCode}
  PROVE  /\ WithCode(r, c).id = r.id
         /\ Activated(r).id = r.id /\ Activated(r).status = "active"
         /\ [r EXCEPT !.tries = r.tries + 1].id = r.id
         /\ \A s \in {"active", "suspended"} :
              [r EXCEPT !.status = s].id = r.id /\ [r EXCEPT !.status = s].status = s
  BY DEF Row, WithCode, Activated

-----------------------------------------------------------------------------
LEMMA InsertRow ==
  ASSUME SuspInv, UserIds, NEW t \in Threads, Insert(t)
  PROVE  OneRow
<1>1. \E r \in Row, next \in {"mail", "idle"} :
        InsertUser(t, req[t].user, r, next) /\ r.id = ids + 1 /\ r.status # "none"
  <2> DEFINE waits  == [id |-> ids + 1, status |-> "pending_otp", code |-> FreshCode, tries |-> 0]
             active == [id |-> ids + 1, status |-> "active", code |-> NoCode, tries |-> 0]
  <2>1. active \in Row /\ active.id = ids + 1 /\ active.status # "none"
    BY DEF Row, SuspInv, RowTypeOK
  <2>2. Generate => waits \in Row
    BY AccountsAssumption DEF Row, FreshCode, Codes, Generate, SuspInv, RowTypeOK
  <2>3. waits.id = ids + 1 /\ waits.status # "none"
    OBVIOUS
  <2>4. \/ Generate /\ InsertUser(t, req[t].user, waits, "mail")
        \/ InsertUser(t, req[t].user, active, "idle")
    BY DEF Insert
  <2> HIDE DEF waits, active
  <2> QED  BY <2>1, <2>2, <2>3, <2>4
<1>2. PICK r \in Row, next \in {"mail", "idle"} :
        InsertUser(t, req[t].user, r, next) /\ r.id = ids + 1 /\ r.status # "none"
  BY <1>1
<1>3. PICK u \in Users : u = req[t].user
  BY DEF Insert, SuspInv, Serving
<1>4. ids' = ids + 1 /\ ids \in Nat
  BY DEF Insert, SuspInv, RowTypeOK
<1>5. users' = users \/ (users[u].status = "none" /\ users' = [users EXCEPT ![u] = r])
  BY <1>2, <1>3 DEF InsertUser
<1>6. CASE users' = users
  BY <1>4, <1>6 DEF OneRow
<1>7. CASE users[u].status = "none" /\ users' = [users EXCEPT ![u] = r]
  <2>1. users[u].id = 0
    BY <1>7 DEF UserIds
  <2> QED  BY <1>2, <1>4, <1>7, <2>1, RowSet
<1> QED  BY <1>5, <1>6, <1>7

LEMMA EraseRow ==
  ASSUME SuspInv, NEW t \in Threads, NEW u \in Users, Erase(t, u)
  PROVE  OneRow
<1>1. Store(t, u, NoRow) /\ ids' = ids
  BY DEF Erase
<1>2. NoRow.id = 0 /\ NoRow.status = "none"
  BY DEF NoRow
<1> QED  BY <1>1, <1>2, NoRowType, RowStored

LEMMA MailRow ==
  ASSUME SuspInv, NEW t \in Threads, Mail(t) \/ DeleteExpired(t)
  PROVE  OneRow
<1>1. req[t].user \in Users
  BY DEF Mail, DeleteExpired, SuspInv, Serving
<1>2. Erase(t, req[t].user) \/ UNCHANGED tables
  BY DEF Mail, DeleteExpired, Fails
<1>3. CASE UNCHANGED tables
  BY <1>3, SameRows DEF tables
<1> QED  BY <1>1, <1>2, <1>3, EraseRow

LEMMA BumpRow ==
  ASSUME SuspInv, NEW t \in Threads, Bump(t)
  PROVE  OneRow
<1>1. PICK u \in Users : u = req[t].user
  BY DEF Bump, SuspInv, Serving
<1> DEFINE f == Found(t, u)
           r == [f EXCEPT !.tries = f.tries + 1]
           q == [users[u] EXCEPT !.tries = users[u].tries + 1]
<1>2. ids' = ids /\ \/ Store(t, u, r)
                    \/ users' = users
                    \/ users' = [users EXCEPT ![u] = q]
  BY <1>1 DEF Bump, tables
<1>3. f \in Row /\ users[u] \in Row /\ NoCode \in Codes \cup {NoCode}
  BY FoundInTable DEF SuspInv, RowTypeOK
<1>4. /\ r \in Row /\ r.status = f.status /\ r.id = f.id
      /\ q \in Row /\ q.status = users[u].status /\ q.id = users[u].id
  <2> HIDE DEF f
  <2> QED  BY <1>3, RowUpdates, UpdatedRows
<1>5. ~InMemory(t, u) => f = users[u]
  BY DEF Found
<1> HIDE DEF f, r, q
<1>6. CASE Store(t, u, r)
  BY <1>2, <1>4, <1>5, <1>6, RowStored
<1>7. CASE users' = users
  BY <1>2, <1>7, SameRows
<1>8. CASE users' = [users EXCEPT ![u] = q]
  BY <1>2, <1>4, <1>8, RowSet
<1> QED  BY <1>2, <1>6, <1>7, <1>8

LEMMA UpdateRow ==
  ASSUME SuspInv, NEW t \in Threads, NEW u \in Users, NEW r \in Row,
         Update(t, u, r) \/ Fails(t, u), r.id = Found(t, u).id,
         Found(t, u).status # "none" => r.status # "none"
  PROVE  OneRow
<1>1. CASE Update(t, u, r)
  <2>1. ids' = ids
    BY <1>1 DEF Update
  <2>2. CASE Found(t, u).status = "none"
    BY <1>1, <2>1, <2>2, SameRows DEF Update
  <2>3. CASE Found(t, u).status # "none"
    <3>1. Store(t, u, r)
      BY <1>1, <2>3 DEF Update
    <3>2. ~InMemory(t, u) => r.id = users[u].id /\ (r.status = "none" <=> users[u].status = "none")
      BY <2>3 DEF Found
    <3> QED  BY <2>1, <3>1, <3>2, RowStored
  <2> QED  BY <2>2, <2>3
<1>2. CASE Fails(t, u)
  BY <1>2, SameRows DEF Fails, tables
<1> QED  BY <1>1, <1>2

LEMMA CodeRow ==
  ASSUME SuspInv, NEW t \in Threads, Disable(t) \/ Password(t) \/ Renew(t)
  PROVE  OneRow
<1>1. PICK u \in Users : u = req[t].user
  BY DEF Disable, Password, Renew, SuspInv, Serving
<1>2. \E c \in Codes \cup {NoCode} : Update(t, u, WithCode(Found(t, u), c)) \/ Fails(t, u)
  <2>1. Renew(t) => FreshCode \in Codes
    BY AccountsAssumption DEF Renew, Generate, FreshCode, Codes, SuspInv, RowTypeOK
  <2> QED  BY <1>1, <2>1 DEF Disable, Password, Renew
<1>3. PICK c \in Codes \cup {NoCode} : Update(t, u, WithCode(Found(t, u), c)) \/ Fails(t, u)
  BY <1>2
<1>4. Found(t, u) \in Row
  BY FoundInTable
<1> DEFINE r == WithCode(Found(t, u), c)
<1>5. r \in Row /\ r.id = Found(t, u).id /\ r.status = Found(t, u).status
  BY <1>4, RowUpdates, UpdatedRows
<1>6. Update(t, u, r) \/ Fails(t, u)
  BY <1>3
<1> HIDE DEF r
<1> QED  BY <1>5, <1>6, UpdateRow

LEMMA ActivateRow ==
  ASSUME SuspInv, NEW t \in Threads, Activate(t)
  PROVE  OneRow
<1>1. PICK u \in Users : u = req[t].user
  BY DEF Activate, SuspInv, Serving
<1> DEFINE r == Activated(Found(t, u))
           q == Activated(users[u])
<1>2. \/ Update(t, u, r)
      \/ ids' = ids /\ users' = users
      \/ ids' = ids /\ users[u].status # "none" /\ users' = [users EXCEPT ![u] = q]
  BY <1>1 DEF Activate, tables
<1>3. Found(t, u) \in Row /\ users[u] \in Row /\ NoCode \in Codes \cup {NoCode}
  BY FoundInTable DEF SuspInv, RowTypeOK
<1>4. /\ r \in Row /\ r.id = Found(t, u).id /\ r.status # "none"
      /\ q \in Row /\ q.id = users[u].id /\ q.status # "none"
  BY <1>3, RowUpdates, UpdatedRows
<1> HIDE DEF r, q
<1>5. CASE Update(t, u, r)
  BY <1>4, <1>5, UpdateRow
<1>6. CASE ids' = ids /\ users' = users
  BY <1>6, SameRows
<1>7. CASE ids' = ids /\ users[u].status # "none" /\ users' = [users EXCEPT ![u] = q]
  BY <1>4, <1>7, RowSet
<1> QED  BY <1>2, <1>5, <1>6, <1>7

LEMMA StatusRow ==
  ASSUME SuspInv, UserIds, NEW t \in Threads, StageOK(t), SetStatus(t)
  PROVE  OneRow
<1>1. PICK u \in Users : u = req[t].user
  BY DEF SetStatus, SuspInv, Serving
<1> DEFINE to == IF req[t].row.status = "active" THEN "suspended" ELSE "active"
           r == IF pc[t] = "verify" THEN Activated(users[u]) ELSE [users[u] EXCEPT !.status = to]
<1>2. ids' = ids /\ \/ users' = users
                    \/ users[u].id # 0 /\ users' = [users EXCEPT ![u] = r]
  BY <1>1 DEF SetStatus, StageOK, Uid
<1>3. r \in Row /\ r.id = users[u].id /\ r.status # "none"
  <2>1. users[u] \in Row /\ to \in {"active", "suspended"} /\ NoCode \in Codes \cup {NoCode}
    BY DEF SuspInv, RowTypeOK
  <2> HIDE DEF to
  <2> QED  BY <2>1, RowUpdates, UpdatedRows
<1> HIDE DEF to, r
<1>4. CASE users' = users
  BY <1>2, <1>4, SameRows
<1>5. CASE users[u].id # 0 /\ users' = [users EXCEPT ![u] = r]
  <2>1. users[u].status # "none"
    BY <1>5 DEF UserIds
  <2> QED  BY <1>2, <1>3, <1>5, <2>1, RowSet
<1> QED  BY <1>2, <1>4, <1>5

LEMMA AdminRow ==
  ASSUME SuspInv, UserIds, CreateUser \/ DeleteUser
  PROVE  OneRow
<1>1. CASE CreateUser
  <2>1. PICK u \in Users : users[u].status = "none"
          /\ users' = [users EXCEPT ![u] = [NoRow EXCEPT !.id = ids + 1, !.status = "active"]]
    BY <1>1 DEF CreateUser
  <2> DEFINE r == [NoRow EXCEPT !.id = ids + 1, !.status = "active"]
  <2>2. r \in Row /\ r.id = ids + 1 /\ r.status # "none"
    <3>1. ids + 1 \in Nat
      BY DEF SuspInv, RowTypeOK
    <3>2. ASSUME NEW q \in Row, NEW n \in Nat
          PROVE  /\ [q EXCEPT !.id = n, !.status = "active"] \in Row
                 /\ [q EXCEPT !.id = n, !.status = "active"].id = n
                 /\ [q EXCEPT !.id = n, !.status = "active"].status = "active"
      BY DEF Row
    <3> QED  BY <3>1, <3>2, NoRowType
  <2>3. users' = [users EXCEPT ![u] = r] /\ users[u].id = 0 /\ ids' = ids + 1
    BY <1>1, <2>1 DEF CreateUser, UserIds
  <2> HIDE DEF r
  <2> QED  BY <2>2, <2>3, RowSet
<1>2. CASE DeleteUser
  <2>1. PICK u \in Users : users' = [users EXCEPT ![u] = NoRow]
    BY <1>2 DEF DeleteUser, Deleted
  <2>2. ids' = ids /\ NoRow.id = 0 /\ NoRow.status = "none"
    BY <1>2 DEF DeleteUser, NoRow
  <2> QED  BY <2>1, <2>2, NoRowType, RowSet
<1> QED  BY <1>1, <1>2

LEMMA AccountRows ==
  ASSUME SuspInv, UserIds, \A t \in Threads : StageOK(t), AccountNext
  PROVE  OneRow
<1>1. ASSUME NEW t \in Threads, Step(t)  PROVE OneRow
  <2>1. CASE \/ Register(t) \/ Confirm(t) \/ Reset(t) \/ Webhook(t) \/ Resend(t) \/ Forgot(t)
             \/ Login(t) \/ LoginFailed(t) \/ LoggedIn(t) \/ ToggleStatus(t) \/ Verify(t)
    <3>1. users' = users /\ ids' = ids
      BY <2>1 DEF Register, Confirm, Reset, Webhook, Guess, Resend, Forgot, AskCode, Login,
         LoginFailed, LoggedIn, ToggleStatus, Verify, AskStatus, tables
    <3> QED  BY <3>1, SameRows
  <2> QED  BY <1>1, <2>1, InsertRow, MailRow, BumpRow, CodeRow, ActivateRow, StatusRow DEF Step
<1>2. CASE TimePasses \/ \E v \in Servers : Restart(v)
  <2>1. users' = users /\ ids' = ids
    BY <1>2 DEF TimePasses, Restart, tables
  <2> QED  BY <2>1, SameRows
<1> QED  BY <1>1, <1>2, AdminRow DEF AccountNext

-----------------------------------------------------------------------------
(***************************************************************************)
(* A step of Accounts and the ledger.                                      *)
(***************************************************************************)
\* A thread that is in a transaction afterwards has been in it.
ThreadSteps ==
  \A t \in Threads :
    \/ pc'[t] = pc[t] /\ req'[t] = req[t]
    \/ pc'[t] \notin TxStages /\ (pc'[t] \in {"status", "verify"} => req'[t].row.id # 0)

LEMMA OneSteps ==
  ASSUME SuspInv, NEW t \in Threads, NEW s, s \notin TxStages,
         pc' = [pc EXCEPT ![t] = s], req' = req \/ \E q : req' = [req EXCEPT ![t] = q],
         s \in {"status", "verify"} => req'[t].row.id # 0
  PROVE  ThreadSteps
<1>1. \A x \in Threads : x # t => pc'[x] = pc[x] /\ req'[x] = req[x]
  BY DEF SuspInv, RowTypeOK
<1>2. pc'[t] = s
  BY DEF SuspInv, RowTypeOK
<1> QED  BY <1>1, <1>2 DEF ThreadSteps

LEMMA GotoSteps ==
  ASSUME SuspInv, NEW t \in Threads, NEW s, s \notin TxStages \cup {"status", "verify"}, Goto(t, s)
  PROVE  ThreadSteps
<1>1. pc' = [pc EXCEPT ![t] = s] /\ (req' = req \/ \E q : req' = [req EXCEPT ![t] = q])
  BY DEF Goto
<1> QED  BY <1>1, OneSteps

LEMMA TakeSteps ==
  ASSUME SuspInv, NEW t \in Threads, NEW k, NEW s, s \notin TxStages, NEW op, NEW u, NEW r,
         Take(t, k, s, op, u, r), s \in {"status", "verify"} => r.id # 0
  PROVE  ThreadSteps
<1>1. pc' = [pc EXCEPT ![t] = s] /\ req' = [req EXCEPT ![t] = [op |-> op, user |-> u, row |-> r]]
  BY DEF Take
<1>2. req'[t].row = r
  BY <1>1 DEF SuspInv, RowTypeOK
<1> QED  BY <1>1, <1>2, OneSteps

LEMMA AccountSteps ==
  ASSUME SuspInv, UserIds, AccountNext
  PROVE  ThreadSteps
<1>1. ASSUME NEW t \in Threads, Step(t)  PROVE ThreadSteps
  <2>1. CASE \E s \in {"mail", "idle", "disable"} : Goto(t, s)
    BY <2>1, GotoSteps DEF TxStages
  <2>2. CASE Register(t) \/ Resend(t) \/ Forgot(t) \/ Login(t)
    <3>1. \E s \in {"insert", "renew", "welcome", "count"}, op \in {"register", "resend", "forgot", "login"},
             k \in Kinds, u \in Users, r \in {NoRow} \cup {Found(t, w) : w \in Users} :
            Take(t, k, s, op, u, r)
      BY <2>2 DEF Register, Resend, Forgot, AskCode, Login, Kinds
    <3>2. PICK s \in {"insert", "renew", "welcome", "count"}, op \in {"register", "resend", "forgot", "login"},
             k \in Kinds, u \in Users, r \in {NoRow} \cup {Found(t, w) : w \in Users} :
            Take(t, k, s, op, u, r)
      BY <3>1
    <3>3. s \notin TxStages /\ s \notin {"status", "verify"}
      BY DEF TxStages
    <3> QED  BY <3>2, <3>3, TakeSteps
  <2>3. ASSUME NEW op \in {"confirm", "reset", "webhook"}, NEW expired \in {"delete", "disable"},
               NEW right \in {"activate", "password"}, Guess(t, op, expired, right)
        PROVE  ThreadSteps
    <3>1. PICK u \in Users, s \in {expired, right, "bump"} :
            Take(t, "guess", s, op, u, Seen(t, op, u))
      BY <2>3 DEF Guess
    <3>2. s \notin TxStages /\ s \notin {"status", "verify"}
      BY <2>3 DEF TxStages
    <3> QED  BY <3>1, <3>2, TakeSteps
  <2>4. CASE ToggleStatus(t) \/ Verify(t)
    <3>1. \E u \in Users, s \in {"status", "verify"} :
            users[u].status # "none" /\ Take(t, "admin", s, s, u, users[u])
      BY <2>4 DEF ToggleStatus, Verify, AskStatus
    <3>2. PICK u \in Users, s \in {"status", "verify"} :
            users[u].status # "none" /\ Take(t, "admin", s, s, u, users[u])
      BY <3>1
    <3>3. s \notin TxStages /\ users[u].id # 0
      BY <3>2 DEF TxStages, UserIds
    <3> QED  BY <3>2, <3>3, TakeSteps
  <2>5. CASE Confirm(t) \/ Reset(t) \/ Webhook(t)
    BY <2>3, <2>5 DEF Confirm, Reset, Webhook
  <2>6. CASE \/ Insert(t) \/ Mail(t) \/ Bump(t) \/ Disable(t) \/ DeleteExpired(t) \/ Activate(t)
             \/ Password(t) \/ Renew(t) \/ LoginFailed(t) \/ LoggedIn(t) \/ SetStatus(t)
    <3>1. CASE Insert(t)
      <4>1. \E r, next : next \in {"mail", "idle"} /\ InsertUser(t, req[t].user, r, next)
        BY <3>1 DEF Insert
      <4> QED  BY <2>1, <4>1 DEF InsertUser
    <3>2. CASE ~Insert(t)
      <4>1. \E s \in {"idle", "disable"} : Goto(t, s)
        BY <2>6, <3>2 DEF Mail, Bump, Disable, DeleteExpired, Activate, Password, Renew,
           LoginFailed, LoggedIn, SetStatus
      <4> QED  BY <2>1, <4>1
    <3> QED  BY <3>1, <3>2
  <2> QED  BY <1>1, <2>2, <2>4, <2>5, <2>6 DEF Step
<1>2. CASE CreateUser \/ DeleteUser \/ TimePasses
  <2>1. pc' = pc /\ req' = req
    BY <1>2 DEF CreateUser, DeleteUser, TimePasses, handlers
  <2> QED  BY <2>1 DEF ThreadSteps
<1>3. ASSUME NEW v \in Servers, Restart(v)  PROVE ThreadSteps
  <2>1. \A t \in Threads : pc'[t] = "idle" \/ (pc'[t] = pc[t] /\ req'[t] = req[t])
    BY <1>3 DEF Restart
  <2> QED  BY <2>1 DEF ThreadSteps, TxStages
<1> QED  BY <1>1, <1>2, <1>3 DEF AccountNext

-----------------------------------------------------------------------------
\* What AccountStep does to the tables of the vouchers.
LEMMA Cascade ==
  ASSUME SuspInv, LedgerInv, AccountStep
  PROVE  /\ OneRow /\ ThreadSteps /\ SuspInv'
         /\ UNCHANGED <<vouchers, settings, serial, spent>>
         /\ redemptions' \in [Redemptions -> Redemption]
         /\ \A r \in Redemptions :
              \/ redemptions'[r] = redemptions[r]
              \/ /\ redemptions'[r] = NoneRedeemed
                 /\ \E u \in Users : users'[u].id # users[u].id /\ users[u].id = redemptions[r].user
         /\ \A r \in Redemptions, u \in Users :
              users'[u].id # users[u].id /\ users[u].id = redemptions[r].user
                => redemptions'[r] = NoneRedeemed
         /\ \A u \in Users : entitled'[u] =
              IF users'[u].id # users[u].id THEN NoRedemption ELSE entitled[u]
         /\ entitled' \in [Users -> Redemptions \cup {NoRedemption}]
         /\ tx' \in [Threads -> TxType]
         /\ \A t \in Threads : pc'[t] \in TxStages => tx'[t] = tx[t]
<1>1. OneRow /\ ThreadSteps /\ SuspInv'
  BY AccountRows, AccountSteps, StepKeeps DEF AccountStep, LedgerInv, TablesOK, ThreadsOK, ThreadOK
<1>2. NoneRedeemed \in Redemption /\ NoTx \in TxType
  BY DEF NoneRedeemed, Redemption, NoTx, TxType, NoVoucher, Voucher, NoRedemption
<1>3. /\ UNCHANGED <<vouchers, settings, serial, spent>>
      /\ redemptions' = [r \in Redemptions |->
           IF \E u \in Users : users'[u].id # users[u].id /\ users[u].id = redemptions[r].user
           THEN NoneRedeemed ELSE redemptions[r]]
      /\ entitled' = [u \in Users |-> IF users'[u].id # users[u].id THEN NoRedemption ELSE entitled[u]]
      /\ tx' = [t \in Threads |-> IF pc'[t] = "idle" THEN NoTx ELSE tx[t]]
  BY DEF AccountStep
<1>4. redemptions' \in [Redemptions -> Redemption]
  BY <1>2, <1>3 DEF LedgerInv, LedgerTypeOK
<1>5. entitled' \in [Users -> Redemptions \cup {NoRedemption}]
  BY <1>3 DEF LedgerInv, LedgerTypeOK
<1>6. tx' \in [Threads -> TxType]
  BY <1>2, <1>3 DEF LedgerInv, LedgerTypeOK
<1>7. \A t \in Threads : pc'[t] \in TxStages => tx'[t] = tx[t]
  BY <1>3 DEF TxStages
<1> QED  BY <1>1, <1>3, <1>4, <1>5, <1>6, <1>7

\* Ids after a step of Accounts.
LEMMA IdsAfter ==
  ASSUME SuspInv, UserIds, OneRow
  PROVE  /\ \A u \in Users : \/ users'[u].id = users[u].id
                             \/ users'[u].id = 0
                             \/ users[u].id = 0 /\ users'[u].id = ids + 1
         /\ ids' >= ids
         /\ SuspInv' => UserIds'
<1>0. ids \in Nat /\ \A u \in Users : users[u] \in Row
  BY DEF SuspInv, RowTypeOK
<1>1. CASE users' = users
  BY <1>0, <1>1 DEF OneRow, UserIds, SuspInv, RowTypeOK, Row
<1>2. CASE \E u \in Users : RowChange(u) /\ \A x \in Users : x # u => users'[x] = users[x]
  <2>1. PICK u \in Users : RowChange(u) /\ \A x \in Users : x # u => users'[x] = users[x]
    BY <1>2
  <2>2. ids' >= ids
    BY DEF OneRow
  <2>3. ASSUME SuspInv'  PROVE UserIds'
    <3>1. ids' \in Nat /\ \A x \in Users : users'[x] \in Row
      BY <2>3 DEF SuspInv, RowTypeOK
    <3>2. \A x \in Users : users'[x].id <= ids' /\ (users'[x].status = "none" <=> users'[x].id = 0)
      BY <1>0, <2>1, <2>2, <3>1 DEF RowChange, UserIds, Row
    <3>3. \A x, w \in Users : users'[x].id = users'[w].id /\ users'[x].id # 0 => x = w
      BY <1>0, <2>1, <2>2, <3>1 DEF RowChange, UserIds, Row
    <3> QED  BY <3>2, <3>3 DEF UserIds
  <2> QED  BY <2>1, <2>2, <2>3 DEF RowChange
<1> QED  BY <1>1, <1>2 DEF OneRow

\* Who deletes a user waits for the transactions that refer to him.
LEMMA LocksAccounts ==
  ASSUME SuspInv, LedgerInv, AccountStep, NEW t \in Threads
  PROVE  /\ HasNew(t) => users'[req[t].user].id = Uid(t)
         /\ HasRows(t) => \A r \in tx[t].rows : redemptions'[r] = redemptions[r]
<1>1. \A u \in Users : users'[u].id = users[u].id \/ users[u].id = 0 \/ UserDeletable(users[u].id)
  BY DEF AccountStep
<1>2. ThreadOK(t) /\ SuspInv /\ tx[t] \in TxType
  BY DEF LedgerInv, LedgerTypeOK, ThreadsOK
<1>3. ASSUME HasNew(t)  PROVE users'[req[t].user].id = Uid(t)
  <2>1. InTx(t) /\ req[t].user \in Users /\ users[req[t].user].id = Uid(t) /\ Uid(t) # 0
    BY <1>2, <1>3 DEF HasNew, InTx, TxStages, ThreadOK, NamedOK, NewOK, SuspInv, Serving
  <2>2. KeepsUser(t, Uid(t))
    BY <1>3 DEF HasNew, KeepsUser
  <2>3. ~UserDeletable(Uid(t))
    BY <2>2 DEF UserDeletable
  <2> QED  BY <1>1, <2>1, <2>3
<1>4. ASSUME HasRows(t), NEW r \in tx[t].rows  PROVE redemptions'[r] = redemptions[r]
  <2>1. r \in Redemptions /\ redemptions[r].user = Uid(t) /\ Uid(t) # 0
    BY <1>2, <1>4 DEF HasRows, InTx, TxStages, ThreadOK, NamedOK, RowsOK, TxType
  <2>2. ~RedemptionFree(r) /\ r \in RowsOf(Uid(t))
    BY <1>4, <2>1 DEF HasRows, HoldsRedemption, RedemptionFree, RowsOf
  <2>3. ~UserDeletable(Uid(t))
    BY <2>2 DEF UserDeletable
  <2>4. ~\E u \in Users : users'[u].id # users[u].id /\ users[u].id = redemptions[r].user
    BY <1>1, <2>1, <2>3
  <2> QED  BY <2>1, <2>4, Cascade
<1> QED  BY <1>3, <1>4

-----------------------------------------------------------------------------
\* The redemptions of a voucher.
RedeemedOf(i) == {r \in Redemptions : redemptions[r].voucher = i}

LEMMA RedeemedFinite ==
  ASSUME NEW S \in SUBSET Redemptions
  PROVE  IsFiniteSet(S) /\ Cardinality(S) \in Nat
<1>1. IsFiniteSet(Redemptions)
  BY FS_Interval, VouchersAssumption DEF Redemptions
<1> QED  BY <1>1, FS_Subset, FS_CardinalityType

LEMMA FewerRedeemed ==
  ASSUME NEW S \in SUBSET Redemptions, NEW T \in SUBSET S
  PROVE  Cardinality(T) <= Cardinality(S)
<1>1. IsFiniteSet(S)
  BY RedeemedFinite
<1> QED  BY <1>1, FS_Subset

LEMMA LedgerFacts ==
  ASSUME SuspInv, LedgerInv
  PROVE  /\ LedgerTypeOK /\ UserIds /\ Serials /\ Owned
         /\ UsedIsSpent /\ WithinQuota /\ RedemptionsCounted /\ PackageBacked
         /\ \A t \in Threads : StageOK(t) /\ NamedOK(t) /\ VoucherOK(t) /\ NewOK(t) /\ RowsOK(t)
         /\ \A s, t \in Threads : s # t => Apart(s, t)
         /\ ids \in Nat /\ MaxSerial \in Nat
         /\ \A u \in Users : users[u] \in Row /\ users[u].id \in Nat
         /\ \A t \in Threads : tx[t] \in TxType
         /\ \A r \in Redemptions : redemptions[r] \in Redemption
         /\ \A c \in VoucherCodes : vouchers[c] \in Voucher
  BY VouchersAssumption DEF LedgerInv, LedgerTypeOK, TablesOK, VoucherLedger, ThreadsOK, ThreadOK, SuspInv, RowTypeOK, Row

LEMMA AccountKeepsTables ==
  ASSUME SuspInv, LedgerInv, AccountStep
  PROVE  LedgerTypeOK' /\ TablesOK'
<1>1. LedgerTypeOK'
  BY Cascade DEF LedgerTypeOK, LedgerInv
<1>2. UserIds'
  BY Cascade, IdsAfter, LedgerFacts
<1>3. Serials'
  <2>1. \A r \in Redemptions : redemptions'[r] = redemptions[r] \/ redemptions'[r] = NoneRedeemed
    BY Cascade
  <2>2. \A u \in Users : entitled'[u] = entitled[u] \/ entitled'[u] = 0
    BY Cascade DEF NoRedemption
  <2>3. vouchers' = vouchers /\ serial' = serial /\ spent' = spent
    BY Cascade
  <2>4. NoneRedeemed.voucher = 0 /\ serial \in Nat
    BY LedgerFacts DEF NoneRedeemed, LedgerTypeOK
  <2> QED  BY <2>1, <2>2, <2>3, <2>4, LedgerFacts DEF Serials
<1>4. Owned'
  <2> SUFFICES ASSUME NEW r \in Redemptions, redemptions'[r] # NoneRedeemed
               PROVE  \E u \in Users : users'[u].id # 0 /\ users'[u].id = redemptions'[r].user
    BY DEF Owned
  <2>1. redemptions'[r] = redemptions[r] /\ redemptions[r] # NoneRedeemed
    BY Cascade
  <2>2. PICK u \in Users : users[u].id # 0 /\ users[u].id = redemptions[r].user
    BY <2>1, LedgerFacts DEF Owned
  <2>3. users'[u].id = users[u].id
    BY <2>1, <2>2, Cascade
  <2> QED  BY <2>1, <2>2, <2>3
<1>5. UsedIsSpent' /\ WithinQuota'
  BY Cascade, LedgerFacts DEF UsedIsSpent, WithinQuota
<1>6. RedemptionsCounted'
  <2> SUFFICES ASSUME NEW c \in VoucherCodes, vouchers'[c].id # 0
               PROVE  Cardinality({r \in Redemptions : redemptions'[r].voucher = vouchers'[c].id})
                        <= vouchers'[c].used
    BY DEF RedemptionsCounted
  <2> DEFINE i == vouchers[c].id
  <2>1. vouchers' = vouchers
    BY Cascade
  <2>2. i # 0 /\ Cardinality(RedeemedOf(i)) <= vouchers[c].used
    BY <2>1, LedgerFacts DEF RedemptionsCounted, RedeemedOf
  <2>3. vouchers'[c].id = i /\ vouchers'[c].used = vouchers[c].used
    BY <2>1
  <2>4. {r \in Redemptions : redemptions'[r].voucher = i} \in SUBSET RedeemedOf(i)
    BY <2>2, Cascade DEF RedeemedOf, NoneRedeemed
  <2>5. RedeemedOf(i) \in SUBSET Redemptions
    BY DEF RedeemedOf
  <2>6. vouchers[c].used \in Nat
    BY LedgerFacts DEF Voucher
  <2> HIDE DEF i
  <2>7. Cardinality({r \in Redemptions : redemptions'[r].voucher = i}) <= Cardinality(RedeemedOf(i))
    BY <2>4, <2>5, FewerRedeemed
  <2>8. Cardinality({r \in Redemptions : redemptions'[r].voucher = i}) \in Nat
        /\ Cardinality(RedeemedOf(i)) \in Nat
    BY <2>4, <2>5, RedeemedFinite
  <2> QED  BY <2>2, <2>3, <2>6, <2>7, <2>8
<1>7. PackageBacked'
  <2> SUFFICES ASSUME NEW u \in Users, entitled'[u] # NoRedemption
               PROVE  redemptions'[entitled'[u]] \in
                 {NoneRedeemed} \cup [voucher : Nat, user : {users'[u].id}, is_active : {TRUE}]
    BY DEF PackageBacked
  <2>1. users'[u].id = users[u].id /\ entitled'[u] = entitled[u]
    BY Cascade
  <2>2. entitled[u] \in Redemptions
    BY <2>1, LedgerFacts DEF LedgerTypeOK
  <2>3. redemptions'[entitled[u]] = redemptions[entitled[u]] \/ redemptions'[entitled[u]] = NoneRedeemed
    BY <2>2, Cascade
  <2> QED  BY <2>1, <2>3, LedgerFacts DEF PackageBacked
<1> QED  BY <1>1, <1>2, <1>3, <1>4, <1>5, <1>6, <1>7 DEF TablesOK, VoucherLedger

LEMMA AccountKeepsThreads ==
  ASSUME SuspInv, LedgerInv, AccountStep
  PROVE  ThreadsOK'
<1>1. ASSUME NEW t \in Threads, pc'[t] \in TxStages
      PROVE  pc'[t] = pc[t] /\ req'[t] = req[t] /\ tx'[t] = tx[t]
  BY <1>1, Cascade DEF ThreadSteps
<1>2. ASSUME NEW t \in Threads, (InTx(t) \/ HasVoucher(t) \/ HasNew(t) \/ HasRows(t))'
      PROVE  pc'[t] = pc[t] /\ req'[t] = req[t] /\ tx'[t] = tx[t]
  <2>1. pc'[t] \in TxStages
    BY <1>2 DEF InTx, HasVoucher, HasNew, HasRows, TxStages
  <2> QED  BY <1>1, <2>1
<1>3. ASSUME NEW t \in Threads  PROVE StageOK(t)'
  BY <1>1, Cascade, LedgerFacts DEF ThreadSteps, StageOK, Uid, TxStages
<1>4. ASSUME NEW t \in Threads  PROVE NamedOK(t)'
  <2> SUFFICES ASSUME InTx(t)'  PROVE NamedOK(t)'
    BY DEF NamedOK
  <2>1. pc'[t] = pc[t] /\ req'[t] = req[t] /\ tx'[t] = tx[t] /\ InTx(t)
    BY <1>2 DEF InTx
  <2>2. Uid(t)' = Uid(t) /\ Uid(t) \in 1..ids
    BY <2>1, LedgerFacts DEF NamedOK, Uid
  <2>3. ids' \in Nat /\ ids' >= ids /\ ids \in Nat
    BY Cascade, IdsAfter, LedgerFacts DEF SuspInv, RowTypeOK
  <2>4. ASSUME NEW u \in Users, users'[u].id = Uid(t)  PROVE u = req[t].user
    <3>1. users[u].id = Uid(t)
      BY <2>2, <2>3, <2>4, Cascade, IdsAfter, LedgerFacts
    <3> QED  BY <2>1, <3>1, LedgerFacts DEF NamedOK
  <2> QED  BY <2>1, <2>2, <2>3, <2>4, LedgerFacts DEF NamedOK
<1>5. ASSUME NEW t \in Threads  PROVE VoucherOK(t)'
  <2>1. HasVoucher(t)' => HasVoucher(t) /\ tx'[t] = tx[t]
    BY <1>2 DEF HasVoucher
  <2> QED  BY <2>1, Cascade, LedgerFacts DEF VoucherOK
<1>6. ASSUME NEW t \in Threads  PROVE NewOK(t)'
  <2> SUFFICES ASSUME HasNew(t)'  PROVE NewOK(t)'
    BY DEF NewOK
  <2>1. pc'[t] = pc[t] /\ req'[t] = req[t] /\ tx'[t] = tx[t] /\ HasNew(t)
    BY <1>2 DEF HasNew
  <2>2. users'[req[t].user].id = Uid(t)
    BY <2>1, LocksAccounts
  <2>3. tx[t].red \in 1..serial /\ redemptions[tx[t].red] = NoneRedeemed
        /\ \A u \in Users : entitled[u] # tx[t].red
    BY <2>1, LedgerFacts DEF NewOK
  <2>4. tx[t].red \in Redemptions /\ tx[t].red # NoRedemption
    BY <2>3, LedgerFacts DEF LedgerTypeOK, Redemptions, NoRedemption
  <2>5. redemptions'[tx[t].red] = NoneRedeemed
    BY <2>3, <2>4, Cascade
  <2>6. \A u \in Users : entitled'[u] # tx[t].red
    BY <2>3, <2>4, Cascade
  <2> QED  BY <2>1, <2>2, <2>3, <2>5, <2>6, Cascade DEF NewOK, Uid
<1>7. ASSUME NEW t \in Threads  PROVE RowsOK(t)'
  <2> SUFFICES ASSUME HasRows(t)'  PROVE RowsOK(t)'
    BY DEF RowsOK
  <2>1. pc'[t] = pc[t] /\ req'[t] = req[t] /\ tx'[t] = tx[t] /\ HasRows(t)
    BY <1>2 DEF HasRows
  <2> QED  BY <2>1, LocksAccounts, LedgerFacts DEF RowsOK, Uid
<1>8. ASSUME NEW s \in Threads, NEW t \in Threads, s # t  PROVE Apart(s, t)'
  <2>1. HasVoucher(s)' => HasVoucher(s) /\ tx'[s] = tx[s]
    BY <1>2 DEF HasVoucher
  <2>2. HasVoucher(t)' => HasVoucher(t) /\ tx'[t] = tx[t]
    BY <1>2 DEF HasVoucher
  <2>3. HasNew(s)' => HasNew(s) /\ tx'[s] = tx[s]
    BY <1>2 DEF HasNew
  <2>4. HasNew(t)' => HasNew(t) /\ tx'[t] = tx[t]
    BY <1>2 DEF HasNew
  <2> QED  BY <1>8, <2>1, <2>2, <2>3, <2>4, LedgerFacts DEF Apart
<1> QED  BY <1>3, <1>4, <1>5, <1>6, <1>7, <1>8 DEF ThreadsOK, ThreadOK

-----------------------------------------------------------------------------
(***************************************************************************)
(* The steps of the transactions.                                          *)
(***************************************************************************)
Still(s) == pc'[s] = pc[s] /\ req'[s] = req[s] /\ tx'[s] = tx[s]

\* What the others do to a transaction.
LEMMA ThreadFrame ==
  ASSUME SuspInv, LedgerInv, users' = users, ids' = ids, serial' \in 0..MaxSerial, serial' >= serial,
         NEW s \in Threads, Still(s),
         HasVoucher(s) => /\ vouchers'[tx[s].code].id = vouchers[tx[s].code].id
                          /\ vouchers'[tx[s].code].used = vouchers[tx[s].code].used
                          /\ vouchers'[tx[s].code].max = vouchers[tx[s].code].max,
         HasNew(s) => redemptions'[tx[s].red] = NoneRedeemed
                      /\ \A u \in Users : entitled'[u] # tx[s].red,
         HasRows(s) => \A r \in tx[s].rows : redemptions'[r].user = redemptions[r].user
  PROVE  ThreadOK(s)'
<1>1. /\ HasVoucher(s)' = HasVoucher(s) /\ HasNew(s)' = HasNew(s) /\ HasRows(s)' = HasRows(s)
      /\ InTx(s)' = InTx(s) /\ Uid(s)' = Uid(s)
  BY DEF Still, HasVoucher, HasNew, HasRows, InTx, Uid
<1>2. StageOK(s)'
  BY <1>1, LedgerFacts DEF Still, StageOK
<1>3. NamedOK(s)'
  BY <1>1, LedgerFacts DEF Still, NamedOK
<1>4. VoucherOK(s)'
  BY <1>1, LedgerFacts DEF Still, VoucherOK
<1>5. NewOK(s)'
  <2> SUFFICES ASSUME HasNew(s)  PROVE NewOK(s)'
    BY <1>1 DEF NewOK
  <2>1. users[req[s].user].id = Uid(s) /\ tx[s].red \in 1..serial
    BY LedgerFacts DEF NewOK
  <2>2. tx[s].red \in 1..serial'
    BY <2>1, LedgerFacts DEF LedgerTypeOK
  <2>3. req'[s] = req[s] /\ tx'[s] = tx[s]
    BY DEF Still
  <2>4. users'[req'[s].user].id = Uid(s)'
    BY <1>1, <2>1, <2>3
  <2> QED  BY <2>2, <2>3, <2>4 DEF NewOK
<1>6. RowsOK(s)'
  BY <1>1, LedgerFacts DEF Still, RowsOK
<1> QED  BY <1>2, <1>3, <1>4, <1>5, <1>6 DEF ThreadOK

\* A thread moves within its transaction; the tables stay.
LEMMA TxMoves ==
  ASSUME SuspInv, LedgerInv, NEW t \in Threads,
         UNCHANGED <<users, ids, vouchers, redemptions, entitled, spent>>,
         serial' \in 0..MaxSerial, serial' >= serial, tx' \in [Threads -> TxType],
         \A s \in Threads \ {t} : Still(s), ThreadOK(t)',
         \A s \in Threads \ {t} :
           /\ HasVoucher(s) /\ HasVoucher(t)' => tx[s].code # tx'[t].code
           /\ HasNew(s) /\ HasNew(t)' => tx[s].red # tx'[t].red
  PROVE  LedgerInv'
<1>1. LedgerTypeOK'
  BY LedgerFacts DEF LedgerTypeOK
<1>2. TablesOK'
  <2>1. serial \in Nat /\ serial' \in Nat
    BY LedgerFacts DEF LedgerTypeOK
  <2>2. UserIds' /\ Owned' /\ VoucherLedger'
    BY LedgerFacts DEF UserIds, Owned, VoucherLedger, UsedIsSpent, WithinQuota, RedemptionsCounted, PackageBacked
  <2>3. Serials'
    <3>1. \A c \in VoucherCodes : vouchers[c].id \in Nat
      BY LedgerFacts DEF Voucher
    <3>2. \A r \in Redemptions : redemptions[r].voucher \in Nat /\ r \in Nat
      BY LedgerFacts DEF Redemption, Redemptions
    <3>3. \A u \in Users : entitled[u] \in Nat
      BY LedgerFacts DEF LedgerTypeOK, Redemptions, NoRedemption
    <3> QED  BY <2>1, <3>1, <3>2, <3>3, LedgerFacts DEF Serials
  <2> QED  BY <2>2, <2>3 DEF TablesOK
<1>3. \A s \in Threads : ThreadOK(s)'
  <2> SUFFICES ASSUME NEW s \in Threads, s # t  PROVE ThreadOK(s)'
    OBVIOUS
  <2> QED  BY ThreadFrame, LedgerFacts DEF NewOK
<1>4. ASSUME NEW s \in Threads, NEW x \in Threads, s # x  PROVE Apart(s, x)'
  <2>1. ASSUME NEW y \in Threads, y # t
        PROVE  HasVoucher(y)' = HasVoucher(y) /\ HasNew(y)' = HasNew(y) /\ tx'[y] = tx[y]
    BY <2>1 DEF Still, HasVoucher, HasNew
  <2>2. CASE s # t /\ x # t
    BY <1>4, <2>1, <2>2, LedgerFacts DEF Apart
  <2>3. CASE s = t
    BY <1>4, <2>1, <2>3 DEF Apart
  <2>4. CASE x = t
    BY <1>4, <2>1, <2>4 DEF Apart
  <2> QED  BY <2>2, <2>3, <2>4
<1> QED  BY <1>1, <1>2, <1>3, <1>4 DEF LedgerInv, ThreadsOK

LEMMA GotoFacts ==
  ASSUME SuspInv, NEW t \in Threads, NEW s, Goto(t, s)
  PROVE  /\ pc'[t] = s /\ (s # "idle" => req'[t] = req[t])
         /\ \A x \in Threads \ {t} : pc'[x] = pc[x] /\ req'[x] = req[x]
<1>1. pc' = [pc EXCEPT ![t] = s]
      /\ \/ s = "idle" /\ req' = [req EXCEPT ![t] = NoReq]
         \/ s # "idle" /\ req' = req
  BY DEF Goto
<1> QED  BY <1>1 DEF SuspInv, RowTypeOK

LEMMA TxSet ==
  ASSUME SuspInv, LedgerInv, NEW t \in Threads, NEW v \in TxType, tx' = [tx EXCEPT ![t] = v]
  PROVE  tx' \in [Threads -> TxType] /\ tx'[t] = v /\ \A x \in Threads \ {t} : tx'[x] = tx[x]
  BY LedgerFacts DEF LedgerTypeOK

LEMMA NoTxType == NoTx \in TxType /\ NoVoucher \in Voucher
  BY DEF NoTx, TxType, NoVoucher, Voucher, NoRedemption

\* Outside of transactions a thread has no duties.
LEMMA Outside ==
  ASSUME NEW t \in Threads, pc'[t] \in {"idle", "toggle"}
  PROVE  ThreadOK(t)' /\ ~HasVoucher(t)' /\ ~HasNew(t)' /\ ~HasRows(t)'
  BY DEF ThreadOK, StageOK, NamedOK, VoucherOK, NewOK, RowsOK, InTx, TxStages, HasVoucher, HasNew, HasRows

LEMMA BeginKeeps ==
  ASSUME SuspInv, LedgerInv, NEW t \in Threads, Redeem(t) \/ Activation(t)
  PROVE  LedgerInv'
<1>1. \E k \in {"redeem", "activate"}, u \in Users, c \in VoucherCodes \cup {"none"},
         r \in Redemptions \cup {NoRedemption} :
        /\ Begin(t, k, IF k = "redeem" THEN "lock" ELSE "pick", u, c, r)
        /\ k = "redeem" => c \in VoucherCodes
        /\ k = "activate" => r \in Redemptions
  BY DEF Redeem, Activation
<1>2. PICK k \in {"redeem", "activate"}, u \in Users, c \in VoucherCodes \cup {"none"},
           r \in Redemptions \cup {NoRedemption} :
        /\ Begin(t, k, IF k = "redeem" THEN "lock" ELSE "pick", u, c, r)
        /\ k = "redeem" => c \in VoucherCodes
        /\ k = "activate" => r \in Redemptions
  BY <1>1
<1> DEFINE s == IF k = "redeem" THEN "lock" ELSE "pick"
           v == [NoTx EXCEPT !.code = c, !.red = r]
<1>3. /\ users[u].status # "none"
      /\ pc' = [pc EXCEPT ![t] = s]
      /\ req' = [req EXCEPT ![t] = [op |-> k, user |-> u, row |-> users[u]]]
      /\ tx' = [tx EXCEPT ![t] = v]
  BY <1>2 DEF Begin, Take, Admitted
<1>4. v \in TxType /\ v.code = c /\ v.red = r
  <2>1. ASSUME NEW q \in TxType
        PROVE  /\ [q EXCEPT !.code = c, !.red = r] \in TxType
               /\ [q EXCEPT !.code = c, !.red = r].code = c
               /\ [q EXCEPT !.code = c, !.red = r].red = r
    BY DEF TxType
  <2> QED  BY <2>1, NoTxType
<1>5. s \in {"lock", "pick"} /\ (s = "lock" <=> k = "redeem")
  OBVIOUS
<1> HIDE DEF s, v
<1>6. tx' \in [Threads -> TxType] /\ tx'[t] = v /\ \A x \in Threads \ {t} : tx'[x] = tx[x]
  BY <1>3, <1>4, TxSet
<1>7. /\ pc'[t] = s /\ req'[t] = [op |-> k, user |-> u, row |-> users[u]]
      /\ \A x \in Threads \ {t} : pc'[x] = pc[x] /\ req'[x] = req[x]
  BY <1>3 DEF SuspInv, RowTypeOK
<1>8. UNCHANGED <<users, ids, vouchers, redemptions, entitled, spent, serial>>
  BY DEF Redeem, Activation, tables, voucherTables
<1>9. ThreadOK(t)'
  <2>1. StageOK(t)'
    BY <1>5, <1>7 DEF StageOK
  <2>2. NamedOK(t)'
    <3>1. users[u].id \in 1..ids /\ \A w \in Users : users[w].id = users[u].id => w = u
      BY <1>3, LedgerFacts DEF UserIds
    <3>2. Uid(t)' = users[u].id /\ req'[t].user = u /\ req'[t].op = k
      BY <1>7 DEF Uid
    <3> QED  BY <1>2, <1>4, <1>6, <1>8, <3>1, <3>2 DEF NamedOK
  <2>3. ~HasVoucher(t)' /\ ~HasNew(t)' /\ ~HasRows(t)'
    BY <1>5, <1>7 DEF HasVoucher, HasNew, HasRows
  <2> QED  BY <2>1, <2>2, <2>3 DEF ThreadOK, VoucherOK, NewOK, RowsOK
<1>10. ~HasVoucher(t)' /\ ~HasNew(t)'
  BY <1>5, <1>7 DEF HasVoucher, HasNew
<1>11. \A x \in Threads \ {t} : Still(x)
  BY <1>6, <1>7 DEF Still
<1>12. serial' \in 0..MaxSerial /\ serial' >= serial
  BY <1>8, LedgerFacts DEF LedgerTypeOK
<1> QED  BY <1>6, <1>8, <1>9, <1>10, <1>11, <1>12, TxMoves

LEMMA EndsKeep ==
  ASSUME SuspInv, LedgerInv, NEW t \in Threads, Rollback(t) \/ AskToggle(t)
  PROVE  LedgerInv'
<1>1. /\ UNCHANGED <<users, ids, vouchers, redemptions, entitled, spent, serial>>
      /\ pc'[t] \in {"idle", "toggle"}
      /\ \A x \in Threads \ {t} : pc'[x] = pc[x] /\ req'[x] = req[x]
  <2>1. CASE Rollback(t)
    <3>1. Goto(t, "idle")
      BY <2>1 DEF Rollback
    <3> QED  BY <2>1, <3>1, GotoFacts DEF Rollback, tables, voucherTables
  <2>2. CASE AskToggle(t)
    BY <2>2 DEF AskToggle, tables, voucherTables, SuspInv, RowTypeOK
  <2> QED  BY <2>1, <2>2
<1>2. \E v \in TxType : tx' = [tx EXCEPT ![t] = v]
  <2>1. CASE Rollback(t)
    BY <2>1, NoTxType DEF Rollback
  <2>2. CASE AskToggle(t)
    <3>1. PICK c \in VoucherCodes :
            tx' = [tx EXCEPT ![t] = [NoTx EXCEPT !.code = c, !.voucher = vouchers[c]]]
      BY <2>2 DEF AskToggle
    <3>2. ASSUME NEW q \in TxType  PROVE [q EXCEPT !.code = c, !.voucher = vouchers[c]] \in TxType
      BY LedgerFacts DEF TxType
    <3> QED  BY <3>1, <3>2, NoTxType
  <2> QED  BY <2>1, <2>2
<1>3. tx' \in [Threads -> TxType] /\ \A x \in Threads \ {t} : tx'[x] = tx[x]
  BY <1>2, TxSet
<1>4. ThreadOK(t)' /\ ~HasVoucher(t)' /\ ~HasNew(t)'
  BY <1>1, Outside
<1>5. serial' \in 0..MaxSerial /\ serial' >= serial
  BY <1>1, LedgerFacts DEF LedgerTypeOK
<1>6. \A x \in Threads \ {t} : Still(x)
  BY <1>1, <1>3 DEF Still
<1> QED  BY <1>1, <1>3, <1>4, <1>5, <1>6, TxMoves

\* A thread goes on to a stage s of its transaction.
LEMMA StageFacts ==
  ASSUME SuspInv, LedgerInv, NEW t \in Threads, NEW s, s # "idle", Goto(t, s),
         NEW v \in TxType, tx' = [tx EXCEPT ![t] = v]
  PROVE  /\ pc'[t] = s /\ req'[t] = req[t] /\ tx'[t] = v /\ tx' \in [Threads -> TxType]
         /\ \A x \in Threads \ {t} : Still(x)
<1>1. tx' \in [Threads -> TxType] /\ tx'[t] = v /\ \A x \in Threads \ {t} : tx'[x] = tx[x]
  BY TxSet
<1>2. pc'[t] = s /\ req'[t] = req[t]
      /\ \A x \in Threads \ {t} : pc'[x] = pc[x] /\ req'[x] = req[x]
  BY GotoFacts
<1> QED  BY <1>1, <1>2 DEF Still

LEMMA LockKeeps ==
  ASSUME SuspInv, LedgerInv, NEW t \in Threads, LockVoucher(t)
  PROVE  LedgerInv'
<1> DEFINE c == tx[t].code
<1>0. PICK s : s = "write"
  OBVIOUS
<1>1. pc[t] = "lock" /\ Goto(t, s) /\ tx' = tx
      /\ UNCHANGED <<users, ids, vouchers, redemptions, entitled, spent, serial>>
  BY <1>0 DEF LockVoucher, tables, voucherTables
<1>2. tx' = [tx EXCEPT ![t] = tx[t]] /\ tx[t] \in TxType /\ s # "idle"
  BY <1>0, <1>1, LedgerFacts DEF LedgerTypeOK
<1>3. /\ pc'[t] = s /\ req'[t] = req[t] /\ tx'[t] = tx[t] /\ tx' \in [Threads -> TxType]
      /\ \A x \in Threads \ {t} : Still(x)
  BY <1>1, <1>2, StageFacts
<1>4. req[t].op = "redeem" /\ InTx(t)
  BY <1>1, LedgerFacts DEF StageOK, InTx, TxStages
<1>5. ThreadOK(t)'
  <2>1. StageOK(t)'
    BY <1>0, <1>3, <1>4 DEF StageOK
  <2>2. NamedOK(t)'
    BY <1>1, <1>3, <1>4, LedgerFacts DEF NamedOK, Uid
  <2>3. VoucherOK(t)'
    BY <1>1, <1>3 DEF VoucherOK, LockVoucher, Redeemable
  <2>4. ~HasNew(t)' /\ ~HasRows(t)'
    BY <1>0, <1>3 DEF HasNew, HasRows
  <2> QED  BY <2>1, <2>2, <2>3, <2>4 DEF ThreadOK, NewOK, RowsOK
<1>6. \A x \in Threads \ {t} : HasVoucher(x) => tx[x].code # tx'[t].code
  BY <1>3 DEF LockVoucher, VoucherFree, HoldsVoucher, HasVoucher
<1>7. ~HasNew(t)'
  BY <1>0, <1>3 DEF HasNew
<1>8. serial' \in 0..MaxSerial /\ serial' >= serial
  BY <1>1, LedgerFacts DEF LedgerTypeOK
<1> QED  BY <1>1, <1>3, <1>5, <1>6, <1>7, <1>8, TxMoves

LEMMA EntitleKeeps ==
  ASSUME SuspInv, LedgerInv, NEW t \in Threads, Entitle(t)
  PROVE  LedgerInv'
<1>0. PICK s : s = "commit"
  OBVIOUS
<1>1. pc[t] = "entitle" /\ Goto(t, s) /\ tx' = tx
      /\ UNCHANGED <<users, ids, vouchers, redemptions, entitled, spent, serial>>
  BY <1>0 DEF Entitle, tables, voucherTables
<1>2. tx' = [tx EXCEPT ![t] = tx[t]] /\ tx[t] \in TxType /\ s # "idle"
  BY <1>0, <1>1, LedgerFacts DEF LedgerTypeOK
<1>3. /\ pc'[t] = s /\ req'[t] = req[t] /\ tx'[t] = tx[t] /\ tx' \in [Threads -> TxType]
      /\ \A x \in Threads \ {t} : Still(x)
  BY <1>1, <1>2, StageFacts
<1>4. /\ HasVoucher(t)' = HasVoucher(t) /\ HasNew(t)' = HasNew(t) /\ HasRows(t)' = HasRows(t)
      /\ InTx(t)' = InTx(t) /\ Uid(t)' = Uid(t)
  BY <1>0, <1>1, <1>3 DEF HasVoucher, HasNew, HasRows, InTx, Uid, TxStages
<1>5. ThreadOK(t)'
  <2>1. StageOK(t)'
    BY <1>0, <1>3 DEF StageOK
  <2>2. NamedOK(t)'
    BY <1>1, <1>3, <1>4, LedgerFacts DEF NamedOK
  <2>3. VoucherOK(t)'
    BY <1>1, <1>3, <1>4, LedgerFacts DEF VoucherOK
  <2>4. NewOK(t)'
    BY <1>1, <1>3, <1>4, LedgerFacts DEF NewOK
  <2>5. RowsOK(t)'
    BY <1>1, <1>3, <1>4, LedgerFacts DEF RowsOK
  <2> QED  BY <2>1, <2>2, <2>3, <2>4, <2>5 DEF ThreadOK
<1>6. \A x \in Threads \ {t} :
        /\ HasVoucher(x) /\ HasVoucher(t)' => tx[x].code # tx'[t].code
        /\ HasNew(x) /\ HasNew(t)' => tx[x].red # tx'[t].red
  BY <1>3, <1>4, LedgerFacts DEF Apart
<1>8. serial' \in 0..MaxSerial /\ serial' >= serial
  BY <1>1, LedgerFacts DEF LedgerTypeOK
<1> QED  BY <1>1, <1>3, <1>5, <1>6, <1>8, TxMoves

LEMMA WriteKeeps ==
  ASSUME SuspInv, LedgerInv, NEW t \in Threads, WriteRedemption(t)
  PROVE  LedgerInv'
<1>0. PICK s : s = "entitle"
  OBVIOUS
<1> DEFINE v == [tx[t] EXCEPT !.red = serial + 1]
<1>1. /\ pc[t] = "write" /\ Goto(t, s) /\ tx' = [tx EXCEPT ![t] = v]
      /\ UNCHANGED <<users, ids, vouchers, redemptions, entitled, spent>>
      /\ serial < MaxSerial /\ serial' = serial + 1 /\ serial \in Nat
      /\ \E u \in Users : users[u].id = Uid(t)
  BY <1>0, LedgerFacts DEF WriteRedemption, tables, LedgerTypeOK
<1>2. v \in TxType /\ v.red = serial + 1 /\ v.code = tx[t].code /\ serial + 1 \in Redemptions
  <2>1. serial + 1 \in Redemptions
    BY <1>1, LedgerFacts DEF Redemptions
  <2> QED  BY <2>1, LedgerFacts DEF TxType
<1> HIDE DEF v
<1>3. /\ pc'[t] = s /\ req'[t] = req[t] /\ tx'[t] = v /\ tx' \in [Threads -> TxType]
      /\ \A x \in Threads \ {t} : Still(x)
  BY <1>0, <1>1, <1>2, StageFacts
<1>4. req[t].op = "redeem" /\ InTx(t) /\ HasVoucher(t)
  BY <1>1, LedgerFacts DEF StageOK, InTx, TxStages, HasVoucher
<1>5. ThreadOK(t)'
  <2>1. StageOK(t)'
    BY <1>0, <1>3 DEF StageOK
  <2>2. NamedOK(t)'
    BY <1>1, <1>2, <1>3, <1>4, LedgerFacts DEF NamedOK, Uid
  <2>3. VoucherOK(t)'
    BY <1>1, <1>2, <1>3, <1>4, LedgerFacts DEF VoucherOK
  <2>4. NewOK(t)'
    <3>1. users[req[t].user].id = Uid(t)
      BY <1>1, <1>4, LedgerFacts DEF NamedOK
    <3>2. redemptions[serial + 1] = NoneRedeemed
      BY <1>1, <1>2, LedgerFacts DEF Serials
    <3>3. \A u \in Users : entitled[u] # serial + 1
      <4>1. \A u \in Users : entitled[u] <= serial /\ entitled[u] \in Nat
        BY LedgerFacts DEF Serials, LedgerTypeOK, Redemptions, NoRedemption
      <4> QED  BY <1>1, <4>1
    <3>4. Uid(t)' = Uid(t) /\ serial + 1 \in 1..serial'
      BY <1>1, <1>3 DEF Uid
    <3> QED  BY <1>1, <1>2, <1>3, <3>1, <3>2, <3>3, <3>4 DEF NewOK
  <2>5. ~HasRows(t)'
    BY <1>3, <1>4 DEF HasRows
  <2> QED  BY <2>1, <2>2, <2>3, <2>4, <2>5 DEF ThreadOK, RowsOK
<1>6. ASSUME NEW x \in Threads \ {t}
      PROVE  /\ HasVoucher(x) => tx[x].code # tx'[t].code
             /\ HasNew(x) => tx[x].red # tx'[t].red
  <2>1. HasVoucher(x) => tx[x].code # tx[t].code
    BY <1>4, LedgerFacts DEF Apart
  <2>2. HasNew(x) => tx[x].red \in 1..serial
    BY LedgerFacts DEF NewOK
  <2>3. serial + 1 \notin 1..serial
    BY <1>1
  <2> QED  BY <1>2, <1>3, <2>1, <2>2, <2>3
<1>8. serial' \in 0..MaxSerial /\ serial' >= serial
  BY <1>1, LedgerFacts
<1> QED  BY <1>1, <1>3, <1>5, <1>6, <1>8, TxMoves

\* The redemptions of an activation are locked one after the other.
LEMMA RowsKeep ==
  ASSUME SuspInv, LedgerInv, NEW t \in Threads, PickRedemption(t) \/ PauseOthers(t)
  PROVE  LedgerInv'
<1>0. \E s \in {"pause", "entitle"}, S \in SUBSET Redemptions :
        /\ Goto(t, s) /\ tx' = [tx EXCEPT ![t] = [tx[t] EXCEPT !.rows = S]]
        /\ tx[t].red \in S /\ \A r \in S : redemptions[r].user = Uid(t)
  <2>1. CASE PickRedemption(t)
    <3>1. tx[t].red \in Redemptions
      BY <2>1, LedgerFacts DEF PickRedemption, StageOK, NamedOK, InTx, TxStages
    <3>2. PICK S \in SUBSET Redemptions : S = {tx[t].red}
      BY <3>1
    <3>3. tx' = [tx EXCEPT ![t] = [tx[t] EXCEPT !.rows = S]]
      BY <2>1, <3>2, LedgerFacts DEF PickRedemption, LedgerTypeOK
    <3> QED  BY <2>1, <3>2, <3>3 DEF PickRedemption
  <2>2. CASE PauseOthers(t)
    <3>1. HasRows(t) /\ tx[t].red \in Redemptions
      BY <2>2, LedgerFacts DEF PauseOthers, StageOK, NamedOK, InTx, TxStages, HasRows
    <3>2. redemptions[tx[t].red].user = Uid(t)
      BY <3>1, LedgerFacts DEF RowsOK
    <3>3. PICK S \in SUBSET Redemptions : S = RowsOf(Uid(t))
      BY DEF RowsOf
    <3>4. tx' = [tx EXCEPT ![t] = [tx[t] EXCEPT !.rows = S]]
      BY <2>2, <3>3, LedgerFacts DEF PauseOthers, LedgerTypeOK
    <3>5. tx[t].red \in S /\ \A r \in S : redemptions[r].user = Uid(t)
      BY <3>1, <3>2, <3>3 DEF RowsOf
    <3> QED  BY <2>2, <3>4, <3>5 DEF PauseOthers
  <2> QED  BY <2>1, <2>2
<1>1. PICK s \in {"pause", "entitle"}, S \in SUBSET Redemptions :
        /\ Goto(t, s) /\ tx' = [tx EXCEPT ![t] = [tx[t] EXCEPT !.rows = S]]
        /\ tx[t].red \in S /\ \A r \in S : redemptions[r].user = Uid(t)
  BY <1>0
<1> DEFINE v == [tx[t] EXCEPT !.rows = S]
<1>2. v \in TxType /\ v.rows = S /\ v.red = tx[t].red
  BY LedgerFacts DEF TxType
<1>3. tx' = [tx EXCEPT ![t] = v] /\ s # "idle"
  BY <1>1
<1> HIDE DEF v
<1>4. /\ pc'[t] = s /\ req'[t] = req[t] /\ tx'[t] = v /\ tx' \in [Threads -> TxType]
      /\ \A x \in Threads \ {t} : Still(x)
  BY <1>1, <1>2, <1>3, StageFacts
<1>5. UNCHANGED <<users, ids, vouchers, redemptions, entitled, spent, serial>>
  BY DEF PickRedemption, PauseOthers, tables, voucherTables
<1>6. req[t].op = "activate" /\ InTx(t)
  BY LedgerFacts DEF PickRedemption, PauseOthers, StageOK, InTx, TxStages
<1>7. ~HasVoucher(t)' /\ ~HasNew(t)'
  BY <1>4, <1>6 DEF HasVoucher, HasNew
<1>8. ThreadOK(t)'
  <2>1. StageOK(t)'
    BY <1>4, <1>6 DEF StageOK
  <2>2. NamedOK(t)'
    BY <1>2, <1>4, <1>5, <1>6, LedgerFacts DEF NamedOK, Uid
  <2>3. RowsOK(t)'
    BY <1>1, <1>2, <1>4, <1>5 DEF RowsOK, Uid
  <2> QED  BY <1>7, <2>1, <2>2, <2>3 DEF ThreadOK, VoucherOK, NewOK
<1>9. serial' \in 0..MaxSerial /\ serial' >= serial
  BY <1>5, LedgerFacts DEF LedgerTypeOK
<1> QED  BY <1>4, <1>5, <1>7, <1>8, <1>9, TxMoves

-----------------------------------------------------------------------------
(***************************************************************************)
(* The steps that write the tables.                                        *)
(***************************************************************************)
\* What a transaction relies on is left as it was.
Untouched(s) ==
  /\ Still(s)
  /\ HasVoucher(s) => /\ vouchers'[tx[s].code].id = vouchers[tx[s].code].id
                      /\ vouchers'[tx[s].code].used = vouchers[tx[s].code].used
                      /\ vouchers'[tx[s].code].max = vouchers[tx[s].code].max
  /\ HasNew(s) => /\ redemptions'[tx[s].red] = NoneRedeemed
                  /\ \A u \in Users : entitled'[u] # tx[s].red
  /\ HasRows(s) => \A r \in tx[s].rows : redemptions'[r].user = redemptions[r].user

LEMMA TableStep ==
  ASSUME SuspInv, LedgerInv, users' = users, ids' = ids, LedgerTypeOK', TablesOK', serial' >= serial,
         \A s \in Threads : pc'[s] \in {"idle", "toggle"} \/ Untouched(s)
  PROVE  LedgerInv'
<1>1. serial' \in 0..MaxSerial
  BY DEF LedgerTypeOK
<1>2. ASSUME NEW s \in Threads  PROVE ThreadOK(s)'
  <2>1. CASE pc'[s] \in {"idle", "toggle"}
    BY <2>1, Outside
  <2>2. CASE Untouched(s)
    BY <1>1, <2>2, ThreadFrame DEF Untouched
  <2> QED  BY <2>1, <2>2
<1>3. ASSUME NEW s \in Threads
      PROVE  /\ HasVoucher(s)' => HasVoucher(s) /\ tx'[s] = tx[s]
             /\ HasNew(s)' => HasNew(s) /\ tx'[s] = tx[s]
  <2>1. CASE pc'[s] \in {"idle", "toggle"}
    BY <2>1, Outside
  <2>2. CASE Untouched(s)
    BY <2>2 DEF Untouched, Still, HasVoucher, HasNew
  <2> QED  BY <2>1, <2>2
<1>4. ASSUME NEW s \in Threads, NEW x \in Threads, s # x  PROVE Apart(s, x)'
  BY <1>3, <1>4, LedgerFacts DEF Apart
<1> QED  BY <1>2, <1>4 DEF LedgerInv, ThreadsOK

\* Steps that leave the quotas, or take a package away by hand.
LEMMA QuotasLeft ==
  ASSUME SuspInv, LedgerInv, UNCHANGED <<users, ids, redemptions, spent, serial>>,
         vouchers' \in [VoucherCodes -> Voucher],
         entitled' \in [Users -> Redemptions \cup {NoRedemption}],
         tx' \in [Threads -> TxType],
         \A c \in VoucherCodes : /\ vouchers'[c].id = vouchers[c].id
                                 /\ vouchers'[c].used = vouchers[c].used
                                 /\ vouchers'[c].max = vouchers[c].max,
         \A u \in Users : entitled'[u] \in {entitled[u], NoRedemption},
         \A s \in Threads : pc'[s] \in {"idle", "toggle"} \/ Still(s)
  PROVE  LedgerInv'
<1>1. LedgerTypeOK'
  BY LedgerFacts DEF LedgerTypeOK
<1>2. UserIds' /\ Owned' /\ UsedIsSpent' /\ WithinQuota' /\ RedemptionsCounted' /\ PackageBacked'
  <2>1. UserIds' /\ Owned'
    BY LedgerFacts DEF UserIds, Owned
  <2>2. UsedIsSpent' /\ WithinQuota'
    BY LedgerFacts DEF UsedIsSpent, WithinQuota
  <2>3. RedemptionsCounted'
    BY LedgerFacts DEF RedemptionsCounted
  <2>4. PackageBacked'
    BY LedgerFacts DEF PackageBacked
  <2> QED  BY <2>1, <2>2, <2>3, <2>4
<1>3. Serials'
  <2>1. \A u \in Users : entitled'[u] <= serial
    BY LedgerFacts DEF Serials, NoRedemption, LedgerTypeOK
  <2> QED  BY <2>1, LedgerFacts DEF Serials
<1>4. serial' >= serial
  BY LedgerFacts DEF LedgerTypeOK
<1>5. ASSUME NEW s \in Threads, Still(s)  PROVE Untouched(s)
  <2>1. HasVoucher(s) => tx[s].code \in VoucherCodes
    BY LedgerFacts DEF HasVoucher, NamedOK, InTx, TxStages
  <2>2. HasNew(s) => /\ redemptions'[tx[s].red] = NoneRedeemed
                     /\ \A u \in Users : entitled'[u] # tx[s].red
    <3>1. HasNew(s) => tx[s].red \in 1..serial
      BY LedgerFacts DEF NewOK
    <3> QED  BY <3>1, LedgerFacts DEF NewOK, NoRedemption, LedgerTypeOK
  <2> QED  BY <1>5, <2>1, <2>2 DEF Untouched
<1> QED  BY <1>1, <1>2, <1>3, <1>4, <1>5, TableStep DEF TablesOK, VoucherLedger

LEMMA ByHandKeeps ==
  ASSUME SuspInv, LedgerInv,
         SavePackages \/ EditUser \/ DeactivatePackage \/ VoucherExpires \/ UNCHANGED vars
  PROVE  LedgerInv'
<1>1. UNCHANGED <<users, ids, redemptions, spent, serial, tx, pc, req>>
  BY DEF SavePackages, EditUser, DeactivatePackage, PackageByHand, VoucherExpires, vars, accountVars,
     voucherTables, tables, handlers
<1>2. /\ vouchers' \in [VoucherCodes -> Voucher]
      /\ \A c \in VoucherCodes : /\ vouchers'[c].id = vouchers[c].id
                                 /\ vouchers'[c].used = vouchers[c].used
                                 /\ vouchers'[c].max = vouchers[c].max
  <2>1. CASE VoucherExpires
    <3>1. PICK c \in VoucherCodes : vouchers' = [vouchers EXCEPT ![c].expired = TRUE]
      BY <2>1 DEF VoucherExpires
    <3>2. vouchers' = [vouchers EXCEPT ![c] = [vouchers[c] EXCEPT !.expired = TRUE]]
      BY <3>1
    <3>3. ASSUME NEW v \in Voucher
          PROVE  /\ [v EXCEPT !.expired = TRUE] \in Voucher /\ [v EXCEPT !.expired = TRUE].id = v.id
                 /\ [v EXCEPT !.expired = TRUE].used = v.used /\ [v EXCEPT !.expired = TRUE].max = v.max
      BY DEF Voucher
    <3>4. PICK w \in Voucher : /\ w = [vouchers[c] EXCEPT !.expired = TRUE]
                               /\ w.id = vouchers[c].id /\ w.used = vouchers[c].used
                               /\ w.max = vouchers[c].max
      BY <3>3, LedgerFacts
    <3>5. vouchers' = [vouchers EXCEPT ![c] = w]
      BY <3>2, <3>4
    <3> QED  BY <3>4, <3>5, LedgerFacts DEF LedgerTypeOK
  <2>2. CASE ~VoucherExpires
    <3>1. vouchers' = vouchers
      BY <2>2 DEF SavePackages, EditUser, DeactivatePackage, PackageByHand, vars, voucherTables
    <3> QED  BY <3>1, LedgerFacts DEF LedgerTypeOK
  <2> QED  BY <2>1, <2>2
<1>3. /\ entitled' \in [Users -> Redemptions \cup {NoRedemption}]
      /\ \A u \in Users : entitled'[u] \in {entitled[u], NoRedemption}
  <2>1. entitled' = entitled \/ \E u \in Users : entitled' = [entitled EXCEPT ![u] = NoRedemption]
    BY DEF SavePackages, EditUser, DeactivatePackage, PackageByHand, VoucherExpires, vars, voucherTables
  <2> QED  BY <2>1, LedgerFacts DEF LedgerTypeOK
<1>4. \A s \in Threads : Still(s)
  BY <1>1 DEF Still
<1>5. tx' \in [Threads -> TxType]
  BY <1>1, LedgerFacts DEF LedgerTypeOK
<1> QED  BY <1>1, <1>2, <1>3, <1>4, <1>5, QuotasLeft

LEMMA ToggleKeeps ==
  ASSUME SuspInv, LedgerInv, NEW t \in Threads, SetToggle(t)
  PROVE  LedgerInv'
<1> DEFINE c == tx[t].code
           b == ~tx[t].voucher.is_active
<1>1. /\ UNCHANGED <<users, ids, redemptions, entitled, spent, serial>>
      /\ Goto(t, "idle") /\ tx' = [tx EXCEPT ![t] = NoTx]
      /\ \/ vouchers' = vouchers
         \/ vouchers' = [vouchers EXCEPT ![c].is_active = b]
  BY DEF SetToggle, tables
<1>2. b \in BOOLEAN
  BY LedgerFacts DEF TxType, Voucher
<1>3. /\ pc'[t] = "idle" /\ tx' \in [Threads -> TxType]
      /\ \A x \in Threads \ {t} : Still(x)
  <2>1. /\ pc'[t] = "idle"
        /\ \A x \in Threads \ {t} : pc'[x] = pc[x] /\ req'[x] = req[x]
    BY <1>1, GotoFacts
  <2>2. tx' \in [Threads -> TxType] /\ \A x \in Threads \ {t} : tx'[x] = tx[x]
    BY <1>1, NoTxType, TxSet
  <2> QED  BY <2>1, <2>2 DEF Still
<1> HIDE DEF b
<1>4. /\ vouchers' \in [VoucherCodes -> Voucher]
      /\ \A x \in VoucherCodes : /\ vouchers'[x].id = vouchers[x].id
                                 /\ vouchers'[x].used = vouchers[x].used
                                 /\ vouchers'[x].max = vouchers[x].max
  <2>1. CASE vouchers' = vouchers
    BY <2>1, LedgerFacts DEF LedgerTypeOK
  <2>2. CASE c \in VoucherCodes /\ vouchers' = [vouchers EXCEPT ![c].is_active = b]
    <3>1. vouchers' = [vouchers EXCEPT ![c] = [vouchers[c] EXCEPT !.is_active = b]]
      BY <2>2
    <3>2. ASSUME NEW v \in Voucher
          PROVE  /\ [v EXCEPT !.is_active = b] \in Voucher /\ [v EXCEPT !.is_active = b].id = v.id
                 /\ [v EXCEPT !.is_active = b].used = v.used /\ [v EXCEPT !.is_active = b].max = v.max
      BY <1>2 DEF Voucher
    <3>3. PICK w \in Voucher : /\ w = [vouchers[c] EXCEPT !.is_active = b]
                               /\ w.id = vouchers[c].id /\ w.used = vouchers[c].used
                               /\ w.max = vouchers[c].max
      BY <2>2, <3>2, LedgerFacts
    <3>4. vouchers' = [vouchers EXCEPT ![c] = w]
      BY <3>1, <3>3
    <3> QED  BY <3>3, <3>4, LedgerFacts DEF LedgerTypeOK
  <2>3. CASE c \notin VoucherCodes /\ vouchers' = [vouchers EXCEPT ![c].is_active = b]
    <3>1. vouchers' = vouchers
      BY <2>3, LedgerFacts DEF LedgerTypeOK
    <3> QED  BY <2>1, <3>1
  <2> QED  BY <1>1, <2>1, <2>2, <2>3
<1>5. /\ entitled' \in [Users -> Redemptions \cup {NoRedemption}]
      /\ \A u \in Users : entitled'[u] \in {entitled[u], NoRedemption}
  BY <1>1, LedgerFacts DEF LedgerTypeOK
<1> QED  BY <1>1, <1>3, <1>4, <1>5, QuotasLeft

\* New vouchers take ids that were never given out.
LEMMA NewVouchers ==
  ASSUME SuspInv, LedgerInv, UNCHANGED <<users, ids, redemptions, entitled, spent, tx, pc, req>>,
         serial' \in 0..MaxSerial, serial' >= serial, vouchers' \in [VoucherCodes -> Voucher],
         \A c \in VoucherCodes :
           \/ vouchers'[c] = vouchers[c]
           \/ /\ vouchers[c].id = 0 /\ vouchers'[c].id \in serial+1..serial'
              /\ vouchers'[c].used = 0
              /\ \A b \in VoucherCodes : vouchers'[b].id = vouchers'[c].id => b = c
  PROVE  LedgerInv'
<1>1. LedgerTypeOK'
  BY LedgerFacts DEF LedgerTypeOK
<1>2. UserIds' /\ Owned' /\ PackageBacked'
  BY LedgerFacts DEF UserIds, Owned, PackageBacked
<1>3. serial \in Nat /\ serial' \in Nat /\ \A c \in VoucherCodes : vouchers'[c] \in Voucher
  BY LedgerFacts DEF LedgerTypeOK
<1>4. \A c \in VoucherCodes : vouchers[c].id <= serial /\ vouchers[c].id \in Nat
  BY LedgerFacts DEF Serials, Voucher
<1>5. Serials'
  <2>1. \A c \in VoucherCodes : vouchers'[c].id <= serial'
    BY <1>3, <1>4
  <2>2. \A b, c \in VoucherCodes : vouchers'[b].id = vouchers'[c].id /\ vouchers'[b].id # 0 => b = c
    BY LedgerFacts DEF Serials
  <2>3. \A r \in Redemptions : redemptions[r].voucher <= serial' /\ r \in Nat
    BY <1>3, LedgerFacts DEF Serials, Redemption, Redemptions
  <2>4. \A u \in Users : entitled[u] <= serial'
    BY <1>3, LedgerFacts DEF Serials, LedgerTypeOK, Redemptions, NoRedemption
  <2>5. \A r \in Redemptions : r > serial' => spent[r] = 0 /\ redemptions[r] = NoneRedeemed
    BY <1>3, <2>3, LedgerFacts DEF Serials
  <2> QED  BY <2>1, <2>2, <2>3, <2>4, <2>5 DEF Serials
<1>6. ASSUME NEW c \in VoucherCodes, vouchers'[c] # vouchers[c]
      PROVE  /\ vouchers'[c].used = 0 /\ spent[vouchers'[c].id] = 0
             /\ \A r \in Redemptions : redemptions[r].voucher # vouchers'[c].id
  <2>1. vouchers'[c].id \in serial+1..serial' /\ vouchers'[c].used = 0
    BY <1>6
  <2>2. vouchers'[c].id \in Redemptions /\ vouchers'[c].id > serial
    BY <1>3, <2>1, LedgerFacts DEF Redemptions
  <2>3. \A r \in Redemptions : redemptions[r].voucher <= serial /\ redemptions[r].voucher \in Nat
    BY LedgerFacts DEF Serials, Redemption
  <2> QED  BY <1>3, <2>1, <2>2, <2>3, LedgerFacts DEF Serials
<1>7. UsedIsSpent' /\ WithinQuota'
  <2>1. UsedIsSpent'
    BY <1>6, LedgerFacts DEF UsedIsSpent
  <2>2. WithinQuota'
    BY <1>3, <1>6, LedgerFacts DEF WithinQuota, Voucher
  <2> QED  BY <2>1, <2>2
<1>8. RedemptionsCounted'
  <2> SUFFICES ASSUME NEW c \in VoucherCodes, vouchers'[c].id # 0
               PROVE  Cardinality({r \in Redemptions : redemptions'[r].voucher = vouchers'[c].id})
                        <= vouchers'[c].used
    BY DEF RedemptionsCounted
  <2>1. CASE vouchers'[c] = vouchers[c]
    BY <2>1, LedgerFacts DEF RedemptionsCounted
  <2>2. CASE vouchers'[c] # vouchers[c]
    <3>1. {r \in Redemptions : redemptions'[r].voucher = vouchers'[c].id} = {}
      BY <1>6, <2>2
    <3>2. Cardinality({}) = 0
      BY FS_EmptySet
    <3>3. Cardinality({r \in Redemptions : redemptions'[r].voucher = vouchers'[c].id}) = 0
      BY ONLY <3>1, <3>2, Zenon
    <3>4. vouchers'[c].used = 0
      BY <1>6, <2>2
    <3> QED  BY ONLY <3>3, <3>4
  <2> QED  BY <2>1, <2>2
<1>9. ASSUME NEW s \in Threads  PROVE Untouched(s)
  <2>1. HasVoucher(s) => tx[s].code \in VoucherCodes /\ vouchers[tx[s].code].id # 0
    BY LedgerFacts DEF HasVoucher, NamedOK, InTx, TxStages, VoucherOK
  <2>2. HasNew(s) => /\ redemptions'[tx[s].red] = NoneRedeemed
                     /\ \A u \in Users : entitled'[u] # tx[s].red
    BY LedgerFacts DEF NewOK
  <2> QED  BY <2>1, <2>2 DEF Untouched, Still
<1> QED  BY <1>1, <1>2, <1>5, <1>7, <1>8, <1>9, TableStep DEF TablesOK, VoucherLedger

LEMMA CreateKeeps ==
  ASSUME SuspInv, LedgerInv, CreateVoucher \/ CreateBatch
  PROVE  LedgerInv'
<1>1. UNCHANGED <<users, ids, redemptions, entitled, spent, tx, pc, req>>
  BY DEF CreateVoucher, CreateBatch, tables, handlers
<1>2. serial \in Nat /\ MaxSerial \in Nat
  BY LedgerFacts DEF LedgerTypeOK
<1>3. CASE CreateVoucher
  <2>1. PICK c \in VoucherCodes, m \in MaxUsages, p \in Packages \cup {"custom"} :
          /\ vouchers[c].id = 0
          /\ vouchers' = [vouchers EXCEPT ![c] =
               [id |-> serial + 1, used |-> 0, max |-> m, package |-> p,
                is_active |-> TRUE, expires |-> TRUE, expired |-> FALSE]]
    BY <1>3 DEF CreateVoucher
  <2>2. serial' = serial + 1 /\ serial < MaxSerial
    BY <1>3 DEF CreateVoucher
  <2>3. PICK v \in Voucher : v.id = serial + 1 /\ v.used = 0 /\ vouchers' = [vouchers EXCEPT ![c] = v]
    <3>1. [id |-> serial + 1, used |-> 0, max |-> m, package |-> p,
           is_active |-> TRUE, expires |-> TRUE, expired |-> FALSE] \in Voucher
      BY <1>2, VouchersAssumption DEF Voucher
    <3> QED  BY <2>1, <3>1
  <2>4. /\ vouchers' \in [VoucherCodes -> Voucher] /\ vouchers'[c] = v
        /\ \A b \in VoucherCodes : b # c => vouchers'[b] = vouchers[b]
    BY <2>3, LedgerFacts DEF LedgerTypeOK
  <2>5. \A b \in VoucherCodes : vouchers[b].id <= serial /\ vouchers[b].id \in Nat
    BY LedgerFacts DEF Serials, Voucher
  <2>6. \A b \in VoucherCodes : vouchers'[b].id = vouchers'[c].id => b = c
    BY <1>2, <2>3, <2>4, <2>5
  <2>7. vouchers'[c].id \in serial+1..serial' /\ serial' \in 0..MaxSerial /\ serial' >= serial
    BY <1>2, <2>2, <2>3, <2>4
  <2> QED  BY <1>1, <2>1, <2>3, <2>4, <2>6, <2>7, NewVouchers
<1>4. CASE CreateBatch
  <2>1. PICK S \in SUBSET VoucherCodes, m \in MaxUsages, p \in Packages :
        \E i \in [S -> serial+1..serial+Cardinality(S)] :
          /\ \A c \in S : vouchers[c].id = 0
          /\ \A a, b \in S : i[a] = i[b] => a = b
          /\ serial' = serial + Cardinality(S) /\ serial' <= MaxSerial
          /\ vouchers' = [c \in VoucherCodes |->
               IF c \notin S THEN vouchers[c]
               ELSE [id |-> i[c], used |-> 0, max |-> m, package |-> p,
                     is_active |-> TRUE, expires |-> TRUE, expired |-> FALSE]]
    BY <1>4 DEF CreateBatch
  <2>2. PICK i \in [S -> serial+1..serial+Cardinality(S)] :
          /\ \A c \in S : vouchers[c].id = 0
          /\ \A a, b \in S : i[a] = i[b] => a = b
          /\ serial' = serial + Cardinality(S) /\ serial' <= MaxSerial
          /\ vouchers' = [c \in VoucherCodes |->
               IF c \notin S THEN vouchers[c]
               ELSE [id |-> i[c], used |-> 0, max |-> m, package |-> p,
                     is_active |-> TRUE, expires |-> TRUE, expired |-> FALSE]]
    BY <2>1
  <2>3. Cardinality(S) \in Nat
    BY VouchersAssumption, FS_Subset, FS_CardinalityType
  <2>4. serial' \in 0..MaxSerial /\ serial' >= serial
    BY <1>2, <2>2, <2>3
  <2>5. \A c \in S : i[c] \in serial+1..serial' /\ i[c] \in Nat /\ i[c] > serial
    BY <1>2, <2>2, <2>3
  <2>6. vouchers' \in [VoucherCodes -> Voucher]
    <3>1. ASSUME NEW c \in S
          PROVE  [id |-> i[c], used |-> 0, max |-> m, package |-> p,
                  is_active |-> TRUE, expires |-> TRUE, expired |-> FALSE] \in Voucher
      BY <2>5, VouchersAssumption DEF Voucher
    <3> QED  BY <2>2, <3>1, LedgerFacts DEF LedgerTypeOK
  <2>7. \A c \in VoucherCodes :
          /\ c \in S => vouchers'[c].id = i[c] /\ vouchers'[c].used = 0
          /\ c \notin S => vouchers'[c] = vouchers[c]
    BY <2>2
  <2>8. \A c \in VoucherCodes : vouchers[c].id <= serial /\ vouchers[c].id \in Nat
    BY LedgerFacts DEF Serials, Voucher
  <2>9. ASSUME NEW c \in S, NEW b \in VoucherCodes, vouchers'[b].id = vouchers'[c].id  PROVE b = c
    <3>1. b \in S
      BY <1>2, <2>5, <2>7, <2>8, <2>9
    <3> QED  BY <2>2, <2>7, <2>9, <3>1
  <2>10. \A c \in VoucherCodes :
           \/ vouchers'[c] = vouchers[c]
           \/ /\ vouchers[c].id = 0 /\ vouchers'[c].id \in serial+1..serial'
              /\ vouchers'[c].used = 0
              /\ \A b \in VoucherCodes : vouchers'[b].id = vouchers'[c].id => b = c
    BY <2>2, <2>5, <2>7, <2>9
  <2> QED  BY <1>1, <2>4, <2>6, <2>10, NewVouchers
<1> QED  BY <1>3, <1>4

LEMMA DeleteKeeps ==
  ASSUME SuspInv, LedgerInv, DeleteVoucher
  PROVE  LedgerInv'
<1>1. UNCHANGED <<users, ids, entitled, spent, serial, tx, pc, req>>
  BY DEF DeleteVoucher, tables, handlers
<1>2. \E c \in VoucherCodes, gone \in SUBSET Redemptions :
        /\ gone = {r \in Redemptions : redemptions[r].voucher = vouchers[c].id}
        /\ VoucherFree(c) /\ \A r \in gone : RedemptionFree(r)
        /\ vouchers' = [vouchers EXCEPT ![c] = NoVoucher]
        /\ redemptions' = [r \in Redemptions |-> IF r \in gone THEN NoneRedeemed ELSE redemptions[r]]
  BY DEF DeleteVoucher
<1>3. PICK c \in VoucherCodes, gone \in SUBSET Redemptions :
        /\ VoucherFree(c) /\ \A r \in gone : RedemptionFree(r)
        /\ vouchers' = [vouchers EXCEPT ![c] = NoVoucher]
        /\ redemptions' = [r \in Redemptions |-> IF r \in gone THEN NoneRedeemed ELSE redemptions[r]]
  BY <1>2
<1>4. /\ vouchers' \in [VoucherCodes -> Voucher] /\ vouchers'[c] = NoVoucher
      /\ \A b \in VoucherCodes \ {c} : vouchers'[b] = vouchers[b]
  BY <1>3, NoTxType, LedgerFacts DEF LedgerTypeOK
<1>5. NoVoucher.id = 0 /\ NoVoucher.used = 0 /\ NoVoucher.max = 0
      /\ NoneRedeemed \in Redemption /\ NoneRedeemed.voucher = 0
  BY DEF NoVoucher, NoneRedeemed, Redemption
<1>6. /\ redemptions' \in [Redemptions -> Redemption]
      /\ \A r \in Redemptions : /\ redemptions'[r] = redemptions[r] \/ redemptions'[r] = NoneRedeemed
                                /\ r \notin gone => redemptions'[r] = redemptions[r]
  BY <1>3, <1>5, LedgerFacts DEF LedgerTypeOK
<1>7. LedgerTypeOK'
  BY <1>1, <1>4, <1>6, LedgerFacts DEF LedgerTypeOK
<1>8. UserIds' /\ Owned'
  <2>1. UserIds'
    BY <1>1, LedgerFacts DEF UserIds
  <2>2. Owned'
    BY <1>1, <1>6, LedgerFacts DEF Owned
  <2> QED  BY <2>1, <2>2
<1>9. Serials'
  <2>1. serial \in Nat
    BY LedgerFacts DEF LedgerTypeOK
  <2> QED  BY <1>1, <1>4, <1>5, <1>6, <2>1, LedgerFacts DEF Serials
<1>10. UsedIsSpent' /\ WithinQuota'
  <2>1. UsedIsSpent'
    BY <1>1, <1>4, <1>5, LedgerFacts DEF UsedIsSpent
  <2>2. WithinQuota'
    BY <1>4, <1>5, LedgerFacts DEF WithinQuota
  <2> QED  BY <2>1, <2>2
<1>11. RedemptionsCounted'
  <2> SUFFICES ASSUME NEW b \in VoucherCodes, vouchers'[b].id # 0
               PROVE  Cardinality({r \in Redemptions : redemptions'[r].voucher = vouchers'[b].id})
                        <= vouchers'[b].used
    BY DEF RedemptionsCounted
  <2>1. vouchers'[b] = vouchers[b]
    BY <1>4, <1>5
  <2>2. PICK i : i = vouchers[b].id
    OBVIOUS
  <2>3. Cardinality(RedeemedOf(i)) <= vouchers[b].used /\ i # 0
    BY <2>1, <2>2, LedgerFacts DEF RedemptionsCounted, RedeemedOf
  <2>4. {r \in Redemptions : redemptions'[r].voucher = i} \in SUBSET RedeemedOf(i)
    BY <1>5, <1>6, <2>3 DEF RedeemedOf
  <2>5. RedeemedOf(i) \in SUBSET Redemptions /\ vouchers[b].used \in Nat
    BY LedgerFacts DEF RedeemedOf, Voucher
  <2>6. Cardinality({r \in Redemptions : redemptions'[r].voucher = i}) <= Cardinality(RedeemedOf(i))
    BY <2>4, <2>5, FewerRedeemed
  <2>7. Cardinality({r \in Redemptions : redemptions'[r].voucher = i}) \in Nat
        /\ Cardinality(RedeemedOf(i)) \in Nat
    BY <2>4, <2>5, RedeemedFinite
  <2>8. vouchers'[b].id = i /\ vouchers'[b].used = vouchers[b].used
    BY <2>1, <2>2
  <2> QED  BY <2>3, <2>5, <2>6, <2>7, <2>8
<1>12. PackageBacked'
  <2> SUFFICES ASSUME NEW u \in Users, entitled'[u] # NoRedemption
               PROVE  redemptions'[entitled'[u]] \in
                 {NoneRedeemed} \cup [voucher : Nat, user : {users'[u].id}, is_active : {TRUE}]
    BY DEF PackageBacked
  <2>1. entitled[u] \in Redemptions /\ entitled'[u] = entitled[u] /\ users' = users
    BY <1>1, LedgerFacts DEF LedgerTypeOK
  <2>2. redemptions'[entitled[u]] = redemptions[entitled[u]] \/ redemptions'[entitled[u]] = NoneRedeemed
    BY <1>6, <2>1
  <2> QED  BY <2>1, <2>2, LedgerFacts DEF PackageBacked
<1>13. ASSUME NEW s \in Threads  PROVE Untouched(s)
  <2>1. Still(s)
    BY <1>1 DEF Still
  <2>2. HasVoucher(s) => tx[s].code \in VoucherCodes \ {c}
    BY <1>3, LedgerFacts DEF HasVoucher, NamedOK, InTx, TxStages, VoucherFree, HoldsVoucher
  <2>3. HasNew(s) => redemptions'[tx[s].red] = NoneRedeemed /\ \A u \in Users : entitled'[u] # tx[s].red
    <3>1. HasNew(s) => tx[s].red \in 1..serial /\ redemptions[tx[s].red] = NoneRedeemed
                       /\ \A u \in Users : entitled[u] # tx[s].red
      BY LedgerFacts DEF NewOK
    <3>2. HasNew(s) => tx[s].red \in Redemptions
      BY <3>1, LedgerFacts DEF LedgerTypeOK, Redemptions
    <3> QED  BY <1>1, <1>6, <3>1, <3>2
  <2>4. HasRows(s) => \A r \in tx[s].rows : redemptions'[r].user = redemptions[r].user
    <3>1. ASSUME HasRows(s), NEW r \in tx[s].rows  PROVE r \in Redemptions \ gone
      BY <1>3, <3>1, LedgerFacts DEF HasRows, RedemptionFree, HoldsRedemption, TxType
    <3> QED  BY <1>6, <3>1
  <2> QED  BY <1>4, <2>1, <2>2, <2>3, <2>4 DEF Untouched
<1>14. serial' >= serial
  BY <1>1, LedgerFacts DEF LedgerTypeOK
<1> QED  BY <1>1, <1>7, <1>8, <1>9, <1>10, <1>11, <1>12, <1>13, <1>14, TableStep DEF TablesOK, VoucherLedger

\* The thread t ends; the others go on.
LEMMA CommitEnds ==
  ASSUME SuspInv, LedgerInv, NEW t \in Threads, Goto(t, "idle"), tx' = [tx EXCEPT ![t] = NoTx]
  PROVE  pc'[t] = "idle" /\ tx' \in [Threads -> TxType] /\ \A x \in Threads \ {t} : Still(x)
<1>1. pc'[t] = "idle" /\ \A x \in Threads \ {t} : pc'[x] = pc[x] /\ req'[x] = req[x]
  BY GotoFacts
<1>2. tx' \in [Threads -> TxType] /\ \A x \in Threads \ {t} : tx'[x] = tx[x]
  BY NoTxType, TxSet
<1> QED  BY <1>1, <1>2 DEF Still

LEMMA CommitRedeemKeeps ==
  ASSUME SuspInv, LedgerInv, NEW t \in Threads, CommitRedeem(t)
  PROVE  LedgerInv'
<1>1. HasVoucher(t) /\ HasNew(t) /\ InTx(t) /\ pc[t] = "commit"
  BY DEF CommitRedeem, HasVoucher, HasNew, InTx, TxStages
<1>2. PICK c \in VoucherCodes, u \in Users, d \in Redemptions, i \in Redemptions :
        c = tx[t].code /\ u = req[t].user /\ d = tx[t].red /\ i = vouchers[c].id
  <2>1. tx[t].code \in VoucherCodes
    BY <1>1, LedgerFacts DEF NamedOK, HasVoucher
  <2>2. req[t].user \in Users
    BY <1>1 DEF SuspInv, Serving
  <2>3. tx[t].red \in Redemptions
    BY <1>1, LedgerFacts DEF NewOK, LedgerTypeOK, Redemptions
  <2>4. vouchers[tx[t].code].id # 0
    BY <1>1, LedgerFacts DEF VoucherOK
  <2>5. vouchers[tx[t].code].id \in Nat /\ vouchers[tx[t].code].id <= serial /\ serial \in 0..MaxSerial
    BY <2>1, LedgerFacts DEF Voucher, Serials, LedgerTypeOK
  <2>6. vouchers[tx[t].code].id \in Redemptions
    BY <2>4, <2>5, LedgerFacts DEF Redemptions
  <2> QED  BY <2>1, <2>2, <2>3, <2>6
<1>3. /\ vouchers[c].used < vouchers[c].max /\ users[u].id = Uid(t) /\ Uid(t) \in Nat \ {0}
      /\ redemptions[d] = NoneRedeemed /\ \A w \in Users : entitled[w] # d
      /\ d <= serial /\ i <= serial /\ serial \in Nat /\ i # 0
  <2>1. vouchers[c].used < vouchers[c].max
    BY <1>1, <1>2, LedgerFacts DEF VoucherOK
  <2>2. users[u].id = Uid(t) /\ redemptions[d] = NoneRedeemed /\ \A w \in Users : entitled[w] # d
    BY <1>1, <1>2, LedgerFacts DEF NewOK
  <2>3. Uid(t) \in Nat \ {0}
    BY <1>1, LedgerFacts DEF NamedOK
  <2>4. d <= serial /\ i <= serial /\ serial \in Nat /\ i # 0
    BY <1>1, <1>2, LedgerFacts DEF NewOK, Serials, LedgerTypeOK, Redemptions
  <2> QED  BY <2>1, <2>2, <2>3, <2>4
<1> DEFINE n == [voucher |-> i, user |-> Uid(t), is_active |-> TRUE]
<1>4. /\ vouchers' = [vouchers EXCEPT ![c].used = @ + 1]
      /\ redemptions' = [redemptions EXCEPT ![d] = n]
      /\ entitled' = [entitled EXCEPT ![u] = d]
      /\ spent' = [spent EXCEPT ![i] = @ + 1]
      /\ UNCHANGED <<users, ids, serial>>
      /\ Goto(t, "idle") /\ tx' = [tx EXCEPT ![t] = NoTx]
  BY <1>2 DEF CommitRedeem, tables
<1>5. n \in Redemption /\ n.voucher = i /\ n.user = Uid(t) /\ n.user # 0
  BY <1>3 DEF Redemption, Redemptions
<1>6. /\ redemptions' \in [Redemptions -> Redemption] /\ redemptions'[d] = n
      /\ \A r \in Redemptions \ {d} : redemptions'[r] = redemptions[r]
  <2> HIDE DEF n
  <2> QED  BY <1>4, <1>5, LedgerFacts DEF LedgerTypeOK
<1>7. /\ vouchers' \in [VoucherCodes -> Voucher]
      /\ vouchers'[c].id = i /\ vouchers'[c].used = vouchers[c].used + 1
      /\ vouchers'[c].max = vouchers[c].max
      /\ \A b \in VoucherCodes \ {c} : vouchers'[b] = vouchers[b]
  <2>1. ASSUME NEW v \in Voucher
        PROVE  /\ [v EXCEPT !.used = v.used + 1] \in Voucher
               /\ [v EXCEPT !.used = v.used + 1].id = v.id
               /\ [v EXCEPT !.used = v.used + 1].used = v.used + 1
               /\ [v EXCEPT !.used = v.used + 1].max = v.max
    BY DEF Voucher
  <2>2. vouchers' = [vouchers EXCEPT ![c] = [vouchers[c] EXCEPT !.used = vouchers[c].used + 1]]
    BY <1>4
  <2>3. PICK w \in Voucher :
          /\ vouchers' = [vouchers EXCEPT ![c] = w]
          /\ w.id = vouchers[c].id /\ w.used = vouchers[c].used + 1 /\ w.max = vouchers[c].max
    BY <2>1, <2>2, LedgerFacts
  <2> QED  BY <1>2, <2>3, LedgerFacts DEF LedgerTypeOK
<1>8. /\ entitled' \in [Users -> Redemptions \cup {NoRedemption}] /\ entitled'[u] = d
      /\ \A w \in Users \ {u} : entitled'[w] = entitled[w]
  BY <1>4, LedgerFacts DEF LedgerTypeOK
<1>9. /\ spent' \in [Redemptions -> Nat] /\ spent'[i] = spent[i] + 1
      /\ \A r \in Redemptions \ {i} : spent'[r] = spent[r]
  BY <1>4, LedgerFacts DEF LedgerTypeOK
<1>10. pc'[t] = "idle" /\ tx' \in [Threads -> TxType] /\ \A x \in Threads \ {t} : Still(x)
  BY <1>4, CommitEnds
<1> HIDE DEF n
<1>11. LedgerTypeOK'
  BY <1>4, <1>6, <1>7, <1>8, <1>9, <1>10, LedgerFacts DEF LedgerTypeOK
<1>12. UserIds' /\ Owned'
  <2>1. UserIds'
    BY <1>4, LedgerFacts DEF UserIds
  <2>2. Owned'
    BY <1>3, <1>4, <1>5, <1>6, LedgerFacts DEF Owned
  <2> QED  BY <2>1, <2>2
<1>13. Serials'
  <2>1. \A b \in VoucherCodes : vouchers'[b].id = vouchers[b].id
    BY <1>2, <1>7
  <2>2. \A r \in Redemptions : redemptions'[r].voucher <= serial
    BY <1>3, <1>5, <1>6, LedgerFacts DEF Serials
  <2>3. \A w \in Users : entitled'[w] <= serial
    BY <1>3, <1>8, LedgerFacts DEF Serials
  <2>4. \A r \in Redemptions : r > serial => spent'[r] = 0 /\ redemptions'[r] = NoneRedeemed
    <3>1. \A r \in Redemptions : r > serial => r # d /\ r # i
      BY <1>3 DEF Redemptions
    <3> QED  BY <1>6, <1>9, <3>1, LedgerFacts DEF Serials
  <2> QED  BY <1>4, <2>1, <2>2, <2>3, <2>4, LedgerFacts DEF Serials
<1>14. \A b \in VoucherCodes \ {c} : vouchers[b].id # 0 => vouchers[b].id # i
  BY <1>2, <1>3, LedgerFacts DEF Serials
<1>15. UsedIsSpent' /\ WithinQuota'
  <2>1. ASSUME NEW b \in VoucherCodes, vouchers'[b].id # 0
        PROVE  vouchers'[b].used = spent'[vouchers'[b].id]
    <3>1. CASE b = c
      BY <1>2, <1>3, <1>7, <1>9, <3>1, LedgerFacts DEF UsedIsSpent
    <3>2. CASE b # c
      <4>1. vouchers'[b] = vouchers[b] /\ vouchers[b].id # i /\ vouchers[b].id # 0
        BY <1>7, <1>14, <2>1, <3>2
      <4>2. vouchers[b].id \in Nat /\ vouchers[b].id <= serial /\ serial \in 0..MaxSerial
        BY LedgerFacts DEF Voucher, Serials, LedgerTypeOK
      <4>3. vouchers[b].id \in Redemptions \ {i}
        BY <4>1, <4>2, LedgerFacts DEF Redemptions
      <4> QED  BY <1>9, <4>1, <4>3, LedgerFacts DEF UsedIsSpent
    <3> QED  BY <3>1, <3>2
  <2>2. WithinQuota'
    <3>1. vouchers[c].used \in Nat /\ vouchers[c].max \in Nat
      BY LedgerFacts DEF Voucher
    <3> QED  BY <1>3, <1>7, <3>1, LedgerFacts DEF WithinQuota
  <2> QED  BY <2>1, <2>2 DEF UsedIsSpent
<1>16. RedemptionsCounted'
  <2> SUFFICES ASSUME NEW b \in VoucherCodes, vouchers'[b].id # 0
               PROVE  Cardinality({r \in Redemptions : redemptions'[r].voucher = vouchers'[b].id})
                        <= vouchers'[b].used
    BY DEF RedemptionsCounted
  <2>1. PICK j : j = vouchers[b].id
    OBVIOUS
  <2>2. vouchers'[b].id = j /\ j # 0
    BY <1>2, <1>7, <2>1
  <2>3. Cardinality(RedeemedOf(j)) <= vouchers[b].used
    BY <2>1, <2>2, LedgerFacts DEF RedemptionsCounted, RedeemedOf
  <2>4. RedeemedOf(j) \in SUBSET Redemptions /\ vouchers[b].used \in Nat
    BY LedgerFacts DEF RedeemedOf, Voucher
  <2>5. IsFiniteSet(RedeemedOf(j)) /\ Cardinality(RedeemedOf(j)) \in Nat
    BY <2>4, RedeemedFinite
  <2>6. NoneRedeemed.voucher = 0
    BY DEF NoneRedeemed
  <2>7. CASE b = c
    <3>1. j = i
      BY <1>2, <2>1, <2>7
    <3>2. {r \in Redemptions : redemptions'[r].voucher = j} = RedeemedOf(j) \cup {d}
      BY <1>5, <1>6, <3>1 DEF RedeemedOf
    <3>3. d \notin RedeemedOf(j)
      BY <1>3, <2>2, <2>6 DEF RedeemedOf
    <3>4. Cardinality(RedeemedOf(j) \cup {d}) = Cardinality(RedeemedOf(j)) + 1
      BY <2>5, <3>3, FS_AddElement
    <3>5. Cardinality({r \in Redemptions : redemptions'[r].voucher = j}) = Cardinality(RedeemedOf(j)) + 1
      BY ONLY <3>2, <3>4, Zenon
    <3>6. vouchers'[b].used = vouchers[b].used + 1
      BY <1>7, <2>7
    <3> QED  BY <2>2, <2>3, <2>4, <2>5, <3>5, <3>6
  <2>8. CASE b # c
    <3>1. vouchers'[b].used = vouchers[b].used /\ j # i
      BY <1>7, <1>14, <2>1, <2>2, <2>8
    <3>2. {r \in Redemptions : redemptions'[r].voucher = j} = RedeemedOf(j)
      BY <1>3, <1>5, <1>6, <2>2, <2>6, <3>1 DEF RedeemedOf
    <3>3. Cardinality({r \in Redemptions : redemptions'[r].voucher = j}) = Cardinality(RedeemedOf(j))
      BY ONLY <3>2, Zenon
    <3> QED  BY <2>2, <2>3, <3>1, <3>3
  <2> QED  BY <2>7, <2>8
<1>17. PackageBacked'
  <2> SUFFICES ASSUME NEW w \in Users, entitled'[w] # NoRedemption
               PROVE  redemptions'[entitled'[w]] \in
                 {NoneRedeemed} \cup [voucher : Nat, user : {users'[w].id}, is_active : {TRUE}]
    BY DEF PackageBacked
  <2>1. CASE w = u
    <3>1. redemptions'[entitled'[w]] = n /\ users'[w].id = Uid(t)
      BY <1>3, <1>4, <1>6, <1>8, <2>1
    <3>2. n \in [voucher : Nat, user : {Uid(t)}, is_active : {TRUE}]
      BY DEF n, Redemptions
    <3> QED  BY <3>1, <3>2
  <2>2. CASE w # u
    <3>1. entitled'[w] = entitled[w] /\ entitled[w] \in Redemptions \ {d}
      BY <1>3, <1>8, <2>2, LedgerFacts DEF LedgerTypeOK
    <3>2. redemptions'[entitled'[w]] = redemptions[entitled[w]] /\ users'[w].id = users[w].id
      BY <1>4, <1>6, <3>1
    <3> QED  BY <3>1, <3>2, LedgerFacts DEF PackageBacked
  <2> QED  BY <2>1, <2>2
<1>18. ASSUME NEW s \in Threads, s # t  PROVE Untouched(s)
  <2>1. Still(s)
    BY <1>10, <1>18
  <2>2. HasVoucher(s) => tx[s].code \in VoucherCodes \ {c}
    <3>1. HasVoucher(s) => tx[s].code \in VoucherCodes
      BY LedgerFacts DEF HasVoucher, NamedOK, InTx, TxStages
    <3>2. HasVoucher(s) => tx[s].code # c
      BY <1>1, <1>2, <1>18, LedgerFacts DEF Apart
    <3> QED  BY <3>1, <3>2
  <2>3. HasNew(s) => redemptions'[tx[s].red] = NoneRedeemed /\ \A w \in Users : entitled'[w] # tx[s].red
    <3> SUFFICES ASSUME HasNew(s)
                 PROVE  redemptions'[tx[s].red] = NoneRedeemed /\ \A w \in Users : entitled'[w] # tx[s].red
      OBVIOUS
    <3>1. /\ tx[s].red \in 1..serial /\ redemptions[tx[s].red] = NoneRedeemed
          /\ \A w \in Users : entitled[w] # tx[s].red
      BY LedgerFacts DEF NewOK
    <3>2. tx[s].red \in Redemptions
      BY <3>1, LedgerFacts DEF LedgerTypeOK, Redemptions
    <3>3. tx[s].red # d
      BY <1>1, <1>2, <1>18, LedgerFacts DEF Apart
    <3> QED  BY <1>6, <1>8, <3>1, <3>2, <3>3
  <2>4. ASSUME HasRows(s), NEW r \in tx[s].rows  PROVE redemptions'[r].user = redemptions[r].user
    <3>1. r \in Redemptions /\ redemptions[r].user = Uid(s) /\ Uid(s) # 0
      BY <2>4, LedgerFacts DEF HasRows, RowsOK, NamedOK, InTx, TxStages, TxType
    <3>2. r # d
      BY <1>3, <3>1 DEF NoneRedeemed
    <3> QED  BY <1>6, <3>1, <3>2
  <2> QED  BY <1>7, <2>1, <2>2, <2>3, <2>4 DEF Untouched
<1>19. serial' >= serial
  BY <1>3, <1>4
<1>20. TablesOK'
  BY <1>12, <1>13, <1>15, <1>16, <1>17 DEF TablesOK, VoucherLedger
<1> QED  BY <1>4, <1>10, <1>11, <1>18, <1>19, <1>20, TableStep

LEMMA CommitActivateKeeps ==
  ASSUME SuspInv, LedgerInv, NEW t \in Threads, CommitActivate(t)
  PROVE  LedgerInv'
<1>1. HasRows(t) /\ InTx(t) /\ req[t].op = "activate" /\ pc[t] = "commit"
  BY DEF CommitActivate, HasRows, InTx, TxStages
<1>2. PICK u \in Users, d \in Redemptions, S \in SUBSET Redemptions :
        u = req[t].user /\ d = tx[t].red /\ S = tx[t].rows
  <2>1. req[t].user \in Users
    BY <1>1 DEF SuspInv, Serving
  <2>2. tx[t].red \in Redemptions
    BY <1>1, LedgerFacts DEF NamedOK
  <2>3. tx[t].rows \in SUBSET Redemptions
    BY LedgerFacts DEF TxType
  <2> QED  BY <2>1, <2>2, <2>3
<1>3. d \in S /\ (\A r \in S : redemptions[r].user = Uid(t)) /\ Uid(t) \in Nat \ {0}
      /\ \A w \in Users : users[w].id = Uid(t) => w = u
  BY <1>1, <1>2, LedgerFacts DEF RowsOK, NamedOK
<1>4. /\ redemptions' = [r \in Redemptions |->
           IF r \in S THEN [redemptions[r] EXCEPT !.is_active = (r = d)] ELSE redemptions[r]]
      /\ entitled' = [entitled EXCEPT ![u] = d]
      /\ UNCHANGED <<users, ids, vouchers, serial, spent>>
      /\ Goto(t, "idle") /\ tx' = [tx EXCEPT ![t] = NoTx]
  BY <1>2 DEF CommitActivate, tables
<1>5. ASSUME NEW q \in Redemption, NEW b \in BOOLEAN
      PROVE  /\ [q EXCEPT !.is_active = b] \in Redemption
             /\ [q EXCEPT !.is_active = b].voucher = q.voucher
             /\ [q EXCEPT !.is_active = b].user = q.user
             /\ [q EXCEPT !.is_active = b].is_active = b
  BY DEF Redemption
<1>6. ASSUME NEW r \in Redemptions
      PROVE  /\ redemptions'[r] \in Redemption
             /\ redemptions'[r].voucher = redemptions[r].voucher
             /\ redemptions'[r].user = redemptions[r].user
             /\ r \notin S => redemptions'[r] = redemptions[r]
             /\ r = d => redemptions'[r].is_active = TRUE
  <2>1. redemptions[r] \in Redemption
    BY LedgerFacts
  <2>2. CASE r \in S
    <3>1. PICK b \in BOOLEAN : b = (r = d)
      OBVIOUS
    <3>2. redemptions'[r] = [redemptions[r] EXCEPT !.is_active = b]
      BY <1>4, <2>2, <3>1
    <3> QED  BY <1>5, <2>1, <2>2, <3>1, <3>2
  <2>3. CASE r \notin S
    BY <1>3, <1>4, <2>1, <2>3
  <2> QED  BY <2>2, <2>3
<1>7. redemptions' \in [Redemptions -> Redemption]
  BY <1>4, <1>6
<1>8. /\ entitled' \in [Users -> Redemptions \cup {NoRedemption}] /\ entitled'[u] = d
      /\ \A w \in Users \ {u} : entitled'[w] = entitled[w]
  BY <1>4, LedgerFacts DEF LedgerTypeOK
<1>9. pc'[t] = "idle" /\ tx' \in [Threads -> TxType] /\ \A x \in Threads \ {t} : Still(x)
  BY <1>4, CommitEnds
<1>10. ASSUME NEW r \in S  PROVE redemptions[r] # NoneRedeemed /\ r <= serial
  <2>1. redemptions[r] # NoneRedeemed
    BY <1>3 DEF NoneRedeemed
  <2>2. r \in Nat /\ serial \in Nat
    BY LedgerFacts DEF LedgerTypeOK, Redemptions
  <2> QED  BY <2>1, <2>2, LedgerFacts DEF Serials
<1>11. users[u].id = Uid(t)
  <2>1. \E w \in Users : users[w].id # 0 /\ users[w].id = redemptions[d].user
    BY <1>3, <1>10, LedgerFacts DEF Owned
  <2> QED  BY <1>3, <2>1
<1>12. LedgerTypeOK'
  BY <1>4, <1>7, <1>8, <1>9, LedgerFacts DEF LedgerTypeOK
<1>13. UserIds' /\ UsedIsSpent' /\ WithinQuota'
  BY <1>4, LedgerFacts DEF UserIds, UsedIsSpent, WithinQuota
<1>14. Owned'
  <2> SUFFICES ASSUME NEW r \in Redemptions, redemptions'[r] # NoneRedeemed
               PROVE  \E w \in Users : users'[w].id # 0 /\ users'[w].id = redemptions'[r].user
    BY DEF Owned
  <2>1. redemptions[r] # NoneRedeemed
    BY <1>6, <1>10
  <2> QED  BY <1>4, <1>6, <2>1, LedgerFacts DEF Owned
<1>15. Serials'
  <2>1. \A r \in Redemptions : redemptions'[r].voucher <= serial
    BY <1>6, LedgerFacts DEF Serials
  <2>2. \A w \in Users : entitled'[w] <= serial
    BY <1>3, <1>8, <1>10, LedgerFacts DEF Serials
  <2>3. \A r \in Redemptions : r > serial => r \notin S
    <3>1. \A r \in Redemptions : r \in Nat
      BY DEF Redemptions
    <3>2. serial \in Nat
      BY LedgerFacts DEF LedgerTypeOK
    <3> QED  BY <1>10, <3>1, <3>2
  <2> QED  BY <1>4, <1>6, <2>1, <2>2, <2>3, LedgerFacts DEF Serials
<1>16. RedemptionsCounted'
  <2> SUFFICES ASSUME NEW b \in VoucherCodes, vouchers'[b].id # 0
               PROVE  Cardinality({r \in Redemptions : redemptions'[r].voucher = vouchers'[b].id})
                        <= vouchers'[b].used
    BY DEF RedemptionsCounted
  <2>1. PICK j : j = vouchers[b].id
    OBVIOUS
  <2>2. {r \in Redemptions : redemptions'[r].voucher = j} = RedeemedOf(j)
    BY <1>6 DEF RedeemedOf
  <2>3. Cardinality({r \in Redemptions : redemptions'[r].voucher = j}) = Cardinality(RedeemedOf(j))
    BY ONLY <2>2, Zenon
  <2>4. Cardinality(RedeemedOf(j)) <= vouchers[b].used
    BY <1>4, <2>1, LedgerFacts DEF RedemptionsCounted, RedeemedOf
  <2>5. vouchers'[b].id = j /\ vouchers'[b].used = vouchers[b].used
    BY <1>4, <2>1
  <2> QED  BY <2>3, <2>4, <2>5
<1>17. PackageBacked'
  <2> SUFFICES ASSUME NEW w \in Users, entitled'[w] # NoRedemption
               PROVE  redemptions'[entitled'[w]] \in
                 {NoneRedeemed} \cup [voucher : Nat, user : {users'[w].id}, is_active : {TRUE}]
    BY DEF PackageBacked
  <2>1. CASE w = u
    <3>1. redemptions'[d] \in Redemption /\ redemptions'[d].user = users'[w].id
          /\ redemptions'[d].is_active = TRUE
      BY <1>3, <1>4, <1>6, <1>11, <2>1
    <3>2. redemptions'[d] \in [voucher : Nat, user : {users'[w].id}, is_active : {TRUE}]
      BY <3>1 DEF Redemption
    <3> QED  BY <1>8, <2>1, <3>2
  <2>2. CASE w # u
    <3>1. PICK r \in Redemptions : r = entitled[w] /\ entitled'[w] = r
      BY <1>8, <2>2, LedgerFacts DEF LedgerTypeOK
    <3>2. redemptions[r] \in {NoneRedeemed} \cup [voucher : Nat, user : {users[w].id}, is_active : {TRUE}]
      BY <3>1, LedgerFacts DEF PackageBacked, NoRedemption, Redemptions
    <3>3. r \notin S
      BY <1>3, <1>10, <2>2, <3>2
    <3> QED  BY <1>4, <1>6, <3>1, <3>2, <3>3
  <2> QED  BY <2>1, <2>2
<1>18. ASSUME NEW s \in Threads, s # t  PROVE Untouched(s)
  <2>1. Still(s)
    BY <1>9, <1>18
  <2>2. HasNew(s) => redemptions'[tx[s].red] = NoneRedeemed /\ \A w \in Users : entitled'[w] # tx[s].red
    <3> SUFFICES ASSUME HasNew(s)
                 PROVE  redemptions'[tx[s].red] = NoneRedeemed /\ \A w \in Users : entitled'[w] # tx[s].red
      OBVIOUS
    <3>1. /\ tx[s].red \in 1..serial /\ redemptions[tx[s].red] = NoneRedeemed
          /\ \A w \in Users : entitled[w] # tx[s].red
      BY LedgerFacts DEF NewOK
    <3>2. tx[s].red \in Redemptions
      BY <3>1, LedgerFacts DEF LedgerTypeOK, Redemptions
    <3>3. tx[s].red \notin S
      BY <1>10, <3>1
    <3> QED  BY <1>3, <1>6, <1>8, <3>1, <3>2, <3>3
  <2>3. HasRows(s) => \A r \in tx[s].rows : redemptions'[r].user = redemptions[r].user
    BY <1>6, LedgerFacts DEF TxType
  <2> QED  BY <1>4, <2>1, <2>2, <2>3 DEF Untouched
<1>19. serial' >= serial
  BY <1>4, LedgerFacts DEF LedgerTypeOK
<1>20. TablesOK'
  BY <1>13, <1>14, <1>15, <1>16, <1>17 DEF TablesOK, VoucherLedger
<1> QED  BY <1>4, <1>9, <1>12, <1>18, <1>19, <1>20, TableStep

-----------------------------------------------------------------------------
LEMMA LedgerInit == VoucherInit => LedgerInv
<1> SUFFICES ASSUME VoucherInit  PROVE LedgerInv
  OBVIOUS
<1>1. SuspInv /\ MaxSerial \in Nat
  BY SuspInit, VouchersAssumption
<1>2. PICK Old \in SUBSET Users : \E rank \in [Old -> 1..Cardinality(Old)] :
        /\ \A a, b \in Old : rank[a] = rank[b] => a = b
        /\ users = [u \in Users |-> IF u \in Old
                    THEN [NoRow EXCEPT !.id = rank[u], !.status = "active"] ELSE NoRow]
        /\ ids = Cardinality(Old)
  BY DEF VoucherInit, AccountInit
<1>3. PICK rank \in [Old -> 1..Cardinality(Old)] :
        /\ \A a, b \in Old : rank[a] = rank[b] => a = b
        /\ users = [u \in Users |-> IF u \in Old
                    THEN [NoRow EXCEPT !.id = rank[u], !.status = "active"] ELSE NoRow]
  BY <1>2
<1>4. UserIds
  <2>1. ids \in Nat /\ \A u \in Old : rank[u] \in 1..ids
    BY <1>1, <1>2 DEF SuspInv, RowTypeOK
  <2>2. NoRow.id = 0 /\ NoRow.status = "none"
    BY DEF NoRow
  <2>3. \A u \in Old : users[u].id = rank[u] /\ users[u].status = "active"
    <3>1. ASSUME NEW r \in Row, NEW k
          PROVE  /\ [r EXCEPT !.id = k, !.status = "active"].id = k
                 /\ [r EXCEPT !.id = k, !.status = "active"].status = "active"
      BY DEF Row
    <3> QED  BY <1>3, <3>1, NoRowType
  <2>4. \A u \in Users \ Old : users[u].id = 0 /\ users[u].status = "none"
    BY <1>3, <2>2
  <2>5. \A u \in Users : users[u].id <= ids /\ (users[u].status = "none" <=> users[u].id = 0)
    BY <2>1, <2>3, <2>4
  <2>6. ASSUME NEW u \in Users, NEW w \in Users, users[u].id = users[w].id, users[u].id # 0
        PROVE  u = w
    <3>1. u \in Old /\ w \in Old
      BY <2>4, <2>6
    <3>2. rank[u] = rank[w]
      BY <2>3, <2>6, <3>1
    <3> QED  BY <1>3, <3>1, <3>2
  <2> QED  BY <2>5, <2>6 DEF UserIds
<1>5. PICK c \in VoucherCodes, v \in Voucher :
        vouchers = [[x \in VoucherCodes |-> NoVoucher] EXCEPT ![c] = v]
        /\ v.id = 1 /\ v.used = 0
  <2>1. PICK c \in VoucherCodes, m \in MaxUsages, p \in Packages, e \in BOOLEAN :
          vouchers = [[x \in VoucherCodes |-> NoVoucher] EXCEPT ![c] =
            [id |-> 1, used |-> 0, max |-> m, package |-> p,
             is_active |-> TRUE, expires |-> e, expired |-> FALSE]]
    BY DEF VoucherInit
  <2>2. [id |-> 1, used |-> 0, max |-> m, package |-> p,
         is_active |-> TRUE, expires |-> e, expired |-> FALSE] \in Voucher
    BY VouchersAssumption DEF Voucher
  <2> QED  BY <2>1, <2>2
<1>6. vouchers \in [VoucherCodes -> Voucher] /\ vouchers[c] = v
      /\ \A b \in VoucherCodes \ {c} : vouchers[b] = NoVoucher
  BY <1>5, NoTxType
<1>7. /\ serial = 1 /\ redemptions = [r \in Redemptions |-> NoneRedeemed]
      /\ entitled = [u \in Users |-> NoRedemption] /\ spent = [i \in Redemptions |-> 0]
      /\ tx = [t \in Threads |-> NoTx] /\ \A t \in Threads : pc[t] = "idle"
  BY DEF VoucherInit, AccountInit
<1>8. NoVoucher.id = 0 /\ NoVoucher.used = 0 /\ NoVoucher.max = 0
      /\ NoneRedeemed \in Redemption /\ NoneRedeemed.voucher = 0 /\ NoRedemption = 0
  BY DEF NoVoucher, NoneRedeemed, Redemption, NoRedemption
<1>9. LedgerTypeOK
  BY <1>1, <1>6, <1>7, <1>8, NoTxType, VouchersAssumption DEF LedgerTypeOK
<1>10. Serials /\ Owned
  <2>1. Serials
    BY <1>5, <1>6, <1>7, <1>8 DEF Serials
  <2>2. Owned
    BY <1>7 DEF Owned
  <2> QED  BY <2>1, <2>2
<1>11. UsedIsSpent /\ WithinQuota /\ PackageBacked
  <2>1. 1 \in Redemptions
    BY VouchersAssumption DEF Redemptions
  <2>2. v.max \in Nat
    BY DEF Voucher
  <2>3. UsedIsSpent
    BY <1>5, <1>6, <1>7, <1>8, <2>1 DEF UsedIsSpent
  <2>4. WithinQuota
    BY <1>5, <1>6, <1>8, <2>2 DEF WithinQuota
  <2>5. PackageBacked
    BY <1>7 DEF PackageBacked
  <2> QED  BY <2>3, <2>4, <2>5
<1>12. RedemptionsCounted
  <2> SUFFICES ASSUME NEW b \in VoucherCodes, vouchers[b].id # 0
               PROVE  Cardinality({r \in Redemptions : redemptions[r].voucher = vouchers[b].id})
                        <= vouchers[b].used
    BY DEF RedemptionsCounted
  <2>1. {r \in Redemptions : redemptions[r].voucher = vouchers[b].id} = {}
    BY <1>7, <1>8
  <2>2. Cardinality({}) = 0
    BY FS_EmptySet
  <2>3. Cardinality({r \in Redemptions : redemptions[r].voucher = vouchers[b].id}) = 0
    BY ONLY <2>1, <2>2, Zenon
  <2>4. vouchers[b].used = 0
    BY <1>5, <1>6, <1>8
  <2> QED  BY ONLY <2>3, <2>4
<1>13. ThreadsOK
  <2>1. \A t \in Threads : ~InTx(t) /\ ~HasVoucher(t) /\ ~HasNew(t) /\ ~HasRows(t)
    BY <1>7 DEF InTx, HasVoucher, HasNew, HasRows, TxStages
  <2>2. \A t \in Threads : StageOK(t)
    BY <1>7 DEF StageOK
  <2> QED  BY <2>1, <2>2 DEF ThreadsOK, ThreadOK, NamedOK, VoucherOK, NewOK, RowsOK, Apart
<1> QED  BY <1>4, <1>9, <1>10, <1>11, <1>12, <1>13 DEF LedgerInv, TablesOK, VoucherLedger

\* What the locks keep apart stays apart in every behaviour.
LEMMA LedgerAlways == Spec => []LedgerInv
<1>1. VoucherInit => LedgerInv
  BY LedgerInit
<1>2. SuspInv /\ LedgerInv /\ [VoucherNext]_vars => LedgerInv'
  <2> SUFFICES ASSUME SuspInv, LedgerInv, [VoucherNext]_vars  PROVE LedgerInv'
    OBVIOUS
  <2>1. CASE AccountStep
    BY <2>1, AccountKeepsTables, AccountKeepsThreads DEF LedgerInv
  <2>2. ASSUME NEW t \in Threads,
               \/ Redeem(t) \/ LockVoucher(t) \/ WriteRedemption(t) \/ Entitle(t) \/ CommitRedeem(t)
               \/ Activation(t) \/ PickRedemption(t) \/ PauseOthers(t) \/ CommitActivate(t)
               \/ Rollback(t) \/ AskToggle(t) \/ SetToggle(t)
        PROVE  LedgerInv'
    BY <2>2, BeginKeeps, LockKeeps, WriteKeeps, EntitleKeeps, RowsKeep, EndsKeep, ToggleKeeps,
       CommitRedeemKeeps, CommitActivateKeeps
  <2>3. CASE \/ CreateVoucher \/ CreateBatch \/ DeleteVoucher \/ SavePackages
             \/ EditUser \/ DeactivatePackage \/ VoucherExpires
             \/ UNCHANGED vars
    BY <2>3, CreateKeeps, DeleteKeeps, ByHandKeeps
  <2> QED  BY <2>1, <2>2, <2>3 DEF VoucherNext, Quiet
<1> QED  BY <1>1, <1>2, SuspAlways, PTL DEF Spec

\* redeem_voucher and activate_voucher: a voucher is used as often as redemptions
\* of it were committed and never beyond max_usage, and a user's package comes
\* from a redemption of his own that is active, however many servers and threads
\* redeem, activate, toggle, delete and edit at once: SELECT ... FOR UPDATE keeps
\* the rows that a transaction has read until its COMMIT.
THEOREM LedgerHolds == Spec => []VoucherLedger
<1>1. LedgerInv => VoucherLedger
  BY DEF LedgerInv, TablesOK
<1> QED  BY <1>1, LedgerAlways, PTL

\* The accounts, the threads of the servers and the tables of the vouchers keep
\* to their types, and the code of one account is never the code of another.
THEOREM VouchersTypes == Spec => []VouchersTypeOK
<1> DEFINE SettingsOK == settings \subseteq Packages
<1>1. VoucherInit => SettingsOK
  BY DEF VoucherInit
<1>2. SettingsOK /\ [VoucherNext]_vars => SettingsOK'
  <2> SUFFICES ASSUME SettingsOK, [VoucherNext]_vars  PROVE settings' \subseteq Packages
    OBVIOUS
  <2>1. CASE AccountStep
    BY <2>1 DEF AccountStep
  <2>2. ASSUME NEW t \in Threads,
               \/ Redeem(t) \/ LockVoucher(t) \/ WriteRedemption(t) \/ Entitle(t) \/ CommitRedeem(t)
               \/ Activation(t) \/ PickRedemption(t) \/ PauseOthers(t) \/ CommitActivate(t)
               \/ Rollback(t) \/ AskToggle(t) \/ SetToggle(t)
        PROVE  settings' \subseteq Packages
    BY <2>2 DEF Redeem, LockVoucher, WriteRedemption, Entitle, CommitRedeem, Activation,
       PickRedemption, PauseOthers, CommitActivate, Rollback, AskToggle, SetToggle, voucherTables
  <2>3. CASE \/ CreateVoucher \/ CreateBatch \/ DeleteVoucher
             \/ EditUser \/ DeactivatePackage \/ VoucherExpires \/ UNCHANGED vars
    BY <2>3 DEF CreateVoucher, CreateBatch, DeleteVoucher, EditUser, DeactivatePackage,
       PackageByHand, VoucherExpires, vars, voucherTables
  <2>4. CASE SavePackages
    BY <2>4 DEF SavePackages
  <2> QED  BY <2>1, <2>2, <2>3, <2>4 DEF VoucherNext, Quiet
<1>3. AccountInv /\ LedgerInv /\ SettingsOK => VouchersTypeOK
  BY AccountTypes DEF AccountInv, Threading, LedgerInv, LedgerTypeOK, TxType, VouchersTypeOK
<1> QED  BY <1>1, <1>2, <1>3, AccountsAlways, LedgerAlways, PTL DEF Spec
===============================================================================
