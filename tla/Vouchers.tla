------------------------------- MODULE Vouchers -------------------------------
(***************************************************************************)
(* Vouchers and the packages they buy (handlers/admin/vouchers.cpp),       *)
(* together with the accounts they are redeemed by.                        *)
(*                                                                         *)
(* redeem_voucher and activate_voucher are transactions of several         *)
(* statements in READ COMMITTED.  What one of them writes is applied at    *)
(* its COMMIT; the row locks it holds until then are read off its stage.   *)
(* A statement that needs a locked row waits: the step is not enabled.     *)
(***************************************************************************)
EXTENDS Accounts

CONSTANTS
  VoucherCodes,   \* codes of vouchers
  Packages,       \* keys of package_settings
  MaxUsages,      \* the max_usage a voucher may have
  MaxSerial       \* bound: ids of vouchers and redemptions

ASSUME VouchersAssumption ==
  /\ IsFiniteSet(VoucherCodes)
  /\ MaxUsages \subseteq Nat \ {0} /\ MaxSerial \in Nat \ {0}
  /\ "custom" \notin Packages

NoRedemption == 0
Redemptions  == 1..MaxSerial

Voucher == [id : Nat, used : Nat, max : Nat, package : Packages \cup {"custom"},
            is_active : BOOLEAN, expires : BOOLEAN, expired : BOOLEAN]

VARIABLES
  vouchers,    \* vouchers[c]: the row of table vouchers with code c; its id is 0: none
  redemptions, \* table voucher_redemptions
  entitled,    \* entitled[u]: the redemption that user u's package and limits come from
  settings,    \* the packages of table package_settings
  serial,      \* the last id of the two tables
  tx,          \* per thread: what its transaction works on
  spent        \* history: spent[i]: committed redemptions of the voucher with id i

voucherTables == <<vouchers, redemptions, entitled, settings, serial, spent>>
vars == <<accountVars, voucherTables, tx>>

TxStages == {"lock", "write", "pick", "pause", "entitle", "commit", "toggle"}

Redemption   == [voucher : Nat, user : Nat, is_active : BOOLEAN]
NoneRedeemed == [voucher |-> 0, user |-> 0, is_active |-> FALSE]
NoVoucher    == [id |-> 0, used |-> 0, max |-> 0, package |-> "custom",
                 is_active |-> FALSE, expires |-> FALSE, expired |-> FALSE]

NoTx == [code |-> "none", red |-> NoRedemption, rows |-> {}, voucher |-> NoVoucher]

-----------------------------------------------------------------------------
(***************************************************************************)
(* Row locks.                                                              *)
(***************************************************************************)
Uid(t) == req[t].row.id

RowsOf(id) == {r \in Redemptions : redemptions[r].user = id}

\* SELECT ... FOR UPDATE and UPDATE hold the row of the voucher.
HoldsVoucher(t, c) ==
  /\ req[t].op = "redeem" /\ tx[t].code = c
  /\ pc[t] \in {"write", "entitle", "commit"}

\* The rows that activate_voucher has locked so far.
HoldsRedemption(t, r) ==
  req[t].op = "activate" /\ pc[t] \in {"pause", "entitle", "commit"} /\ r \in tx[t].rows

\* UPDATE admin_users; the foreign key of a new redemption keeps the row from
\* being deleted, no more.
HoldsUser(t, id) == pc[t] = "commit" /\ Uid(t) = id
KeepsUser(t, id) == pc[t] \in {"entitle", "commit"} /\ req[t].op = "redeem" /\ Uid(t) = id

VoucherUnlocked(c) == TRUE  \* mutant: SELECT without FOR UPDATE
VoucherFree(c)    == \A t \in Threads : ~HoldsVoucher(t, c)
RedemptionFree(r) == \A t \in Threads : ~HoldsRedemption(t, r)
UserFree(id)      == \A t \in Threads : ~HoldsUser(t, id)
UserDeletable(id) ==
  /\ UserFree(id) /\ \A t \in Threads : ~KeepsUser(t, id)
  /\ \A r \in RowsOf(id) : RedemptionFree(r)

-----------------------------------------------------------------------------
(***************************************************************************)
(* redeem_voucher.                                                         *)
(***************************************************************************)
\* Every request under /admin/api asks for the status of its account, and lets
\* the request pass when it gets no connection to ask with.
Admitted(u) == \/ users[u].status = "active" /\ UNCHANGED env
               \/ users[u].status # "none" /\ Occur("stmt_failure")

Usable(v) == v.is_active /\ ~(v.expires /\ v.expired)

\* A custom voucher carries its limits, the others name a package.
Redeemable(v) == /\ v.id # 0 /\ Usable(v) /\ v.used < v.max
                 /\ v.package \in settings \cup {"custom"}

Begin(t, k, s, u, c, r) ==
  /\ Admitted(u) /\ Take(t, k, s, k, u, users[u])
  /\ tx' = [tx EXCEPT ![t] = [NoTx EXCEPT !.code = c, !.red = r]]

Redeem(t) ==
  /\ \E u \in Users, c \in VoucherCodes : Begin(t, "redeem", "lock", u, c, NoRedemption)
  /\ UNCHANGED <<tables, otp, lockout, voucherTables>>

\* SELECT ... FOR UPDATE: what is read is the last committed row.
LockVoucher(t) ==
  LET c == tx[t].code IN
  /\ pc[t] = "lock" /\ VoucherFree(c) /\ Redeemable(vouchers[c])
  /\ Goto(t, "write")
  /\ UNCHANGED <<tables, otp, lockout, left, env, voucherTables, tx>>

\* UPDATE vouchers, INSERT INTO voucher_redemptions.
WriteRedemption(t) ==
  /\ pc[t] = "write" /\ Goto(t, "entitle")
  /\ \E u \in Users : users[u].id = Uid(t)
  /\ serial < MaxSerial /\ serial' = serial + 1
  /\ tx' = [tx EXCEPT ![t].red = serial + 1]
  /\ UNCHANGED <<tables, otp, lockout, left, env,
                 vouchers, redemptions, entitled, settings, spent>>

\* UPDATE admin_users, of either transaction.
Entitle(t) ==
  /\ pc[t] = "entitle" /\ UserFree(Uid(t)) /\ Goto(t, "commit")
  /\ UNCHANGED <<tables, otp, lockout, left, env, voucherTables, tx>>

\* A statement is refused or fails, or the server that waits for a lock is
\* picked as the victim of a deadlock: ROLLBACK.
Rollback(t) ==
  /\ pc[t] \in {"lock", "write", "pick", "pause", "entitle", "commit"}
  /\ Goto(t, "idle") /\ tx' = [tx EXCEPT ![t] = NoTx]
  /\ UNCHANGED <<tables, otp, lockout, left, env, voucherTables>>

CommitRedeem(t) ==
  LET c == tx[t].code IN
  /\ pc[t] = "commit" /\ req[t].op = "redeem"
  /\ vouchers' = [vouchers EXCEPT ![c].used = @ + 1]
  /\ redemptions' = [redemptions EXCEPT ![tx[t].red] =
                       [voucher |-> vouchers[c].id, user |-> Uid(t), is_active |-> TRUE]]
  /\ entitled' = [entitled EXCEPT ![req[t].user] = tx[t].red]
  /\ spent' = [spent EXCEPT ![vouchers[c].id] = @ + 1]
  /\ Goto(t, "idle") /\ tx' = [tx EXCEPT ![t] = NoTx]
  /\ UNCHANGED <<tables, otp, lockout, left, env, settings, serial>>

-----------------------------------------------------------------------------
(***************************************************************************)
(* activate_voucher.                                                       *)
(***************************************************************************)
Activation(t) ==
  /\ \E u \in Users, r \in Redemptions : Begin(t, "activate", "pick", u, "none", r)
  /\ UNCHANGED <<tables, otp, lockout, voucherTables>>

\* SELECT ... FOR UPDATE of the user's own redemption, which must be active.
PickRedemption(t) ==
  LET r == tx[t].red IN
  /\ pc[t] = "pick" /\ Goto(t, "pause")
  /\ redemptions[r].user = Uid(t) /\ redemptions[r].is_active /\ RedemptionFree(r)
  /\ tx' = [tx EXCEPT ![t].rows = {r}]
  /\ UNCHANGED <<tables, otp, lockout, left, env, voucherTables>>

\* UPDATE of the user's other redemptions, then of this one.
PauseOthers(t) ==
  /\ pc[t] = "pause" /\ Goto(t, "entitle")
  /\ \A r \in RowsOf(Uid(t)) \ {tx[t].red} : RedemptionFree(r)
  /\ tx' = [tx EXCEPT ![t].rows = RowsOf(Uid(t))]
  /\ UNCHANGED <<tables, otp, lockout, left, env, voucherTables>>

CommitActivate(t) ==
  /\ pc[t] = "commit" /\ req[t].op = "activate"
  /\ redemptions' = [r \in Redemptions |->
       IF r \in tx[t].rows THEN [redemptions[r] EXCEPT !.is_active = (r = tx[t].red)]
       ELSE redemptions[r]]
  /\ entitled' = [entitled EXCEPT ![req[t].user] = tx[t].red]
  /\ Goto(t, "idle") /\ tx' = [tx EXCEPT ![t] = NoTx]
  /\ UNCHANGED <<tables, otp, lockout, left, env, vouchers, settings, serial, spent>>

-----------------------------------------------------------------------------
(***************************************************************************)
(* What an administrator does to vouchers, packages and users' packages.   *)
(***************************************************************************)
\* The forms of expires_at that valid_expires_at lets pass, and those that
\* PostgreSQL takes for a time.
ValidExpiry == {"", "MM-DD-YYYY HH:MM"}
Timestamps  == {"YYYY-MM-DD HH:MM", "MM-DD-YYYY HH:MM"}

CreateVoucher ==
  /\ Spend("voucher")
  /\ \E c \in VoucherCodes, m \in MaxUsages, p \in Packages \cup {"custom"} :
       /\ vouchers[c].id = 0
       /\ ValidExpiry \cap Timestamps # {}
       /\ vouchers' = [vouchers EXCEPT ![c] =
            [id |-> serial + 1, used |-> 0, max |-> m, package |-> p,
             is_active |-> TRUE, expires |-> TRUE, expired |-> FALSE]]
  /\ serial < MaxSerial /\ serial' = serial + 1
  /\ UNCHANGED <<tables, otp, lockout, handlers, env,
                 redemptions, entitled, settings, spent, tx>>

\* Every code is inserted by a statement of its own; those that fail are not
\* in the count that is answered.
CreateBatch ==
  /\ Spend("voucher")
  /\ ValidExpiry \cap Timestamps # {}
  /\ \E S \in (SUBSET VoucherCodes) \ {{}}, m \in MaxUsages, p \in Packages :
     \E i \in [S -> serial+1..serial+Cardinality(S)] :
       /\ \A c \in S : vouchers[c].id = 0
       /\ \A a, b \in S : i[a] = i[b] => a = b
       /\ serial' = serial + Cardinality(S) /\ serial' <= MaxSerial
       /\ vouchers' = [c \in VoucherCodes |->
            IF c \notin S THEN vouchers[c]
            ELSE [id |-> i[c], used |-> 0, max |-> m, package |-> p,
                  is_active |-> TRUE, expires |-> TRUE, expired |-> FALSE]]
  /\ UNCHANGED <<tables, otp, lockout, handlers, env,
                 redemptions, entitled, settings, spent, tx>>

\* toggle_voucher reads is_active and then writes its opposite.
AskToggle(t) ==
  /\ pc[t] = "idle" /\ Spend("voucher")
  /\ \E c \in VoucherCodes :
       /\ vouchers[c].id # 0
       /\ tx' = [tx EXCEPT ![t] = [NoTx EXCEPT !.code = c, !.voucher = vouchers[c]]]
  /\ pc' = [pc EXCEPT ![t] = "toggle"]
  /\ UNCHANGED <<tables, otp, lockout, req, env, voucherTables>>

SetToggle(t) ==
  LET c == tx[t].code IN
  /\ pc[t] = "toggle" /\ Goto(t, "idle") /\ VoucherFree(c)
  /\ vouchers' = IF vouchers[c].id = tx[t].voucher.id
                 THEN [vouchers EXCEPT ![c].is_active = ~tx[t].voucher.is_active] ELSE vouchers
  /\ tx' = [tx EXCEPT ![t] = NoTx]
  /\ UNCHANGED <<tables, otp, lockout, left, env,
                 redemptions, entitled, settings, serial, spent>>

\* ON DELETE CASCADE takes the redemptions along.
DeleteVoucher ==
  /\ Spend("voucher")
  /\ \E c \in VoucherCodes :
       LET gone == {r \in Redemptions : redemptions[r].voucher = vouchers[c].id} IN
       /\ vouchers[c].id # 0 /\ VoucherFree(c)
       /\ \A r \in gone : RedemptionFree(r)
       /\ vouchers' = [vouchers EXCEPT ![c] = NoVoucher]
       /\ redemptions' = [r \in Redemptions |->
                            IF r \in gone THEN NoneRedeemed ELSE redemptions[r]]
  /\ UNCHANGED <<tables, otp, lockout, handlers, env, entitled, settings, serial, spent, tx>>

SavePackages ==
  /\ Spend("voucher")
  /\ \E p \in Packages : settings' = settings \cup {p}
  /\ UNCHANGED <<tables, otp, lockout, handlers, env,
                 vouchers, redemptions, entitled, serial, spent, tx>>

\* The package of a user is set by hand: to what the form says, or to 'free',
\* which leaves the limits of the old one (they are not modelled).
PackageByHand ==
  /\ Spend("admin")
  /\ \E u \in Users :
       /\ users[u].id # 0 /\ UserFree(users[u].id)
       /\ entitled' = [entitled EXCEPT ![u] = NoRedemption]
  /\ UNCHANGED <<tables, otp, lockout, handlers, env,
                 vouchers, redemptions, settings, serial, spent, tx>>

EditUser == PackageByHand
DeactivatePackage == PackageByHand

VoucherExpires ==
  /\ Spend("time")
  /\ \E c \in VoucherCodes :
       /\ vouchers[c].expires /\ ~vouchers[c].expired
       /\ vouchers' = [vouchers EXCEPT ![c].expired = TRUE]
  /\ UNCHANGED <<tables, otp, lockout, handlers, env,
                 redemptions, entitled, settings, serial, spent, tx>>

-----------------------------------------------------------------------------
\* A step of Accounts, as the row locks allow it; ON DELETE CASCADE.
AccountStep ==
  /\ AccountNext
  /\ \A u \in Users :
       users'[u] # users[u] /\ users[u].id # 0 =>
         IF users'[u].id = users[u].id THEN UserFree(users[u].id) ELSE UserDeletable(users[u].id)
  /\ redemptions' = [r \in Redemptions |->
       IF \E u \in Users : users'[u].id # users[u].id /\ users[u].id = redemptions[r].user
       THEN NoneRedeemed ELSE redemptions[r]]
  /\ entitled' = [u \in Users |-> IF users'[u].id # users[u].id THEN NoRedemption ELSE entitled[u]]
  /\ tx' = [t \in Threads |-> IF pc'[t] = "idle" THEN NoTx ELSE tx[t]]
  /\ UNCHANGED <<vouchers, settings, serial, spent>>

\* No request arrives.
Quiet == (\A t \in Threads : pc[t] = "idle") /\ UNCHANGED vars

VoucherInit ==
  /\ AccountInit
  /\ settings \in SUBSET Packages
  /\ \E c \in VoucherCodes, m \in MaxUsages, p \in Packages, e \in BOOLEAN :
       vouchers = [[x \in VoucherCodes |-> NoVoucher] EXCEPT ![c] =
         [id |-> 1, used |-> 0, max |-> m, package |-> p,
          is_active |-> TRUE, expires |-> e, expired |-> FALSE]]
  /\ redemptions = [r \in Redemptions |-> NoneRedeemed]
  /\ entitled = [u \in Users |-> NoRedemption]
  /\ serial = 1 /\ spent = [i \in Redemptions |-> 0]
  /\ tx = [t \in Threads |-> NoTx]

VoucherNext ==
  \/ AccountStep
  \/ \E t \in Threads :
       \/ Redeem(t) \/ LockVoucher(t) \/ WriteRedemption(t) \/ Entitle(t) \/ CommitRedeem(t)
       \/ Activation(t) \/ PickRedemption(t) \/ PauseOthers(t) \/ CommitActivate(t)
       \/ Rollback(t) \/ AskToggle(t) \/ SetToggle(t)
  \/ CreateVoucher \/ CreateBatch \/ DeleteVoucher \/ SavePackages
  \/ EditUser \/ DeactivatePackage \/ VoucherExpires
  \/ Quiet

Spec == VoucherInit /\ [][VoucherNext]_vars

-----------------------------------------------------------------------------
VouchersTypeOK ==
  /\ AccountsTypeOK
  /\ pc \in [Threads -> Stages \cup TxStages]
  /\ vouchers \in [VoucherCodes -> Voucher]
  /\ redemptions \in [Redemptions -> Redemption]
  /\ entitled \in [Users -> Redemptions \cup {NoRedemption}]
  /\ settings \subseteq Packages
  /\ serial \in 0..MaxSerial
  /\ tx \in [Threads -> [code : VoucherCodes \cup {"none"}, red : Redemptions \cup {NoRedemption},
                         rows : SUBSET Redemptions, voucher : Voucher]]
  /\ spent \in [Redemptions -> Nat]

\* A voucher is used as often as a redemption of it was committed ...
UsedIsSpent == \A c \in VoucherCodes :
  vouchers[c].id # 0 => vouchers[c].used = spent[vouchers[c].id]

\* ... never more often than it allows, however many servers redeem it ...
WithinQuota == \A c \in VoucherCodes : vouchers[c].used <= vouchers[c].max

\* ... and no redemption is there that was not counted.
RedemptionsCounted == \A c \in VoucherCodes :
  vouchers[c].id # 0 =>
    Cardinality({r \in Redemptions : redemptions[r].voucher = vouchers[c].id}) <= vouchers[c].used

\* The package of a user comes from a redemption of his own that is active,
\* unless the voucher was deleted since.
PackageBacked == \A u \in Users :
  entitled[u] # NoRedemption =>
    redemptions[entitled[u]] \in
      {NoneRedeemed} \cup [voucher : Nat, user : {users[u].id}, is_active : {TRUE}]

\* redeem_voucher and activate_voucher: the quota of a voucher, the redemptions
\* of it and the packages of users agree, whatever the interleaving of their
\* transactions, toggles and deletions.
VoucherLedger == UsedIsSpent /\ WithinQuota /\ RedemptionsCounted /\ PackageBacked
===============================================================================
