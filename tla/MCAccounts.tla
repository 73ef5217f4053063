------------------------------ MODULE MCAccounts ------------------------------
(***************************************************************************)
(* Two threads of one server; accounts and vouchers.                       *)
(***************************************************************************)
EXTENDS Vouchers, TLC

CONSTANTS u1, u2, v1, t1, t2, k1, p1

HomeOf == t1 :> v1 @@ t2 :> v1

Work(f) == f @@ [k \in Kinds |-> 0]

MCWorkloads == {
  Work("guess" :> 4 @@ "renew" :> 1 @@ "time" :> 1 @@ "admin" :> 1),
  Work("register" :> 2 @@ "guess" :> 1 @@ "time" :> 2),
  Work("register" :> 1 @@ "guess" :> 2 @@ "renew" :> 1 @@ "time" :> 1),
  Work("register" :> 1 @@ "guess" :> 1 @@ "admin" :> 2),
  Work("login" :> 4 @@ "time" :> 1),
  Work("redeem" :> 3 @@ "activate" :> 1),
  Work("redeem" :> 2 @@ "activate" :> 2 @@ "admin" :> 1),
  Work("redeem" :> 1 @@ "voucher" :> 2 @@ "time" :> 1) }

MCMaxEvents == "stmt_failure" :> 1 @@ "mail_failure" :> 1 @@ "restart" :> 1 @@ "any" :> 1

Perms == Permutations({u1, u2}) \cup Permutations({t1, t2})
===============================================================================
