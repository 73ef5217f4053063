----------------------------- MODULE MCApprovals -----------------------------
(***************************************************************************)
(* Small instances of Approvals.                                           *)
(***************************************************************************)
EXTENDS Approvals, TLC

CONSTANTS d1, d2, s1, s2, t1, t2

\* Each server has one thread.
OneEach == t1 :> s1 @@ t2 :> s2

AnyOne == [k \in Events |-> 1]

\* Devices are alike; servers are, each with its thread.
Alike == Permutations({d1, d2}) \cup {s1 :> s2 @@ s2 :> s1 @@ t1 :> t2 @@ t2 :> t1}
===============================================================================
