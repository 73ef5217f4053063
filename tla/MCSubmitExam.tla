----------------------------- MODULE MCSubmitExam -----------------------------
(***************************************************************************)
(* Small instances of SubmitExam: two requests of one device with the same *)
(* Idempotency-Key, that is, a request and its retry.                      *)
(***************************************************************************)
EXTENDS SubmitExam, TLC

CONSTANTS w1, d1, k1

OneOwner == [j \in Jobs |-> d1]
OneKey   == [j \in Jobs |-> k1]

Happens(S, n) == [k \in Events |-> IF k = "any" THEN n
                                   ELSE IF k \in S THEN 1 ELSE 0]

LiveFaults == Happens({"tx_failure", "row_failure", "commit_unknown"}, 2)
AnyTwo   == Happens(Events, 2)
NoFaults == Happens({}, 0)
===============================================================================
