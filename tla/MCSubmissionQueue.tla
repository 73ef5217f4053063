-------------------------- MODULE MCSubmissionQueue --------------------------
(***************************************************************************)
(* Small instances of SubmissionQueue for TLC.  Jobs 1 and 3 come from the *)
(* same device, so that a job can meet the row, the approval and the stale *)
(* entries of another.  A run chooses which events may happen, and how     *)
(* often; all others do not.                                               *)
(***************************************************************************)
EXTENDS SubmissionQueue, TLC

CONSTANTS w1, w2, d1, d2

MCDevOf  == [j \in Jobs |-> IF j = 2 THEN d2 ELSE d1]
OneOwner == [j \in Jobs |-> d1]

\* At most n events of the set S, each at most once.
Happens(S, n) == [k \in Events |-> IF k = "any" THEN n
                                   ELSE IF k \in S THEN 1 ELSE 0]

AnyTwo       == Happens(Events, 2)
AnyThree     == Happens(Events, 3)
RetryFaults  == [Happens({"row_failure", "commit_unknown", "tx_failure",
                          "revoke_failure", "redis_down", "stop"}, 3)
                   EXCEPT !["row_failure"] = 2]
OutageFaults == Happens({"pg_unreachable"}, 1)
RedisRestart == Happens({"redis_down"}, 1)
NoFaults     == Happens({}, 0)

Symmetry == Permutations(Workers)
==============================================================================
