------------------------------ MODULE JobLedger ------------------------------
(***************************************************************************)
(* What the submission pipeline promises, without saying how: a ledger of  *)
(* submissions.  A submission is taken, then stored or abandoned (perhaps  *)
(* both, when nobody could tell whether a COMMIT took effect), and what a  *)
(* student is told never runs ahead of what is recorded.  There is no      *)
(* queue, no thread, no transaction and no Redis here.                     *)
(***************************************************************************)
EXTENDS Naturals

CONSTANTS Jobs, Devices, DevOf

VARIABLES
  taken,      \* submissions that entered the pipeline
  stored,     \* submissions whose answers were committed
  abandoned,  \* submissions put aside for an operator
  answer,     \* what the result key of a job says
  shown       \* shown[d]: the job whose answers device d's row holds, or 0

ledger == <<taken, stored, abandoned, answer, shown>>

Init == /\ taken = {} /\ stored = {} /\ abandoned = {}
        /\ answer = [j \in Jobs |-> "none"]
        /\ shown = [d \in Devices |-> 0]

Take(j) == /\ taken' = taken \cup {j}
           /\ UNCHANGED <<stored, abandoned, answer, shown>>

\* One COMMIT stores a set of jobs; each device concerned shows one of them.
Store(S) ==
  /\ S \subseteq taken
  /\ stored' = stored \cup S
  /\ DOMAIN shown' = Devices
  /\ \A d \in Devices :
       IF \E j \in S : DevOf[j] = d
       THEN shown'[d] \in {j \in S : DevOf[j] = d}
       ELSE shown'[d] = shown[d]
  /\ UNCHANGED <<taken, abandoned, answer>>

\* A job is put aside, and its sender is told or not.
Abandon(j) ==
  /\ j \in taken
  /\ abandoned' = abandoned \cup {j}
  /\ \/ answer' = answer
     \/ answer' = [answer EXCEPT ![j] = "failed"]
  /\ UNCHANGED <<taken, stored, shown>>

Confirm(j) == /\ j \in stored
              /\ answer' = [answer EXCEPT ![j] = "ok"]
              /\ UNCHANGED <<taken, stored, abandoned, shown>>

Forget(j) == /\ answer' = [answer EXCEPT ![j] = "none"]
             /\ UNCHANGED <<taken, stored, abandoned, shown>>

Next == \/ \E j \in Jobs : Take(j) \/ Abandon(j) \/ Confirm(j) \/ Forget(j)
        \/ \E S \in SUBSET Jobs : Store(S)

Spec == Init /\ [][Next]_ledger
=============================================================================
