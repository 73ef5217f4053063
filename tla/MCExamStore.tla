----------------------------- MODULE MCExamStore -----------------------------
(***************************************************************************)
(* Small instances of ExamStore.                                           *)
(***************************************************************************)
EXTENDS ExamStore, TLC

CONSTANTS t1, t2, p1, p2, k1

AnyOne == [k \in Events |-> 1]
NoFailure == [k \in Events |-> 0]

Start(dynamic, file, next, n) ==
  [dynamic |-> dynamic, file |-> file, nextId |-> next, served |-> n]

\* A dynamic exam of this program in a Go database, a static one in a database
\* of its own, a static one of the Go server (with one request less).
AllDatabases == {Start(TRUE, TRUE, 2, 0), Start(FALSE, TRUE, NoSequence, 0),
                 Start(FALSE, FALSE, 2, 1)}
OwnDatabase  == {Start(FALSE, TRUE, NoSequence, 0)}

Alike == Permutations({t1, t2}) \cup Permutations({p1, p2})
===============================================================================
