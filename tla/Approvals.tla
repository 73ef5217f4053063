------------------------------ MODULE Approvals ------------------------------
(***************************************************************************)
(* The approvals of the devices of one exam: a student's request with the  *)
(* automatic approval under a cap, the proctor's decision, the deletion by *)
(* the submission worker, and the cleanup job that one server at a time    *)
(* runs under a lock in Redis.                                             *)
(***************************************************************************)
EXTENDS Integers, FiniteSets

CONSTANTS
  Devices,      \* mac_address
  Servers,      \* server processes
  Threads,      \* their HTTP threads
  Home,         \* Home[t]: the server of thread t
  Nobody,       \* nobody holds a lock
  Cap,          \* max_approvals_per_exam
  MaxRequests,  \* bound: requests for approval
  MaxMoves,     \* bound: what proctors, teachers, the queue and time do
  MaxEvents     \* bound: MaxEvents[k] failures of kind k, "any" of all kinds

Events == {"stmt_failure", "redis_down", "reply_lost", "overrun", "crash", "any"}

ASSUME ApprovalsAssumption ==
  /\ IsFiniteSet(Devices) /\ Nobody \notin Threads
  /\ Home \in [Threads -> Servers]
  /\ Cap \in Nat \ {0} /\ MaxRequests \in Nat /\ MaxMoves \in Nat
  /\ MaxEvents \in [Events -> Nat]

Status   == {"pending", "approved", "rejected"}
NoRow    == "none"
NoAnswer == "nothing"

\* What the handlers read of the exam: end_time is ahead, over, or over by an hour.
Exam == [auto : BOOLEAN, status : {"inactive", "active", "started"},
         end : {"ahead", "over", "long over"}]

VARIABLES
  exam,      \* the exam's row
  row,       \* table exam_approvals: row[d]
  old,       \* the rows created more than 24 hours ago
  capLock,   \* pg_advisory_xact_lock("approval-cap:<exam>")
  pc, ask,   \* per thread: its stage, and the request it serves
  job,       \* per server: the stage of run_approval_cleanup
  jobKey,    \* the key job:approval_cleanup exists in Redis
  local,     \* g_locks of the servers
  redisUp,
  by,        \* history: who approved: "auto", "proctor"
  refused,   \* history: devices whose rejection stands
  answered,  \* history: answered[d]: the last status sent to d that still holds
  asked, moves, env

approvals == <<row, old, by, refused, answered>>
handlers  == <<capLock, pc, ask>>
jobs      == <<job, jobKey, local, redisUp>>
limits    == <<asked, moves, env>>
vars      == <<exam, approvals, handlers, jobs, limits>>

NoAsk == [dev |-> NoRow, reset |-> FALSE, auto |-> FALSE, claim |-> NoAnswer]

Occur(k) == /\ env[k] < MaxEvents[k] /\ env["any"] < MaxEvents["any"]
            /\ env' = [e \in Events |-> IF e \in {k, "any"} THEN env[e] + 1
                                        ELSE env[e]]

Move == moves < MaxMoves /\ moves' = moves + 1

-----------------------------------------------------------------------------
(***************************************************************************)
(* request_approval.                                                       *)
(***************************************************************************)
\* Automatic approval: the flag, and the exam is running.
Automatic(e) == e.auto /\ e.status = "started" /\ e.end = "ahead"

\* The exam is read once.  Without a valid token the device needs a row.
Request(t) ==
  /\ pc[t] = "idle" /\ asked < MaxRequests /\ asked' = asked + 1
  /\ \E d \in Devices, reset, token \in BOOLEAN :
       /\ token \/ row[d] # NoRow
       /\ ask' = [ask EXCEPT ![t] =
                    [dev |-> d, reset |-> reset, auto |-> Automatic(exam),
                     claim |-> IF Automatic(exam) THEN "approved" ELSE "pending"]]
  /\ pc' = [pc EXCEPT ![t] = "lock"]
  /\ UNCHANGED <<exam, approvals, capLock, jobs, moves, env>>

Approved == {d \in Devices : row[d] = "approved"}

Unlocked == TRUE  \* mutant: no advisory lock

CapLockFree == capLock = Nobody

\* BEGIN, the lock that lasts until COMMIT, and the count.
Count(t) ==
  /\ pc[t] = "lock" /\ CapLockFree
  /\ capLock' = t
  /\ ask' = [ask EXCEPT ![t].auto = @ /\ Cardinality(Approved) < Cap]
  /\ pc' = [pc EXCEPT ![t] = "persist"]
  /\ UNCHANGED <<exam, approvals, jobs, limits>>

Answered(t) == /\ pc'  = [pc EXCEPT ![t] = "idle"]
               /\ ask' = [ask EXCEPT ![t] = NoAsk]
               /\ capLock' = IF capLock = t THEN Nobody ELSE capLock

\* The lock is not obtained: nothing is stored, and the student is told the
\* status of before the count.
Unpersisted(t) ==
  /\ pc[t] = "lock" /\ Occur("stmt_failure")
  /\ answered' = [answered EXCEPT ![ask[t].dev] = ask[t].claim]
  /\ Answered(t)
  /\ UNCHANGED <<exam, row, old, by, refused, jobs, asked, moves>>

AutoOverRejected(s, reset, auto) ==  \* mutant: status is not asked for
  IF auto THEN "approved" ELSE IF reset /\ s # "approved" THEN "pending" ELSE s

\* INSERT ... ON CONFLICT DO UPDATE SET status = CASE ...
Decided(s, reset, auto) ==
  CASE s = NoRow -> IF auto THEN "approved" ELSE "pending"
    [] s # NoRow /\ reset -> IF auto \/ s = "approved" THEN "approved" ELSE "pending"
    [] OTHER -> IF auto /\ s = "pending" THEN "approved" ELSE s

ClaimsSnapshot(q, s) == q.claim  \* mutant: RETURNING is ignored

\* The answer is what RETURNING says.
Answer(q, s) == s

Stored(d, s, reset) ==
  /\ row' = [row EXCEPT ![d] = s]
  /\ old' = IF row[d] = NoRow THEN old \ {d} ELSE old
  /\ by'  = [by EXCEPT ![d] = IF s # "approved" THEN Nobody
                              ELSE IF row[d] = "approved" THEN @ ELSE "auto"]
  /\ refused' = IF reset THEN refused \ {d} ELSE refused

\* INSERT and COMMIT; the row is locked in between.  When the INSERT fails the
\* student is told the status of before the count, when COMMIT does, what
\* RETURNING said.
Persist(t) ==
  /\ pc[t] = "persist"
  /\ LET q == ask[t]
         s == Decided(row[q.dev], q.reset, q.auto) IN
     \/ /\ Stored(q.dev, s, q.reset)
        /\ answered' = [answered EXCEPT ![q.dev] = Answer(q, s)]
        /\ UNCHANGED env
     \/ /\ Occur("stmt_failure")
        /\ \E told \in {q.claim, Answer(q, s)} :
             answered' = [answered EXCEPT ![q.dev] = told]
        /\ UNCHANGED <<row, old, by, refused>>
  /\ Answered(t)
  /\ UNCHANGED <<exam, jobs, asked, moves>>

-----------------------------------------------------------------------------
(***************************************************************************)
(* The others who write the rows.                                          *)
(***************************************************************************)
\* set_approval: an UPDATE, without the cap and its lock; of no row, it is
\* answered with 200 all the same.
SetApproval ==
  /\ Move
  /\ \E d \in Devices, s \in Status :
       /\ row[d] # NoRow
       /\ row' = [row EXCEPT ![d] = s]
       /\ by' = [by EXCEPT ![d] = IF s = "approved" THEN "proctor" ELSE Nobody]
       /\ refused' = IF s = "rejected" THEN refused \cup {d} ELSE refused \ {d}
       /\ answered' = [answered EXCEPT ![d] = NoAnswer]
  /\ UNCHANGED <<exam, old, handlers, jobs, asked, env>>

Deleted(D) ==
  /\ row' = [d \in Devices |-> IF d \in D THEN NoRow ELSE row[d]]
  /\ old' = old \ D
  /\ by'  = [d \in Devices |-> IF d \in D THEN Nobody ELSE by[d]]
  /\ answered' = [d \in Devices |-> IF d \in D THEN NoAnswer ELSE answered[d]]

\* run_batch revokes the approval of a device whose answers it has stored,
\* whatever the row says by then.
Revoke ==
  /\ Move
  /\ \E d \in Devices : Deleted({d}) /\ refused' = refused \ {d}
  /\ UNCHANGED <<exam, handlers, jobs, asked, env>>

\* The exam is changed by its teacher, by the expiry job and by time.
ExamChanges ==
  /\ Move
  /\ exam' \in {[exam EXCEPT !.auto = ~@]}
          \cup {[exam EXCEPT !.status = s] : s \in {"inactive", "active", "started"}}
          \cup {[exam EXCEPT !.end = s] : s \in {"ahead", "over", "long over"}}
  /\ UNCHANGED <<approvals, handlers, jobs, asked, env>>

RowsAge ==
  /\ Move /\ old' = {d \in Devices : row[d] # NoRow}
  /\ UNCHANGED <<exam, row, by, refused, answered, handlers, jobs, asked, env>>

-----------------------------------------------------------------------------
(***************************************************************************)
(* run_approval_cleanup under try_acquire_job.                             *)
(***************************************************************************)
SetAlways == TRUE  \* mutant: SET without NX

KeyFree == ~jobKey

\* Redis decides; only when it cannot be reached does the server's own map.
Acquire(v) ==
  /\ job[v] = 0
  /\ \/ /\ redisUp /\ KeyFree /\ jobKey' = TRUE
        /\ \/ job' = [job EXCEPT ![v] = 1] /\ UNCHANGED env
           \* The key is set, its answer is lost: nobody runs.
           \/ Occur("reply_lost") /\ UNCHANGED job
        /\ UNCHANGED local
     \/ /\ ~redisUp /\ v \notin local
        /\ local' = local \cup {v}
        /\ job' = [job EXCEPT ![v] = 1]
        /\ UNCHANGED <<jobKey, env>>
  /\ UNCHANGED <<exam, approvals, handlers, redisUp, asked, moves>>

FiveDeletes == 1..5  \* mutant: one too many

Deletes == 1..4

\* The rows that the n-th DELETE of the job finds.
Stale(d, n) ==
  /\ row[d] = IF n \in {1, 3} THEN "pending" ELSE "approved"
  /\ IF n <= 2 THEN exam.end = "long over" ELSE exam.status = "inactive" /\ d \in old

Clean(v) ==
  /\ job[v] \in Deletes
  /\ \/ /\ Deleted({d \in Devices : Stale(d, job[v])})
        /\ job' = [job EXCEPT ![v] = @ + 1]
        /\ UNCHANGED env
     \/ \* One statement fails, or the connection and with it all the others.
        /\ Occur("stmt_failure")
        /\ \E n \in {job[v] + 1, 5} : job' = [job EXCEPT ![v] = n]
        /\ UNCHANGED <<row, old, by, answered>>
  /\ UNCHANGED <<exam, refused, handlers, jobKey, local, redisUp, asked, moves>>

\* DEL, whoever has set the key; whether it fails is not asked.
Release(v) ==
  /\ job[v] = 5
  /\ job' = [job EXCEPT ![v] = 0]
  /\ \/ jobKey' = (jobKey /\ ~redisUp) /\ UNCHANGED env
     \/ redisUp /\ Occur("reply_lost") /\ UNCHANGED jobKey
  /\ local' = local \ {v}
  /\ UNCHANGED <<exam, approvals, handlers, redisUp, asked, moves>>

Running == {v \in Servers : job[v] # 0}

\* A key or an entry of g_locks reaches its 1800 s.
LocksExpire ==
  /\ IF Running = {} THEN UNCHANGED env ELSE Occur("overrun")
  /\ jobKey' = FALSE /\ local' = {}
  /\ jobKey \/ local # {}
  /\ UNCHANGED <<exam, approvals, handlers, job, redisUp, asked, moves>>

RedisTurns ==
  /\ IF redisUp THEN Occur("redis_down") ELSE UNCHANGED env
  /\ redisUp' = ~redisUp
  /\ UNCHANGED <<exam, approvals, handlers, job, jobKey, local, asked, moves>>

\* A server dies and comes back; PostgreSQL drops its transactions.
ServerCrash(v) ==
  LET mine == {t \in Threads : Home[t] = v} IN
  /\ Occur("crash")
  /\ job' = [job EXCEPT ![v] = 0] /\ local' = local \ {v}
  /\ pc'  = [t \in Threads |-> IF t \in mine THEN "idle" ELSE pc[t]]
  /\ ask' = [t \in Threads |-> IF t \in mine THEN NoAsk ELSE ask[t]]
  /\ capLock' = IF capLock \in mine THEN Nobody ELSE capLock
  /\ UNCHANGED <<exam, approvals, jobKey, redisUp, asked, moves>>

Init ==
  /\ exam = [auto |-> TRUE, status |-> "started", end |-> "ahead"]
  /\ row = [d \in Devices |-> NoRow] /\ old = {}
  /\ capLock = Nobody
  /\ pc = [t \in Threads |-> "idle"] /\ ask = [t \in Threads |-> NoAsk]
  /\ job = [v \in Servers |-> 0] /\ jobKey = FALSE /\ local = {} /\ redisUp = TRUE
  /\ by = [d \in Devices |-> Nobody] /\ refused = {}
  /\ answered = [d \in Devices |-> NoAnswer]
  /\ asked = 0 /\ moves = 0 /\ env = [e \in Events |-> 0]

Next ==
  \/ \E t \in Threads : Request(t) \/ Count(t) \/ Unpersisted(t) \/ Persist(t)
  \/ SetApproval \/ Revoke \/ ExamChanges \/ RowsAge
  \/ \E v \in Servers : Acquire(v) \/ Clean(v) \/ Release(v) \/ ServerCrash(v)
  \/ LocksExpire \/ RedisTurns

Spec == Init /\ [][Next]_vars

-----------------------------------------------------------------------------
(***************************************************************************)
(* Properties.                                                             *)
(***************************************************************************)
\* Types.
ApprovalsTypeOK ==
  /\ exam \in Exam
  /\ row \in [Devices -> Status \cup {NoRow}] /\ old \subseteq Devices
  /\ capLock \in Threads \cup {Nobody}
  /\ pc \in [Threads -> {"idle", "lock", "persist"}]
  /\ ask \in [Threads -> [dev : Devices \cup {NoRow}, reset : BOOLEAN,
                          auto : BOOLEAN, claim : Status \cup {NoAnswer}]]
  /\ job \in [Servers -> 0..5] /\ jobKey \in BOOLEAN /\ local \subseteq Servers
  /\ redisUp \in BOOLEAN
  /\ by \in [Devices -> {"auto", "proctor", Nobody}]
  /\ refused \subseteq Devices
  /\ answered \in [Devices -> Status \cup {NoAnswer}]
  /\ asked \in 0..MaxRequests /\ moves \in 0..MaxMoves
  /\ env \in [Events -> Nat]

(***************************************************************************)
(* "cegah token bocor mencetak device approved tak terbatas": however many *)
(* devices ask at the same time and whatever fails, no more than Cap are   *)
(* approved without a proctor.                                             *)
(***************************************************************************)
CapKept == Cardinality({d \in Approved : by[d] = "auto"}) <= Cap

(***************************************************************************)
(* A rejection stands: requests that were under way, automatic approval    *)
(* and the cleanup leave it, until the proctor decides again, the student  *)
(* asks with reset, or the worker deletes the row.                         *)
(***************************************************************************)
RejectionStands == \A d \in refused : row[d] = "rejected"

(***************************************************************************)
(* P37-F14: what a student was told is what the table says, until somebody *)
(* else changes it, unless a statement has failed: then the answer is      *)
(* "approved" or "pending" without a row.                                  *)
(***************************************************************************)
ToldIsStored ==
  env["stmt_failure"] = 0 =>
    \A d \in Devices : answered[d] # NoAnswer => row[d] = answered[d]

(***************************************************************************)
(* P37-G15: two servers do not run the job at the same time, as long as    *)
(* Redis can be reached and the job is done before its lock expires.       *)
(***************************************************************************)
OneCleanup ==
  env["redis_down"] + env["overrun"] = 0 => Cardinality(Running) <= 1
===============================================================================
