------------------------------- MODULE Presence -------------------------------
(***************************************************************************)
(* Heartbeats of the devices of one exam: access_log and complete_exam     *)
(* with their limiter in Redis, the presence keys, the heartbeat list, and *)
(* the flusher that moves it to PostgreSQL every 30 s.                     *)
(*                                                                         *)
(* A heartbeat is its number in the order of arrival.  Redis calls of the  *)
(* handlers are best effort: their results are not looked at.              *)
(***************************************************************************)
EXTENDS Integers, FiniteSets, Sequences, SequencesExt

CONSTANTS
  Devices,          \* students' devices
  Threads,          \* HTTP threads
  PresenceLimit,    \* requests of a device within 60 s, by the counter in Redis
  FallbackLimit,    \* the same, by the map of the process
  BatchSize,        \* kHeartbeatBatchSize
  MaxBatches,       \* kHeartbeatMaxBatches
  MaxBeats,         \* bound: logged events
  Workloads,        \* bound: how many steps of each kind a behaviour has, and failures
  MaxEvents         \* bound: MaxEvents[k] failures of kind k

Kinds  == {"request", "tick", "answers", "delete", "edit", "frame", "time", "failures"}

Events == {"redis_down", "reply_lost", "write_refused", "row_failure", "tx_failure",
           "commit_unknown", "crash", "any"}

ASSUME PresenceAssumption ==
  /\ IsFiniteSet(Threads)
  /\ PresenceLimit \in Nat \ {0} /\ FallbackLimit \in Nat \ {0}
  /\ BatchSize \in Nat \ {0} /\ MaxBatches \in Nat \ {0} /\ MaxBeats \in Nat
  /\ Workloads \subseteq [Kinds -> Nat] /\ MaxEvents \in [Events -> Nat]

Beats == 1..MaxBeats

VARIABLES
  present,  \* the devices with a key heartbeat:{exam}:{mac}
  list,     \* examvan:heartbeats:pending; LPUSH at the front, RPOP at the end
  counter,  \* counter[d]: the key ratelimit:presence:...: its value, and whether it expires
  fallback, \* fallback[d]: local_fallback, within its minute
  log,      \* log[b]: rows of student_access_logs made of b
  row,      \* row[d]: the row of table submissions
  exam,     \* the row of table exams is there
  pc, req,  \* per thread: its stage, the request it serves
  fpc,      \* HeartbeatFlusher: "wait", "pop", "rows", "requeue"
  hand,     \* payloads
  tx,       \* its transaction: the beats and placeholders written, the next payload
  batches,  \* batches drained in this tick
  dead,     \* its connections of this tick that are broken
  left, env,
  sent,     \* history: the events logged or pushed, with their device
  erased    \* history: devices whose row was deleted since a heartbeat of theirs was recorded

redis    == <<present, list>>
limiter  == <<counter, fallback>>
tables   == <<log, row, exam, erased>>
handlers == <<pc, req>>
flusher  == <<fpc, hand, tx, batches, dead>>
presenceVars == <<redis, limiter, tables, handlers, flusher, left, env, sent>>

NoReq == [op |-> "none", dev |-> "none"]
NoTx  == [logged |-> {}, placed |-> {}, read |-> {}, at |-> 1]

Occur(k) == /\ env[k] < MaxEvents[k] /\ env["any"] < left["failures"]
            /\ env' = [e \in Events |-> IF e \in {k, "any"} THEN env[e] + 1 ELSE env[e]]

Spend(k) == left[k] > 0 /\ left' = [left EXCEPT ![k] = @ - 1]

Goto(t, s) ==
  /\ pc'  = [pc EXCEPT ![t] = s]
  /\ req' = IF s = "idle" THEN [req EXCEPT ![t] = NoReq] ELSE req

-----------------------------------------------------------------------------
(***************************************************************************)
(* rate_limit_allowed: INCR, and EXPIRE by whoever counted 1.              *)
(***************************************************************************)
NeedsExpiryLate(n) == n = PresenceLimit  \* mutant: on the last request
NeedsExpiry(n) == n = 1

Counted(t, d) ==
  LET n == counter[d].n + 1 IN
  /\ counter' = [counter EXCEPT ![d].n = n]
  /\ pc' = [pc EXCEPT ![t] = IF NeedsExpiry(n) THEN "expire"
                             ELSE IF n <= PresenceLimit THEN "gate" ELSE "idle"]
  /\ UNCHANGED fallback

\* Redis is not there, or the answer to INCR does not arrive.
CountedHere(t, d) ==
  /\ \/ Occur("redis_down") /\ UNCHANGED counter
     \/ Occur("reply_lost") /\ counter' = [counter EXCEPT ![d].n = @ + 1]
  /\ IF fallback[d] < FallbackLimit
     THEN /\ fallback' = [fallback EXCEPT ![d] = @ + 1]
          /\ pc' = [pc EXCEPT ![t] = "gate"]
     ELSE UNCHANGED <<fallback, pc>>

\* access_log with its events, complete_exam.
Request(t, op) ==
  /\ pc[t] = "idle" /\ Spend("request")
  /\ \E d \in Devices :
       /\ \/ Counted(t, d) /\ UNCHANGED env
          \/ CountedHere(t, d)
       /\ req' = IF pc'[t] = "idle" THEN req ELSE [req EXCEPT ![t] = [op |-> op, dev |-> d]]
  /\ UNCHANGED <<redis, tables, flusher, sent>>

AccessLog(t)    == \E op \in {"login", "heartbeat", "logout"} : Request(t, op)
CompleteExam(t) == Request(t, "complete")

Expire(t) ==
  /\ pc[t] = "expire" /\ Goto(t, "gate")
  /\ \/ counter' = [counter EXCEPT ![req[t].dev].ttl = (counter[req[t].dev].n > 0)] /\ UNCHANGED env
     \/ Occur("write_refused") /\ UNCHANGED counter
  /\ UNCHANGED <<fallback, redis, tables, flusher, left, sent>>

\* The exam is running, and the token matches or (access_log) the device is
\* approved; or not.
NextStage(op) == CASE op = "heartbeat" -> "set" [] op = "complete" -> "del" [] OTHER -> "insert"

Gate(t) ==
  /\ pc[t] = "gate"
  /\ Goto(t, NextStage(req[t].op)) \/ Goto(t, "idle")
  /\ UNCHANGED <<redis, limiter, tables, flusher, left, env, sent>>

-----------------------------------------------------------------------------
(***************************************************************************)
(* What access_log and complete_exam do.                                   *)
(***************************************************************************)
\* Logins and logouts go to the table at once.
Insert(t) ==
  /\ pc[t] = "insert" /\ Goto(t, IF req[t].op = "login" THEN "set" ELSE "idle")
  /\ \/ /\ Len(sent) < MaxBeats
        /\ sent' = Append(sent, [dev |-> req[t].dev, pushed |-> FALSE])
        /\ log' = [log EXCEPT ![Len(sent) + 1] = 1]
        /\ UNCHANGED env
     \/ Occur("row_failure") /\ UNCHANGED <<sent, log>>
  /\ UNCHANGED <<row, exam, erased, redis, limiter, flusher, left>>

\* push_heartbeat_presence: SET, then LPUSH.
SetKey(t) ==
  /\ pc[t] = "set" /\ Goto(t, IF req[t].op = "heartbeat" THEN "push" ELSE "idle")
  /\ \/ present' = present \cup {req[t].dev} /\ UNCHANGED env
     \/ Occur("write_refused") /\ UNCHANGED present
  /\ UNCHANGED <<list, limiter, tables, flusher, left, sent>>

Push(d) ==
  /\ Len(sent) < MaxBeats
  /\ sent' = Append(sent, [dev |-> d, pushed |-> TRUE])
  /\ list' = <<Len(sent) + 1>> \o list

PushBeat(t) ==
  /\ pc[t] = "push" /\ Goto(t, "idle")
  /\ \/ Push(req[t].dev) /\ UNCHANGED env
     \/ Occur("write_refused") /\ UNCHANGED <<sent, list>>
  /\ UNCHANGED <<present, limiter, tables, flusher, left>>

DeleteKey(t) ==
  /\ pc[t] = "del" /\ Goto(t, "idle")
  /\ \/ present' = present \ {req[t].dev} /\ UNCHANGED env
     \/ Occur("write_refused") /\ UNCHANGED present
  /\ UNCHANGED <<list, limiter, tables, flusher, left, sent>>

-----------------------------------------------------------------------------
(***************************************************************************)
(* HeartbeatFlusher, drain_heartbeats_once, drain_heartbeat_batch.         *)
(***************************************************************************)
Tick ==
  /\ fpc = "wait" /\ Spend("tick")
  /\ fpc' = "pop" /\ batches' = 0 /\ dead' = {}
  /\ UNCHANGED <<hand, tx, redis, limiter, tables, handlers, env, sent>>

\* RPOP; one whose answer is lost ends the batch.
Pop ==
  /\ fpc = "pop" /\ Len(hand) < BatchSize /\ list # <<>>
  /\ list' = Front(list)
  /\ \/ hand' = Append(hand, Last(list)) /\ UNCHANGED <<fpc, dead, env>>
     \/ /\ Occur("reply_lost") /\ dead' = dead \cup {"redis"}
        /\ fpc' = IF hand = <<>> THEN "wait" ELSE "rows"
        /\ UNCHANGED hand
  /\ UNCHANGED <<present, tx, batches, limiter, tables, handlers, left, sent>>

\* BEGIN, if anything was popped.
Begin ==
  /\ fpc = "pop"
  /\ Len(hand) = BatchSize \/ list = <<>>
  /\ fpc' = IF hand = <<>> THEN "wait" ELSE "rows"
  /\ UNCHANGED <<hand, tx, batches, dead, redis, limiter, tables, handlers, left, env, sent>>

\* A device whose row is shown without answers needs no placeholder; a row with
\* answers is asked for one, which ON CONFLICT DO NOTHING refuses.
NeverNeeded(d) == FALSE  \* mutant: need_empty is false until a row is read
NewPlaceholder(d) == row[d] = "none" /\ d \notin tx.placed

\* One payload between its savepoints.
WriteRow ==
  LET b == hand[tx.at]
      d == sent[b].dev IN
  /\ fpc = "rows" /\ tx.at <= Len(hand)
  /\ \/ /\ exam /\ UNCHANGED env
        /\ tx' = [logged |-> tx.logged \cup {b}, read |-> tx.read \cup {d}, at |-> tx.at + 1,
                  placed |-> IF NewPlaceholder(d) THEN tx.placed \cup {d} ELSE tx.placed]
     \/ /\ \/ ~exam /\ UNCHANGED env
           \/ Occur("row_failure")
        /\ tx' = [tx EXCEPT !.at = @ + 1]
  /\ UNCHANGED <<fpc, hand, batches, dead, redis, limiter, tables, handlers, left, sent>>

\* After a batch: the next one, unless this one was not full.
NextBatch(n) ==
  /\ batches' = batches + 1
  /\ fpc' = IF n = BatchSize /\ batches + 1 < MaxBatches THEN "pop" ELSE "wait"

Applied ==
  /\ log' = [b \in Beats |-> log[b] + IF b \in tx.logged THEN 1 ELSE 0]
  /\ row' = [d \in Devices |-> IF d \in tx.placed THEN "placeholder" ELSE row[d]]
  /\ erased' = erased \ tx.read

Commit ==
  /\ fpc = "rows" /\ tx.at > Len(hand)
  /\ tx' = NoTx
  /\ \/ "pg" \notin dead /\ Applied /\ NextBatch(Len(hand)) /\ hand' = <<>> /\ UNCHANGED <<dead, env>>
     \/ /\ \/ "pg" \in dead /\ UNCHANGED <<log, row, erased, env>>
           \/ "pg" \notin dead /\ Occur("tx_failure") /\ UNCHANGED <<log, row, erased>>
           \/ "pg" \notin dead /\ Occur("commit_unknown") /\ Applied
        /\ dead' = dead \cup {"pg"}
        /\ fpc' = "requeue" /\ batches' = batches
        /\ hand' = hand
  /\ UNCHANGED <<exam, redis, limiter, handlers, left, sent>>

\* requeue: LPUSH of one payload after the other, unchecked.
Requeue ==
  /\ fpc = "requeue" /\ tx.at <= Len(hand)
  /\ \/ "redis" \notin dead /\ list' = <<hand[tx.at]>> \o list /\ UNCHANGED env
     \/ "redis" \in dead /\ UNCHANGED <<list, env>>
     \/ Occur("write_refused") /\ UNCHANGED list
  /\ tx' = [tx EXCEPT !.at = @ + 1]
  /\ UNCHANGED <<present, fpc, hand, batches, dead, limiter, tables, handlers, left, sent>>

Requeued ==
  /\ fpc = "requeue" /\ tx.at > Len(hand)
  /\ NextBatch(Len(hand)) /\ hand' = <<>> /\ tx' = NoTx
  /\ UNCHANGED <<dead, redis, limiter, tables, handlers, left, env, sent>>

-----------------------------------------------------------------------------
(***************************************************************************)
(* The other writers of the table, time, and the end of the process.       *)
(***************************************************************************)
\* The worker's upsert waits for a placeholder that is not committed.
StoreAnswers(d) ==
  /\ Spend("answers") /\ exam /\ d \notin tx.placed
  /\ row' = [row EXCEPT ![d] = "answers"]
  /\ UNCHANGED <<log, exam, erased, redis, limiter, handlers, flusher, env, sent>>

\* delete_submission.
DeleteSubmission(d) ==
  /\ Spend("delete") /\ row[d] # "none"
  /\ row' = [row EXCEPT ![d] = "none"]
  /\ erased' = erased \cup {d}
  /\ tx' = [tx EXCEPT !.read = @ \ {d}]
  /\ UNCHANGED <<log, exam, fpc, hand, batches, dead, redis, limiter, handlers, env, sent>>

\* The rows of the exam go with it; a transaction that refers to it is waited for.
DeleteExam ==
  /\ Spend("delete") /\ exam /\ tx.logged = {}
  /\ exam' = FALSE /\ row' = [d \in Devices |-> "none"]
  /\ UNCHANGED <<log, erased, redis, limiter, handlers, flusher, env, sent>>

KeyExpires(d) ==
  /\ Spend("time") /\ d \in present
  /\ present' = present \ {d}
  /\ UNCHANGED <<list, limiter, tables, handlers, flusher, env, sent>>

\* 60 seconds pass for a counter that expires; a minute, for the map.
WindowEnds(d) ==
  /\ Spend("time")
  /\ \/ counter[d].ttl /\ counter' = [counter EXCEPT ![d] = [n |-> 0, ttl |-> FALSE]] /\ UNCHANGED fallback
     \/ fallback[d] > 0 /\ fallback' = [fallback EXCEPT ![d] = 0] /\ UNCHANGED counter
  /\ UNCHANGED <<redis, tables, handlers, flusher, env, sent>>

\* The process dies and comes back.
Crash ==
  /\ Occur("crash")
  /\ pc' = [t \in Threads |-> "idle"] /\ req' = [t \in Threads |-> NoReq]
  /\ fallback' = [d \in Devices |-> 0]
  /\ fpc' = "wait" /\ hand' = <<>> /\ tx' = NoTx /\ batches' = 0 /\ dead' = {}
  /\ UNCHANGED <<redis, counter, tables, left, sent>>

PresenceInit ==
  /\ present = {} /\ list = <<>>
  /\ counter = [d \in Devices |-> [n |-> 0, ttl |-> FALSE]]
  /\ fallback = [d \in Devices |-> 0]
  /\ log = [b \in Beats |-> 0] /\ row = [d \in Devices |-> "none"] /\ exam = TRUE
  /\ pc = [t \in Threads |-> "idle"] /\ req = [t \in Threads |-> NoReq]
  /\ fpc = "wait" /\ hand = <<>> /\ tx = NoTx /\ batches = 0 /\ dead = {}
  /\ left \in Workloads /\ env = [e \in Events |-> 0]
  /\ sent = <<>> /\ erased = {}

Serve(t) ==
  \/ AccessLog(t) \/ CompleteExam(t) \/ Expire(t) \/ Gate(t)
  \/ Insert(t) \/ SetKey(t) \/ PushBeat(t) \/ DeleteKey(t)

Flush == Tick \/ Pop \/ Begin \/ WriteRow \/ Commit \/ Requeue \/ Requeued

-----------------------------------------------------------------------------
PresenceTypeOK ==
  /\ present \subseteq Devices /\ list \in Seq(Beats)
  /\ counter \in [Devices -> [n : Nat, ttl : BOOLEAN]]
  /\ fallback \in [Devices -> 0..FallbackLimit]
  /\ log \in [Beats -> Nat] /\ exam \in BOOLEAN
  /\ row \in [Devices -> {"none", "placeholder", "answers"}]
  /\ pc \in [Threads -> {"idle", "expire", "gate", "insert", "set", "push", "del"}]
  /\ req \in [Threads -> [op : {"none", "login", "heartbeat", "logout", "complete"},
                          dev : Devices \cup {"none"}]]
  /\ fpc \in {"wait", "pop", "rows", "requeue"}
  /\ hand \in Seq(Beats) /\ Len(hand) <= BatchSize
  /\ tx \in [logged : SUBSET Beats, placed : SUBSET Devices, read : SUBSET Devices, at : Nat]
  /\ batches \in 0..MaxBatches /\ dead \subseteq {"pg", "redis"}
  /\ left \in [Kinds -> Nat] /\ env \in [Events -> Nat]
  /\ sent \in Seq([dev : Devices, pushed : BOOLEAN]) /\ erased \subseteq Devices

\* The payloads that drain_heartbeat_batch still has to settle.
InHand(b) == \E i \in DOMAIN hand : hand[i] = b /\ (fpc = "requeue" => i >= tx.at)
Listed(b) == {i \in DOMAIN list : list[i] = b}

\* A heartbeat is in one place, and recorded once.
RecordedOnce ==
  env["commit_unknown"] = 0 =>
    \A b \in Beats : log[b] + Cardinality(Listed(b)) + (IF InHand(b) THEN 1 ELSE 0) <= 1

\* None is lost without a crash, a refused command, a lost answer or a row that
\* the database refuses.
NoBeatLost ==
  (exam /\ \A k \in {"crash", "write_refused", "reply_lost", "row_failure"} : env[k] = 0)
  => \A b \in DOMAIN sent : log[b] > 0 \/ Listed(b) # {} \/ InHand(b)

\* A device whose heartbeat was recorded is shown to the proctor, unless its row
\* was deleted since.
RecordedIsShown ==
  exam => \A b \in DOMAIN sent :
    sent[b].pushed /\ log[b] > 0 => row[sent[b].dev] # "none" \/ sent[b].dev \in erased

\* drain_heartbeat_batch against handlers, workers, deletions and failures of
\* its transaction.
HeartbeatLedger == RecordedOnce /\ NoBeatLost /\ RecordedIsShown

\* rate_limit_allowed: a counter that does not expire has a thread on the way to
\* make it expire, whoever else counts meanwhile; else the device would be
\* refused for ever.  A crash, a refused EXPIRE or a lost answer to INCR are
\* what leaves such a counter behind.
LimiterReleases ==
  \A d \in Devices :
    counter[d].n > 0 /\ ~counter[d].ttl =>
      \/ \E t \in Threads : pc[t] = "expire" /\ req[t].dev = d
      \/ \E k \in {"crash", "write_refused", "reply_lost"} : env[k] > 0
===============================================================================
