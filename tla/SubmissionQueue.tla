--------------------------- MODULE SubmissionQueue ---------------------------
(***************************************************************************)
(* The asynchronous submission pipeline of EXAMVAN-Opt: the Redis lists of *)
(* SubmissionQueue, the Worker (several BRPOP threads, one batch thread)   *)
(* and the PostgreSQL transaction that stores a batch of answers.          *)
(*                                                                         *)
(*   HTTP handler --LPUSH--> pending --BRPOP--> worker --> batch_q         *)
(*       --> batch thread --COMMIT--> submissions row, result key          *)
(*                        --failure--> pending again | dead letter | spool *)
(*                                                                         *)
(* What the environment may do to the pipeline (failures, restarts, a      *)
(* shutdown) is bounded by MaxEvents, one bound per kind of event.         *)
(***************************************************************************)
EXTENDS Naturals, Sequences, FiniteSets

CONSTANTS
  Jobs,         \* the submissions, numbered in the order they are queued
  Devices,      \* one (exam_id, mac_address) pair each
  DevOf,        \* DevOf[j]: the device that sent job j
  Workers,      \* BRPOP threads (kWorkerCount = 8 in the code)
  kMaxRetries,  \* 3 in the code
  MaxEvents     \* MaxEvents[k]: how often event k may happen

\* What may happen to the pipeline, one bound for each in MaxEvents, and one
\* ("any") for all of them together.
Events == {"pg_unreachable", "tx_failure", "row_failure", "release_failure",
           "commit_unknown", "revoke_failure", "write_refused", "reply_lost",
           "conn_lost", "redis_down", "result_expiry", "crash", "stop",
           "restart", "any"}

\* Redis connections are thread_local: one per worker, one of the batch
\* thread, one of the main thread (used only by the drain of Worker::stop).
CONSTANTS BatchThread, MainThread
Threads == Workers \cup {BatchThread, MainThread}

ASSUME QueueAssumption ==
  /\ Jobs \subseteq Nat \ {0}
  /\ DevOf \in [Jobs -> Devices]
  /\ kMaxRetries \in Nat
  /\ MaxEvents \in [Events -> Nat]
  /\ IsFiniteSet(Workers)
  /\ BatchThread \notin Workers
  /\ MainThread \notin Workers
  /\ BatchThread # MainThread

NoJob   == 0
NoEntry == [job |-> NoJob, retries |-> 0]
Entry   == [job : Jobs, retries : 0..kMaxRetries]
Row     == [kind : {"absent", "placeholder", "pending", "scored"},
            job  : Jobs \cup {NoJob}]

-----------------------------------------------------------------------------
VARIABLES
  queue,      \* list examvan:submissions:pending, next to be popped first
  dead,       \* jobs on the failed list (kFailedQueueKey)
  spool,      \* jobs on the local spool file
  result,     \* result[j]: JobResult key of job j
  redisUp,    \* Redis answers
  conn,       \* conn[t]: the thread_local redis context of thread t
  row,        \* row[d]: the submissions row of device d
  approval,   \* approval[d]: the exam_approvals row of device d
  wpc,        \* wpc[w]: where worker thread w is
  hand,       \* hand[w]: the entry worker w has popped and not yet pushed
  batchQ,     \* Worker::batch_q_
  bpc,        \* where the batch thread is
  batch,      \* entries of the open batch not yet written
  written,    \* written in the open transaction: [Devices -> job]
  aborted,    \* PostgreSQL has marked the open transaction as aborted
  persisted,  \* run_batch's persisted vector
  failed,     \* run_batch's failed vector
  running,    \* Worker::running_
  mainpc,     \* where main() is in its shutdown
  rest,       \* what Worker::stop still has to drain
  submitted,  \* history: jobs answered with 202
  refused,    \* history: jobs answered with 503 after all, yet queued
  saved,      \* history: jobs whose answers a COMMIT has stored
  env         \* env[k]: how often event k has happened

redisVars  == <<queue, dead, spool, result, redisUp>>
dbVars     == <<row, approval>>
workerVars == <<wpc, hand, batchQ>>
batchVars  == <<bpc, batch, written, aborted, persisted, failed>>
mainVars   == <<running, mainpc, rest>>
history    == <<submitted, refused, saved>>
vars == <<redisVars, conn, dbVars, workerVars, batchVars, mainVars, history,
          env>>

Occur(k) == /\ env[k] < MaxEvents[k] /\ env["any"] < MaxEvents["any"]
            /\ env' = [x \in Events |-> IF x \in {k, "any"} THEN env[x] + 1
                                        ELSE env[x]]

NothingWritten == [d \in Devices |-> NoJob]

-----------------------------------------------------------------------------
(***************************************************************************)
(* The redis context of a thread is created at its first use and is never  *)
(* created again: a context that has met an error stays unusable.          *)
(***************************************************************************)
Reaches(t) == redisUp /\ conn[t] # "dead"

Touch(t) == conn' = [conn EXCEPT ![t] = IF Reaches(t) THEN "ok" ELSE "dead"]

(***************************************************************************)
(* SubmissionQueue::push_failed and store_result(success=false): the       *)
(* failed list when its LPUSH succeeds, else the local spool file; then    *)
(* the result key, best effort.                                            *)
(***************************************************************************)
DeadLetteredOnRedisOnly(j, onRedis, told) ==  \* mutant: no spool (P37-G14)
  /\ dead'   = IF onRedis THEN dead \cup {j} ELSE dead
  /\ spool'  = spool
  /\ result' = IF told THEN [result EXCEPT ![j] = "failed"] ELSE result

DeadLetteredNowhere(j, onRedis, told) ==  \* mutant: no push_failed (P21-T5)
  /\ UNCHANGED <<dead, spool>>
  /\ result' = IF told THEN [result EXCEPT ![j] = "failed"] ELSE result

DeadLetteredUntold(j, onRedis, told) ==  \* mutant: no store_result
  /\ dead'   = IF onRedis THEN dead \cup {j} ELSE dead
  /\ spool'  = IF onRedis THEN spool ELSE spool \cup {j}
  /\ result' = result

DeadLettered(j, onRedis, told) ==
  /\ dead'   = IF onRedis THEN dead \cup {j} ELSE dead
  /\ spool'  = IF onRedis THEN spool ELSE spool \cup {j}
  /\ result' = IF told THEN [result EXCEPT ![j] = "failed"] ELSE result

(***************************************************************************)
(* What run_batch and stop do with an entry that was not stored: once more *)
(* on the pending list while it has retries left (checked_requeue), else   *)
(* the dead letter.  Thread t issues the commands.                         *)
(***************************************************************************)
MayRetryOnceTooOften(e) == e.retries <= kMaxRetries  \* mutant

MayRetry(e) == e.retries < kMaxRetries
Requeued(e) == Append(queue, [e EXCEPT !.retries = @ + 1])

Reinstate(t, e) ==
  \/ /\ MayRetry(e) /\ Reaches(t)
     /\ Touch(t)
     /\ queue' = Requeued(e)
     /\ UNCHANGED <<dead, spool, result, env>>
  \/ /\ ~MayRetry(e) \/ ~Reaches(t)
     /\ Touch(t)
     /\ DeadLettered(e.job, Reaches(t), Reaches(t))
     /\ UNCHANGED <<queue, env>>
  \* Redis answers a write with an error (maxmemory), perhaps later ones too.
  \/ /\ Reaches(t) /\ Occur("write_refused")
     /\ Touch(t)
     /\ \E onRedis, told \in BOOLEAN :
          /\ onRedis => MayRetry(e)
          /\ DeadLettered(e.job, onRedis, told)
     /\ UNCHANGED queue
  \* The LPUSH took effect and the connection broke before its reply.
  \/ /\ Reaches(t) /\ MayRetry(e) /\ Occur("reply_lost")
     /\ conn' = [conn EXCEPT ![t] = "dead"]
     /\ queue' = Requeued(e)
     /\ DeadLettered(e.job, FALSE, FALSE)

-----------------------------------------------------------------------------
(***************************************************************************)
(* The producer: a handler has accepted job j and LPUSHes it (the function *)
(* enqueue_job_to_redis).  It reconnects by itself, so only Redis being    *)
(* down makes it answer 503.  When the reply to the first LPUSH is lost it *)
(* LPUSHes the payload again on a new connection, or answers 503 when it   *)
(* gets none.                                                              *)
(***************************************************************************)
Enqueue(j) ==
  /\ mainpc = "run" /\ redisUp
  /\ j \notin submitted \cup refused
  /\ LET e == [job |-> j, retries |-> 0] IN
       \/ /\ queue' = Append(queue, e)
          /\ submitted' = submitted \cup {j}
          /\ UNCHANGED <<refused, env>>
       \/ /\ Occur("reply_lost")
          /\ queue' = Append(Append(queue, e), e)
          /\ submitted' = submitted \cup {j}
          /\ UNCHANGED refused
       \/ /\ Occur("reply_lost")
          /\ queue' = Append(queue, e)
          /\ refused' = refused \cup {j}
          /\ UNCHANGED submitted
  /\ UNCHANGED <<dead, spool, result, redisUp, conn, dbVars, workerVars,
                 batchVars, mainVars, saved>>

-----------------------------------------------------------------------------
(***************************************************************************)
(* Worker::run_worker.  A thread is inside BRPOP, or holds an entry it is  *)
(* scoring, or has left its loop.                                          *)
(***************************************************************************)
LoopForever == "brpop"  \* mutant: the loop does not look at running_

LoopAgain == IF running THEN "brpop" ELSE "exited"

Peeked == queue  \* mutant: the entry is read but not removed

Popped == Tail(queue)

WorkerPop(w) ==
  /\ wpc[w] = "brpop"
  /\ Reaches(w) /\ queue # <<>>
  /\ Touch(w)
  /\ hand'  = [hand EXCEPT ![w] = Head(queue)]
  /\ queue' = Popped
  /\ wpc'   = [wpc EXCEPT ![w] = "scoring"]
  /\ UNCHANGED <<dead, spool, result, redisUp, dbVars, batchQ, batchVars,
                 mainVars, history, env>>

\* BRPOP gives nothing (its 5 s timeout, or a dead connection).
WorkerPopNothing(w) ==
  /\ wpc[w] = "brpop"
  /\ queue = <<>> \/ ~Reaches(w)
  /\ Touch(w)
  /\ wpc' = [wpc EXCEPT ![w] = LoopAgain]
  /\ UNCHANGED <<redisVars, dbVars, hand, batchQ, batchVars, mainVars, history,
                 env>>

\* The worker's connection breaks, perhaps after Redis removed the entry it
\* was about to return.
WorkerConnLost(w) ==
  /\ wpc[w] = "brpop"
  /\ Reaches(w) /\ Occur("conn_lost")
  /\ conn' = [conn EXCEPT ![w] = "dead"]
  /\ \/ queue' = queue
     \/ queue # <<>> /\ queue' = Tail(queue)
  /\ wpc' = [wpc EXCEPT ![w] = LoopAgain]
  /\ UNCHANGED <<dead, spool, result, redisUp, dbVars, hand, batchQ, batchVars,
                 mainVars, history>>

\* The score is computed, the entry goes to batch_q_, the loop is re-entered.
WorkerPush(w) ==
  /\ wpc[w] = "scoring"
  /\ batchQ' = Append(batchQ, hand[w])
  /\ hand'   = [hand EXCEPT ![w] = NoEntry]
  /\ wpc'    = [wpc EXCEPT ![w] = LoopAgain]
  /\ UNCHANGED <<redisVars, conn, dbVars, batchVars, mainVars, history, env>>

-----------------------------------------------------------------------------
(***************************************************************************)
(* Worker::run_batch, one action per step that others can see.  Taking the *)
(* batch, getting a connection and BEGIN are one of them.                  *)
(***************************************************************************)
BatchTake ==
  /\ bpc = "wait" /\ batchQ # <<>>
  /\ batchQ' = <<>>
  /\ \/ batch' = batchQ /\ bpc' = "tx" /\ UNCHANGED <<failed, env>>
     \* with_global_pg gets no connection and returns without calling the
     \* lambda: this iteration's persisted and failed vectors stay empty.
     \/ Occur("pg_unreachable") /\ UNCHANGED <<batch, bpc, failed>>
     \* The lambda's own connection or BEGIN fails: failed = batch.
     \/ /\ Occur("tx_failure") /\ failed' = batchQ /\ bpc' = "settle"
        /\ UNCHANGED batch
  /\ UNCHANGED <<redisVars, conn, dbVars, wpc, hand, written, aborted,
                 persisted, mainVars, history>>

BatchExit ==
  /\ bpc = "wait" /\ ~running /\ batchQ = <<>>
  /\ bpc' = "exited"
  /\ UNCHANGED <<redisVars, conn, dbVars, workerVars, batch, written, aborted,
                 persisted, failed, mainVars, history, env>>

\* SAVEPOINT, advisory lock, UPDATE or INSERT ... ON CONFLICT DO UPDATE,
\* RELEASE: the row of the job's device now carries this job.
BatchWrite ==
  /\ bpc = "tx" /\ batch # <<>> /\ ~aborted
  /\ LET e == Head(batch) IN
       /\ written'   = [written EXCEPT ![DevOf[e.job]] = e.job]
       /\ persisted' = Append(persisted, e)
  /\ batch' = Tail(batch)
  /\ UNCHANGED <<redisVars, conn, dbVars, workerVars, bpc, aborted, failed,
                 mainVars, history, env>>

\* Only this job fails.  A failed statement is undone by ROLLBACK TO
\* SAVEPOINT; a failed RELEASE is not, and leaves the transaction aborted:
\* the next job's SAVEPOINT then fails and its ROLLBACK TO repairs it.
BatchWriteFails ==
  /\ bpc = "tx" /\ batch # <<>>
  /\ \/ aborted /\ aborted' = FALSE /\ UNCHANGED env
     \/ ~aborted /\ aborted' = FALSE /\ Occur("row_failure")
     \/ ~aborted /\ aborted' = TRUE /\ Occur("release_failure")
  /\ failed' = Append(failed, Head(batch))
  /\ batch'  = Tail(batch)
  /\ UNCHANGED <<redisVars, conn, dbVars, workerVars, bpc, written, persisted,
                 mainVars, history>>

JobsIn(s) == {s[i].job : i \in DOMAIN s}

\* The server has executed COMMIT: rows change, an approval that let a saved
\* device in is spent (deleting it is the next step).
Committed ==
  /\ row' = [d \in Devices |-> IF written[d] = NoJob THEN row[d]
                               ELSE [kind |-> "scored", job |-> written[d]]]
  /\ approval' = [d \in Devices |->
                    IF written[d] # NoJob /\ approval[d] = "granted"
                    THEN "spent" ELSE approval[d]]
  /\ saved' = saved \cup JobsIn(persisted)

NothingCommitted == UNCHANGED <<dbVars, saved>>

TxLeftOpen == UNCHANGED <<written, aborted>>  \* mutant: no end of the BEGIN

TxEnds == written' = NothingWritten /\ aborted' = FALSE

\* COMMIT answers PGRES_COMMAND_OK: also for an aborted transaction, which it
\* rolls back (run_batch does not look at the command tag).
BatchCommit ==
  /\ bpc = "tx" /\ batch = <<>>
  /\ IF aborted THEN NothingCommitted ELSE Committed
  /\ TxEnds
  /\ bpc' = "revoke"
  /\ UNCHANGED <<redisVars, conn, workerVars, batch, persisted, failed,
                 mainVars, submitted, refused, env>>

CommitUnchecked ==  \* mutant: the result of COMMIT is not looked at
  UNCHANGED <<failed, persisted>>

CommitFailedTwice ==  \* mutant: persisted.clear() forgotten
  failed' = failed \o persisted /\ persisted' = persisted

CommitFailed == failed' = failed \o persisted /\ persisted' = <<>>

\* COMMIT reports no success: every entry fails.  Either nothing was
\* committed, or it was and only the answer got lost.
BatchCommitFails ==
  /\ bpc = "tx" /\ batch = <<>>
  /\ \/ Occur("tx_failure") /\ NothingCommitted
     \/ Occur("commit_unknown") /\ ~aborted /\ Committed
  /\ TxEnds
  /\ CommitFailed
  /\ bpc' = "settle"
  /\ UNCHANGED <<redisVars, conn, workerVars, batch, mainVars, submitted,
                 refused>>

RevokesNothing == {}  \* mutant: no DELETE after COMMIT (before P17-C4)

ToRevoke == {DevOf[j] : j \in JobsIn(persisted)}

\* DELETE FROM exam_approvals for every persisted job, outside the
\* transaction and unchecked.
BatchRevoke ==
  /\ bpc = "revoke"
  /\ \/ /\ approval' = [d \in Devices |-> IF d \in ToRevoke THEN "none"
                                         ELSE approval[d]]
        /\ UNCHANGED env
     \/ Occur("revoke_failure") /\ UNCHANGED approval
  /\ bpc' = "settle"
  /\ UNCHANGED <<redisVars, conn, row, workerVars, batch, written, aborted,
                 persisted, failed, mainVars, history>>

\* After one common back-off sleep, each failed entry is put back.
BatchReinstate ==
  /\ bpc = "settle" /\ failed # <<>>
  /\ Reinstate(BatchThread, Head(failed))
  /\ failed' = Tail(failed)
  /\ UNCHANGED <<redisUp, dbVars, workerVars, bpc, batch, written, aborted,
                 persisted, mainVars, history>>

\* Then the result of each persisted entry is stored (best effort).
BatchReport ==
  /\ bpc = "settle" /\ failed = <<>> /\ persisted # <<>>
  /\ Touch(BatchThread)
  /\ \/ /\ Reaches(BatchThread)
        /\ result' = [result EXCEPT ![Head(persisted).job] = "ok"]
        /\ UNCHANGED env
     \/ ~Reaches(BatchThread) /\ UNCHANGED <<result, env>>
     \/ Reaches(BatchThread) /\ Occur("write_refused") /\ UNCHANGED result
  /\ persisted' = Tail(persisted)
  /\ UNCHANGED <<queue, dead, spool, redisUp, dbVars, workerVars, bpc, batch,
                 written, aborted, failed, mainVars, history>>

BatchDone ==
  /\ bpc = "settle" /\ failed = <<>> /\ persisted = <<>>
  /\ bpc' = "wait"
  /\ UNCHANGED <<redisVars, conn, dbVars, workerVars, batch, written, aborted,
                 persisted, failed, mainVars, history, env>>

-----------------------------------------------------------------------------
(***************************************************************************)
(* main() and Worker::stop: running_ is cleared, the batch thread and the  *)
(* workers are joined, then what is left in batch_q_ is put back.          *)
(***************************************************************************)
Stop ==
  /\ mainpc = "run"
  /\ Occur("stop")
  /\ running' = FALSE
  /\ mainpc'  = "joining"
  /\ UNCHANGED <<redisVars, conn, dbVars, workerVars, batchVars, rest,
                 history>>

JoinedBatchOnly == bpc = "exited"  \* mutant: the workers are not joined

Joined == bpc = "exited" /\ \A w \in Workers : wpc[w] = "exited"

StopDrain ==
  /\ mainpc = "joining" /\ Joined
  /\ rest'   = batchQ
  /\ batchQ' = <<>>
  /\ mainpc' = "draining"
  /\ UNCHANGED <<redisVars, conn, dbVars, wpc, hand, batchVars, running,
                 history, env>>

StopReinstate ==
  /\ mainpc = "draining" /\ rest # <<>>
  /\ Reinstate(MainThread, Head(rest))
  /\ rest' = Tail(rest)
  /\ UNCHANGED <<redisUp, dbVars, workerVars, batchVars, running, mainpc,
                 history>>

StopDone ==
  /\ mainpc = "draining" /\ rest = <<>>
  /\ mainpc' = "exited"
  /\ UNCHANGED <<redisVars, conn, dbVars, workerVars, batchVars, running, rest,
                 history, env>>

-----------------------------------------------------------------------------
\* The process dies: everything in its memory is gone, an open transaction
\* is rolled back.
Crash ==
  /\ mainpc # "exited"
  /\ Occur("crash")
  /\ wpc'  = [w \in Workers |-> "exited"]
  /\ hand' = [w \in Workers |-> NoEntry]
  /\ batchQ' = <<>> /\ batch' = <<>> /\ persisted' = <<>> /\ failed' = <<>>
  /\ rest' = <<>>
  /\ written' = NothingWritten /\ aborted' = FALSE
  /\ bpc' = "exited" /\ mainpc' = "exited" /\ running' = FALSE
  /\ UNCHANGED <<redisVars, conn, dbVars, history>>

\* A new process: Worker::start is called once, if Redis answers at boot.
Restart ==
  /\ mainpc = "exited"
  /\ Occur("restart")
  /\ conn'    = [t \in Threads |-> "unset"]
  /\ wpc'     = [w \in Workers |-> IF redisUp THEN "brpop" ELSE "exited"]
  /\ bpc'     = IF redisUp THEN "wait" ELSE "exited"
  /\ running' = redisUp
  /\ mainpc'  = "run"
  /\ UNCHANGED <<redisVars, dbVars, hand, batchQ, batch, written, aborted,
                 persisted, failed, rest, history>>

\* Redis goes away: every open context meets an error.  It keeps its data.
RedisDown ==
  /\ redisUp
  /\ Occur("redis_down")
  /\ redisUp' = FALSE
  /\ conn' = [t \in Threads |-> IF conn[t] = "ok" THEN "dead" ELSE conn[t]]
  /\ UNCHANGED <<queue, dead, spool, result, dbVars, workerVars, batchVars,
                 mainVars, history>>

RedisBack ==
  /\ ~redisUp
  /\ redisUp' = TRUE
  /\ UNCHANGED <<queue, dead, spool, result, conn, dbVars, workerVars,
                 batchVars, mainVars, history, env>>

\* A result key lives for 3600 s.
ResultExpires(j) ==
  /\ result[j] # "none"
  /\ Occur("result_expiry")
  /\ result' = [result EXCEPT ![j] = "none"]
  /\ UNCHANGED <<queue, dead, spool, redisUp, conn, dbVars, workerVars,
                 batchVars, mainVars, history>>

\* A teacher approves the device (admin set_approval).
Approve(d) ==
  /\ approval[d] # "granted"
  /\ approval' = [approval EXCEPT ![d] = "granted"]
  /\ UNCHANGED <<redisVars, conn, row, workerVars, batchVars, mainVars,
                 history, env>>

-----------------------------------------------------------------------------
Init ==
  /\ queue = <<>> /\ dead = {} /\ spool = {}
  /\ result = [j \in Jobs |-> "none"]
  /\ redisUp = TRUE
  /\ conn = [t \in Threads |-> "unset"]
  /\ row = [d \in Devices |-> [kind |-> "absent", job |-> NoJob]]
  /\ approval = [d \in Devices |-> "none"]
  /\ wpc = [w \in Workers |-> "brpop"]
  /\ hand = [w \in Workers |-> NoEntry]
  /\ batchQ = <<>>
  /\ bpc = "wait" /\ batch = <<>> /\ persisted = <<>> /\ failed = <<>>
  /\ written = NothingWritten /\ aborted = FALSE
  /\ running = TRUE /\ mainpc = "run" /\ rest = <<>>
  /\ submitted = {} /\ refused = {} /\ saved = {}
  /\ env = [k \in Events |-> 0]

\* Jobs are numbered in the order in which they are queued.
Produce == \E j \in Jobs :
             /\ \A i \in Jobs : i < j => i \in submitted \cup refused
             /\ Enqueue(j)

WorkerStep(w) == WorkerPop(w) \/ WorkerPopNothing(w) \/ WorkerConnLost(w)
                 \/ WorkerPush(w)

BatchStep == BatchTake \/ BatchExit \/ BatchWrite \/ BatchWriteFails \/ BatchCommit
             \/ BatchCommitFails \/ BatchRevoke \/ BatchReinstate
             \/ BatchReport \/ BatchDone

StopStep == Stop \/ StopDrain \/ StopReinstate \/ StopDone

Surroundings == Crash \/ Restart \/ RedisDown \/ RedisBack
                \/ (\E j \in Jobs : ResultExpires(j))
                \/ (\E d \in Devices : Approve(d))

Next == \/ Produce
        \/ \E w \in Workers : WorkerStep(w)
        \/ BatchStep
        \/ StopStep
        \/ Surroundings

Spec == Init /\ [][Next]_vars

(***************************************************************************)
(* The threads of a running process are scheduled, main() finishes a       *)
(* shutdown it began, and an outage of Redis ends.  Nothing obliges        *)
(* clients to submit, teachers to approve or the environment to fail.      *)
(***************************************************************************)
Fairness == /\ \A w \in Workers : WF_vars(WorkerStep(w))
            /\ WF_vars(BatchStep)
            /\ WF_vars(StopDrain \/ StopReinstate \/ StopDone)
            /\ WF_vars(RedisBack)

FairSpec == Spec /\ Fairness

-----------------------------------------------------------------------------
(***************************************************************************)
(* Properties.                                                             *)
(***************************************************************************)
\* Every variable has its type; in particular no entry is ever queued with
\* more than kMaxRetries retries, however often it is put back.
TypeOK ==
  /\ queue \in Seq(Entry) /\ dead \subseteq Jobs /\ spool \subseteq Jobs
  /\ result \in [Jobs -> {"none", "ok", "failed"}]
  /\ redisUp \in BOOLEAN
  /\ conn \in [Threads -> {"unset", "ok", "dead"}]
  /\ row \in [Devices -> Row]
  /\ approval \in [Devices -> {"none", "granted", "spent"}]
  /\ wpc \in [Workers -> {"brpop", "scoring", "exited"}]
  /\ hand \in [Workers -> Entry \cup {NoEntry}]
  /\ batchQ \in Seq(Entry)
  /\ bpc \in {"wait", "tx", "revoke", "settle", "exited"}
  /\ batch \in Seq(Entry) /\ persisted \in Seq(Entry)
  /\ failed \in Seq(Entry) /\ rest \in Seq(Entry)
  /\ written \in [Devices -> Jobs \cup {NoJob}]
  /\ aborted \in BOOLEAN /\ running \in BOOLEAN
  /\ mainpc \in {"run", "joining", "draining", "exited"}
  /\ submitted \subseteq Jobs /\ refused \subseteq Jobs /\ saved \subseteq Jobs
  /\ env \in [Events -> Nat]

\* Jobs some thread of the process still holds.
InMemory == {hand[w].job : w \in {v \in Workers : wpc[v] = "scoring"}}
            \cup JobsIn(batchQ) \cup JobsIn(batch) \cup JobsIn(persisted)
            \cup JobsIn(failed) \cup JobsIn(rest)

\* Jobs whose answers someone can still find: stored, or on a durable list.
OnRecord == saved \cup JobsIn(queue) \cup dead \cup spool

\* The events that do lose entries in this code (see the README).
LosingEvents == {"pg_unreachable", "release_failure", "conn_lost", "crash"}

(***************************************************************************)
(* A submission answered with 202 never disappears without a trace,        *)
(* whatever fails between the pop and the COMMIT, whichever of Redis'      *)
(* answers is missing and whenever the process is stopped: "jejak          *)
(* durabilitas - jangan hilang diam-diam" (checked_requeue).               *)
(***************************************************************************)
NoSilentLoss ==
  (\A k \in LosingEvents : env[k] = 0)
  => submitted \subseteq InMemory \cup OnRecord

(***************************************************************************)
(* Worker::stop leaves nothing behind in memory: once main() has returned, *)
(* each accepted submission is stored or on a durable list.                *)
(***************************************************************************)
DrainedAtExit ==
  /\ mainpc = "exited"
  /\ \A k \in LosingEvents : env[k] = 0
  => submitted \subseteq OnRecord

(***************************************************************************)
(* A result "ok" is published only after the COMMIT that stored the job.   *)
(***************************************************************************)
SuccessIsDurable ==
  env["release_failure"] = 0 => \A j \in Jobs : result[j] = "ok" => j \in saved

(***************************************************************************)
(* Stored answers stay visible: a device with a stored job has a scored    *)
(* row, and a scored row carries a stored job of that very device, never   *)
(* one that an aborted transaction or a savepoint undid.                   *)
(***************************************************************************)
RowMatchesCommits ==
  /\ \A j \in saved : row[DevOf[j]].kind = "scored"
  /\ \A d \in Devices : row[d].kind = "scored" =>
       row[d].job \in {j \in saved : DevOf[j] = d}

(***************************************************************************)
(* A result "failed" leaves a trace that an operator can replay ...        *)
(***************************************************************************)
FailureLeavesTrail ==
  \A j \in Jobs : result[j] = "failed" => j \in dead \cup spool

\* ... and it is true unless the outcome of a COMMIT was unknown or an LPUSH
\* repeated.
FailureIsTruthful ==
  env["commit_unknown"] + env["reply_lost"] = 0 =>
    \A j \in Jobs : result[j] = "failed" => j \notin saved

(***************************************************************************)
(* An entry is never duplicated by the pipeline itself: it is in one place *)
(* (a list, a thread, the dead letter) at a time.  Only an LPUSH repeated  *)
(* or reported as failed although it took effect makes a second copy.      *)
(***************************************************************************)
Occurrences(j, s) == Cardinality({i \in DOMAIN s : s[i].job = j})
Copies(j) ==
  Occurrences(j, queue) + Occurrences(j, batchQ) + Occurrences(j, batch)
  + Occurrences(j, persisted) + Occurrences(j, failed) + Occurrences(j, rest)
  + Cardinality({w \in Workers : hand[w].job = j})
  + (IF j \in dead \cup spool THEN 1 ELSE 0)
SingleCopy == \A j \in Jobs : Copies(j) <= 1 + env["reply_lost"]

\* Retries, dead letters and results of a batch that fails half-way give a
\* submission neither a second copy nor a second outcome.
OneCopyOneOutcome == SingleCopy /\ FailureIsTruthful

(***************************************************************************)
(* P17-C4, "device tidak boleh re-enter / re-submit tanpa persetujuan      *)
(* baru": when a success is published, the approval that let the device in *)
(* before its answers were stored is gone, unless the DELETE failed.       *)
(***************************************************************************)
RevokedBeforeReport ==
  [][env["revoke_failure"] = 0 =>
       \A j \in Jobs : result[j] # "ok" /\ result'[j] = "ok"
                      => approval[DevOf[j]] # "spent"]_vars

(***************************************************************************)
(* A published success is final: it is never turned into a failure, except *)
(* when a second copy of the entry was queued.                             *)
(***************************************************************************)
SuccessIsFinal ==
  [][env["reply_lost"] = 0 =>
       \A j \in Jobs : result[j] = "ok" => result'[j] # "failed"]_vars

(***************************************************************************)
(* A settled submission stays settled: once a job is stored or put aside   *)
(* it never comes back to overwrite what its device's row shows.  (Two     *)
(* submissions in the pipeline at the same time may be stored in either    *)
(* order: the BRPOP threads and the retries do not keep the order.)        *)
(***************************************************************************)
NoResurrection ==
  [][env["commit_unknown"] + env["reply_lost"] = 0 =>
       \A d \in Devices : row'[d].job # row[d].job
                        => row'[d].job \notin saved \cup dead \cup spool]_vars

(***************************************************************************)
(* Liveness.  While the process runs and Redis is not lost, every accepted *)
(* submission is finally stored or put aside, whatever the database does   *)
(* (retry_backoff_ms and kMaxRetries leave no endless loop), and its       *)
(* sender can read a result.                                               *)
(***************************************************************************)
Undisturbed == /\ mainpc # "exited" /\ env["redis_down"] = 0
               /\ \A k \in LosingEvents : env[k] = 0

EverySubmissionSettles ==
  \A j \in Jobs :
    j \in submitted ~> j \in saved \cup dead \cup spool \/ ~Undisturbed

EverySubmissionAnswered ==
  \A j \in Jobs : j \in submitted ~> result[j] # "none" \/ ~Undisturbed

\* Both: the retries end, and the sender is told.
EverySubmissionEnds == EverySubmissionSettles /\ EverySubmissionAnswered

\* Worker::stop joins all threads and returns, whatever Redis and PostgreSQL
\* do meanwhile: no thread waits for a notification that was already sent.
ShutdownTerminates == mainpc = "joining" ~> mainpc = "exited"

(***************************************************************************)
(* The pipeline keeps the promises of JobLedger.  (The one exception in    *)
(* the code, an aborted transaction taken for a committed one, is the      *)
(* event release_failure.)                                                 *)
(***************************************************************************)
Ledger == INSTANCE JobLedger
            WITH taken     <- submitted \cup refused,
                 stored    <- saved,
                 abandoned <- dead \cup spool,
                 answer    <- result,
                 shown     <- [d \in Devices |-> row[d].job]

ImplementsLedger == Ledger!Spec

(***************************************************************************)
(* Statements of the repository's documents that the code does not meet.   *)
(***************************************************************************)
\* "matikan PG saat antrean berisi job ... pastikan queue_status.failed > 0
\* dan JobResult success:false tersimpan" (docs, pass 21): a database outage
\* loses no accepted submission.
OutageIsReported ==
  (\A k \in LosingEvents \ {"pg_unreachable"} : env[k] = 0)
  => submitted \subseteq InMemory \cup OnRecord

\* P37-G15: the workers survive a restart of Redis, the queue is consumed
\* again.
QueueConsumedAgain ==
  \A j \in Jobs : j \in JobsIn(queue) ~> j \notin JobsIn(queue)

=============================================================================
