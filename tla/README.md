# A TLA+ verification of EXAMVAN-Opt

EXAMVAN-Opt (`src/`, C++20) serves online exams: students' devices fetch an
exam by token, wait for a proctor's approval, send heartbeats and submit their
answers; teachers create exams, watch devices over a WebSocket and read the
results. PostgreSQL holds exams, submissions, approvals, accounts and vouchers;
Redis holds the submission queue, the heartbeat queue, result keys and locks.

Source paths below are relative to the repository's `src/`, without
the leading `src/src/` where the file name is unambiguous.

## 1. Inventory

| Component | State it keeps | Operations | Talks to |
|---|---|---|---|
| Submission pipeline (`queue/submission_queue.cpp`, `main.cpp`) | Redis lists `examvan:submissions:pending` and `...:failed`, result keys, a local spool file; `batch_q_`, `running_`, the vectors of `run_batch` | LPUSH by the producer; `run_worker` (BRPOP, score, push to `batch_q_`), `run_batch` (BEGIN, savepoint per row, COMMIT, revoke approvals, requeue, publish results), `stop` | Redis through thread_local connections, PostgreSQL through the pool |
| Student submission API (`handlers/api/exams.cpp`) | Idempotency-Key map of the process, placeholder rows | `submit_exam`, `exam_result` (poll), `complete_exam` | approvals, exam store, pipeline |
| Exam creation (`handlers/admin/exams.cpp`, `store/exam_store_postgres.cpp`) | idempotency rows: pending / completed | reserve, create, finalize, release | exam store, R2 |
| Exam store (`store/`) | exams in PostgreSQL (or in a memory map), the mutex `mu_` | add, update (whole record), claim_token, remove | every handler |
| Tokens (`services/examtoken`, `exam_by_token`) | the columns `token`, `active_token`, `token_last_reset_at` | rotate on a join, match | exam store, PostgreSQL beside it |
| Approvals (`request_approval`, `pengawas.cpp`, `jobs.cpp`) | `exam_approvals` rows, auto-approve flag | request (cap under an advisory lock), approve, reject, revoke, clean up | submission gate, worker |
| Heartbeats and presence (`submission_queue.cpp`, `exams.cpp`) | Redis heartbeat list, presence keys, access log, placeholder rows | push, drain every 30 s, complete | hub, submissions table |
| Background jobs (`jobs/jobs.cpp`, `redis/client.cpp`) | job lock key, in-process fallback map | acquire, run, release | exam store, approvals |
| Database pool (`db/pool_real.cpp`, `pool_global.hpp`) | idle connections | acquire, release, `with_global_pg` | everything that uses PostgreSQL |
| Redis connections (`redis/redis_real.cpp`, hooks in `main.cpp`) | one context per thread | connect, LPUSH, BRPOP, SET | pipeline, locks, rate limit |
| WebSocket hub (`websocket/hub.cpp`, `server.cpp`) | clients with a bounded outgoing queue, rooms | add, remove, broadcast in three locked sections, flush | heartbeat keys and list, teachers' monitors |
| HTTP server and lifecycle (`server/server.cpp`, `main.cpp`) | listeners, worker threads, the signal flag | start, serve, stop | everything |
| Accounts (`handlers/auth`, `webhook.cpp`, `admin/users.cpp`) | `admin_users` rows with code, attempts and expiry; the map `g_users` and the login failures of each process | register, confirm, resend, recover, login, webhook; create, delete, toggle, verify | PostgreSQL, mail, WhatsApp gateway |
| Vouchers and quotas (`handlers/admin/vouchers.cpp`) | vouchers, redemptions, the package and limits of a user | create (one, a batch), toggle, delete, redeem, activate; packages | accounts, row locks of PostgreSQL |
| Rate limiting (`middleware/ratelimit.cpp`, `exams.cpp`) | counters in Redis or memory | INCR/EXPIRE, sliding window | handlers |
| Scoring (`middleware/scoring.cpp`, `public/hasil.cpp`) | none | points of an answer sheet; the details and the maximum of the results page | worker, results page |
| Sessions, CSRF, R2, pages, router | none of their own beyond signed cookies | | |

### Behaviours that are hard

* The **submission path** crosses an HTTP thread, Redis, eight BRPOP threads,
  one batch thread, a transaction with savepoints and back to Redis. Every hop
  can fail alone, succeed without its answer arriving, or be cut by a shutdown
  or a crash. The correctness question is: what has been accepted is stored or
  left on a durable list, what is reported is true, nothing is stored for the
  wrong device or resurrected later.
* **Check-then-act** across locks or statements: Idempotency-Key, approvals at
  the gate against their revocation by the worker, the cap on approvals, token
  rotation against a teacher's edit, OTP confirmation against expiry.
* **Fallbacks**: most PostgreSQL and Redis calls have a memory fallback with
  another atomicity than the primary path.
* **Liveness** rests on connections that are opened once per thread, on a
  condition variable with a running flag, on bounded retries.

What makes each component correct is listed, at the line where it can go wrong,
under `hazards` in `PROJECT.json`.

## 2. Plan

All modules of the plan exist, in the order in which they were written:

1. **Submission pipeline**: `SubmissionQueue`, the abstract `JobLedger`, proofs in
   `SubmissionQueueProofs` and `SubmissionQueueCopies`.
2. **SubmitExam**: `submit_exam` and `exam_result` composed with `SubmissionQueue`;
   proofs in `SubmitExamProofs`.
3. **ExamStore**: whole-record updates under the mutex, token rotation, PDF
   objects, expiry, creation with its Idempotency-Key; proofs in `ExamStoreProofs`.
4. **Approvals**: cap under the advisory lock, proctors, cleanup and its job
   lock, the worker's revocation; proofs in `ApprovalsProofs`.
5. **Presence** (heartbeats, limiter, flusher), **Hub** (WebSocket room) and **Scoring**
   (points of a sheet), composed in **ExamDay**; proofs in `ExamDayProofs`.
6. **Accounts** (one-time codes, lockout, administration), extended by **Vouchers**
   (the transactions that redeem and activate); proofs in `VouchersProofs` and
   `VoucherLedgerProofs`.

What pairs best with the present modules next:

* theorems: every safety invariant and action property of a run is a theorem by now. What is left is to
  weaken the conditions that some of them carry (`PdfKept` with any number of failing R2 calls,
  `GuessesBounded` after a failing statement), and a queue whose batches overlap those of a second process;
* models: `update_exam` for several processes at once, with the caches of their stores.

The bookkeeping of the database pool was planned as a module and dropped: it is a stack of
idle connections under one mutex, and `acquire` opens a connection whenever the stack
is empty, so nobody waits. What its callers see of it (no connection, or a stale one) are events of the
modules above.

## 3. The modules

### `SubmissionQueue`

The whole pipeline in one module, because its properties relate the state of
all its actors. Correspondence:

| Variable | Code |
|---|---|
| `queue`, `dead`, `result` | `kPendingQueueKey`, `kFailedQueueKey`, the JobResult keys |
| `spool` | the file `push_failed` appends to when its LPUSH fails |
| `redisUp`, `conn` | the Redis server; the `static thread_local` contexts of `main.cpp:130-138` |
| `row`, `approval` | one `submissions` row per (exam, device), its `exam_approvals` row |
| `wpc`, `hand`, `batchQ` | `run_worker`: in BRPOP, scoring its entry, out of the loop; `batch_q_` |
| `bpc`, `batch`, `written`, `aborted`, `persisted`, `failed` | `run_batch`: waiting, in the transaction, before the DELETE of approvals, settling; its vectors; what the open transaction has written and whether the server has aborted it |
| `running`, `mainpc`, `rest` | `running_`, the progress of `main` through `stop` |
| `submitted`, `refused`, `saved` | history: answered 202; answered 503 although queued; stored by a COMMIT |
| `env` | how often each environment event has happened |

`approval` distinguishes `"granted"` before the answers of its device were
stored from `"spent"` (the same row after the COMMIT); only the DELETE or a new
decision of a proctor changes what the table holds. `row` keeps of a
submissions row whether it is scored and which job it shows.

One action per step that another actor can observe. Taking a batch, getting
a connection and BEGIN are one action; each row is one; COMMIT, the DELETE of
approvals, each requeue and each published result are one each. A `Reinstate` is
the LPUSH of `checked_requeue` with its dead letter, spool file and result, for
a given thread, since its outcome depends on that thread's connection.

What is abstracted: payloads, scores and messages (a job is a number); the
BRPOP timeout and the back-off sleep (a step that may be delayed); the maximal size
of a batch (32: `BatchTake` takes the whole `batch_q_`, the bound is above every
instance); the order inside the failed list. Of Redis calls that fail, these combinations are left out: in
`Reinstate` a dead letter that is listed while the SET of its result is refused (or whose reply is lost), in
`BatchReport` a SET whose reply is lost, in `Enqueue` two LPUSHes in a row whose replies are both lost. Each is
two failures that the model has one at a time (a result unwritten, one more copy), in a single call.

Environment events and what the code does with them:

| Event | Meaning |
|---|---|
| `pg_unreachable` | `with_global_pg` gets no connection and does not call the lambda |
| `tx_failure` | the connection, BEGIN or COMMIT fails |
| `row_failure`, `release_failure` | a row's statement fails and is rolled back; RELEASE SAVEPOINT fails, and the transaction stays aborted |
| `commit_unknown` | COMMIT took effect, its answer did not arrive |
| `revoke_failure` | the DELETE of approvals fails |
| `write_refused`, `reply_lost` | Redis refuses an LPUSH or SET; executes it and the reply is lost |
| `conn_lost`, `redis_down` | one worker's connection breaks; Redis goes away (and comes back with its data) |
| `result_expiry` | a result key reaches its 3600 s |
| `crash`, `stop`, `restart` | the process dies; SIGTERM; a new process |

Assumed of the environment: Redis keeps its lists across a restart (the
deployment uses AOF); the spool file can be written; the worker can parse the
payload its own process produced.

### `JobLedger`

The promise without the mechanism: jobs are taken, a COMMIT stores a set of
taken jobs and each device shows one of its own, jobs are abandoned, an answer
is published only for what is recorded. `SubmissionQueue!ImplementsLedger` maps
`submitted \cup refused`, `saved`, `dead \cup spool`, `result` and the jobs of
`row` to its variables.

### `MCSubmissionQueue`

The instances: which events may happen and how often, devices of the jobs,
symmetry of the workers (sound: workers are only compared for equality; it is
used in the runs that check safety and not in those with liveness).

### `SubmitExam`

EXTENDS `SubmissionQueue` and puts the HTTP handlers in front of it; here a job
enters the queue only by a request. Correspondence:

| Variable | Code |
|---|---|
| `pc` | where the handler of a request is: before the placeholder INSERT, before LPUSH, before storing the key, answered |
| `reply`, `told` | what the client was answered (202, 503, another rejection) and the `job_id` in it |
| `idem` | `g_idem_jobs`, in the memory of the process |
| `ended` | `exam_schedule_ended` |
| `kept` | history: requests whose placeholder INSERT wrote a row |

| Action | Code |
|---|---|
| `Arrive` | `submit_exam` up to the lookup of the Idempotency-Key: the gate on token, approval and end of the exam, or a rejection |
| `Persist` | `persist_submission_pending` |
| `Push` | `enqueue_job_to_redis`, built on the action `Enqueue` of `SubmissionQueue` |
| `Remember` | storing the key, the answer 202 |
| `Poll` (an operator) | `exam_result`: the result key, else the row and its score |
| `HeartbeatRow` | the placeholder row of `drain_heartbeat_batch` |
| `ExamEnds`, `CrashAll`, `RestartAll`, `StopAll` | the clock; the process dies with its requests, comes back without `g_idem_jobs`; `srv.stop()` joins the HTTP threads before the workers stop |

The lookup and the storing of the key are two critical sections of `g_idem_mu`
with the database and Redis between them, hence two actions. Abstracted: the
rate limit, the identity fields and the state of the exam are a rejection that may
happen to any request; the access checks of `exam_result` are assumed passed; a key is used
by one device (`SubmitAssumption`; the code keys the map by exam and header only). `Persist` has no
INSERT that takes effect while its answer is lost: the request is rejected then, with a row that nothing was promised about.
Nothing ever removes a key from the map.

### `MCSubmitExam`

Two requests of one device with the same key: a request and its retry, served
one after the other or at the same time.

### `ExamStore`

The exam records and every handler that changes them. Correspondence:

| Variable | Code |
|---|---|
| `row` | the table `exams`, reduced to the columns handlers decide on: `token`, `active_token` (`active`), `token_mode` (`dynamic`), `token_last_reset_at` (`reset`), `exam_started_at` (`started`), `status` (`live`), `tombstoned_at` (`tomb`), `end_time` (`end`), `auto_approve` (`auto`), `file_path` (`pdf`); `file` is history: this program created the exam, with its PDF |
| `objects` | the objects `exams/<id>/<file>` in R2, and `pdfs/<file>` (owner `Legacy`), which all exams of the Go server with that file name share |
| `idem` | the table `exam_idempotency` |
| `nextId` | the sequence of `exams.id`; `NoSequence` in a database that `migrate` has created |
| `lastToken` | tokens are numbers; a random token is the next unused one |
| `mu` | `ExamStorePostgres::mu_`, where it is held over two statements: between the SELECT and the UPDATE of `update()` |
| `pc`, `req`, `seen` | per thread: the next step of its handler, what the handler carries along, the row it has read |
| `made`, `edited` | history: how many exams were inserted under a key; the token a teacher was told is set, and when |

| Action | Code |
|---|---|
| `UpdateRead`, `UpdateWrite` with `Mutated` | `ExamStorePostgres::update`: SELECT, the handler's mutator, UPDATE of every column |
| `AskTokenMode`, `AskLifecycle`, `AskRegenerate`, `AskEditToken` (then `Claim`), `AskEditPdf` (then `Upload`, `RestorePdf`) | the actions of `update_exam` |
| `AskSchedule`, `AskDelegate`, `SetAuto` | `save_exam_questions`, `delegate_exam`, `set_auto_approve` (which bypasses the store) |
| `AskExpire` | one exam of `run_expiry_job`, by its end or 14 days after its creation |
| `Join`, `Rotate` | `exam_by_token`: the snapshot, the rotation under `FOR UPDATE`, then `update()` |
| `AskCreate`, `Claim` (`Numbers`), `Upload`, `Add`, `Finish` | `create_exam`: reserve, token and number, R2 if a file was sent, INSERT, finalize or release |
| `AskDelete`, `Remove`, `Purge` | `delete_exam`: the row, then the objects of both layouts, each of which may fail alone |
| `StoreInit` (`Starts`) | an exam that runs, as this program or the Go server has left it |

`next_id` asks for `nextval(pg_get_serial_sequence('exams','id'))`. The Go server's table is taken to have a serial column. The
one that `ExamStorePostgres::migrate` creates has a sequence that no column owns: the query answers NULL, `stoi`
throws, and every creation works on exam 1. `Numbers` has both, and `Starts` says which of them an instance begins
with, together with whether its exam is this program's or the Go server's, and whether its token rotates.

Abstracted: the columns without rules of their own (names, questions, identity fields);
requests that a check of their form rejects, except those that must release a key;
the five attempts of `gen_token` (a random token never collides). One process
works on the table, R2 is strict (`EXAMVAN_R2_STRICT` unset) and configured, the interval of a dynamic
token is a constant, a key comes with one fingerprint. A form that names a file without sending one is a creation
without file; one without a name is rejected before.

### `MCExamStore`

Two threads and three requests of any kind over one exam that is running and one that
may be created, in three databases (`AllDatabases`): a dynamic exam of this program in a database of the Go
server, a static one in a database of its own, a static one of the Go server. The last has one
request less (`served` starts at 1): two are enough for what its file-less exam can meet, a
removal and an update of it, or a creation beside it. Threads and file names are
interchangeable (nothing but equality is asked of them), so the run uses their symmetry.

### `Approvals`

The approvals of the devices of one exam, seen by several server processes. Correspondence:

| Variable | Code |
|---|---|
| `exam` | what the handlers read of the exam: `auto_approve`, its status, whether `end_time` is ahead, over, or over by an hour |
| `row`, `old` | the table `exam_approvals`: the status per device (unique per exam and device), and the rows created more than 24 hours ago |
| `capLock` | `pg_advisory_xact_lock("approval-cap:<exam>")` |
| `pc`, `ask` | per HTTP thread: before the lock or before the INSERT, and what the request carries: the device, `reset`, `auto_approve`, and the answer it will give if the INSERT returns nothing (`claim`) |
| `job` | per server: 0 idle, 1..4 the next of the four DELETEs of `run_approval_cleanup`, 5 before the release |
| `jobKey`, `local` | the key `job:approval_cleanup` in Redis; the servers with an entry in `g_locks` |
| `by`, `refused`, `answered` | history: who approved a device, whose rejection stands, the last status a device was told that nobody has changed since |

| Action | Code |
|---|---|
| `Request` | `request_approval` up to the transaction: the exam is read once, token or existing row, `auto_approve` |
| `Count`, `Unpersisted` | BEGIN, the advisory lock, the cap and the count; or one of them fails |
| `Persist` with `Decided` | INSERT ... ON CONFLICT DO UPDATE SET status = CASE ..., RETURNING, COMMIT |
| `SetApproval`, `ExamChanges` | `set_approval`; `set_auto_approve` and whatever else changes the exam (`ExamStore` has the details) |
| `Revoke` | the DELETE of `run_batch` after its COMMIT (`SubmissionQueue` has the details) |
| `Acquire`, `Release`, `LocksExpire` | `try_acquire_job`, `release_job` and their 1800 s, in Redis or in `g_locks` |
| `Clean` with `Stale` | the DELETEs of `run_approval_cleanup`, one at a time |

Abstracted: the names and identity fields of a row; the rate limit in front of
`request_approval`; the deletion of the exam (which cascades). INSERT and COMMIT are one
step, since the row is locked in between and nobody reads an uncommitted one. A BEGIN that fails alone, after which each
statement commits by itself and the lock is gone at once, is left out (`Unpersisted` ends the request). An unreachable
database is answered with 503 and changes nothing. The cap is a constant. The table has the
UNIQUE constraint and the column `updated_at` that the statements need; the one that
`ExamStorePostgres::migrate` creates on an empty database has neither (see `hazards`).

### `MCApprovals`

Two devices and two servers of one HTTP thread each, with a cap of one. Devices are
interchangeable, and so are the servers together with their threads.

### `Presence`

Heartbeats of the devices of one exam, from the request to PostgreSQL. Correspondence:

| Variable | Code |
|---|---|
| `present` | the keys `heartbeat:{exam}:{mac}` |
| `list` | `examvan:heartbeats:pending`, LPUSHed at the front and RPOPed at the end |
| `counter`, `fallback` | the key `ratelimit:presence:...` with its value and whether it expires; the map `local_fallback` of the process |
| `log`, `row`, `exam` | the tables `student_access_logs`, `submissions` and `exams`, as far as the flusher decides on them |
| `pc`, `req` | per HTTP thread: counted, at the gate, before SET, before LPUSH ... |
| `fpc`, `hand`, `tx`, `batches`, `dead` | `HeartbeatFlusher`: its stage, the payloads it popped, what its transaction has written, the batches of this tick, its broken connections |
| `sent`, `erased` | history: the heartbeats in the order of their arrival; devices whose row was deleted since |

| Action | Code |
|---|---|
| `AccessLog`, `CompleteExam` with `Counted`, `CountedHere`, `Expire` | the two handlers up to their limiter: INCR, and EXPIRE by whoever counted 1; without Redis the map |
| `Gate`, `Insert`, `SetKey`, `PushBeat`, `DeleteKey` | running exam, token or approval; the rows of logins and logouts; SET, LPUSH, DEL |
| `Tick`, `Pop`, `Begin`, `WriteRow`, `Commit`, `Requeue`, `Requeued` | `drain_heartbeats_once` and `drain_heartbeat_batch`: RPOP up to the batch size, one savepoint per payload, COMMIT, LPUSH of the batch if that fails |
| `StoreAnswers`, `DeleteSubmission`, `DeleteExam` | the other writers of `submissions` |
| `KeyExpires`, `WindowEnds`, `Crash` | time; the process dies with what it has popped |

A heartbeat is its number. The details of a payload (IP, client times) are abstracted. A
failing SAVEPOINT or RELEASE in the flusher is not an event here (in `SubmissionQueue` the latter is), nor is
a BEGIN that fails alone: the code does not look at its result, and each row would be committed by itself.

### `Hub`

One room of `websocket/hub.cpp` and the threads of `handle_ws`. `room`, `closed`, `queued`
are `rooms_`, `Client::closed_` and the lengths of the send queues; `wpc`, `snap`, `slow`
where a client's thread is and what `broadcast_to_room` has copied; `leaked` (history) the
clients whose thread returned without `remove_client`.
`Connect`, `Frame`, `Leave` and `Oversize` are `handle_ws` (the last is its return on an
oversize frame); `Snapshot`, `Send`, `Sweep` the three locked sections of a broadcast;
`Flushed` is `flush_queue`. Parsing and framing are text.

### `Scoring`

The operators of `middleware/scoring.cpp` over tokens: `Correct`, `Portion`, `Earned` for a
question, `Points`, `Total`, `Score` for a sheet. Weights are integers of either sign in units of
1/`Unit` (the code takes any double, and the finitely many weights of a paper have such a unit); points are integers
in units of 1/(`Unit` * `Scale`), a multiple of the lengths of all keys, so that nothing is rounded before the code would.

A token has a text and a depth: how often it is in quotation marks that were escaped. `Escaped` and `Unescaped` are
`json_escape` and `json_unescape` as they change it, `Read` is what the tokenisers do: marks that no backslash precedes are taken off, and
every other backslash or mark becomes part of the token. Abstracted: how a string is split at separators
and brackets, upper case and white space (`norm_ans`), rounding of doubles. Assumed: `questions_json` is JSON, its weights are finite, no
key is a string with brackets or braces in it, a question's number is its own, and answers have no raw control characters.

### `ExamDay`

Composes the three: `HubBeat` and `HubCompleted` are the frames of a teacher's client, which write
the same keys and list as the students' handlers through the one connection of the hub
(`hub`; nothing reopens it); `Mark` is the way of a sheet from the device to the worker's score: `Parsed` is
`parse_string_map` of `submit_exam`, which drops arrays and takes strings with their backslashes, `Queued` the JSON of the queue, there and
back, `Worked` the score and the `answers_json` of the row, escaped once more. `StoreMarked` is its later
upsert, `EditPaper` is `save_exam_questions` in between, `Results` is the endpoint of
`public/hasil.cpp`, which scores each answer again: as its own parser finds it in `answers_json`, with every backslash, and
with the questions of today. An answer that is a JSON object is left out: `parse_string_map` takes its members for
questions of their own.
The rows that `SubmissionQueue` writes are seen here as `StoreAnswers`.

### `MCExamDay`

Eight workloads (numbers of requests, ticks, deletions, frames, answers), so that each pair of
parts that share state is explored with the others at rest, instead of all of them at once.

### `Accounts`

| Variable | Code |
|---|---|
| `users` | the table `admin_users`: id, status, one-time code, attempts |
| `shadow` | per server: the map `g_users` of `auth_store.cpp`, asked before the table |
| `codes`, `age` | the codes generated so far, and whether each is in its first 60 s, valid, or older than 15 minutes |
| `fails`, `hot` | `g_login_failures` per server, and whose last failure is recent |
| `pc`, `req` | per thread: the statement that its handler executes next, and what it read before |
| `wrong`, `stands`, `shadowed` | history: guesses compared with each code, suspensions that nobody was about to undo, users any map ever held |

| Action | Code |
|---|---|
| `Register`, `Insert`, `Mail` | `register_handler`, with the fallback of `insert_registered_user` to the map and the deletion when the mail fails |
| `Confirm`, `Reset`, `Webhook` (`Guess`), then `Activate`, `Password`, `Bump`, `Disable`, `DeleteExpired` | `register_confirm_handler`, `reset_password_handler`, the OTP webhook: what was read decides which statement follows |
| `Resend`, `Forgot` (`AskCode`), `Renew` | a new code, not within 60 s of the last; stored by name and mailed whether stored or not |
| `Login`, `LoginFailed`, `LoggedIn` | the lockout is looked at, the password compared, the outcome counted |
| `CreateUser`, `DeleteUser`, `ToggleStatus`, `Verify`, `SetStatus` | `users.cpp` |
| `TimePasses`, `Restart` | a code ages, a lockout ends; a server loses its maps |

Abstracted: passwords and addresses (a guess is right or wrong), the texts of mails, the audit
log. Every code is new (six random digits may repeat).

### `Vouchers`

EXTENDS `Accounts` with `handlers/admin/vouchers.cpp`. `vouchers`, `redemptions`,
`settings` are tables; `entitled` says which redemption the package of a user comes
from; `tx` what a transaction works on; `spent` (history) counts committed redemptions.
A transaction is one step per statement: `Redeem`, `LockVoucher` (FOR UPDATE), `WriteRedemption`,
`Entitle`, `CommitRedeem`; `Activation`, `PickRedemption`, `PauseOthers`, `Entitle`,
`CommitActivate`; `Rollback` at every point. Its writes are applied at COMMIT, and the row
locks it holds are read off its stage (`HoldsVoucher`, `HoldsRedemption`, `HoldsUser`, `KeepsUser`);
a statement that needs a locked row is not enabled. BEGIN is assumed to succeed: the code does not look at its
result, and without it there would be no row locks. Of a package its name is modelled; the limits beside it, which
`DeactivatePackage` leaves as they are, are not. `AccountStep` is a step
of `Accounts` as those locks allow it, with ON DELETE CASCADE. `AskToggle`/`SetToggle`,
`CreateVoucher`, `CreateBatch`, `DeleteVoucher`, `SavePackages`, `EditUser`, `DeactivatePackage` are
the administrator's.

### `MCAccounts`

Two users, two threads of one server, eight workloads as in `MCExamDay`.

## 4. The runs

| Run | Question | Bounds |
|---|---|---|
| `queue_faults` | Is the pipeline safe under failures? | 2 workers, 2 jobs of one device (they share row and approval), 1 retry, every combination of up to 3 events of all kinds |
| `queue_live` | Does each accepted submission settle and get its answer, does a shutdown end, is the ledger implemented? | the same with up to 3 events out of failing rows (2), transactions, unknown COMMIT, failing revocation, Redis outage and stop |
| `queue_outage` (violation) | Does a database outage leave a trace? | 1 `pg_unreachable` |
| `queue_redis_restart` (violation) | Is the queue consumed again after Redis restarted? | 1 `redis_down` |
| `submit_faults` | Are the handlers right in front of a failing pipeline? | 2 requests of one device with one key, 2 HTTP threads, 1 worker, every pair of events |
| `submit_live` | Does a student who was answered 202 get a result? | the same with two events out of failing transactions, rows and unknown COMMITs |
| `submit_durable` (violation) | Are the answers in PostgreSQL before the 202? | no fault at all |
| `store_races` | Do the handlers that change an exam stay out of each other's way? | 2 threads, 3 requests of all kinds, 2 exams, 2 tokens, 2 file names, 1 key, one interval of time, 1 event of any kind, 3 databases (one of them with 2 requests) |
| `approvals` | Do cap, rejections, answers and the job lock hold with two servers? | 2 devices, 2 threads, cap 1, 2 requests, 2 moves of proctors, teachers, the worker or time, 1 event of any kind |
| `accounts` | Are codes, passwords, suspensions and voucher quotas safe against concurrent requests? | 2 users, 2 threads of one server, 1 voucher code, 1 package, 2 attempts per code and per login, 3 codes, 4 serial numbers, 8 workloads of 3 to 7 requests, 1 failing statement, failing mail or restart |
| `exam_day` | Are heartbeats, the room of the teachers and the scores right while an exam runs? | 2 devices, 2 threads, 3 WebSocket clients (2 privileged), queues of 1, limit 2 (1 without Redis), batches of 2, 2 batches, 3 heartbeats, 4 papers (weights 1, 1/2, 0, -1/2), 5 sheets (bare tokens, escaped quotation marks, an array), 8 workloads, 1 event of any kind (2 in one workload) |
| `store_pdf` (violation) | Does every exam keep its PDF in a database of its own? | 2 requests, no failure |

Why the bounds are enough: two jobs of one device give every conflict over a
row, an approval and a batch; two workers give every order of pops and pushes;
`kMaxRetries = 1` has both the requeue and the exhausted case (the theorems
hold for every value, in particular the code's 3). Three events let a fault meet a shutdown
and a second fault while handling the first.

`CHECK_DEADLOCK FALSE`: a process that has exited and is not restarted, with an
empty queue, is a legitimate end.

One worker suffices in the `submit_*` runs: what they ask is between two
handlers and the pipeline as a whole, and `queue_faults` has the races of the workers.

In the `store_*` runs two threads give every overlap of two handlers and the third request
the one that comes between or after them; the clock passes one interval, so that a
rotation is due before, during and after an edit; the second token is the one a rotation, an edit or a
creation chooses, and two of them may choose the same. `CHECK_DEADLOCK FALSE`: the bound on requests is reached.

In `accounts` two threads are every pair of requests that read before either writes; two attempts per
code are the least where the first mistake and the last differ; one voucher may be used once
or twice, so that the quota is met by one or by both users. The other workloads give each pair of
families (codes and administrators, redeeming and deleting a user) to the two threads. Deadlock
is checked: where no request is left the step `Quiet` stutters, and transactions
that wait for each other are broken by `Rollback`, as PostgreSQL does.

In `exam_day` a limit of two has a first count, a last and one too many; batches of two with three
heartbeats have a full batch, one that is not, and a second batch of the same tick; a queue of one is full after
one message; the third client is a visitor without a teacher's session. `CHECK_DEADLOCK FALSE`: the
workload is used up.

**Fairness** (`queue_live`; `submit_live` adds that a request being served goes on): weak fairness of each worker thread, of the batch
thread, of main's shutdown once it has begun, and of Redis coming back. Threads are
scheduled by the operating system and none of their waits is unbounded (BRPOP has a
timeout, `batch_cv_` is notified and its predicate re-evaluated). Nothing is assumed about
clients, proctors or faults, and `EverySubmissionEnds` says nothing
about executions in which the process ends, Redis is lost or a losing event happens.

What the passing properties say and what they exclude:

* `NoSilentLoss`, `DrainedAtExit`: no accepted submission disappears, unless one of
  four **losing events** happened. These are real gaps of the code, found while
  modelling: no database connection (`pg_unreachable`, the run `queue_outage`), a
  failed RELEASE (`release_failure`), a reply of BRPOP lost with its connection
  (`conn_lost`), a crash: BRPOP removes the entry before it is processed.
* `SuccessIsDurable`, `SuccessIsFinal`, `FailureLeavesTrail`, `OneCopyOneOutcome`: what
  is published, and that an entry is in one place. A failed RELEASE makes COMMIT answer "ok" for a rolled back
  transaction; an unknown COMMIT or a repeated LPUSH makes a stored job look failed.
* `RowMatchesCommits`, `NoResurrection`, `RevokedBeforeReport`: the rows,
  no settled entry overwriting its device's row,
  approvals spent before the student is told. Two submissions of one device that are
  in the pipeline together may be stored in either order.

* `RetryQueuesNothing`: a client that has been answered 202 and repeats the request with its
  key gets the first `job_id`. Two things are outside it because the code does not
  give them: a restart forgets the map, and two copies of a request that are served
  at the same time both pass the lookup and both queue a job.
* `InsertedAnswersStay`: answers whose row was inserted stay, under every event
  including a crash, until scored answers of the same device replace them.
* `PollSound`: a poll says "done" only of stored answers, whether it
  reads the key or the row, and does not take it back (an unknown COMMIT or a
  repeated LPUSH excepted).
* `LateSubmitNeedsApproval`: after the end of the exam only an unspent approval opens the
  gate, except in the instant between the batch's COMMIT and its DELETE.
* `PollSettles`: whoever was answered 202 does not poll "pending" for ever. Excepted: the
  result was never written or has expired, for then a stored submission
  without a score reads as pending for good.

* `SerialUpdates`: what `update()` writes back is what the table still holds, in the columns
  only it writes. For `auto_approve` and `active_token` this is false: `set_auto_approve`
  and the rotation write between the SELECT and the UPDATE of another handler and are
  overwritten. A second server process would break it for all columns.
* `StartedOnce`: two starts at the same time do not move the start of a running exam.
* `TokenLives`: the token a teacher was told is set lets students in for an interval.
  Outside it: an edit between the two writes of a rotation (COMMIT, then `update()` with the
  same token and no recheck), which the second one overwrites; and what the teacher does
  next (regenerate, another mode).
* `PdfKept`: in a database with a sequence, an exam that was created with its PDF has it under its own key: a
  replaced PDF whose upload fails leaves the old name, which is in R2, and nothing that is created, replaced or deleted beside it under
  the same file name, the shared key of the Go server included, takes it away. Outside it: a database without a
  sequence (`store_pdf`), exams without a file and those of the Go server, a crash or a failing statement before the restoring update,
  and two replacements that overlap and both fail (the later restores the name of the earlier).
* `OneExamPerKey`: repeating a creation with its key, at once or later, over crashes, creates
  one exam. An INSERT that took effect without its answer arriving is outside: the key is released
  and the retry creates a second exam.
* `NoStuckKey`: every path that creates no exam releases the key. A crash leaves it reserved
  for good, and so does the protobuf answer of a creation that succeeded, which is never finalized.

* `CapKept`: the transaction counts and then inserts; whatever else changes the rows in
  between, no more than the cap are approved without a proctor. Approvals by a proctor are
  outside: `set_approval` neither counts nor takes the lock.
* `RejectionStands`: a request that was under way, automatic approval and the cleanup leave a
  rejection. It ends by the proctor's next decision, by a request with `reset`, and by the
  worker, which deletes the row whatever it says.
* `ToldIsStored`: the answer is that of RETURNING, so it is the table's until somebody else
  changes the row. With a failing statement it is not: the student is then told what the
  handler thought before the count.
* `OneCleanup`: servers exclude each other through the key in Redis, also when the answer to
  SET NX or to DEL is lost or the owner dies. During a Redis outage each falls back to
  its own map and two of them may run; so they may when a job outlives its lock, and then
  `release_job` deletes the other's key.

* `GuessesBounded`: however many threads, by form, reset page or webhook, guess at once, a code is compared with
  fewer than `kMaxOtpAttempts` wrong ones and one more per thread (per restart again: a guess that
  was compared and not counted is forgotten); the same for the passwords of a login on one server. Outside it:
  failing statements, which the handlers do not notice, and accounts in the map of a server.
  Lockouts are per process, so each server adds its own.
* `SuspensionStands`: an account that is suspended while no activation is under way stays so until an
  administrator changes it. A confirmation that had read `pending_otp` before the suspension does open it
  again, since `activate_registered_user` is an UPDATE by name.
* `VoucherLedger`: a voucher is used as often as redemptions of it were committed and never more often than it allows;
  no redemption is uncounted; a user's package comes from an active redemption of his own, unless
  the voucher was deleted. Nothing is excluded: the row locks suffice.
* `HeartbeatLedger`: a heartbeat is in one place and recorded once (a COMMIT of unknown outcome excepted: the batch
  is requeued and logged again), none is lost without a crash, a refused command, a lost answer or a
  row the database refuses, and a recorded device is shown to the proctor unless its row was deleted since.
* `LimiterReleases`: a counter without expiry has a thread about to set it, or else a crash, a refused
  EXPIRE or a lost answer to INCR left it: then the device is refused for ever.
* `RoomSound`: whoever is served is in the room until closed; nobody closed is in it; only a client that sent an
  oversize frame is left in it after its thread is gone; a closed client keeps no messages.
* `ScoresAgree`: a score is between 0 and 100 if no weight is negative and no option given twice; and what the worker stored is
  what the results page adds up from the same questions, if all weights are positive, although the two read different strings: no
  token of a key has a backslash, so an escaped one is wrong on either side. That hangs on `parse_string_map` not
  unescaping (its mutant does): the worker would then read what is in the marks, and the page would not.

Two requests are the least that can race for a cap of one; two moves let a rejection or a deletion fall
between the read and the INSERT of a request and be followed by another; one event of any
kind meets each of these.

### Findings

* `queue_outage`: `run_batch` ignores the result of `with_global_pg`; a batch popped
  while no connection is available vanishes: not requeued, not on the failed list, no
  result. `docs/review-temuan-2026-09-07-pass21.md:247` expects the opposite.
* `queue_redis_restart`: the workers' thread_local contexts are never reopened.
  `redis_reset` exists, its comment describes exactly this failure, and nothing calls it.
* `submit_durable`: the durability INSERT of `submit_exam` is `ON CONFLICT DO NOTHING`. Once
  the heartbeat flusher has made the device's placeholder row it writes nothing, the
  handler takes that for success, and after the 202 the answers exist in Redis only: the
  window that the comment at `handlers/api/exams.cpp:205` declares closed.

* `store_pdf`: in a database that `migrate` has created, `pg_get_serial_sequence` answers NULL and `next_id` turns that into 1 for
  every creation, without any failure. The second creation with the file name of exam 1 uploads to `exams/1/<file>`, its INSERT fails on
  the primary key, and the cleanup deletes `exams/1/<file>`: exam 1 is left without its PDF. (With another name, it
  only fails: such a database never holds a second exam.) A failing query of `next_id` does the same
  in any database.

What else came up while modelling, without a run of its own:

* `submit_exam` keeps the JSON escapes of a string and drops answers that are JSON arrays
  (`parse_string_map`, `handlers/api/exams.cpp:115-137`), while the results page has a parser of
  its own. They agree, but an option in escaped quotation marks is never right, for either. A JSON object as an answer overwrites
  the answers to the questions its members are named like, and ends the parsing. A partial answer that repeats an option of the key earns it twice (a score above 100), and a
  question of weight 0 or less counts 1 in the maximum of the page. Nothing checks weights when questions are saved: with 10 and
  -5 a score is 200. Scores are not computed again after an edit
  of the questions.
* Readers of a PDF prefer `pdfs/<file>` to `exams/<id>/<file>`: an object of the Go server hides the new PDF of any
  exam with that file name. Deleting one exam removes that object for all of them. The `setval` of
  `migrate` has no sequence to work on either (`exam_store_postgres.cpp:341`).
* A WebSocket client that is too slow is taken out of its room and its connection stays open: it
  gets nothing more and is not told. What is broadcast to a client is sent only after a frame
  of its own. An oversize frame leaves the client in the room until its queue is full. The hub's Redis
  connection is opened once.
* After the last wrong guess the code is disabled by name: a code renewed meanwhile is wiped, and of two
  resends that overlap the first mailed code is stale. A resend that overlaps a
  confirmation leaves an active account with a code, which the reset page takes.
* `valid_expires_at` accepts only `MM-DD-YYYY` while the comment above it (`vouchers.cpp:126-127`) speaks of ISO
  forms, and the empty string, which it accepts, makes the INSERT fail. `activate_voucher` refuses
  paused redemptions, which the user interface offers. `remaining_seconds` is never
  decremented. The gate on active accounts lets a request pass when it gets no connection (`router_full.cpp:93`).
  A lost answer to COMMIT in `redeem_voucher` is reported as a failure of a redemption that was made.

## 5. The proofs

`SubmissionQueueProofs` and `SubmissionQueueCopies` hold for every set of jobs and devices, every
finite set of workers, every `kMaxRetries` and every `MaxEvents`, from `QueueAssumption` only
(jobs are positive numbers, each has a device, the thread names differ, the threads are
finitely many). The lemmas about steps are stated for `PipelineNext`, the steps of the pipeline with
any arrival of jobs, so that `SubmitExamProofs` can use them where jobs arrive from the handler.

The argument: `TypeOK` is not inductive, since `WorkerPush` appends `hand[w]` and
needs it to be an entry. `Stages` says which vector holds entries at which stage:
`ScoringHolds` (a worker holds an entry exactly while scoring), `BatchStages` (no
leftovers when the batch thread waits; nothing written outside a transaction; an
aborted one only after a failed RELEASE), `StopStages` (main drains only after every
thread was joined). `TypeOK /\ Stages` is inductive. On top of it:

* `SuccessInv` (persisted entries are stored once COMMIT has answered) gives
  `SuccessIsDurable`;
* `RevokedInv` (while the batch thread settles, no persisted entry has a spent approval, unless a
  DELETE failed) and `OnlyReports` (no other step publishes a success) give `RevokedBeforeReport`;
* `TxInv` (what the transaction has written are jobs of `persisted`, one for every device
  concerned) gives `RowMatchesCommits`;
* `KeptNext`: no step that is not a losing event removes a job from all places at once; this
  gives `NoSilentLoss`, and with `StopStages` `DrainedAtExit`;
* `FailureLeavesTrail` is inductive with `TypeOK`;
* `LedgerImplemented`: with `Provenance` (every job in the pipeline was taken in) every step
  is a step of `JobLedger` or a stutter, assuming no failed RELEASE.

`JobsInEmpty/Append/Tail/Concat` are the facts about sequences of entries,
`ReinstateEffect` what one requeue can do, `EnvGrows` that events are never forgotten.

`SubmissionQueueCopies` counts. Its first part says how the number of occurrences of a job in a sequence
changes with `Append`, `Tail` and concatenation, and its second part adds the places up. On top:

* `CopyInv`: a job has at most one copy over all lists, vectors, hands and sets put aside, plus one for every
  LPUSH whose reply was lost, and none before it was taken in;
* `SettledInv` (while no COMMIT and no reply was lost, the only copies of a stored job are those the batch thread
  is reporting) and `OkInv` (a job reported as stored has no copy left). The conjunction
  `CopyIInv` is inductive with `TypeOK` and `Stages`. With `FailureLeavesTrail` and
  `RowInv` it gives `OneCopyOneOutcome`, `SuccessIsFinal` and `NoResurrection`: every step that could
  report a failure or store a row needs a copy that is no longer there.

`SubmitExamProofs` proves all safety properties of `SubmitExam`, from `SubmitAssumption` and
`QueueAssumption`, for every number of requests. A step is one of the pipeline (then `PipelineInv`, which
collects the invariants of `SubmissionQueueProofs`, is kept by the lemmas there) or one that
leaves the lists alone (`SideStep`). On top of it:

* `IdemInv` (until a restart, the key of an accepted request has a job in `g_idem_jobs`) gives
  `RetryQueuesNothing`;
* `SpentInv` (an approval is spent only between COMMIT and DELETE, and the DELETE is going to
  remove it) gives `LateSubmitNeedsApproval`;
* `InsertedAnswersStay` is inductive with the types of the handlers (`HandlerTypes`);
* `PollSound` follows from `PipelineInv` and `AsideOrigin`: only what was in `failed` or `rest` is put
  aside, and that is nothing the batch thread has stored.

`ExamStoreProofs` holds for every number of threads, exams, keys and files and every bound, from
`StoreAssumption` and `NoExamAssumption` (the value for "no row" is not an exam).
`StoreTypeOK` is not inductive: `UpdateWrite` stores `Mutated(req[t], seen[t])`, an exam only if
the request has the parameters its operation needs (`Carried`) and the stage has a row read
(`Placed`). `StoreInv` adds both. On top of it:

* `SerialUpdates` is inductive: who is at the UPDATE holds `mu`, so no other `update()`, `add` or `remove`
  is inside, and the two statements that bypass the mutex touch no owned column
  (`RotatedFacts`, `AutoFacts`);
* `StartedOnce` follows: the copy a start mutates has the `started` of the table;
* `KeyHeld` (whoever works under a key has it reserved and is alone; after the INSERT the key is never
  free again) is inductive while no reply is lost, and gives `OneExamPerKey`. The invariant shows why
  a failing `finalize` and a crash are harmless and a lost reply is not: only there is a key
  released that an exam was made under;
* `KeysWorked` is inductive: a thread with a key creates an exam and has inserted it when it
  finalizes (`Creating`); while nothing crashes, no statement fails and no reply is lost, a
  reserved key has its exam or somebody at work (`Worked`). It gives `NoStuckKey`;
* `TokenInv` gives `TokenLives`. That the token a teacher was told is in the row
  (`TokenSet`) is not inductive: it can be overwritten by a copy read earlier or by a rotation that is committed
  in the row and not yet copied. `TokenRead` says that a copy about to be written under the mutex has at
  least that token, or will be given it, and `Rotating` that an automatic rotation on its way overtakes no token
  whose interval runs. `SerialUpdates` is what makes the copy the only one;
* `PdfOK`, while `Calm` holds (a sequence, and no failure but one of R2), gives `PdfKept`. A PDF may be missing while a thread is at work that
  puts it there (`Covered`), so the invariant says of each stage of a replacement, a restore and a creation
  which objects it still owes or has to remove (`ReplacedCovered`, `RestoreCovered`, `CreatesAlone`), for the exams that were created with one (`Filed`). It
  needs that sequence numbers are given out once (`Numbered`: nobody creates under the id of a deleted exam) and
  that no two exams share a token (`TokensApart`, so that the UNIQUE constraint never refuses the UPDATE that puts a
  name back).

`ApprovalsProofs` holds for every number of devices, threads and servers, every cap and every
`MaxEvents`, from the assumptions of `Approvals`. Two invariants carry it:

* `CapInv` adds to the types what a request carries at which stage (`Asks`) and that a
  thread which may still insert an approval holds the advisory lock and has counted less than the cap
  (`Room`): with that, no other INSERT falls between count and INSERT. It gives `CapKept`; `RejectionStands` and
  `ToldIsStored` follow step by step from the CASE of the INSERT.
* `JobInv` says that, with Redis reachable and no lock overrun, the key is there while a server
  runs the cleanup, and no second server does. It gives `OneCleanup`.

`ExamDayProofs` holds for every number of clients, devices and threads and every bound.
`RoomInv` strengthens `RoomSound` with where a client is not yet or no more (`Nowhere`): a client that has not
connected is in no room and no snapshot, which is needed because a broadcast removes whoever it
copied earlier. `LimiterInv` adds to `LimiterReleases` that a thread at EXPIRE carries a device
(`Expiring`): whoever counts 1 is on its way to EXPIRE of that counter, and whoever counts after it does not count 1.

`HeartbeatInv` carries `HeartbeatLedger`. `RecordedOnce` adds up how often a heartbeat is in the list, in the
hand and in the table. The proof replaces the sum by places: `Apart` says that no two positions of the list or
the unsettled part of the hand hold the same heartbeat, and that none of them holds one that was recorded. That a new
one is nowhere yet needs that heartbeats are given out in order (`Arrived`), and that a rolled back batch
goes back once needs what the flusher holds at which stage (`FlusherStages`). `Kept`
(while nothing loses anything) says where each is, the rows of the open transaction included, and `Shown` that who was
written in it was read in it, or has been deleted since. `ExamDayTypes` puts the types of the three parts together.

`ScoresAgreeAlways` is about data: a sheet of any length, keys, weights and depths of escapes of any size. Three things carry it.
That the page earns what the worker counted (`EscapedEarnsTheSame`), for every type of question: an answer without
bare quotation marks (`Plain`, which `QueuedFacts` shows of whatever comes out of the queue) matches a token of a key exactly where its
escaped form does (`EscapedMatches`), so the hits are the same, and an answer with a backslash equals
no key before or after (`QuotedIsWrong`).
What one question earns (`AnswerInRange`), if its weight is not negative: a sheet without repeated tokens injects its hits into the
key. And what a sum is: `SumFunction` folds recursively over subsets of a domain. The library's induction
theorems are out of reach, so the lemmas descend: a subset that lacks the property, with the fewest elements, does
not exist (`SubsetDescent`, from `WFMin` and `NatLessThanWellFounded`, which take no operator), and the
recursion has a solution because one up to `n` elements gives one up to `n + 1`
(`SumExists`). `SumBound` and `SumPositive` then bound the points by the weights. `ScoredOK`, the only state
in it, says that what is marked or stored was scored with one of the papers.

`VouchersProofs` holds for every number of users, servers and threads, with any number of failing
statements and restarts. `AccountInv` collects the types, that the code of a row has been generated and is no
other row's (`CodesOK`), and that an absent row holds nothing (`Blank`). `SuspensionStands` is not inductive: `SuspInv` adds the types of the rows, that a request names
its account (`Serving`), that whatever a map holds was counted (`MapsCounted`), and
that no activation of an account in `stands` is under way (`Standing`). Every step then
either leaves the rows and begins no activation (`RowsKept`, `NoneBegins`), or is
the administrator's UPDATE.

`GuessesBounded` counts guesses that several threads make at once. For codes, `OtpOK` bounds
the wrong guesses at a live code twice: by the tries counted plus the guesses that are compared and not yet counted
(`Guessed`), and by the limit less one plus those guesses plus the threads about to disable the code (`Disabling`).
A restart in between loses at most one per thread (`Lost`). Both bounds are needed: the step that counts a try takes a thread
out of `Guessed`, and either raises `tries` or puts it into `Disabling`, so that each sum pays for the other. `Told` says
that a guess under way was at a code of the account it is counted for, and `Unguessed` that a
code nobody has been sent has no guesses, which is what a resend starts from. For logins, `LoginOK` bounds the failures
in a map plus the threads of that server that are about to add one.

`VoucherLedgerProofs` adds `VoucherLedger` and `VouchersTypeOK`, from the same assumptions and `VouchersAssumption`.
`LedgerInv` has two halves. Of the tables: an id of a user or voucher belongs to one row and
was given out (`UserIds`, `Serials`), and a redemption has its user (`Owned`, the foreign key).
Of the transactions, which the row locks keep true: the voucher that one has locked
is not used up (`VoucherOK`), its new redemption is nobody's yet (`NewOK`), the rows an activation has locked are its
user's (`RowsOK`), and no two of them work on the same voucher or new row (`Apart`). It
is `Apart` that makes the check `used < max` of a locked voucher still true at COMMIT,
and `Owned` with `UserIds` that makes an activation give the package to the user whose row it locked.
`TxMoves` serves the steps within a transaction, `TableStep` those that write the tables; a step of `Accounts`
changes one row (`OneRow`) and begins no transaction (`ThreadSteps`).

Only model-checked: the three liveness properties (`EverySubmissionEnds`, `ShutdownTerminates`, `PollSettles`),
since fairness and ENABLED are out of the prover's reach. Every other property of the
passing runs is stated by a theorem.

## 6. Not modelled

Page rendering, downloads, exports, settings, routing and sanitising are stateless text
processing or one statement per request; sessions and CSRF tokens are signed values without
server state; R2 is an external service, whose use by `create_exam` and `update_exam` is in
`ExamStore`; change of password and institution, the audit log and the access log retention are single statements nobody
else depends on; the limiters by address are the same counter as that of `Presence`;
the memory store used without a database has other atomicity and is for development.
`bulk_delete_exams` is `delete_exam` in a loop. `components` in `PROJECT.json` has the list.
