------------------------------ MODULE SubmitExam ------------------------------
(***************************************************************************)
(* The student's side of a submission: the handlers submit_exam and        *)
(* exam_result in front of the pipeline of SubmissionQueue.  A request j   *)
(* makes the job j; a client that got no answer sends the same answers     *)
(* again, as another request with the same Idempotency-Key.                *)
(***************************************************************************)
EXTENDS SubmissionQueue

CONSTANTS
  Keys,         \* values of the header Idempotency-Key
  NoKey,        \* the header is absent
  KeyOf,        \* KeyOf[j]: the key of request j
  HttpThreads,  \* requests served at a time (1 with uWS, 4..16 with posix)
  Scorable      \* jobs for which score_submission_json returns a score

\* A device uses a key for one submission only.
ASSUME SubmitAssumption ==
  /\ NoKey \notin Keys /\ KeyOf \in [Jobs -> Keys \cup {NoKey}]
  /\ \A i, j \in Jobs : KeyOf[i] = KeyOf[j] /\ KeyOf[i] # NoKey
                        => DevOf[i] = DevOf[j]
  /\ HttpThreads \in Nat \ {0}
  /\ Scorable \subseteq Jobs

VARIABLES
  pc,      \* pc[j]: where the handler of request j is
  reply,   \* reply[j]: what the client of request j was answered
  told,    \* told[j]: the job_id in that answer
  idem,    \* g_idem_jobs
  ended,   \* exam_schedule_ended
  kept     \* history: jobs whose placeholder row was inserted

submitVars == <<pc, reply, told, idem, ended, kept>>
allVars == <<vars, submitVars>>

-----------------------------------------------------------------------------
InProgress == {j \in Jobs : pc[j] \in {"persist", "enqueue", "remember"}}

Answer(j, what, job) == /\ pc'    = [pc EXCEPT ![j] = "answered"]
                        /\ reply' = [reply EXCEPT ![j] = what]
                        /\ told'  = [told EXCEPT ![j] = job]

Approved(d) == approval[d] \in {"granted", "spent"}

GateAtAnyTime(d, tokenMatches) ==  \* mutant: the end of the exam is ignored
  tokenMatches \/ Approved(d)

\* After the end of the exam only an approved device may submit; the token
\* must match, or the device be approved (the token may have rotated).
Gate(d, tokenMatches) == /\ ended => Approved(d)
                         /\ tokenMatches \/ Approved(d)

KeyKnown(j) == KeyOf[j] # NoKey /\ idem[KeyOf[j]] # NoJob

\* The checks at the head of submit_exam (also the rate limit, the state of
\* the exam and the required identity fields, which may reject any request)
\* and the lookup of the key under g_idem_mu.
Arrive(j) ==
  /\ pc[j] = "idle" /\ mainpc = "run"
  /\ Cardinality(InProgress) < HttpThreads
  /\ \/ Answer(j, "rejected", NoJob)
     \/ /\ \E tokenMatches \in BOOLEAN : Gate(DevOf[j], tokenMatches)
        /\ \/ KeyKnown(j) /\ Answer(j, "accepted", idem[KeyOf[j]])
           \/ /\ ~KeyKnown(j)
              /\ pc' = [pc EXCEPT ![j] = "persist"]
              /\ UNCHANGED <<reply, told>>
  /\ UNCHANGED <<vars, idem, ended, kept>>

\* persist_submission_pending: INSERT ... ON CONFLICT DO NOTHING.
Persist(j) ==
  /\ pc[j] = "persist"
  /\ \/ /\ IF row[DevOf[j]].kind = "absent"
           THEN /\ row' = [row EXCEPT ![DevOf[j]] = [kind |-> "pending", job |-> j]]
                /\ kept' = kept \cup {j}
           ELSE UNCHANGED <<row, kept>>
        /\ pc' = [pc EXCEPT ![j] = "enqueue"]
        /\ UNCHANGED <<reply, told, env>>
     \* No connection at all: the lambda is not called, which counts as a
     \* process without a database.
     \/ /\ Occur("pg_unreachable")
        /\ pc' = [pc EXCEPT ![j] = "enqueue"]
        /\ UNCHANGED <<row, kept, reply, told>>
     \* The second connection or the INSERT fails: 503.
     \/ /\ Occur("tx_failure")
        /\ Answer(j, "unavailable", NoJob)
        /\ UNCHANGED <<row, kept>>
  /\ UNCHANGED <<redisVars, conn, approval, workerVars, batchVars, mainVars,
                 history, idem, ended>>

\* enqueue_job_to_redis, the LPUSH itself being the action Enqueue.
Push(j) ==
  /\ pc[j] = "enqueue"
  /\ \/ /\ Enqueue(j)
        /\ IF j \in submitted'
           THEN pc' = [pc EXCEPT ![j] = "remember"] /\ UNCHANGED <<reply, told>>
           ELSE Answer(j, "unavailable", NoJob)
     \/ /\ ~redisUp
        /\ Answer(j, "unavailable", NoJob)
        /\ UNCHANGED vars
     \/ /\ redisUp /\ Occur("write_refused")
        /\ Answer(j, "unavailable", NoJob)
        /\ UNCHANGED <<redisVars, conn, dbVars, workerVars, batchVars, mainVars,
                       history>>
  /\ UNCHANGED <<idem, ended, kept>>

ForgetsKey(j) == idem  \* mutant: the key is not stored

Remembers(j) == IF KeyOf[j] = NoKey THEN idem ELSE [idem EXCEPT ![KeyOf[j]] = j]

\* The key is stored under g_idem_mu, then 202 is answered.
Remember(j) ==
  /\ pc[j] = "remember"
  /\ idem' = Remembers(j)
  /\ Answer(j, "accepted", j)
  /\ UNCHANGED <<vars, ended, kept>>

PollOfAnyRow(j) ==  \* mutant: the fallback does not look at the score
  CASE redisUp /\ result[j] = "ok"     -> "done"
    [] redisUp /\ result[j] = "failed" -> "failed"
    [] OTHER -> IF row[DevOf[j]].job = j THEN "done" ELSE "pending"

\* What GET /result answers for job j to a client that passes its access
\* checks: the key in Redis, else the row (a missing score reads as pending).
Poll(j) ==
  CASE redisUp /\ result[j] = "ok"     -> "done"
    [] redisUp /\ result[j] = "failed" -> "failed"
    [] OTHER -> IF row[DevOf[j]] = [kind |-> "scored", job |-> j] /\ j \in Scorable
                THEN "done" ELSE "pending"

-----------------------------------------------------------------------------
PlaceholderOverwrites(d) ==  \* mutant: ON CONFLICT DO UPDATE
  [row EXCEPT ![d] = [kind |-> "placeholder", job |-> NoJob]]

Placeholder(d) == IF row[d].kind = "absent"
                  THEN [row EXCEPT ![d] = [kind |-> "placeholder", job |-> NoJob]]
                  ELSE row

\* drain_heartbeat_batch inserts a placeholder row for a device it sees
\* (ON CONFLICT DO NOTHING).
HeartbeatRow(d) ==
  /\ mainpc \in {"run", "joining", "draining"}
  /\ row' = Placeholder(d)
  /\ UNCHANGED <<redisVars, conn, approval, workerVars, batchVars, mainVars,
                 history, env, submitVars>>

\* end_time + 60 s passes.
ExamEnds == ~ended /\ ended' = TRUE
            /\ UNCHANGED <<vars, pc, reply, told, idem, kept>>

\* The process dies in the middle of some requests: they get no answer.
CrashAll ==
  /\ Crash
  /\ pc' = [j \in Jobs |-> IF j \in InProgress THEN "answered" ELSE pc[j]]
  /\ UNCHANGED <<reply, told, idem, ended, kept>>

RestartAll == Restart /\ idem' = [k \in Keys |-> NoJob]
              /\ UNCHANGED <<pc, reply, told, ended, kept>>

\* srv.stop() has joined every HTTP thread before w.stop() begins.
StopAll == InProgress = {} /\ Stop /\ UNCHANGED submitVars

PipelineStep ==
  /\ \/ \E w \in Workers : WorkerStep(w)
     \/ BatchStep
     \/ StopDrain \/ StopReinstate \/ StopDone
     \/ RedisDown \/ RedisBack
     \/ \E j \in Jobs : ResultExpires(j)
     \/ \E d \in Devices : Approve(d)
  /\ UNCHANGED submitVars

SubmitInit ==
  /\ Init
  /\ pc = [j \in Jobs |-> "idle"] /\ reply = [j \in Jobs |-> "none"]
  /\ told = [j \in Jobs |-> NoJob]
  /\ idem = [k \in Keys |-> NoJob]
  /\ ended = FALSE /\ kept = {}

\* Requests arrive in the order of their numbers; their handlers interleave.
Arrivals == \E j \in Jobs : (\A i \in Jobs : i < j => pc[i] # "idle") /\ Arrive(j)

Handle(j) == Persist(j) \/ Push(j) \/ Remember(j)

SubmitNext ==
  \/ Arrivals
  \/ \E j \in Jobs : Handle(j)
  \/ \E d \in Devices : HeartbeatRow(d)
  \/ ExamEnds \/ CrashAll \/ RestartAll \/ StopAll
  \/ PipelineStep

SubmitSpec == SubmitInit /\ [][SubmitNext]_allVars

\* As in SubmissionQueue, and a request that is being served goes on.
SubmitFairness ==
  /\ \A j \in Jobs : WF_allVars(Handle(j))
  /\ \A w \in Workers : WF_allVars(WorkerStep(w) /\ UNCHANGED submitVars)
  /\ WF_allVars(BatchStep /\ UNCHANGED submitVars)
  /\ WF_allVars((StopDrain \/ StopReinstate \/ StopDone) /\ UNCHANGED submitVars)
  /\ WF_allVars(RedisBack /\ UNCHANGED submitVars)

FairSubmitSpec == SubmitSpec /\ SubmitFairness

-----------------------------------------------------------------------------
(***************************************************************************)
(* Properties.                                                             *)
(***************************************************************************)
\* Types of the handlers' state; a row may now also be a placeholder.
SubmitTypeOK ==
  /\ TypeOK
  /\ pc \in [Jobs -> {"idle", "persist", "enqueue", "remember", "answered"}]
  /\ reply \in [Jobs -> {"none", "rejected", "unavailable", "accepted"}]
  /\ told \in [Jobs -> Jobs \cup {NoJob}]
  /\ idem \in [Keys -> Jobs \cup {NoJob}]
  /\ ended \in BOOLEAN /\ kept \subseteq Jobs

(***************************************************************************)
(* P18-C4/H1: a client that was answered 202 and sends the request again   *)
(* gets the same job_id and nothing is queued again, unless the process    *)
(* was restarted in between (the map is in its memory only).               *)
(***************************************************************************)
RetryQueuesNothing ==
  [][env["restart"] = 0 =>
       \A i, j \in Jobs : /\ reply[i] = "accepted" /\ pc[j] = "idle"
                          /\ KeyOf[i] = KeyOf[j] /\ KeyOf[i] # NoKey
                          => pc'[j] # "persist"]_allVars

(***************************************************************************)
(* P18-C3, as far as it holds: answers whose row was inserted before the   *)
(* 202 stay in the database, over heartbeats, a crash, failed batches and  *)
(* retries, until answers of the same device that were scored replace them.*)
(***************************************************************************)
InsertedAnswersStay ==
  \A j \in kept : \/ row[DevOf[j]] = [kind |-> "pending", job |-> j]
                  \/ row[DevOf[j]].kind = "scored"
                     /\ DevOf[row[DevOf[j]].job] = DevOf[j]

(***************************************************************************)
(* A poll says "done" only of stored answers, from the key or from the     *)
(* row, and what it says of a job never turns from done into failed.       *)
(***************************************************************************)
PollTruthful ==
  env["release_failure"] = 0 =>
    \A j \in Jobs : Poll(j) = "done" => j \in saved

DoneStaysDone ==
  env["commit_unknown"] + env["reply_lost"] = 0 =>
    \A j \in Jobs : Poll(j) = "done" => Poll(j)' # "failed"

\* What submission_status answers over the expiry of results, other jobs of the
\* device, retries and repeated submissions.
PollSound == [][PollTruthful' /\ DoneStaysDone]_allVars

(***************************************************************************)
(* P17-C4: after the end of the exam a device gets in only on an approval  *)
(* that is not yet spent; the one instant in which a spent approval still  *)
(* lets it in lies between the COMMIT and the DELETE of the batch thread.  *)
(***************************************************************************)
LateSubmitNeedsApproval ==
  [][env["revoke_failure"] + env["commit_unknown"] + env["crash"] = 0 /\ ended =>
       \A j \in Jobs : pc[j] = "idle" /\ pc'[j] = "persist"
         => \/ approval[DevOf[j]] = "granted"
            \/ approval[DevOf[j]] = "spent" /\ bpc = "revoke"]_allVars

(***************************************************************************)
(* Who was answered 202 will not poll "pending" for ever, while the        *)
(* process and Redis stay up, Redis accepts the result and it has not yet  *)
(* expired.                                                                *)
(***************************************************************************)
PollSettles ==
  \A i, j \in Jobs :
    reply[i] = "accepted" /\ told[i] = j
      ~> Poll(j) # "pending" \/ ~Undisturbed
         \/ env["write_refused"] + env["reply_lost"] + env["result_expiry"] > 0

\* "INSERT placeholder dulu - LPUSH tanpa persist = hilang saat Redis crash"
\* (P18-C3): whoever is answered 202 has answers in the database.
AcceptedIsInDatabase ==
  \A j \in Jobs : reply[j] = "accepted"
                  => row[DevOf[j]].kind \in {"pending", "scored"}
===============================================================================
