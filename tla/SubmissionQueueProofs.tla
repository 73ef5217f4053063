------------------------ MODULE SubmissionQueueProofs ------------------------
(***************************************************************************)
(* Proofs about SubmissionQueue, for every number of jobs, devices and     *)
(* workers and whatever the bounds of the faults are.                      *)
(***************************************************************************)
EXTENDS SubmissionQueue, TLAPS

-----------------------------------------------------------------------------
(* The jobs of a sequence of entries. *)

LEMMA JobsInEmpty == JobsIn(<<>>) = {}
  BY DEF JobsIn

LEMMA JobsInAppend ==
  ASSUME NEW S, NEW s \in Seq(S), NEW e
  PROVE  JobsIn(Append(s, e)) = JobsIn(s) \cup {e.job}
<1>1. DOMAIN s = 1..Len(s) /\ Len(s) \in Nat
  OBVIOUS
<1>2. DOMAIN Append(s, e) = 1..(Len(s) + 1)
  OBVIOUS
<1>3. \A i \in 1..Len(s) : Append(s, e)[i] = s[i]
  OBVIOUS
<1>4. Append(s, e)[Len(s) + 1] = e
  OBVIOUS
<1>5. 1..(Len(s) + 1) = (1..Len(s)) \cup {Len(s) + 1}
  BY <1>1
<1> QED  BY <1>1, <1>2, <1>3, <1>4, <1>5 DEF JobsIn

LEMMA JobsInTail ==
  ASSUME NEW S, NEW s \in Seq(S), s # <<>>
  PROVE  JobsIn(s) = JobsIn(Tail(s)) \cup {Head(s).job}
<1>1. /\ Head(s) = s[1] /\ Tail(s) \in Seq(S) /\ Len(Tail(s)) = Len(s) - 1
      /\ \A i \in 1..Len(Tail(s)) : Tail(s)[i] = s[i + 1]
      /\ Len(s) \in Nat \ {0}
      /\ DOMAIN s = 1..Len(s) /\ DOMAIN Tail(s) = 1..Len(Tail(s))
  OBVIOUS
<1>2. JobsIn(s) \subseteq JobsIn(Tail(s)) \cup {Head(s).job}
  <2>1. SUFFICES ASSUME NEW i \in 1..Len(s), i # 1
                 PROVE  s[i].job \in JobsIn(Tail(s))
    BY <1>1 DEF JobsIn
  <2>2. i - 1 \in 1..Len(Tail(s)) /\ Tail(s)[i - 1] = s[i]
    BY <1>1, <2>1
  <2> QED  BY <2>2, <1>1 DEF JobsIn
<1>3. JobsIn(Tail(s)) \cup {Head(s).job} \subseteq JobsIn(s)
  <2>1. SUFFICES ASSUME NEW i \in 1..Len(Tail(s))
                 PROVE  Tail(s)[i].job \in JobsIn(s)
    BY <1>1 DEF JobsIn
  <2>2. i + 1 \in 1..Len(s) /\ Tail(s)[i] = s[i + 1]
    BY <1>1
  <2> QED  BY <2>2 DEF JobsIn
<1> QED  BY <1>2, <1>3

LEMMA JobsInConcat ==
  ASSUME NEW S, NEW s \in Seq(S), NEW t \in Seq(S)
  PROVE  JobsIn(s \o t) = JobsIn(s) \cup JobsIn(t)
<1>1. /\ s \o t \in Seq(S) /\ Len(s \o t) = Len(s) + Len(t)
      /\ \A i \in 1..Len(s) : (s \o t)[i] = s[i]
      /\ \A i \in 1..Len(t) : (s \o t)[Len(s) + i] = t[i]
      /\ Len(s) \in Nat /\ Len(t) \in Nat
      /\ DOMAIN s = 1..Len(s) /\ DOMAIN t = 1..Len(t)
      /\ DOMAIN (s \o t) = 1..Len(s \o t)
  OBVIOUS
<1>2. ASSUME NEW i \in 1..Len(s \o t)
      PROVE  (s \o t)[i].job \in JobsIn(s) \cup JobsIn(t)
  <2>1. CASE i \in 1..Len(s)
    BY <1>1, <2>1 DEF JobsIn
  <2>2. CASE i \notin 1..Len(s)
    <3>1. i - Len(s) \in 1..Len(t) /\ i = Len(s) + (i - Len(s))
      BY <1>1, <1>2, <2>2
    <3>2. (s \o t)[i] = t[i - Len(s)]
      BY <1>1, <3>1
    <3> QED  BY <1>1, <3>1, <3>2 DEF JobsIn
  <2> QED  BY <2>1, <2>2
<1>3. ASSUME NEW i \in 1..Len(s)  PROVE s[i].job \in JobsIn(s \o t)
  BY <1>1 DEF JobsIn
<1>4. ASSUME NEW i \in 1..Len(t)  PROVE t[i].job \in JobsIn(s \o t)
  <2>1. Len(s) + i \in 1..Len(s \o t)
    BY <1>1
  <2> QED  BY <1>1, <2>1 DEF JobsIn
<1>5. JobsIn(s \o t) \subseteq JobsIn(s) \cup JobsIn(t)
  BY <1>1, <1>2 DEF JobsIn
<1>6. JobsIn(s) \cup JobsIn(t) \subseteq JobsIn(s \o t)
  BY <1>1, <1>3, <1>4 DEF JobsIn
<1> QED  BY <1>5, <1>6

-----------------------------------------------------------------------------
(***************************************************************************)
(* The inductive invariant: which vector can hold entries at which stage.  *)
(***************************************************************************)
ScoringHolds == \A w \in Workers : wpc[w] = "scoring" <=> hand[w] # NoEntry

BatchStages ==
  /\ bpc \in {"wait", "exited"}
       => batch = <<>> /\ persisted = <<>> /\ failed = <<>>
  /\ bpc \in {"revoke", "settle"} => batch = <<>>
  /\ bpc # "tx" => written = NothingWritten
  /\ aborted => bpc = "tx" /\ env["release_failure"] > 0

StopStages ==
  /\ mainpc \in {"draining", "exited"}
       => Joined /\ batchQ = <<>>
  /\ mainpc # "draining" => rest = <<>>

Stages == ScoringHolds /\ BatchStages /\ StopStages

-----------------------------------------------------------------------------
(* Types. *)

LEMMA EntryFacts ==
  /\ \A e \in Entry : e.job \in Jobs /\ e.job # NoJob /\ e # NoEntry
                      /\ e.retries \in 0..kMaxRetries
  /\ \A e \in Entry : MayRetry(e) => [e EXCEPT !.retries = @ + 1] \in Entry
  /\ \A j \in Jobs : [job |-> j, retries |-> 0] \in Entry
<1>1. kMaxRetries \in Nat /\ Jobs \subseteq Nat \ {0}
  BY QueueAssumption
<1>2. \A e \in Entry : e.job \in Jobs /\ e.job # NoJob /\ e # NoEntry
                      /\ e.retries \in 0..kMaxRetries
  BY <1>1 DEF Entry, NoEntry, NoJob
<1>3. \A e \in Entry : MayRetry(e) => [e EXCEPT !.retries = @ + 1] \in Entry
  BY <1>1 DEF Entry, MayRetry
<1>4. \A j \in Jobs : [job |-> j, retries |-> 0] \in Entry
  BY <1>1 DEF Entry
<1> QED  BY <1>2, <1>3, <1>4

LEMMA OccurFacts ==
  ASSUME NEW k \in Events, env \in [Events -> Nat], Occur(k)
  PROVE  /\ env' \in [Events -> Nat]
         /\ \A x \in Events : env'[x] >= env[x]
         /\ env'[k] > 0
  BY DEF Occur

LEMMA EventNames == /\ {"pg_unreachable", "tx_failure", "row_failure"} \subseteq Events
                    /\ {"release_failure", "commit_unknown"} \subseteq Events
                    /\ {"revoke_failure", "write_refused"} \subseteq Events
                    /\ {"reply_lost", "conn_lost"} \subseteq Events
                    /\ {"redis_down", "result_expiry", "crash"} \subseteq Events
                    /\ {"stop", "restart"} \subseteq Events
  BY DEF Events

LEMMA TouchType ==
  ASSUME NEW t, conn \in [Threads -> {"unset", "ok", "dead"}], Touch(t)
  PROVE  conn' \in [Threads -> {"unset", "ok", "dead"}]
  BY DEF Touch

LEMMA SeqFacts ==
  ASSUME NEW S, NEW s \in Seq(S)
  PROVE  /\ s # <<>> => Head(s) \in S /\ Tail(s) \in Seq(S)
         /\ \A e \in S : Append(s, e) \in Seq(S)
         /\ \A t \in Seq(S) : s \o t \in Seq(S)
         /\ <<>> \in Seq(S)
  OBVIOUS

LEMMA ReinstateType ==
  ASSUME TypeOK, NEW t, NEW e \in Entry, Reinstate(t, e)
  PROVE  /\ queue' \in Seq(Entry) /\ dead' \subseteq Jobs
         /\ spool' \subseteq Jobs
         /\ result' \in [Jobs -> {"none", "ok", "failed"}]
         /\ conn' \in [Threads -> {"unset", "ok", "dead"}]
         /\ env' \in [Events -> Nat]
<1>1. MayRetry(e) => Requeued(e) \in Seq(Entry)
  BY EntryFacts, SeqFacts DEF TypeOK, Requeued
<1>2. ASSUME NEW r, NEW o, DeadLettered(e.job, r, o)
      PROVE  /\ dead' \subseteq Jobs /\ spool' \subseteq Jobs
             /\ result' \in [Jobs -> {"none", "ok", "failed"}]
  BY <1>2, EntryFacts DEF DeadLettered, TypeOK
<1>3. CASE /\ MayRetry(e) /\ Reaches(t) /\ Touch(t)
           /\ queue' = Requeued(e) /\ UNCHANGED <<dead, spool, result, env>>
  BY <1>1, <1>3, TouchType DEF TypeOK
<1>4. CASE /\ Touch(t) /\ DeadLettered(e.job, Reaches(t), Reaches(t))
           /\ UNCHANGED <<queue, env>>
  BY <1>2, <1>4, TouchType DEF TypeOK
<1>5. CASE /\ Occur("write_refused") /\ Touch(t)
           /\ \E onRedis, told \in BOOLEAN : DeadLettered(e.job, onRedis, told)
           /\ UNCHANGED queue
  BY <1>2, <1>5, TouchType, OccurFacts, EventNames DEF TypeOK
<1>6. CASE /\ MayRetry(e) /\ Occur("reply_lost")
           /\ conn' = [conn EXCEPT ![t] = "dead"]
           /\ queue' = Requeued(e) /\ DeadLettered(e.job, FALSE, FALSE)
  BY <1>1, <1>2, <1>6, OccurFacts, EventNames DEF TypeOK
<1> QED  BY <1>3, <1>4, <1>5, <1>6 DEF Reinstate

(***************************************************************************)
(* Next without the order in which Produce queues the jobs: the lemmas     *)
(* about steps hold for it too, so that SubmitExam, whose requests         *)
(* interleave, can use them.                                               *)
(***************************************************************************)
PipelineNext == \/ \E j \in Jobs : Enqueue(j)
                \/ \E w \in Workers : WorkerStep(w)
                \/ BatchStep
                \/ StopStep
                \/ Surroundings

LEMMA NextIsPipeline == [Next]_vars => [PipelineNext]_vars
  BY DEF Next, Produce, PipelineNext

LEMMA TypeInit == Init => TypeOK
<1> SUFFICES ASSUME Init PROVE TypeOK
  OBVIOUS
<1>1. row \in [Devices -> Row]
  BY DEF Init, Row
<1>2. hand \in [Workers -> Entry \cup {NoEntry}]
  BY DEF Init
<1>3. written \in [Devices -> Jobs \cup {NoJob}]
  BY DEF Init, NothingWritten
<1>4. env \in [Events -> Nat]
  BY DEF Init
<1>5. conn \in [Threads -> {"unset", "ok", "dead"}]
  BY DEF Init
<1>6. /\ wpc \in [Workers -> {"brpop", "scoring", "exited"}]
      /\ result \in [Jobs -> {"none", "ok", "failed"}]
      /\ approval \in [Devices -> {"none", "granted", "spent"}]
  BY DEF Init
<1>7. /\ queue \in Seq(Entry) /\ batchQ \in Seq(Entry) /\ batch \in Seq(Entry)
      /\ persisted \in Seq(Entry) /\ failed \in Seq(Entry)
      /\ rest \in Seq(Entry)
  BY DEF Init
<1>8. /\ dead \subseteq Jobs /\ spool \subseteq Jobs /\ submitted \subseteq Jobs
      /\ refused \subseteq Jobs /\ saved \subseteq Jobs
      /\ redisUp \in BOOLEAN /\ aborted \in BOOLEAN /\ running \in BOOLEAN
      /\ bpc = "wait" /\ mainpc = "run"
  BY DEF Init
<1> QED  BY <1>1, <1>2, <1>3, <1>4, <1>5, <1>6, <1>7, <1>8 DEF TypeOK

LEMMA CommittedType ==
  ASSUME TypeOK, Committed
  PROVE  /\ row' \in [Devices -> Row] /\ saved' \subseteq Jobs
         /\ approval' \in [Devices -> {"none", "granted", "spent"}]
<1>1. \A d \in Devices : written[d] # NoJob
         => [kind |-> "scored", job |-> written[d]] \in Row
  BY DEF TypeOK, Row
<1>2. JobsIn(persisted) \subseteq Jobs
  BY EntryFacts DEF TypeOK, JobsIn
<1> QED  BY <1>1, <1>2 DEF Committed, TypeOK

LEMMA TypeNext == TypeOK /\ ScoringHolds /\ [PipelineNext]_vars => TypeOK'
<1> SUFFICES ASSUME TypeOK, ScoringHolds, [PipelineNext]_vars PROVE TypeOK'
  OBVIOUS
<1> USE DEF redisVars, dbVars, workerVars, batchVars, mainVars, history
<1> USE EntryFacts, SeqFacts
<1>0. CASE UNCHANGED vars
  BY <1>0 DEF TypeOK, vars
<1>1. ASSUME NEW j \in Jobs, Enqueue(j) PROVE TypeOK'
  <2> DEFINE e == [job |-> j, retries |-> 0]
  <2>0. e \in Entry /\ queue \in Seq(Entry)
    BY EntryFacts DEF TypeOK
  <2>3. Append(queue, e) \in Seq(Entry)
    BY <2>0, SeqFacts
  <2>4. Append(Append(queue, e), e) \in Seq(Entry)
    BY <2>0, <2>3, SeqFacts
  <2>5. queue' = Append(queue, e) \/ queue' = Append(Append(queue, e), e)
    BY <1>1 DEF Enqueue
  <2>1. queue' \in Seq(Entry)
    BY <2>3, <2>4, <2>5
  <2>2. env' \in [Events -> Nat]
    BY <1>1, OccurFacts, EventNames DEF Enqueue, TypeOK
  <2> QED  BY <1>1, <2>1, <2>2 DEF Enqueue, TypeOK
<1>2. ASSUME NEW w \in Workers, WorkerPop(w) PROVE TypeOK'
  BY <1>2, OccurFacts, EventNames, TouchType DEF WorkerPop, TypeOK, Popped
<1>3. ASSUME NEW w \in Workers, WorkerPopNothing(w) PROVE TypeOK'
  BY <1>3, OccurFacts, EventNames, TouchType DEF WorkerPopNothing, TypeOK,
     LoopAgain
<1>4. ASSUME NEW w \in Workers, WorkerConnLost(w) PROVE TypeOK'
  <2>1. queue' \in Seq(Entry)
    BY <1>4 DEF WorkerConnLost, TypeOK
  <2>2. env' \in [Events -> Nat]
    BY <1>4, OccurFacts, EventNames DEF WorkerConnLost, TypeOK
  <2> QED  BY <1>4, <2>1, <2>2 DEF WorkerConnLost, LoopAgain, TypeOK
<1>5. ASSUME NEW w \in Workers, WorkerPush(w) PROVE TypeOK'
  <2>1. hand[w] \in Entry
    BY <1>5 DEF WorkerPush, TypeOK, ScoringHolds
  <2>2. batchQ' \in Seq(Entry)
    BY <1>5, <2>1 DEF WorkerPush, TypeOK
  <2> QED  BY <1>5, <2>2 DEF WorkerPush, LoopAgain, TypeOK
<1>6. CASE BatchTake
  BY <1>6, OccurFacts, EventNames, TouchType DEF BatchTake, TypeOK
<1>7. CASE BatchExit
  BY <1>7, OccurFacts, EventNames, TouchType DEF BatchExit, TypeOK
<1>8. CASE BatchWrite
  BY <1>8, OccurFacts, EventNames, TouchType DEF BatchWrite, TypeOK
<1>9. CASE BatchWriteFails
  BY <1>9, OccurFacts, EventNames, TouchType DEF BatchWriteFails, TypeOK
<1>10. CASE BatchCommit
  <2>1. UNCHANGED <<dbVars, saved>> \/ Committed
    BY <1>10 DEF BatchCommit, NothingCommitted
  <2>2. /\ row' \in [Devices -> Row] /\ saved' \subseteq Jobs
        /\ approval' \in [Devices -> {"none", "granted", "spent"}]
    BY <2>1, CommittedType DEF TypeOK
  <2>3. written' \in [Devices -> Jobs \cup {NoJob}]
    BY <1>10 DEF BatchCommit, TxEnds, NothingWritten
  <2> QED  BY <1>10, <2>2, <2>3 DEF BatchCommit, TxEnds, TypeOK
<1>11. CASE BatchCommitFails
  <2>1. UNCHANGED <<dbVars, saved>> \/ Committed
    BY <1>11 DEF BatchCommitFails, NothingCommitted
  <2>2. /\ row' \in [Devices -> Row] /\ saved' \subseteq Jobs
        /\ approval' \in [Devices -> {"none", "granted", "spent"}]
    BY <2>1, CommittedType DEF TypeOK
  <2>3. written' \in [Devices -> Jobs \cup {NoJob}]
    BY <1>11 DEF BatchCommitFails, TxEnds, NothingWritten
  <2>4. env' \in [Events -> Nat]
    BY <1>11, OccurFacts, EventNames DEF BatchCommitFails, TypeOK
  <2>5. failed' \in Seq(Entry) /\ persisted' \in Seq(Entry)
    BY <1>11 DEF BatchCommitFails, CommitFailed, TypeOK
  <2> QED  BY <1>11, <2>2, <2>3, <2>4, <2>5 DEF BatchCommitFails, TxEnds,
              TypeOK
<1>12. CASE BatchRevoke
  BY <1>12, OccurFacts, EventNames, TouchType DEF BatchRevoke, TypeOK
<1>13. CASE BatchReinstate
  <2>1. Head(failed) \in Entry /\ Tail(failed) \in Seq(Entry)
    BY <1>13 DEF BatchReinstate, TypeOK
  <2> QED  BY <1>13, <2>1, ReinstateType DEF BatchReinstate, TypeOK
<1>14. CASE BatchReport
  BY <1>14, OccurFacts, EventNames, TouchType DEF BatchReport, TypeOK
<1>15. CASE BatchDone
  BY <1>15, OccurFacts, EventNames, TouchType DEF BatchDone, TypeOK
<1>16. CASE Stop
  BY <1>16, OccurFacts, EventNames, TouchType DEF Stop, TypeOK
<1>17. CASE StopDrain
  BY <1>17, OccurFacts, EventNames, TouchType DEF StopDrain, TypeOK
<1>18. CASE StopReinstate
  <2>1. Head(rest) \in Entry /\ Tail(rest) \in Seq(Entry)
    BY <1>18 DEF StopReinstate, TypeOK
  <2> QED  BY <1>18, <2>1, ReinstateType DEF StopReinstate, TypeOK
<1>19. CASE StopDone
  BY <1>19, OccurFacts, EventNames, TouchType DEF StopDone, TypeOK
<1>20. CASE Crash
  BY <1>20, OccurFacts, EventNames, TouchType DEF Crash, TypeOK,
     NothingWritten
<1>21. CASE Restart
  BY <1>21, OccurFacts, EventNames, TouchType DEF Restart, TypeOK
<1>22. CASE RedisDown
  BY <1>22, OccurFacts, EventNames, TouchType DEF RedisDown, TypeOK
<1>23. CASE RedisBack
  BY <1>23, OccurFacts, EventNames, TouchType DEF RedisBack, TypeOK
<1>24. ASSUME NEW j \in Jobs, ResultExpires(j) PROVE TypeOK'
  BY <1>24, OccurFacts, EventNames, TouchType DEF ResultExpires, TypeOK
<1>25. ASSUME NEW d \in Devices, Approve(d) PROVE TypeOK'
  BY <1>25, OccurFacts, EventNames, TouchType DEF Approve, TypeOK
<1> QED
  BY <1>0, <1>1, <1>2, <1>3, <1>4, <1>5, <1>6, <1>7, <1>8, <1>9, <1>10, <1>11, <1>12, <1>13, <1>14, <1>15, <1>16, <1>17, <1>18, <1>19, <1>20, <1>21, <1>22, <1>23, <1>24, <1>25 DEF PipelineNext, 
     WorkerStep, BatchStep, StopStep, Surroundings

-----------------------------------------------------------------------------
(* Stages. *)

LEMMA StagesInit == Init => Stages
  BY DEF Init, Stages, ScoringHolds, BatchStages, StopStages, NothingWritten

LEMMA ReinstateEvent ==
  ASSUME NEW t, NEW e, Reinstate(t, e)
  PROVE  (\E k \in Events : Occur(k)) \/ UNCHANGED env
  BY EventNames DEF Reinstate

(* No event is ever forgotten. *)
LEMMA SomeEvent == [PipelineNext]_vars => (\E k \in Events : Occur(k)) \/ UNCHANGED env
<1> SUFFICES ASSUME [PipelineNext]_vars PROVE (\E k \in Events : Occur(k)) \/ UNCHANGED env
  OBVIOUS
<1> USE DEF redisVars, dbVars, workerVars, batchVars, mainVars, history
<1>0. CASE UNCHANGED vars
  BY <1>0, EventNames DEF vars
<1>1. ASSUME NEW j \in Jobs, Enqueue(j) PROVE (\E k \in Events : Occur(k)) \/ UNCHANGED env
  BY <1>1, EventNames DEF Enqueue
<1>2. ASSUME NEW w \in Workers, WorkerPop(w) PROVE (\E k \in Events : Occur(k)) \/ UNCHANGED env
  BY <1>2, EventNames DEF WorkerPop, Popped
<1>3. ASSUME NEW w \in Workers, WorkerPopNothing(w) PROVE (\E k \in Events : Occur(k)) \/ UNCHANGED env
  BY <1>3, EventNames DEF WorkerPopNothing, LoopAgain
<1>4. ASSUME NEW w \in Workers, WorkerConnLost(w) PROVE (\E k \in Events : Occur(k)) \/ UNCHANGED env
  BY <1>4, EventNames DEF WorkerConnLost, LoopAgain
<1>5. ASSUME NEW w \in Workers, WorkerPush(w) PROVE (\E k \in Events : Occur(k)) \/ UNCHANGED env
  BY <1>5, EventNames DEF WorkerPush, LoopAgain
<1>6. CASE BatchTake
  BY <1>6, EventNames DEF BatchTake
<1>7. CASE BatchExit
  BY <1>7, EventNames DEF BatchExit
<1>8. CASE BatchWrite
  BY <1>8, EventNames DEF BatchWrite
<1>9. CASE BatchWriteFails
  BY <1>9, EventNames DEF BatchWriteFails
<1>10. CASE BatchCommit
  BY <1>10, EventNames DEF BatchCommit
<1>11. CASE BatchCommitFails
  BY <1>11, EventNames DEF BatchCommitFails
<1>12. CASE BatchRevoke
  BY <1>12, EventNames DEF BatchRevoke
<1>13. CASE BatchReinstate
  BY <1>13, EventNames, ReinstateEvent DEF BatchReinstate
<1>14. CASE BatchReport
  BY <1>14, EventNames DEF BatchReport
<1>15. CASE BatchDone
  BY <1>15, EventNames DEF BatchDone
<1>16. CASE Stop
  BY <1>16, EventNames DEF Stop
<1>17. CASE StopDrain
  BY <1>17, EventNames DEF StopDrain
<1>18. CASE StopReinstate
  BY <1>18, EventNames, ReinstateEvent DEF StopReinstate
<1>19. CASE StopDone
  BY <1>19, EventNames DEF StopDone
<1>20. CASE Crash
  BY <1>20, EventNames DEF Crash
<1>21. CASE Restart
  BY <1>21, EventNames DEF Restart
<1>22. CASE RedisDown
  BY <1>22, EventNames DEF RedisDown
<1>23. CASE RedisBack
  BY <1>23, EventNames DEF RedisBack
<1>24. ASSUME NEW j \in Jobs, ResultExpires(j) PROVE (\E k \in Events : Occur(k)) \/ UNCHANGED env
  BY <1>24, EventNames DEF ResultExpires
<1>25. ASSUME NEW d \in Devices, Approve(d) PROVE (\E k \in Events : Occur(k)) \/ UNCHANGED env
  BY <1>25, EventNames DEF Approve
<1> QED
  BY <1>0, <1>1, <1>2, <1>3, <1>4, <1>5, <1>6, <1>7, <1>8, <1>9, <1>10, <1>11,
     <1>12, <1>13, <1>14, <1>15, <1>16, <1>17, <1>18, <1>19, <1>20, <1>21,
     <1>22, <1>23, <1>24, <1>25 DEF PipelineNext, WorkerStep, BatchStep,
     StopStep, Surroundings

LEMMA EnvGrows ==
  ASSUME TypeOK, [PipelineNext]_vars
  PROVE  /\ env' \in [Events -> Nat]
         /\ \A x \in Events : env'[x] >= env[x] /\ (env'[x] = 0 => env[x] = 0)
<1>1. (\E k \in Events : Occur(k)) \/ UNCHANGED env
  BY SomeEvent
<1>2. CASE UNCHANGED env
  BY <1>2 DEF TypeOK
<1>3. CASE \E k \in Events : Occur(k)
  <2>1. env' \in [Events -> Nat] /\ env \in [Events -> Nat]
    BY <1>3, OccurFacts DEF TypeOK
  <2>2. \A x \in Events : env'[x] >= env[x]
    BY <1>3, OccurFacts DEF TypeOK
  <2> QED  BY <2>1, <2>2
<1> QED  BY <1>1, <1>2, <1>3

LEMMA ScoringNext == TypeOK /\ Stages /\ [PipelineNext]_vars => ScoringHolds'
<1> SUFFICES ASSUME TypeOK, Stages, [PipelineNext]_vars PROVE ScoringHolds'
  OBVIOUS
<1> USE DEF redisVars, dbVars, workerVars, batchVars, mainVars, history
<1>0. CASE UNCHANGED vars
  BY <1>0 DEF vars, ScoringHolds, Stages, TypeOK
<1>1. ASSUME NEW j \in Jobs, Enqueue(j) PROVE ScoringHolds'
  BY <1>1 DEF Enqueue, ScoringHolds, Stages, TypeOK
<1>2. ASSUME NEW w \in Workers, WorkerPop(w) PROVE ScoringHolds'
  <2>1. Head(queue) \in Entry
    BY <1>2, SeqFacts DEF WorkerPop, TypeOK
  <2>2. hand'[w] # NoEntry /\ wpc'[w] = "scoring"
    BY <1>2, <2>1, EntryFacts DEF WorkerPop, TypeOK
  <2>3. \A v \in Workers : v # w => hand'[v] = hand[v] /\ wpc'[v] = wpc[v]
    BY <1>2 DEF WorkerPop, TypeOK
  <2> QED  BY <2>2, <2>3 DEF ScoringHolds, Stages
<1>3. ASSUME NEW w \in Workers, WorkerPopNothing(w) PROVE ScoringHolds'
  BY <1>3 DEF WorkerPopNothing, LoopAgain, ScoringHolds, Stages, TypeOK
<1>4. ASSUME NEW w \in Workers, WorkerConnLost(w) PROVE ScoringHolds'
  BY <1>4 DEF WorkerConnLost, LoopAgain, ScoringHolds, Stages, TypeOK
<1>5. ASSUME NEW w \in Workers, WorkerPush(w) PROVE ScoringHolds'
  BY <1>5 DEF WorkerPush, LoopAgain, ScoringHolds, Stages, TypeOK
<1>6. CASE BatchTake
  BY <1>6 DEF BatchTake, ScoringHolds, Stages, TypeOK
<1>7. CASE BatchExit
  BY <1>7 DEF BatchExit, ScoringHolds, Stages, TypeOK
<1>8. CASE BatchWrite
  BY <1>8 DEF BatchWrite, ScoringHolds, Stages, TypeOK
<1>9. CASE BatchWriteFails
  BY <1>9 DEF BatchWriteFails, ScoringHolds, Stages, TypeOK
<1>10. CASE BatchCommit
  BY <1>10 DEF BatchCommit, ScoringHolds, Stages, TypeOK
<1>11. CASE BatchCommitFails
  BY <1>11 DEF BatchCommitFails, ScoringHolds, Stages, TypeOK
<1>12. CASE BatchRevoke
  BY <1>12 DEF BatchRevoke, ScoringHolds, Stages, TypeOK
<1>13. CASE BatchReinstate
  BY <1>13 DEF BatchReinstate, ScoringHolds, Stages, TypeOK
<1>14. CASE BatchReport
  BY <1>14 DEF BatchReport, ScoringHolds, Stages, TypeOK
<1>15. CASE BatchDone
  BY <1>15 DEF BatchDone, ScoringHolds, Stages, TypeOK
<1>16. CASE Stop
  BY <1>16 DEF Stop, ScoringHolds, Stages, TypeOK
<1>17. CASE StopDrain
  BY <1>17 DEF StopDrain, ScoringHolds, Stages, TypeOK
<1>18. CASE StopReinstate
  BY <1>18 DEF StopReinstate, ScoringHolds, Stages, TypeOK
<1>19. CASE StopDone
  BY <1>19 DEF StopDone, ScoringHolds, Stages, TypeOK
<1>20. CASE Crash
  BY <1>20 DEF Crash, ScoringHolds, Stages, TypeOK
<1>21. CASE Restart
  BY <1>21 DEF Restart, ScoringHolds, Stages, StopStages, Joined
<1>22. CASE RedisDown
  BY <1>22 DEF RedisDown, ScoringHolds, Stages, TypeOK
<1>23. CASE RedisBack
  BY <1>23 DEF RedisBack, ScoringHolds, Stages, TypeOK
<1>24. ASSUME NEW j \in Jobs, ResultExpires(j) PROVE ScoringHolds'
  BY <1>24 DEF ResultExpires, ScoringHolds, Stages, TypeOK
<1>25. ASSUME NEW d \in Devices, Approve(d) PROVE ScoringHolds'
  BY <1>25 DEF Approve, ScoringHolds, Stages, TypeOK
<1> QED
  BY <1>0, <1>1, <1>2, <1>3, <1>4, <1>5, <1>6, <1>7, <1>8, <1>9, <1>10, <1>11,
     <1>12, <1>13, <1>14, <1>15, <1>16, <1>17, <1>18, <1>19, <1>20, <1>21,
     <1>22, <1>23, <1>24, <1>25 DEF PipelineNext, WorkerStep, BatchStep,
     StopStep, Surroundings

LEMMA BatchNext == TypeOK /\ Stages /\ [PipelineNext]_vars => BatchStages'
<1> SUFFICES ASSUME TypeOK, Stages, [PipelineNext]_vars PROVE BatchStages'
  OBVIOUS
<1> USE DEF redisVars, dbVars, workerVars, batchVars, mainVars, history
<1>g. /\ env["release_failure"] \in Nat /\ env'["release_failure"] \in Nat
      /\ env'["release_failure"] >= env["release_failure"]
  BY EnvGrows, EventNames DEF TypeOK
<1>0. CASE UNCHANGED vars
  BY <1>0, <1>g DEF vars, BatchStages, Stages, TypeOK
<1>1. ASSUME NEW j \in Jobs, Enqueue(j) PROVE BatchStages'
  BY <1>1, <1>g DEF Enqueue, BatchStages, Stages, TypeOK
<1>2. ASSUME NEW w \in Workers, WorkerPop(w) PROVE BatchStages'
  BY <1>2, <1>g DEF WorkerPop, Popped, BatchStages, Stages, TypeOK
<1>3. ASSUME NEW w \in Workers, WorkerPopNothing(w) PROVE BatchStages'
  BY <1>3, <1>g DEF WorkerPopNothing, LoopAgain, BatchStages, Stages, TypeOK
<1>4. ASSUME NEW w \in Workers, WorkerConnLost(w) PROVE BatchStages'
  BY <1>4, <1>g DEF WorkerConnLost, LoopAgain, BatchStages, Stages, TypeOK
<1>5. ASSUME NEW w \in Workers, WorkerPush(w) PROVE BatchStages'
  BY <1>5, <1>g DEF WorkerPush, LoopAgain, BatchStages, Stages, TypeOK
<1>6. CASE BatchTake
  BY <1>6, <1>g DEF BatchTake, BatchStages, Stages, TypeOK
<1>7. CASE BatchExit
  BY <1>7, <1>g DEF BatchExit, BatchStages, Stages, TypeOK
<1>8. CASE BatchWrite
  BY <1>8, <1>g DEF BatchWrite, BatchStages, Stages, TypeOK
<1>9. CASE BatchWriteFails
  <2>1. aborted' => env'["release_failure"] > 0
    BY <1>9, OccurFacts, EventNames DEF BatchWriteFails, TypeOK
  <2> QED  BY <1>9, <2>1 DEF BatchWriteFails, BatchStages, Stages
<1>10. CASE BatchCommit
  BY <1>10, <1>g DEF BatchCommit, TxEnds, BatchStages, Stages, TypeOK
<1>11. CASE BatchCommitFails
  BY <1>11, <1>g DEF BatchCommitFails, TxEnds, BatchStages, Stages, TypeOK
<1>12. CASE BatchRevoke
  BY <1>12, <1>g DEF BatchRevoke, BatchStages, Stages, TypeOK
<1>13. CASE BatchReinstate
  BY <1>13, <1>g DEF BatchReinstate, BatchStages, Stages, TypeOK
<1>14. CASE BatchReport
  BY <1>14, <1>g DEF BatchReport, BatchStages, Stages, TypeOK
<1>15. CASE BatchDone
  BY <1>15, <1>g DEF BatchDone, BatchStages, Stages, TypeOK
<1>16. CASE Stop
  BY <1>16, <1>g DEF Stop, BatchStages, Stages, TypeOK
<1>17. CASE StopDrain
  BY <1>17, <1>g DEF StopDrain, BatchStages, Stages, TypeOK
<1>18. CASE StopReinstate
  BY <1>18, <1>g DEF StopReinstate, BatchStages, Stages, TypeOK
<1>19. CASE StopDone
  BY <1>19, <1>g DEF StopDone, BatchStages, Stages, TypeOK
<1>20. CASE Crash
  BY <1>20, <1>g DEF Crash, BatchStages, Stages, TypeOK
<1>21. CASE Restart
  BY <1>21, <1>g DEF Restart, StopStages, Joined, BatchStages, Stages, TypeOK
<1>22. CASE RedisDown
  BY <1>22, <1>g DEF RedisDown, BatchStages, Stages, TypeOK
<1>23. CASE RedisBack
  BY <1>23, <1>g DEF RedisBack, BatchStages, Stages, TypeOK
<1>24. ASSUME NEW j \in Jobs, ResultExpires(j) PROVE BatchStages'
  BY <1>24, <1>g DEF ResultExpires, BatchStages, Stages, TypeOK
<1>25. ASSUME NEW d \in Devices, Approve(d) PROVE BatchStages'
  BY <1>25, <1>g DEF Approve, BatchStages, Stages, TypeOK
<1> QED
  BY <1>0, <1>1, <1>2, <1>3, <1>4, <1>5, <1>6, <1>7, <1>8, <1>9, <1>10, <1>11,
     <1>12, <1>13, <1>14, <1>15, <1>16, <1>17, <1>18, <1>19, <1>20, <1>21,
     <1>22, <1>23, <1>24, <1>25 DEF PipelineNext, WorkerStep, BatchStep,
     StopStep, Surroundings

LEMMA StopNext == TypeOK /\ Stages /\ [PipelineNext]_vars => StopStages'
<1> SUFFICES ASSUME TypeOK, Stages, [PipelineNext]_vars PROVE StopStages'
  OBVIOUS
<1> USE DEF redisVars, dbVars, workerVars, batchVars, mainVars, history
<1>0. CASE UNCHANGED vars
  BY <1>0 DEF vars, StopStages, Stages, Joined, TypeOK
<1>1. ASSUME NEW j \in Jobs, Enqueue(j) PROVE StopStages'
  BY <1>1 DEF Enqueue, StopStages, Stages, Joined, TypeOK
<1>2. ASSUME NEW w \in Workers, WorkerPop(w) PROVE StopStages'
  BY <1>2 DEF WorkerPop, Popped, StopStages, Stages, Joined, TypeOK
<1>3. ASSUME NEW w \in Workers, WorkerPopNothing(w) PROVE StopStages'
  BY <1>3 DEF WorkerPopNothing, LoopAgain, StopStages, Stages, Joined, TypeOK
<1>4. ASSUME NEW w \in Workers, WorkerConnLost(w) PROVE StopStages'
  BY <1>4 DEF WorkerConnLost, LoopAgain, StopStages, Stages, Joined, TypeOK
<1>5. ASSUME NEW w \in Workers, WorkerPush(w) PROVE StopStages'
  BY <1>5 DEF WorkerPush, LoopAgain, StopStages, Stages, Joined, TypeOK
<1>6. CASE BatchTake
  BY <1>6 DEF BatchTake, StopStages, Stages, Joined, TypeOK
<1>7. CASE BatchExit
  BY <1>7 DEF BatchExit, StopStages, Stages, Joined, TypeOK
<1>8. CASE BatchWrite
  BY <1>8 DEF BatchWrite, StopStages, Stages, Joined, TypeOK
<1>9. CASE BatchWriteFails
  BY <1>9 DEF BatchWriteFails, StopStages, Stages, Joined, TypeOK
<1>10. CASE BatchCommit
  BY <1>10 DEF BatchCommit, StopStages, Stages, Joined, TypeOK
<1>11. CASE BatchCommitFails
  BY <1>11 DEF BatchCommitFails, StopStages, Stages, Joined, TypeOK
<1>12. CASE BatchRevoke
  BY <1>12 DEF BatchRevoke, StopStages, Stages, Joined, TypeOK
<1>13. CASE BatchReinstate
  BY <1>13 DEF BatchReinstate, StopStages, Stages, Joined, TypeOK
<1>14. CASE BatchReport
  BY <1>14 DEF BatchReport, StopStages, Stages, Joined, TypeOK
<1>15. CASE BatchDone
  BY <1>15 DEF BatchDone, StopStages, Stages, Joined, TypeOK
<1>16. CASE Stop
  BY <1>16 DEF Stop, StopStages, Stages, Joined, TypeOK
<1>17. CASE StopDrain
  BY <1>17 DEF StopDrain, StopStages, Stages, Joined, TypeOK
<1>18. CASE StopReinstate
  BY <1>18 DEF StopReinstate, StopStages, Stages, Joined, TypeOK
<1>19. CASE StopDone
  BY <1>19 DEF StopDone, StopStages, Stages, Joined, TypeOK
<1>20. CASE Crash
  BY <1>20 DEF Crash, StopStages, Stages, Joined, TypeOK
<1>21. CASE Restart
  BY <1>21 DEF Restart, StopStages, Stages, Joined, TypeOK
<1>22. CASE RedisDown
  BY <1>22 DEF RedisDown, StopStages, Stages, Joined, TypeOK
<1>23. CASE RedisBack
  BY <1>23 DEF RedisBack, StopStages, Stages, Joined, TypeOK
<1>24. ASSUME NEW j \in Jobs, ResultExpires(j) PROVE StopStages'
  BY <1>24 DEF ResultExpires, StopStages, Stages, Joined, TypeOK
<1>25. ASSUME NEW d \in Devices, Approve(d) PROVE StopStages'
  BY <1>25 DEF Approve, StopStages, Stages, Joined, TypeOK
<1> QED
  BY <1>0, <1>1, <1>2, <1>3, <1>4, <1>5, <1>6, <1>7, <1>8, <1>9, <1>10, <1>11,
     <1>12, <1>13, <1>14, <1>15, <1>16, <1>17, <1>18, <1>19, <1>20, <1>21,
     <1>22, <1>23, <1>24, <1>25 DEF PipelineNext, WorkerStep, BatchStep,
     StopStep, Surroundings

LEMMA StagesNext == TypeOK /\ Stages /\ [PipelineNext]_vars => Stages'
  BY ScoringNext, BatchNext, StopNext DEF Stages

(***************************************************************************)
(* Every variable keeps its type; no entry is ever queued with more than   *)
(* kMaxRetries retries, although run_batch and stop put entries back.      *)
(***************************************************************************)
THEOREM TypeCorrect == Spec => []TypeOK
<1>1. TypeOK /\ Stages /\ [Next]_vars => (TypeOK /\ Stages)'
  BY TypeNext, StagesNext, NextIsPipeline DEF Stages
<1> QED  BY TypeInit, StagesInit, <1>1, PTL DEF Spec

THEOREM StagesCorrect == Spec => []Stages
<1>1. TypeOK /\ Stages /\ [Next]_vars => (TypeOK /\ Stages)'
  BY TypeNext, StagesNext, NextIsPipeline DEF Stages
<1> QED  BY TypeInit, StagesInit, <1>1, PTL DEF Spec

-----------------------------------------------------------------------------
(* The lists, the dead letter and the results, when an entry is put back. *)

LEMMA JobsInType ==
  ASSUME NEW s \in Seq(Entry)  PROVE JobsIn(s) \subseteq Jobs
  BY EntryFacts DEF JobsIn

LEMMA RequeuedJobs ==
  ASSUME TypeOK, NEW e \in Entry, MayRetry(e)
  PROVE  JobsIn(Requeued(e)) = JobsIn(queue) \cup {e.job}
<1>1. PICK f \in Entry : f = [e EXCEPT !.retries = @ + 1]
  BY EntryFacts
<1>2. f.job = e.job
  BY <1>1 DEF Entry
<1>3. JobsIn(Append(queue, f)) = JobsIn(queue) \cup {f.job}
  BY JobsInAppend DEF TypeOK
<1> QED  BY <1>1, <1>2, <1>3 DEF Requeued

LEMMA ReinstateEffect ==
  ASSUME TypeOK, NEW t, NEW e \in Entry, Reinstate(t, e)
  PROVE  /\ JobsIn(queue) \subseteq JobsIn(queue')
         /\ dead \subseteq dead' /\ spool \subseteq spool'
         /\ e.job \in JobsIn(queue') \cup dead' \cup spool'
         /\ \A j \in Jobs : \/ result'[j] = result[j]
                            \/ result'[j] = "failed" /\ j \in dead' \cup spool'
<1>1. MayRetry(e) => JobsIn(Requeued(e)) = JobsIn(queue) \cup {e.job}
  BY RequeuedJobs
<1>2. ASSUME NEW r \in BOOLEAN, NEW o \in BOOLEAN, DeadLettered(e.job, r, o)
      PROVE  /\ dead \subseteq dead' /\ spool \subseteq spool'
             /\ e.job \in dead' \cup spool'
             /\ \A j \in Jobs : \/ result'[j] = result[j]
                                \/ result'[j] = "failed" /\ j \in dead' \cup spool'
  BY <1>2, EntryFacts DEF DeadLettered, TypeOK
<1>3. CASE /\ MayRetry(e) /\ queue' = Requeued(e)
           /\ UNCHANGED <<dead, spool, result>>
  BY <1>1, <1>3
<1>4. CASE /\ DeadLettered(e.job, Reaches(t), Reaches(t))
           /\ UNCHANGED queue
  BY <1>2, <1>4 DEF Reaches, TypeOK
<1>5. CASE /\ \E onRedis, told \in BOOLEAN : DeadLettered(e.job, onRedis, told)
           /\ UNCHANGED queue
  BY <1>2, <1>5
<1>6. CASE /\ MayRetry(e)
           /\ queue' = Requeued(e) /\ DeadLettered(e.job, FALSE, FALSE)
  BY <1>1, <1>2, <1>6
<1> QED  BY <1>3, <1>4, <1>5, <1>6 DEF Reinstate

LEMMA BatchReinstateEffect ==
  ASSUME TypeOK, BatchReinstate
  PROVE  /\ Head(failed) \in Entry /\ Reinstate(BatchThread, Head(failed))
         /\ JobsIn(failed) = JobsIn(failed') \cup {Head(failed).job}
  BY SeqFacts, JobsInTail DEF BatchReinstate, TypeOK

LEMMA StopReinstateEffect ==
  ASSUME TypeOK, StopReinstate
  PROVE  /\ Head(rest) \in Entry /\ Reinstate(MainThread, Head(rest))
         /\ JobsIn(rest) = JobsIn(rest') \cup {Head(rest).job}
  BY SeqFacts, JobsInTail DEF StopReinstate, TypeOK

LEMMA ReportEffect ==
  ASSUME TypeOK, BatchReport
  PROVE  /\ Head(persisted) \in Entry
         /\ JobsIn(persisted) = JobsIn(persisted') \cup {Head(persisted).job}
         /\ \A j \in Jobs : \/ result'[j] = result[j]
                            \/ result'[j] = "ok" /\ j = Head(persisted).job
  BY SeqFacts, JobsInTail, EntryFacts DEF BatchReport, TypeOK

-----------------------------------------------------------------------------
(* No success before the COMMIT. *)

SuccessInv ==
  env["release_failure"] = 0 =>
    /\ \A j \in Jobs : result[j] = "ok" => j \in saved
    /\ bpc \in {"revoke", "settle"} => JobsIn(persisted) \subseteq saved

LEMMA SuccessInit == Init => SuccessInv
  BY DEF Init, SuccessInv

LEMMA SuccessNext == TypeOK /\ Stages /\ SuccessInv /\ [PipelineNext]_vars => SuccessInv'
<1> SUFFICES ASSUME TypeOK, Stages, SuccessInv, [PipelineNext]_vars PROVE SuccessInv'
  OBVIOUS
<1> USE DEF redisVars, dbVars, workerVars, batchVars, mainVars, history
<1>g. env'["release_failure"] = 0 => env["release_failure"] = 0
  BY EnvGrows, EventNames
<1>0. CASE UNCHANGED vars
  BY <1>0, <1>g DEF vars, SuccessInv, Stages, BatchStages, StopStages
<1>1. ASSUME NEW j \in Jobs, Enqueue(j) PROVE SuccessInv'
  BY <1>1, <1>g DEF Enqueue, SuccessInv, Stages, BatchStages, StopStages
<1>2. ASSUME NEW w \in Workers, WorkerPop(w) PROVE SuccessInv'
  BY <1>2, <1>g DEF WorkerPop, Popped, SuccessInv, Stages, BatchStages,
     StopStages
<1>3. ASSUME NEW w \in Workers, WorkerPopNothing(w) PROVE SuccessInv'
  BY <1>3, <1>g DEF WorkerPopNothing, LoopAgain, SuccessInv, Stages,
     BatchStages, StopStages
<1>4. ASSUME NEW w \in Workers, WorkerConnLost(w) PROVE SuccessInv'
  BY <1>4, <1>g DEF WorkerConnLost, LoopAgain, SuccessInv, Stages,
     BatchStages, StopStages
<1>5. ASSUME NEW w \in Workers, WorkerPush(w) PROVE SuccessInv'
  BY <1>5, <1>g DEF WorkerPush, LoopAgain, SuccessInv, Stages, BatchStages,
     StopStages
<1>6. CASE BatchTake
  BY <1>6, <1>g, JobsInEmpty DEF BatchTake, SuccessInv, Stages, BatchStages
<1>7. CASE BatchExit
  BY <1>7, <1>g DEF BatchExit, SuccessInv, Stages, BatchStages, StopStages
<1>8. CASE BatchWrite
  BY <1>8, <1>g DEF BatchWrite, SuccessInv
<1>9. CASE BatchWriteFails
  BY <1>9, <1>g DEF BatchWriteFails, SuccessInv, Stages, BatchStages,
     StopStages
<1>10. CASE BatchCommit
  <2>1. /\ bpc = "tx" /\ bpc' \in {"revoke", "settle"}
        /\ UNCHANGED <<persisted, result, env>>
        /\ ~aborted => Committed
        /\ aborted => UNCHANGED saved
    BY <1>10 DEF BatchCommit, NothingCommitted
  <2>2. env["release_failure"] = 0 => saved' = saved \cup JobsIn(persisted)
    BY <2>1 DEF Committed, Stages, BatchStages, TypeOK
  <2> QED  BY <2>1, <2>2 DEF SuccessInv
<1>11. CASE BatchCommitFails
  <2>1. persisted' = <<>> /\ UNCHANGED result /\ saved \subseteq saved'
    BY <1>11 DEF BatchCommitFails, CommitFailed, NothingCommitted, Committed
  <2> QED  BY <2>1, <1>g, JobsInEmpty DEF SuccessInv
<1>12. CASE BatchRevoke
  BY <1>12, <1>g DEF BatchRevoke, SuccessInv, Stages, BatchStages, StopStages
<1>13. CASE BatchReinstate
  <2>1. \A j \in Jobs : result'[j] = "ok" => result[j] = "ok"
    BY <1>13, BatchReinstateEffect, ReinstateEffect
  <2> QED  BY <1>13, <2>1, <1>g DEF BatchReinstate, SuccessInv, Stages,
              BatchStages, StopStages
<1>14. CASE BatchReport
  <2>1. bpc = "settle" /\ bpc' = bpc /\ saved' = saved
    BY <1>14 DEF BatchReport
  <2> QED  BY <1>14, <2>1, <1>g, ReportEffect DEF SuccessInv
<1>15. CASE BatchDone
  BY <1>15, <1>g DEF BatchDone, SuccessInv, Stages, BatchStages, StopStages
<1>16. CASE Stop
  BY <1>16, <1>g DEF Stop, SuccessInv, Stages, BatchStages, StopStages
<1>17. CASE StopDrain
  BY <1>17, <1>g DEF StopDrain, SuccessInv, Stages, BatchStages, StopStages
<1>18. CASE StopReinstate
  <2>1. \A j \in Jobs : result'[j] = "ok" => result[j] = "ok"
    BY <1>18, StopReinstateEffect, ReinstateEffect
  <2> QED  BY <1>18, <2>1, <1>g DEF StopReinstate, SuccessInv, Stages,
              BatchStages, StopStages
<1>19. CASE StopDone
  BY <1>19, <1>g DEF StopDone, SuccessInv, Stages, BatchStages, StopStages
<1>20. CASE Crash
  BY <1>20, <1>g, JobsInEmpty DEF Crash, SuccessInv
<1>21. CASE Restart
  BY <1>21, <1>g DEF Restart, SuccessInv
<1>22. CASE RedisDown
  BY <1>22, <1>g DEF RedisDown, SuccessInv, Stages, BatchStages, StopStages
<1>23. CASE RedisBack
  BY <1>23, <1>g DEF RedisBack, SuccessInv, Stages, BatchStages, StopStages
<1>24. ASSUME NEW j \in Jobs, ResultExpires(j) PROVE SuccessInv'
  <2>1. \A i \in Jobs : result'[i] = "ok" => result[i] = "ok"
    BY <1>24 DEF ResultExpires, TypeOK
  <2> QED  BY <1>24, <2>1, <1>g DEF ResultExpires, SuccessInv
<1>25. ASSUME NEW d \in Devices, Approve(d) PROVE SuccessInv'
  BY <1>25, <1>g DEF Approve, SuccessInv, Stages, BatchStages, StopStages
<1> QED
  BY <1>0, <1>1, <1>2, <1>3, <1>4, <1>5, <1>6, <1>7, <1>8, <1>9, <1>10, <1>11,
     <1>12, <1>13, <1>14, <1>15, <1>16, <1>17, <1>18, <1>19, <1>20, <1>21,
     <1>22, <1>23, <1>24, <1>25 DEF PipelineNext, WorkerStep, BatchStep,
     StopStep, Surroundings

(***************************************************************************)
(* A result "ok" is only published after the COMMIT that stored the job,   *)
(* unless a failed RELEASE SAVEPOINT went unnoticed.                       *)
(***************************************************************************)
THEOREM SuccessCorrect == Spec => []SuccessIsDurable
<1>1. SuccessInv => SuccessIsDurable
  BY DEF SuccessInv, SuccessIsDurable
<1>2. TypeOK /\ Stages /\ SuccessInv /\ [Next]_vars => SuccessInv'
  BY SuccessNext, NextIsPipeline
<1> QED  BY TypeCorrect, StagesCorrect, SuccessInit, <1>1, <1>2, PTL DEF Spec

-----------------------------------------------------------------------------
(* An approval is gone when the success is published. *)

RevokedInv ==
  env["revoke_failure"] = 0 /\ bpc = "settle" =>
    \A j \in JobsIn(persisted) : approval[DevOf[j]] # "spent"

\* Nobody but the batch thread spends an approval or adds to what it reports.
LEMMA RevokedFrame ==
  ASSUME RevokedInv, env'["revoke_failure"] = 0 => env["revoke_failure"] = 0,
         bpc' = bpc, UNCHANGED <<persisted, approval>>
  PROVE  RevokedInv'
  BY DEF RevokedInv, JobsIn

LEMMA RevokeEffect ==
  ASSUME TypeOK, BatchRevoke  PROVE RevokedInv'
<1>1. JobsIn(persisted) \subseteq Jobs
  BY JobsInType DEF TypeOK
<1>2. \A j \in Jobs : DevOf[j] \in Devices
  BY QueueAssumption
<1>3. JobsIn(persisted') = JobsIn(persisted)
  BY DEF BatchRevoke, batchVars
<1>4. CASE approval' = [d \in Devices |-> IF d \in ToRevoke THEN "none"
                                         ELSE approval[d]]
  <2>1. \A j \in JobsIn(persisted) : DevOf[j] \in ToRevoke
    BY DEF ToRevoke
  <2>2. \A j \in JobsIn(persisted) : approval'[DevOf[j]] = "none"
    BY <1>1, <1>2, <1>4, <2>1
  <2> QED  BY <1>3, <2>2 DEF RevokedInv
<1>5. CASE Occur("revoke_failure")
  <2>1. env'["revoke_failure"] > 0
    BY <1>5, OccurFacts, EventNames DEF TypeOK
  <2> QED  BY <2>1 DEF RevokedInv
<1> QED  BY <1>4, <1>5 DEF BatchRevoke

LEMMA RevokedNext == TypeOK /\ Stages /\ RevokedInv /\ [PipelineNext]_vars => RevokedInv'
<1> SUFFICES ASSUME TypeOK, Stages, RevokedInv, [PipelineNext]_vars PROVE RevokedInv'
  OBVIOUS
<1> USE DEF redisVars, dbVars, workerVars, batchVars, mainVars, history
<1>g. env'["revoke_failure"] = 0 => env["revoke_failure"] = 0
  BY EnvGrows, EventNames
<1>0. CASE UNCHANGED vars
  BY <1>0, <1>g, RevokedFrame DEF vars
<1>1. ASSUME NEW j \in Jobs, Enqueue(j) PROVE RevokedInv'
  BY <1>1, <1>g, RevokedFrame DEF Enqueue
<1>2. ASSUME NEW w \in Workers, WorkerPop(w) PROVE RevokedInv'
  BY <1>2, <1>g, RevokedFrame DEF WorkerPop, Popped
<1>3. ASSUME NEW w \in Workers, WorkerPopNothing(w) PROVE RevokedInv'
  BY <1>3, <1>g, RevokedFrame DEF WorkerPopNothing
<1>4. ASSUME NEW w \in Workers, WorkerConnLost(w) PROVE RevokedInv'
  BY <1>4, <1>g, RevokedFrame DEF WorkerConnLost
<1>5. ASSUME NEW w \in Workers, WorkerPush(w) PROVE RevokedInv'
  BY <1>5, <1>g, RevokedFrame DEF WorkerPush
<1>6. CASE BatchTake
  <2>1. bpc = "wait" /\ persisted' = persisted /\ persisted = <<>>
    BY <1>6 DEF BatchTake, Stages, BatchStages
  <2> QED  BY <2>1, JobsInEmpty DEF RevokedInv
<1>7. CASE BatchExit
  BY <1>7 DEF BatchExit, RevokedInv
<1>8. CASE BatchWrite
  BY <1>8 DEF BatchWrite, RevokedInv
<1>9. CASE BatchWriteFails
  BY <1>9 DEF BatchWriteFails, RevokedInv
<1>10. CASE BatchCommit
  BY <1>10 DEF BatchCommit, RevokedInv
<1>11. CASE BatchCommitFails
  <2>1. persisted' = <<>>
    BY <1>11 DEF BatchCommitFails, CommitFailed
  <2> QED  BY <2>1, JobsInEmpty DEF RevokedInv
<1>12. CASE BatchRevoke
  BY <1>12, RevokeEffect
<1>13. CASE BatchReinstate
  BY <1>13, <1>g, RevokedFrame DEF BatchReinstate
<1>14. CASE BatchReport
  <2>1. JobsIn(persisted') \subseteq JobsIn(persisted)
    BY <1>14, ReportEffect
  <2>2. bpc' = bpc /\ approval' = approval
    BY <1>14 DEF BatchReport
  <2> QED  BY <1>g, <2>1, <2>2 DEF RevokedInv
<1>15. CASE BatchDone
  BY <1>15 DEF BatchDone, RevokedInv
<1>16. CASE Stop
  BY <1>16, <1>g, RevokedFrame DEF Stop
<1>17. CASE StopDrain
  BY <1>17, <1>g, RevokedFrame DEF StopDrain
<1>18. CASE StopReinstate
  BY <1>18, <1>g, RevokedFrame DEF StopReinstate
<1>19. CASE StopDone
  BY <1>19, <1>g, RevokedFrame DEF StopDone
<1>20. CASE Crash
  BY <1>20 DEF Crash, RevokedInv
<1>21. CASE Restart
  BY <1>21 DEF Restart, RevokedInv
<1>22. CASE RedisDown
  BY <1>22, <1>g, RevokedFrame DEF RedisDown
<1>23. CASE RedisBack
  BY <1>23, <1>g, RevokedFrame DEF RedisBack
<1>24. ASSUME NEW j \in Jobs, ResultExpires(j) PROVE RevokedInv'
  BY <1>24, <1>g, RevokedFrame DEF ResultExpires
<1>25. ASSUME NEW d \in Devices, Approve(d) PROVE RevokedInv'
  <2>1. \A i \in Devices : approval'[i] = "spent" => approval[i] = "spent"
    BY <1>25 DEF Approve, TypeOK
  <2>2. JobsIn(persisted) \subseteq Jobs /\ \A i \in Jobs : DevOf[i] \in Devices
    BY JobsInType, QueueAssumption DEF TypeOK
  <2>3. bpc' = bpc /\ persisted' = persisted
    BY <1>25 DEF Approve
  <2>4. \A i \in JobsIn(persisted) : approval'[DevOf[i]] = "spent"
                                    => approval[DevOf[i]] = "spent"
    BY <2>1, <2>2
  <2>5. JobsIn(persisted') = JobsIn(persisted)
    BY <2>3
  <2> QED  BY <1>g, <2>3, <2>4, <2>5 DEF RevokedInv
<1> QED
  BY <1>0, <1>1, <1>2, <1>3, <1>4, <1>5, <1>6, <1>7, <1>8, <1>9, <1>10, <1>11,
     <1>12, <1>13, <1>14, <1>15, <1>16, <1>17, <1>18, <1>19, <1>20, <1>21,
     <1>22, <1>23, <1>24, <1>25 DEF PipelineNext, WorkerStep, BatchStep,
     StopStep, Surroundings

\* A step that publishes no success, or is the report of the batch thread.
LEMMA OnlyReports ==
  ASSUME TypeOK, [PipelineNext]_vars
  PROVE  BatchReport \/ \A j \in Jobs : result'[j] = "ok" => result[j] = "ok"
<1> DEFINE NoneNew == \A j \in Jobs : result'[j] = "ok" => result[j] = "ok"
<1> USE DEF redisVars, dbVars, workerVars, batchVars, mainVars, history
<1>0. CASE UNCHANGED vars
  BY <1>0 DEF vars
<1>1. ASSUME NEW i \in Jobs, Enqueue(i) PROVE NoneNew
  BY <1>1 DEF Enqueue
<1>2. ASSUME NEW w \in Workers, WorkerPop(w) PROVE NoneNew
  BY <1>2 DEF WorkerPop, Popped
<1>3. ASSUME NEW w \in Workers, WorkerPopNothing(w) PROVE NoneNew
  BY <1>3 DEF WorkerPopNothing
<1>4. ASSUME NEW w \in Workers, WorkerConnLost(w) PROVE NoneNew
  BY <1>4 DEF WorkerConnLost
<1>5. ASSUME NEW w \in Workers, WorkerPush(w) PROVE NoneNew
  BY <1>5 DEF WorkerPush
<1>6. CASE BatchTake
  BY <1>6 DEF BatchTake
<1>7. CASE BatchExit
  BY <1>7 DEF BatchExit
<1>8. CASE BatchWrite
  BY <1>8 DEF BatchWrite
<1>9. CASE BatchWriteFails
  BY <1>9 DEF BatchWriteFails
<1>10. CASE BatchCommit
  BY <1>10 DEF BatchCommit
<1>11. CASE BatchCommitFails
  BY <1>11 DEF BatchCommitFails
<1>12. CASE BatchRevoke
  BY <1>12 DEF BatchRevoke
<1>13. CASE BatchReinstate
  BY <1>13, BatchReinstateEffect, ReinstateEffect
<1>15. CASE BatchDone
  BY <1>15 DEF BatchDone
<1>16. CASE Stop
  BY <1>16 DEF Stop
<1>17. CASE StopDrain
  BY <1>17 DEF StopDrain
<1>18. CASE StopReinstate
  BY <1>18, StopReinstateEffect, ReinstateEffect
<1>19. CASE StopDone
  BY <1>19 DEF StopDone
<1>20. CASE Crash
  BY <1>20 DEF Crash
<1>21. CASE Restart
  BY <1>21 DEF Restart
<1>22. CASE RedisDown
  BY <1>22 DEF RedisDown
<1>23. CASE RedisBack
  BY <1>23 DEF RedisBack
<1>24. ASSUME NEW i \in Jobs, ResultExpires(i) PROVE NoneNew
  BY <1>24 DEF ResultExpires, TypeOK
<1>25. ASSUME NEW d \in Devices, Approve(d) PROVE NoneNew
  BY <1>25 DEF Approve
<1> QED
  BY <1>0, <1>1, <1>2, <1>3, <1>4, <1>5, <1>6, <1>7, <1>8, <1>9, <1>10, <1>11,
     <1>12, <1>13, <1>15, <1>16, <1>17, <1>18, <1>19, <1>20, <1>21,
     <1>22, <1>23, <1>24, <1>25 DEF PipelineNext, WorkerStep, BatchStep,
     StopStep, Surroundings

(***************************************************************************)
(* P17-C4: when run_batch publishes a success, the approval that let the   *)
(* device in is gone, unless the DELETE failed: the batch thread revokes   *)
(* between COMMIT and report, and only the report publishes.               *)
(***************************************************************************)
THEOREM RevocationCorrect == Spec => RevokedBeforeReport
<1>1. Init => RevokedInv
  BY DEF Init, RevokedInv
<1>2. TypeOK /\ Stages /\ RevokedInv /\ [Next]_vars => RevokedInv'
  BY RevokedNext, NextIsPipeline
<1>3. TypeOK /\ RevokedInv /\ [Next]_vars =>
        [env["revoke_failure"] = 0 =>
           \A j \in Jobs : result[j] # "ok" /\ result'[j] = "ok"
                          => approval[DevOf[j]] # "spent"]_vars
  <2> SUFFICES ASSUME TypeOK, RevokedInv, [Next]_vars,
                      env["revoke_failure"] = 0,
                      NEW j \in Jobs, result[j] # "ok", result'[j] = "ok"
               PROVE  approval[DevOf[j]] # "spent"
    OBVIOUS
  <2>1. BatchReport
    BY OnlyReports, NextIsPipeline
  <2>2. j = Head(persisted).job
    BY <2>1, ReportEffect
  <2>3. j \in JobsIn(persisted)
    BY <2>1, <2>2, ReportEffect
  <2> QED  BY <2>1, <2>3 DEF BatchReport, RevokedInv
<1> QED  BY TypeCorrect, StagesCorrect, <1>1, <1>2, <1>3, PTL DEF Spec, RevokedBeforeReport

-----------------------------------------------------------------------------
(* Every published failure has left a trace. *)

LEMMA TrailNext == TypeOK /\ FailureLeavesTrail /\ [PipelineNext]_vars => FailureLeavesTrail'
<1> SUFFICES ASSUME TypeOK, FailureLeavesTrail, [PipelineNext]_vars PROVE FailureLeavesTrail'
  OBVIOUS
<1> USE DEF redisVars, dbVars, workerVars, batchVars, mainVars, history
<1>0. CASE UNCHANGED vars
  BY <1>0 DEF vars, FailureLeavesTrail
<1>1. ASSUME NEW j \in Jobs, Enqueue(j) PROVE FailureLeavesTrail'
  BY <1>1 DEF Enqueue, FailureLeavesTrail
<1>2. ASSUME NEW w \in Workers, WorkerPop(w) PROVE FailureLeavesTrail'
  BY <1>2 DEF WorkerPop, Popped, FailureLeavesTrail
<1>3. ASSUME NEW w \in Workers, WorkerPopNothing(w) PROVE FailureLeavesTrail'
  BY <1>3 DEF WorkerPopNothing, LoopAgain, FailureLeavesTrail
<1>4. ASSUME NEW w \in Workers, WorkerConnLost(w) PROVE FailureLeavesTrail'
  BY <1>4 DEF WorkerConnLost, LoopAgain, FailureLeavesTrail
<1>5. ASSUME NEW w \in Workers, WorkerPush(w) PROVE FailureLeavesTrail'
  BY <1>5 DEF WorkerPush, LoopAgain, FailureLeavesTrail
<1>6. CASE BatchTake
  BY <1>6 DEF BatchTake, FailureLeavesTrail
<1>7. CASE BatchExit
  BY <1>7 DEF BatchExit, FailureLeavesTrail
<1>8. CASE BatchWrite
  BY <1>8 DEF BatchWrite, FailureLeavesTrail
<1>9. CASE BatchWriteFails
  BY <1>9 DEF BatchWriteFails, FailureLeavesTrail
<1>10. CASE BatchCommit
  BY <1>10 DEF BatchCommit, FailureLeavesTrail
<1>11. CASE BatchCommitFails
  BY <1>11 DEF BatchCommitFails, FailureLeavesTrail
<1>12. CASE BatchRevoke
  BY <1>12 DEF BatchRevoke, FailureLeavesTrail
<1>13. CASE BatchReinstate
  BY <1>13, BatchReinstateEffect, ReinstateEffect DEF FailureLeavesTrail
<1>14. CASE BatchReport
  BY <1>14, ReportEffect DEF BatchReport, FailureLeavesTrail
<1>15. CASE BatchDone
  BY <1>15 DEF BatchDone, FailureLeavesTrail
<1>16. CASE Stop
  BY <1>16 DEF Stop, FailureLeavesTrail
<1>17. CASE StopDrain
  BY <1>17 DEF StopDrain, FailureLeavesTrail
<1>18. CASE StopReinstate
  BY <1>18, StopReinstateEffect, ReinstateEffect DEF FailureLeavesTrail
<1>19. CASE StopDone
  BY <1>19 DEF StopDone, FailureLeavesTrail
<1>20. CASE Crash
  BY <1>20 DEF Crash, FailureLeavesTrail
<1>21. CASE Restart
  BY <1>21 DEF Restart, FailureLeavesTrail
<1>22. CASE RedisDown
  BY <1>22 DEF RedisDown, FailureLeavesTrail
<1>23. CASE RedisBack
  BY <1>23 DEF RedisBack, FailureLeavesTrail
<1>24. ASSUME NEW j \in Jobs, ResultExpires(j) PROVE FailureLeavesTrail'
  BY <1>24 DEF ResultExpires, FailureLeavesTrail, TypeOK
<1>25. ASSUME NEW d \in Devices, Approve(d) PROVE FailureLeavesTrail'
  BY <1>25 DEF Approve, FailureLeavesTrail
<1> QED
  BY <1>0, <1>1, <1>2, <1>3, <1>4, <1>5, <1>6, <1>7, <1>8, <1>9, <1>10, <1>11,
     <1>12, <1>13, <1>14, <1>15, <1>16, <1>17, <1>18, <1>19, <1>20, <1>21,
     <1>22, <1>23, <1>24, <1>25 DEF PipelineNext, WorkerStep, BatchStep,
     StopStep, Surroundings

(***************************************************************************)
(* A student is told "failed" only when the submission is on the failed    *)
(* list or in the spool file, whatever Redis answers to the dead letter.   *)
(***************************************************************************)
THEOREM TrailCorrect == Spec => []FailureLeavesTrail
<1>1. Init => FailureLeavesTrail
  BY DEF Init, FailureLeavesTrail
<1> QED  BY TypeCorrect, <1>1, TrailNext, NextIsPipeline, PTL DEF Spec

-----------------------------------------------------------------------------
(* The rows of the devices, and the open transaction. *)

TxInv ==
  /\ \A d \in Devices : written[d] # NoJob
       => written[d] \in JobsIn(persisted) /\ DevOf[written[d]] = d
  /\ bpc = "tx" => \A j \in JobsIn(persisted) : written[DevOf[j]] # NoJob

RowInv == TxInv /\ RowMatchesCommits

LEMMA CommittedRows ==
  ASSUME TypeOK, RowInv, bpc = "tx", Committed
  PROVE  RowMatchesCommits'
<1>1. JobsIn(persisted) \subseteq Jobs
  BY JobsInType DEF TypeOK
<1>2. \A j \in Jobs : j # NoJob /\ DevOf[j] \in Devices
  BY QueueAssumption DEF NoJob
<1>3. \A d \in Devices :
        /\ written[d] = NoJob => row'[d] = row[d]
        /\ written[d] # NoJob => row'[d].kind = "scored" /\ row'[d].job = written[d]
  BY DEF Committed
<1>4. saved' = saved \cup JobsIn(persisted)
  BY DEF Committed
<1>5. ASSUME NEW j \in saved' PROVE row'[DevOf[j]].kind = "scored"
  <2>1. j \in Jobs
    BY <1>1, <1>4 DEF TypeOK
  <2>2. CASE j \in saved
    <3>1. row[DevOf[j]].kind = "scored"
      BY <2>2 DEF RowInv, RowMatchesCommits
    <3> QED  BY <3>1, <2>1, <2>2, <1>2, <1>3 DEF RowInv, RowMatchesCommits
  <2>3. CASE j \in JobsIn(persisted)
    BY <2>1, <2>3, <1>2, <1>3 DEF RowInv, TxInv
  <2> QED  BY <2>2, <2>3, <1>4
<1>6. ASSUME NEW d \in Devices, row'[d].kind = "scored"
      PROVE  row'[d].job \in saved' /\ DevOf[row'[d].job] = d
  <2>1. CASE written[d] = NoJob
    BY <1>6, <2>1, <1>3, <1>4 DEF RowInv, RowMatchesCommits
  <2>2. CASE written[d] # NoJob
    BY <1>6, <2>2, <1>3, <1>4 DEF RowInv, TxInv
  <2> QED  BY <2>1, <2>2
<1> QED  BY <1>5, <1>6 DEF RowMatchesCommits

LEMMA RowNext == TypeOK /\ Stages /\ RowInv /\ [PipelineNext]_vars => RowInv'
<1> SUFFICES ASSUME TypeOK, Stages, RowInv, [PipelineNext]_vars PROVE RowInv'
  OBVIOUS
<1> USE DEF redisVars, dbVars, workerVars, batchVars, mainVars, history
<1>0. CASE UNCHANGED vars
  BY <1>0 DEF vars, RowInv, TxInv, RowMatchesCommits
<1>1. ASSUME NEW j \in Jobs, Enqueue(j) PROVE RowInv'
  BY <1>1 DEF Enqueue, RowInv, TxInv, RowMatchesCommits
<1>2. ASSUME NEW w \in Workers, WorkerPop(w) PROVE RowInv'
  BY <1>2 DEF WorkerPop, Popped, RowInv, TxInv, RowMatchesCommits
<1>3. ASSUME NEW w \in Workers, WorkerPopNothing(w) PROVE RowInv'
  BY <1>3 DEF WorkerPopNothing, LoopAgain, RowInv, TxInv, RowMatchesCommits
<1>4. ASSUME NEW w \in Workers, WorkerConnLost(w) PROVE RowInv'
  BY <1>4 DEF WorkerConnLost, LoopAgain, RowInv, TxInv, RowMatchesCommits
<1>5. ASSUME NEW w \in Workers, WorkerPush(w) PROVE RowInv'
  BY <1>5 DEF WorkerPush, LoopAgain, RowInv, TxInv, RowMatchesCommits
<1>6. CASE BatchTake
  <2>1. persisted = <<>> /\ UNCHANGED <<persisted, written>>
    BY <1>6 DEF BatchTake, Stages, BatchStages
  <2> QED  BY <1>6, <2>1, JobsInEmpty DEF BatchTake, RowInv, TxInv,
              RowMatchesCommits
<1>7. CASE BatchExit
  BY <1>7 DEF BatchExit, RowInv, TxInv, RowMatchesCommits
<1>8. CASE BatchWrite
  <2> DEFINE e == Head(batch)
  <2>1. e \in Entry /\ persisted \in Seq(Entry) /\ e.job \in Jobs
    BY <1>8, SeqFacts, EntryFacts DEF BatchWrite, TypeOK
  <2>2. JobsIn(persisted') = JobsIn(persisted) \cup {e.job}
    BY <1>8, <2>1, JobsInAppend DEF BatchWrite
  <2>3. /\ written' = [written EXCEPT ![DevOf[e.job]] = e.job]
        /\ bpc = "tx" /\ UNCHANGED <<row, saved, bpc>>
    BY <1>8 DEF BatchWrite
  <2>4. JobsIn(persisted) \subseteq Jobs /\ DevOf \in [Jobs -> Devices]
        /\ NoJob \notin Jobs
    BY <2>1, JobsInType, QueueAssumption DEF NoJob
  <2>5. \A d \in Devices : written'[d] = IF d = DevOf[e.job] THEN e.job
                                         ELSE written[d]
    BY <2>1, <2>3, <2>4 DEF TypeOK
  <2>6. TxInv'
    BY <2>1, <2>2, <2>3, <2>4, <2>5 DEF TxInv, RowInv
  <2> QED  BY <2>3, <2>6 DEF RowInv, RowMatchesCommits
<1>9. CASE BatchWriteFails
  BY <1>9 DEF BatchWriteFails, RowInv, TxInv, RowMatchesCommits
<1>10. CASE BatchCommit
  <2>1. bpc = "tx" /\ (UNCHANGED <<dbVars, saved>> \/ Committed)
    BY <1>10 DEF BatchCommit, NothingCommitted
  <2>2. RowMatchesCommits'
    BY <2>1, CommittedRows DEF RowInv, RowMatchesCommits
  <2>3. bpc' # "tx" /\ written' = NothingWritten
    BY <1>10 DEF BatchCommit, TxEnds
  <2> QED  BY <2>2, <2>3 DEF RowInv, TxInv, NothingWritten
<1>11. CASE BatchCommitFails
  <2>1. bpc = "tx" /\ (UNCHANGED <<dbVars, saved>> \/ Committed)
    BY <1>11 DEF BatchCommitFails, NothingCommitted
  <2>2. RowMatchesCommits'
    BY <2>1, CommittedRows DEF RowInv, RowMatchesCommits
  <2>3. bpc' # "tx" /\ written' = NothingWritten
    BY <1>11 DEF BatchCommitFails, TxEnds
  <2> QED  BY <2>2, <2>3 DEF RowInv, TxInv, NothingWritten
<1>12. CASE BatchRevoke
  BY <1>12 DEF BatchRevoke, RowInv, TxInv, RowMatchesCommits
<1>13. CASE BatchReinstate
  BY <1>13 DEF BatchReinstate, RowInv, TxInv, RowMatchesCommits
<1>14. CASE BatchReport
  <2>1. bpc = "settle" /\ bpc' = bpc /\ UNCHANGED <<row, saved, written>>
    BY <1>14 DEF BatchReport
  <2> QED  BY <2>1 DEF RowInv, TxInv, RowMatchesCommits, NothingWritten, Stages,
              BatchStages
<1>15. CASE BatchDone
  BY <1>15 DEF BatchDone, RowInv, TxInv, RowMatchesCommits
<1>16. CASE Stop
  BY <1>16 DEF Stop, RowInv, TxInv, RowMatchesCommits
<1>17. CASE StopDrain
  BY <1>17 DEF StopDrain, RowInv, TxInv, RowMatchesCommits
<1>18. CASE StopReinstate
  BY <1>18 DEF StopReinstate, RowInv, TxInv, RowMatchesCommits
<1>19. CASE StopDone
  BY <1>19 DEF StopDone, RowInv, TxInv, RowMatchesCommits
<1>20. CASE Crash
  BY <1>20 DEF Crash, RowInv, TxInv, RowMatchesCommits, NothingWritten
<1>21. CASE Restart
  BY <1>21 DEF Restart, RowInv, TxInv, RowMatchesCommits
<1>22. CASE RedisDown
  BY <1>22 DEF RedisDown, RowInv, TxInv, RowMatchesCommits
<1>23. CASE RedisBack
  BY <1>23 DEF RedisBack, RowInv, TxInv, RowMatchesCommits
<1>24. ASSUME NEW j \in Jobs, ResultExpires(j) PROVE RowInv'
  BY <1>24 DEF ResultExpires, RowInv, TxInv, RowMatchesCommits
<1>25. ASSUME NEW d \in Devices, Approve(d) PROVE RowInv'
  BY <1>25 DEF Approve, RowInv, TxInv, RowMatchesCommits
<1> QED
  BY <1>0, <1>1, <1>2, <1>3, <1>4, <1>5, <1>6, <1>7, <1>8, <1>9, <1>10, <1>11,
     <1>12, <1>13, <1>14, <1>15, <1>16, <1>17, <1>18, <1>19, <1>20, <1>21,
     <1>22, <1>23, <1>24, <1>25 DEF PipelineNext, WorkerStep, BatchStep,
     StopStep, Surroundings

(***************************************************************************)
(* A device with a stored job shows scored answers, and scored answers are *)
(* those of a stored job of that device, never of an aborted transaction.  *)
(***************************************************************************)
THEOREM RowsCorrect == Spec => []RowMatchesCommits
<1>1. Init => RowInv
  BY DEF Init, RowInv, TxInv, RowMatchesCommits, NothingWritten
<1>2. TypeOK /\ Stages /\ RowInv /\ [Next]_vars => RowInv'
  BY RowNext, NextIsPipeline
<1>3. RowInv => RowMatchesCommits
  BY DEF RowInv
<1> QED  BY TypeCorrect, StagesCorrect, <1>1, <1>2, <1>3, PTL DEF Spec

-----------------------------------------------------------------------------
(* Nothing accepted disappears. *)

Calm  == \A k \in LosingEvents : env[k] = 0
Held  == {hand[w].job : w \in {v \in Workers : wpc[v] = "scoring"}}
Found == InMemory \cup OnRecord

LEMMA FoundParts ==
  /\ Found = Held \cup JobsIn(batchQ) \cup JobsIn(batch) \cup JobsIn(persisted)
             \cup JobsIn(failed) \cup JobsIn(rest)
             \cup saved \cup JobsIn(queue) \cup dead \cup spool
  /\ Found' = Held' \cup JobsIn(batchQ') \cup JobsIn(batch')
              \cup JobsIn(persisted') \cup JobsIn(failed') \cup JobsIn(rest')
              \cup saved' \cup JobsIn(queue') \cup dead' \cup spool'
  BY DEF Found, InMemory, OnRecord, Held

LEMMA LossNames == LosingEvents \subseteq Events
                   /\ {"pg_unreachable", "release_failure"} \subseteq LosingEvents
                   /\ {"conn_lost", "crash"} \subseteq LosingEvents
  BY DEF LosingEvents, Events

(***************************************************************************)
(* No step but a losing one takes a job away from all places at once.      *)
(***************************************************************************)
Kept == /\ Found \subseteq Found'
        /\ submitted' \subseteq submitted \cup Found'

LEMMA KeptNext == TypeOK /\ Stages /\ SuccessInv /\ Calm' /\ [PipelineNext]_vars => Kept
<1> SUFFICES ASSUME TypeOK, Stages, SuccessInv, Calm', [PipelineNext]_vars PROVE Kept
  OBVIOUS
<1> USE DEF redisVars, dbVars, workerVars, batchVars, mainVars, history
<1> USE DEF Kept
<1>h. Calm /\ Calm' /\ env' \in [Events -> Nat] /\ env \in [Events -> Nat]
  BY EnvGrows, LossNames DEF Calm, TypeOK
<1>0. CASE UNCHANGED vars
  BY <1>0, FoundParts DEF vars, Held
<1>1. ASSUME NEW j \in Jobs, Enqueue(j) PROVE Kept
  <2> DEFINE e == [job |-> j, retries |-> 0]
  <2>1. e \in Entry /\ queue \in Seq(Entry) /\ Append(queue, e) \in Seq(Entry)
    BY EntryFacts, SeqFacts DEF TypeOK
  <2>a. JobsIn(Append(queue, e)) = JobsIn(queue) \cup {e.job}
    BY <2>1, JobsInAppend
  <2>b. JobsIn(Append(Append(queue, e), e))
          = JobsIn(Append(queue, e)) \cup {e.job}
    BY <2>1, JobsInAppend
  <2>2. /\ JobsIn(Append(queue, e)) = JobsIn(queue) \cup {e.job}
        /\ JobsIn(Append(Append(queue, e), e)) = JobsIn(queue) \cup {e.job}
    BY <2>a, <2>b
  <2>3. queue' = Append(queue, e) \/ queue' = Append(Append(queue, e), e)
    BY <1>1 DEF Enqueue
  <2>4. JobsIn(queue') = JobsIn(queue) \cup {j}
    BY <2>2, <2>3
  <2>5. submitted' \subseteq submitted \cup {j}
    BY <1>1 DEF Enqueue
  <2>6. UNCHANGED <<dead, spool, wpc, hand, batchQ, batch, persisted, failed,
                    rest, saved>>
    BY <1>1 DEF Enqueue
  <2>7. Held' = Held
    BY <2>6 DEF Held
  <2> HIDE DEF e
  <2> QED  BY <2>4, <2>5, <2>6, <2>7, FoundParts
<1>2. ASSUME NEW w \in Workers, WorkerPop(w) PROVE Kept
  <2>1. JobsIn(queue) = JobsIn(queue') \cup {Head(queue).job}
    BY <1>2, JobsInTail DEF WorkerPop, Popped, TypeOK
  <2>2. wpc[w] = "brpop" /\ wpc'[w] = "scoring" /\ hand'[w] = Head(queue)
    BY <1>2 DEF WorkerPop, TypeOK
  <2>3. \A v \in Workers : v # w => hand'[v] = hand[v] /\ wpc'[v] = wpc[v]
    BY <1>2 DEF WorkerPop, TypeOK
  <2>4. Held \cup {Head(queue).job} \subseteq Held'
    BY <2>2, <2>3 DEF Held
  <2> QED  BY <1>2, <2>1, <2>4, FoundParts DEF WorkerPop
<1>3. ASSUME NEW w \in Workers, WorkerPopNothing(w) PROVE Kept
  <2>1. Held \subseteq Held'
    BY <1>3 DEF WorkerPopNothing, LoopAgain, Held, TypeOK
  <2> QED  BY <1>3, <2>1, FoundParts DEF WorkerPopNothing
<1>4. ASSUME NEW w \in Workers, WorkerConnLost(w) PROVE Kept
  <2>1. Occur("conn_lost") /\ "conn_lost" \in LosingEvents /\ "conn_lost" \in Events
    BY <1>4, LossNames DEF WorkerConnLost
  <2>2. env'["conn_lost"] > 0 /\ env'["conn_lost"] = 0
    BY <2>1, <1>h, OccurFacts DEF Calm
  <2> QED  BY <2>2
<1>5. ASSUME NEW w \in Workers, WorkerPush(w) PROVE Kept
  <2>1. wpc[w] = "scoring" /\ batchQ' = Append(batchQ, hand[w])
    BY <1>5 DEF WorkerPush
  <2>2. JobsIn(batchQ') = JobsIn(batchQ) \cup {hand[w].job}
    BY <2>1, JobsInAppend DEF TypeOK
  <2>3. \A v \in Workers : v # w => hand'[v] = hand[v] /\ wpc'[v] = wpc[v]
    BY <1>5 DEF WorkerPush, TypeOK
  <2>4. Held \subseteq Held' \cup {hand[w].job}
    BY <2>3 DEF Held
  <2> QED  BY <1>5, <2>2, <2>4, FoundParts DEF WorkerPush
<1>6. CASE BatchTake
  <2>1. batch = <<>> /\ failed = <<>> /\ UNCHANGED <<wpc, hand, persisted, rest,
          saved, queue, dead, spool, submitted>>
    BY <1>6 DEF BatchTake, Stages, BatchStages
  <2>2. ~Occur("pg_unreachable")
    BY <1>h, OccurFacts, LossNames DEF Calm, TypeOK
  <2>3. batchQ \in {batch', failed'}
    BY <1>6, <2>2 DEF BatchTake
  <2>4. Held' = Held
    BY <2>1 DEF Held
  <2> QED  BY <2>1, <2>3, <2>4, JobsInEmpty, FoundParts
<1>7. CASE BatchExit
  BY <1>7, FoundParts DEF BatchExit, Held
<1>8. CASE BatchWrite
  <2>1. /\ JobsIn(batch) = JobsIn(batch') \cup {Head(batch).job}
        /\ JobsIn(persisted') = JobsIn(persisted) \cup {Head(batch).job}
    BY <1>8, JobsInTail, JobsInAppend DEF BatchWrite, TypeOK
  <2> QED  BY <1>8, <2>1, FoundParts DEF BatchWrite, Held
<1>9. CASE BatchWriteFails
  <2>1. /\ JobsIn(batch) = JobsIn(batch') \cup {Head(batch).job}
        /\ JobsIn(failed') = JobsIn(failed) \cup {Head(batch).job}
    BY <1>9, JobsInTail, JobsInAppend DEF BatchWriteFails, TypeOK
  <2> QED  BY <1>9, <2>1, FoundParts DEF BatchWriteFails, Held
<1>10. CASE BatchCommit
  <2>1. /\ saved \subseteq saved'
        /\ UNCHANGED <<queue, dead, spool, wpc, hand, batchQ, batch, persisted,
                       failed, rest, submitted>>
    BY <1>10 DEF BatchCommit, Committed, NothingCommitted
  <2> QED  BY <2>1, FoundParts DEF Held
<1>11. CASE BatchCommitFails
  <2>1. JobsIn(failed') = JobsIn(failed) \cup JobsIn(persisted)
    BY <1>11, JobsInConcat DEF BatchCommitFails, CommitFailed, TypeOK
  <2>2. /\ saved \subseteq saved'
        /\ UNCHANGED <<queue, dead, spool, wpc, hand, batchQ, batch, rest,
                       submitted>>
    BY <1>11 DEF BatchCommitFails, Committed, NothingCommitted
  <2> QED  BY <2>1, <2>2, FoundParts DEF Held
<1>12. CASE BatchRevoke
  BY <1>12, FoundParts DEF BatchRevoke, Held
<1>13. CASE BatchReinstate
  <2>1. UNCHANGED <<wpc, hand, batchQ, batch, persisted, rest, saved, submitted>>
    BY <1>13 DEF BatchReinstate
  <2> QED  BY <1>13, <2>1, BatchReinstateEffect, ReinstateEffect, FoundParts
              DEF Held
<1>14. CASE BatchReport
  <2>1. /\ bpc = "settle"
        /\ UNCHANGED <<queue, dead, spool, wpc, hand, batchQ, batch, failed,
                       rest, saved, submitted>>
    BY <1>14 DEF BatchReport
  <2>2. JobsIn(persisted) \subseteq saved
    BY <1>h, <2>1, LossNames DEF SuccessInv, Calm
  <2> QED  BY <2>1, <2>2, FoundParts DEF Held
<1>15. CASE BatchDone
  BY <1>15, FoundParts DEF BatchDone, Held
<1>16. CASE Stop
  BY <1>16, FoundParts DEF Stop, Held
<1>17. CASE StopDrain
  <2>1. /\ rest = <<>> /\ rest' = batchQ
        /\ UNCHANGED <<queue, dead, spool, wpc, hand, batch, persisted, failed,
                       saved, submitted>>
    BY <1>17 DEF StopDrain, Stages, StopStages
  <2> QED  BY <2>1, JobsInEmpty, FoundParts DEF Held
<1>18. CASE StopReinstate
  <2>1. UNCHANGED <<wpc, hand, batchQ, batch, persisted, failed, saved,
                    submitted>>
    BY <1>18 DEF StopReinstate
  <2> QED  BY <1>18, <2>1, StopReinstateEffect, ReinstateEffect, FoundParts
              DEF Held
<1>19. CASE StopDone
  BY <1>19, FoundParts DEF StopDone, Held
<1>20. CASE Crash
  <2>1. Occur("crash") /\ "crash" \in LosingEvents /\ "crash" \in Events
    BY <1>20, LossNames DEF Crash
  <2>2. env'["crash"] > 0 /\ env'["crash"] = 0
    BY <2>1, <1>h, OccurFacts DEF Calm
  <2> QED  BY <2>2
<1>21. CASE Restart
  <2>1. \A w \in Workers : wpc[w] = "exited"
    BY <1>21 DEF Restart, Stages, StopStages, Joined
  <2>2. Held = {}
    BY <2>1 DEF Held
  <2> QED  BY <1>21, <2>2, FoundParts DEF Restart
<1>22. CASE RedisDown
  BY <1>22, FoundParts DEF RedisDown, Held
<1>23. CASE RedisBack
  BY <1>23, FoundParts DEF RedisBack, Held
<1>24. ASSUME NEW j \in Jobs, ResultExpires(j) PROVE Kept
  BY <1>24, FoundParts DEF ResultExpires, Held
<1>25. ASSUME NEW d \in Devices, Approve(d) PROVE Kept
  BY <1>25, FoundParts DEF Approve, Held
<1> QED
  BY <1>0, <1>1, <1>2, <1>3, <1>4, <1>5, <1>6, <1>7, <1>8, <1>9, <1>10, <1>11,
     <1>12, <1>13, <1>14, <1>15, <1>16, <1>17, <1>18, <1>19, <1>20, <1>21,
     <1>22, <1>23, <1>24, <1>25 DEF PipelineNext, WorkerStep, BatchStep,
     StopStep, Surroundings


NoLossInv == Calm => submitted \subseteq Found

(***************************************************************************)
(* Whatever fails between the pop and the COMMIT, an accepted submission   *)
(* is in the process, stored, or on a durable list, unless an event of     *)
(* LosingEvents has happened.                                              *)
(***************************************************************************)
THEOREM NoLossCorrect == Spec => []NoSilentLoss
<1>1. Init => NoLossInv
  BY DEF Init, NoLossInv
<1>2. TypeOK /\ Stages /\ SuccessInv /\ NoLossInv /\ [Next]_vars => NoLossInv'
  <2> SUFFICES ASSUME TypeOK, Stages, SuccessInv, NoLossInv, [Next]_vars, Calm'
               PROVE  submitted' \subseteq Found'
    BY DEF NoLossInv
  <2>1. Calm
    BY EnvGrows, LossNames, NextIsPipeline DEF Calm, TypeOK
  <2>2. Kept
    BY KeptNext, NextIsPipeline
  <2> QED  BY <2>1, <2>2 DEF NoLossInv, Kept
<1>3. NoLossInv <=> NoSilentLoss
  BY DEF NoLossInv, NoSilentLoss, Calm, Found
<1>4. Spec => []SuccessInv
  BY TypeCorrect, StagesCorrect, SuccessInit, SuccessNext, NextIsPipeline, PTL
  DEF Spec
<1> QED  BY TypeCorrect, StagesCorrect, <1>1, <1>2, <1>3, <1>4, PTL DEF Spec

(***************************************************************************)
(* Worker::stop drains: after main() has returned there is nothing in      *)
(* memory, so what was accepted is stored or on a durable list.            *)
(***************************************************************************)
THEOREM DrainCorrect == Spec => []DrainedAtExit
<1>1. TypeOK /\ Stages /\ NoSilentLoss => DrainedAtExit
  <2> SUFFICES ASSUME TypeOK, Stages, NoSilentLoss, mainpc = "exited", Calm
               PROVE  submitted \subseteq OnRecord
    BY DEF DrainedAtExit, Calm
  <2>1. /\ batchQ = <<>> /\ rest = <<>> /\ batch = <<>> /\ persisted = <<>>
        /\ failed = <<>> /\ \A w \in Workers : wpc[w] = "exited"
    BY DEF Stages, StopStages, BatchStages, Joined
  <2>2. InMemory = {}
    BY <2>1, JobsInEmpty DEF InMemory
  <2> QED  BY <2>2 DEF NoSilentLoss, Calm
<1> QED  BY TypeCorrect, StagesCorrect, NoLossCorrect, <1>1, PTL

-----------------------------------------------------------------------------
(***************************************************************************)
(* SubmissionQueue implements JobLedger when every failed RELEASE          *)
(* SAVEPOINT is excluded: the step simulation behind ImplementsLedger.     *)
(***************************************************************************)
(* Without a failed RELEASE no transaction is ever taken for committed. *)

NoRelease == env["release_failure"] = 0

LEMMA NoReleaseNext ==
  ASSUME MaxEvents["release_failure"] = 0, TypeOK, NoRelease, [PipelineNext]_vars
  PROVE  NoRelease'
<1>1. (\E k \in Events : Occur(k)) \/ UNCHANGED env
  BY SomeEvent
<1>2. ASSUME NEW k \in Events, Occur(k) PROVE NoRelease'
  <2>1. k # "release_failure"
    BY <1>2 DEF Occur, NoRelease
  <2>2. "release_failure" \in Events
    BY EventNames
  <2> QED  BY <1>2, <2>1, <2>2 DEF Occur, NoRelease, Events
<1> QED  BY <1>1, <1>2 DEF NoRelease

-----------------------------------------------------------------------------
(***************************************************************************)
(* Nothing is invented: each job anywhere in the pipeline was taken in.    *)
(***************************************************************************)
Taken == submitted \cup refused

Provenance ==
  /\ JobsIn(queue) \subseteq Taken /\ JobsIn(batchQ) \subseteq Taken
  /\ JobsIn(batch) \subseteq Taken /\ JobsIn(persisted) \subseteq Taken
  /\ JobsIn(failed) \subseteq Taken /\ JobsIn(rest) \subseteq Taken
  /\ \A w \in Workers : hand[w] # NoEntry => hand[w].job \in Taken

LEMMA ReinstateQueue ==
  ASSUME TypeOK, NEW t, NEW e \in Entry, Reinstate(t, e)
  PROVE  JobsIn(queue') \subseteq JobsIn(queue) \cup {e.job}
<1>1. MayRetry(e) => JobsIn(Requeued(e)) = JobsIn(queue) \cup {e.job}
  BY RequeuedJobs
<1>2. queue' = queue \/ (MayRetry(e) /\ queue' = Requeued(e))
  BY DEF Reinstate
<1> QED  BY <1>1, <1>2

LEMMA ProvenanceNext == TypeOK /\ Stages /\ Provenance /\ [PipelineNext]_vars => Provenance'
<1> SUFFICES ASSUME TypeOK, Stages, Provenance, [PipelineNext]_vars PROVE Provenance'
  OBVIOUS
<1> USE DEF redisVars, dbVars, workerVars, batchVars, mainVars, history
<1>0. CASE UNCHANGED vars
  BY <1>0 DEF vars, Provenance, Taken
<1>1. ASSUME NEW j \in Jobs, Enqueue(j) PROVE Provenance'
  <2> DEFINE e == [job |-> j, retries |-> 0]
  <2>1. e \in Entry /\ queue \in Seq(Entry) /\ Append(queue, e) \in Seq(Entry)
    BY EntryFacts, SeqFacts DEF TypeOK
  <2>2. JobsIn(Append(queue, e)) = JobsIn(queue) \cup {j}
    BY <2>1, JobsInAppend
  <2>3. JobsIn(Append(Append(queue, e), e)) = JobsIn(Append(queue, e)) \cup {j}
    BY <2>1, JobsInAppend
  <2>4. queue' = Append(queue, e) \/ queue' = Append(Append(queue, e), e)
    BY <1>1 DEF Enqueue
  <2>5. JobsIn(queue') = JobsIn(queue) \cup {j}
    BY <2>2, <2>3, <2>4
  <2>6. Taken \cup {j} \subseteq Taken'
    BY <1>1 DEF Enqueue, Taken
  <2>7. UNCHANGED <<hand, batchQ, batch, persisted, failed, rest>>
    BY <1>1 DEF Enqueue
  <2> HIDE DEF e
  <2> QED  BY <2>5, <2>6, <2>7 DEF Provenance
<1>2. ASSUME NEW w \in Workers, WorkerPop(w) PROVE Provenance'
  <2>1. JobsIn(queue) = JobsIn(queue') \cup {Head(queue).job}
    BY <1>2, JobsInTail DEF WorkerPop, Popped, TypeOK
  <2>2. hand' = [hand EXCEPT ![w] = Head(queue)] /\ Taken' = Taken
        /\ UNCHANGED <<batchQ, batch, persisted, failed, rest>>
    BY <1>2 DEF WorkerPop, Taken
  <2> QED  BY <2>1, <2>2 DEF Provenance, TypeOK
<1>3. ASSUME NEW w \in Workers, WorkerPopNothing(w) PROVE Provenance'
  BY <1>3 DEF WorkerPopNothing, LoopAgain, Provenance, Taken
<1>4. ASSUME NEW w \in Workers, WorkerConnLost(w) PROVE Provenance'
  <2>1. JobsIn(queue') \subseteq JobsIn(queue)
    BY <1>4, JobsInTail DEF WorkerConnLost, TypeOK
  <2> QED  BY <1>4, <2>1 DEF WorkerConnLost, Provenance, Taken
<1>5. ASSUME NEW w \in Workers, WorkerPush(w) PROVE Provenance'
  <2>1. hand[w] \in Entry /\ hand[w] # NoEntry
    BY <1>5 DEF WorkerPush, TypeOK, Stages, ScoringHolds
  <2>2. JobsIn(batchQ') = JobsIn(batchQ) \cup {hand[w].job}
    BY <1>5, <2>1, JobsInAppend DEF WorkerPush, TypeOK
  <2> QED  BY <1>5, <2>1, <2>2 DEF WorkerPush, Provenance, Taken, TypeOK
<1>6. CASE BatchTake
  <2>1. /\ batchQ' = <<>> /\ batch' \in {batch, batchQ}
        /\ failed' \in {failed, batchQ}
        /\ UNCHANGED <<queue, hand, persisted, rest, submitted, refused>>
    BY <1>6 DEF BatchTake
  <2> QED  BY <2>1, JobsInEmpty DEF Provenance, Taken
<1>7. CASE BatchExit
  BY <1>7 DEF BatchExit, Provenance, Taken
<1>8. CASE BatchWrite
  <2>1. /\ JobsIn(batch) = JobsIn(batch') \cup {Head(batch).job}
        /\ JobsIn(persisted') = JobsIn(persisted) \cup {Head(batch).job}
    BY <1>8, JobsInTail, JobsInAppend DEF BatchWrite, TypeOK
  <2> QED  BY <1>8, <2>1 DEF BatchWrite, Provenance, Taken
<1>9. CASE BatchWriteFails
  <2>1. /\ JobsIn(batch) = JobsIn(batch') \cup {Head(batch).job}
        /\ JobsIn(failed') = JobsIn(failed) \cup {Head(batch).job}
    BY <1>9, JobsInTail, JobsInAppend DEF BatchWriteFails, TypeOK
  <2> QED  BY <1>9, <2>1 DEF BatchWriteFails, Provenance, Taken
<1>10. CASE BatchCommit
  BY <1>10 DEF BatchCommit, Provenance, Taken
<1>11. CASE BatchCommitFails
  <2>1. /\ JobsIn(failed') = JobsIn(failed) \cup JobsIn(persisted)
        /\ persisted' = <<>>
    BY <1>11, JobsInConcat DEF BatchCommitFails, CommitFailed, TypeOK
  <2> QED  BY <1>11, <2>1, JobsInEmpty DEF BatchCommitFails, Provenance, Taken
<1>12. CASE BatchRevoke
  BY <1>12 DEF BatchRevoke, Provenance, Taken
<1>13. CASE BatchReinstate
  <2>1. UNCHANGED <<hand, batchQ, batch, persisted, rest, submitted, refused>>
    BY <1>13 DEF BatchReinstate
  <2> QED  BY <1>13, <2>1, BatchReinstateEffect, ReinstateQueue
           DEF Provenance, Taken
<1>14. CASE BatchReport
  BY <1>14, ReportEffect DEF BatchReport, Provenance, Taken
<1>15. CASE BatchDone
  BY <1>15 DEF BatchDone, Provenance, Taken
<1>16. CASE Stop
  BY <1>16 DEF Stop, Provenance, Taken
<1>17. CASE StopDrain
  BY <1>17, JobsInEmpty DEF StopDrain, Provenance, Taken
<1>18. CASE StopReinstate
  <2>1. UNCHANGED <<hand, batchQ, batch, persisted, failed, submitted, refused>>
    BY <1>18 DEF StopReinstate
  <2> QED  BY <1>18, <2>1, StopReinstateEffect, ReinstateQueue
           DEF Provenance, Taken
<1>19. CASE StopDone
  BY <1>19 DEF StopDone, Provenance, Taken
<1>20. CASE Crash
  BY <1>20, JobsInEmpty DEF Crash, Provenance, Taken
<1>21. CASE Restart
  BY <1>21 DEF Restart, Provenance, Taken
<1>22. CASE RedisDown
  BY <1>22 DEF RedisDown, Provenance, Taken
<1>23. CASE RedisBack
  BY <1>23 DEF RedisBack, Provenance, Taken
<1>24. ASSUME NEW j \in Jobs, ResultExpires(j) PROVE Provenance'
  BY <1>24 DEF ResultExpires, Provenance, Taken
<1>25. ASSUME NEW d \in Devices, Approve(d) PROVE Provenance'
  BY <1>25 DEF Approve, Provenance, Taken
<1> QED
  BY <1>0, <1>1, <1>2, <1>3, <1>4, <1>5, <1>6, <1>7, <1>8, <1>9, <1>10, <1>11,
     <1>12, <1>13, <1>14, <1>15, <1>16, <1>17, <1>18, <1>19, <1>20, <1>21,
     <1>22, <1>23, <1>24, <1>25 DEF PipelineNext, WorkerStep, BatchStep,
     StopStep, Surroundings

-----------------------------------------------------------------------------
(* The simulation. *)

Sim == TypeOK /\ Stages /\ SuccessInv /\ RowInv /\ NoRelease /\ Provenance

LEMMA LedgerInit == Init => Ledger!Init
  BY DEF Init, Ledger!Init, NoJob

LEMMA CommitIsStore ==
  ASSUME Sim, bpc = "tx", Committed,
         UNCHANGED <<submitted, refused, dead, spool, result>>
  PROVE  Ledger!Next
<1>1. /\ JobsIn(persisted) \subseteq submitted \cup refused
      /\ saved' = saved \cup JobsIn(persisted)
  BY DEF Sim, Provenance, Taken, Committed
<1>2. ASSUME NEW d \in Devices
      PROVE  IF \E j \in JobsIn(persisted) : DevOf[j] = d
             THEN row'[d].job \in {j \in JobsIn(persisted) : DevOf[j] = d}
             ELSE row'[d].job = row[d].job
  <2>1. /\ written[d] = NoJob => row'[d] = row[d]
        /\ written[d] # NoJob => row'[d].job = written[d]
    BY DEF Committed
  <2>2. written[d] # NoJob <=> \E j \in JobsIn(persisted) : DevOf[j] = d
    BY DEF Sim, RowInv, TxInv
  <2>3. written[d] # NoJob
          => written[d] \in {j \in JobsIn(persisted) : DevOf[j] = d}
    BY DEF Sim, RowInv, TxInv
  <2> QED  BY <2>1, <2>2, <2>3
<1>3. PICK S \in SUBSET Jobs : S = JobsIn(persisted)
  BY JobsInType DEF Sim, TypeOK
<1>4. Ledger!Store(S)
  BY <1>1, <1>2, <1>3 DEF Ledger!Store
<1> QED  BY <1>4 DEF Ledger!Next

LEMMA ReinstateIsAbandon ==
  ASSUME TypeOK, NEW t, NEW e \in Entry, Reinstate(t, e), e.job \in Taken,
         UNCHANGED <<submitted, refused, saved, row>>
  PROVE  Ledger!Abandon(e.job) \/ UNCHANGED Ledger!ledger
<1>1. ASSUME NEW r \in BOOLEAN, NEW o \in BOOLEAN, DeadLettered(e.job, r, o)
      PROVE  Ledger!Abandon(e.job)
  BY <1>1 DEF DeadLettered, Ledger!Abandon, Taken
<1>2. \/ UNCHANGED <<dead, spool, result>>
      \/ \E r, o \in BOOLEAN : DeadLettered(e.job, r, o)
  BY DEF Reinstate, Reaches, TypeOK
<1>3. CASE UNCHANGED <<dead, spool, result>>
  BY <1>3 DEF Ledger!ledger
<1> QED  BY <1>1, <1>2, <1>3

LedgerStep == [Ledger!Next]_(Ledger!ledger)

LEMMA LedgerNext == Sim /\ [Next]_vars => LedgerStep
<1> SUFFICES ASSUME Sim, [Next]_vars PROVE LedgerStep
  OBVIOUS
<1> USE DEF redisVars, dbVars, workerVars, batchVars, mainVars, history
<1> USE DEF LedgerStep
<1>0. CASE UNCHANGED vars
  BY <1>0 DEF vars, Ledger!ledger
<1>1. ASSUME NEW j \in Jobs, Enqueue(j) PROVE LedgerStep
  <2>1. Ledger!Take(j)
    BY <1>1 DEF Enqueue, Ledger!Take
  <2> QED  BY <2>1 DEF Ledger!Next
<1>2. ASSUME NEW w \in Workers, WorkerPop(w) PROVE LedgerStep
  BY <1>2 DEF WorkerPop, Popped, Ledger!ledger
<1>3. ASSUME NEW w \in Workers, WorkerPopNothing(w) PROVE LedgerStep
  BY <1>3 DEF WorkerPopNothing, LoopAgain, Ledger!ledger
<1>4. ASSUME NEW w \in Workers, WorkerConnLost(w) PROVE LedgerStep
  BY <1>4 DEF WorkerConnLost, LoopAgain, Ledger!ledger
<1>5. ASSUME NEW w \in Workers, WorkerPush(w) PROVE LedgerStep
  BY <1>5 DEF WorkerPush, LoopAgain, Ledger!ledger
<1>6. CASE BatchTake
  BY <1>6 DEF BatchTake, Ledger!ledger
<1>7. CASE BatchExit
  BY <1>7 DEF BatchExit, Ledger!ledger
<1>8. CASE BatchWrite
  BY <1>8 DEF BatchWrite, Ledger!ledger
<1>9. CASE BatchWriteFails
  BY <1>9 DEF BatchWriteFails, Ledger!ledger
<1>10. CASE BatchCommit
  <2>1. ~aborted
    BY DEF Sim, Stages, BatchStages, NoRelease, TypeOK
  <2>2. bpc = "tx" /\ Committed
        /\ UNCHANGED <<submitted, refused, dead, spool, result>>
    BY <1>10, <2>1 DEF BatchCommit
  <2> QED  BY <2>2, CommitIsStore
<1>11. CASE BatchCommitFails
  <2>1. bpc = "tx" /\ UNCHANGED <<submitted, refused, dead, spool, result>>
    BY <1>11 DEF BatchCommitFails
  <2>2. CASE NothingCommitted
    BY <2>1, <2>2 DEF NothingCommitted, Ledger!ledger
  <2>3. CASE Committed
    BY <2>1, <2>3, CommitIsStore
  <2> QED  BY <1>11, <2>2, <2>3 DEF BatchCommitFails
<1>12. CASE BatchRevoke
  BY <1>12 DEF BatchRevoke, Ledger!ledger
<1>13. CASE BatchReinstate
  <2>1. Head(failed) \in Entry /\ Reinstate(BatchThread, Head(failed))
        /\ Head(failed).job \in Taken /\ Head(failed).job \in Jobs
    BY <1>13, BatchReinstateEffect, EntryFacts DEF Sim, Provenance
  <2>2. UNCHANGED <<submitted, refused, saved, row>>
    BY <1>13 DEF BatchReinstate
  <2> QED  BY <2>1, <2>2, ReinstateIsAbandon DEF Sim, Ledger!Next
<1>14. CASE BatchReport
  <2> DEFINE j == Head(persisted).job
  <2>1. bpc = "settle" /\ j \in Jobs /\ j \in saved
    <3>1. bpc = "settle" /\ j \in JobsIn(persisted) /\ j \in Jobs
      BY <1>14, ReportEffect, EntryFacts DEF BatchReport, Sim
    <3> QED  BY <3>1 DEF Sim, SuccessInv, NoRelease
  <2>2. result' = result \/ result' = [result EXCEPT ![j] = "ok"]
    BY <1>14 DEF BatchReport
  <2>3. UNCHANGED <<submitted, refused, dead, spool, saved, row>>
    BY <1>14 DEF BatchReport
  <2>4. CASE result' = result
    BY <2>3, <2>4 DEF Ledger!ledger
  <2>5. CASE result' = [result EXCEPT ![j] = "ok"]
    <3>1. Ledger!Confirm(j)
      BY <2>1, <2>3, <2>5 DEF Ledger!Confirm
    <3> QED  BY <2>1, <3>1 DEF Ledger!Next
  <2> QED  BY <2>2, <2>4, <2>5
<1>15. CASE BatchDone
  BY <1>15 DEF BatchDone, Ledger!ledger
<1>16. CASE Stop
  BY <1>16 DEF Stop, Ledger!ledger
<1>17. CASE StopDrain
  BY <1>17 DEF StopDrain, Ledger!ledger
<1>18. CASE StopReinstate
  <2>1. Head(rest) \in Entry /\ Reinstate(MainThread, Head(rest))
        /\ Head(rest).job \in Taken /\ Head(rest).job \in Jobs
    BY <1>18, StopReinstateEffect, EntryFacts DEF Sim, Provenance
  <2>2. UNCHANGED <<submitted, refused, saved, row>>
    BY <1>18 DEF StopReinstate
  <2> QED  BY <2>1, <2>2, ReinstateIsAbandon DEF Sim, Ledger!Next
<1>19. CASE StopDone
  BY <1>19 DEF StopDone, Ledger!ledger
<1>20. CASE Crash
  BY <1>20 DEF Crash, Ledger!ledger
<1>21. CASE Restart
  BY <1>21 DEF Restart, Ledger!ledger
<1>22. CASE RedisDown
  BY <1>22 DEF RedisDown, Ledger!ledger
<1>23. CASE RedisBack
  BY <1>23 DEF RedisBack, Ledger!ledger
<1>24. ASSUME NEW j \in Jobs, ResultExpires(j) PROVE LedgerStep
  <2>1. Ledger!Forget(j)
    BY <1>24 DEF ResultExpires, Ledger!Forget
  <2> QED  BY <2>1 DEF Ledger!Next
<1>25. ASSUME NEW d \in Devices, Approve(d) PROVE LedgerStep
  BY <1>25 DEF Approve, Ledger!ledger
<1> QED
  BY <1>0, <1>1, <1>2, <1>3, <1>4, <1>5, <1>6, <1>7, <1>8, <1>9, <1>10, <1>11,
     <1>12, <1>13, <1>14, <1>15, <1>16, <1>17, <1>18, <1>19, <1>20, <1>21,
     <1>22, <1>23, <1>24, <1>25 DEF Next, Produce, WorkerStep, BatchStep,
     StopStep, Surroundings

(***************************************************************************)
(* The pipeline of lists, threads and transactions implements the ledger:  *)
(* a result never runs ahead of the record, and each device's row shows    *)
(* the last of its stored submissions.                                     *)
(***************************************************************************)
THEOREM LedgerImplemented ==
  ASSUME MaxEvents["release_failure"] = 0
  PROVE  Spec => ImplementsLedger
<1>1. Init => Sim
  <2>1. Init => RowInv
    BY DEF Init, RowInv, TxInv, RowMatchesCommits, NothingWritten
  <2>2. Init => Provenance
    BY JobsInEmpty DEF Init, Provenance
  <2>3. Init => NoRelease
    BY EventNames DEF Init, NoRelease
  <2> QED  BY <2>1, <2>2, <2>3, TypeInit, StagesInit, SuccessInit DEF Sim
<1>2. Sim /\ [Next]_vars => Sim'
  BY NextIsPipeline, TypeNext, StagesNext, SuccessNext, RowNext, NoReleaseNext,
     ProvenanceNext
     DEF Sim, Stages
<1>3. Sim /\ [Next]_vars => LedgerStep
  BY LedgerNext
<1> QED  BY LedgerInit, <1>1, <1>2, <1>3, PTL DEF Spec, ImplementsLedger,
            Ledger!Spec, LedgerStep

=============================================================================
