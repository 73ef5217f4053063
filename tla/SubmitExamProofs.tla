--------------------------- MODULE SubmitExamProofs ---------------------------
(***************************************************************************)
(* The properties of SubmitExam, for every number of requests, devices,    *)
(* keys and threads and whatever the bounds of the faults are.             *)
(*                                                                         *)
(* A step of SubmitExam is a step of the pipeline (with the requests in    *)
(* any order) or touches nothing of it but a row that was absent and the   *)
(* counts of events: the invariants of SubmissionQueueProofs and           *)
(* SubmissionQueueCopies hold over both.                                   *)
(***************************************************************************)
EXTENDS SubmitExam, SubmissionQueueCopies

-----------------------------------------------------------------------------
(* Two kinds of steps. *)

\* ON CONFLICT DO NOTHING: a row is inserted where there was none.
Inserted == \/ row' = row
            \/ \E d \in Devices :
                 /\ row[d].kind = "absent"
                 /\ \/ row' = [row EXCEPT ![d] = [kind |-> "placeholder",
                                                  job |-> NoJob]]
                    \/ \E j \in Jobs :
                         row' = [row EXCEPT ![d] = [kind |-> "pending", job |-> j]]

SideStep == /\ Inserted
            /\ env' = env \/ \E k \in Events \ {"restart", "crash"} : Occur(k)
            /\ UNCHANGED <<redisVars, conn, approval, workerVars, batchVars,
                           mainVars, history>>

LEMMA SubmitSteps ==
  ASSUME [SubmitNext]_allVars
  PROVE  [PipelineNext]_vars \/ SideStep
<1> USE DEF allVars
<1>0. CASE UNCHANGED allVars
  BY <1>0
<1>1. ASSUME NEW j \in Jobs, Arrive(j)  PROVE UNCHANGED vars
  BY <1>1 DEF Arrive
<1>2. ASSUME NEW j \in Jobs, Persist(j)  PROVE SideStep
  <2>1. DevOf[j] \in Devices
    BY QueueAssumption
  <2>2. Inserted
    BY <1>2, <2>1 DEF Persist, Inserted
  <2>3. env' = env \/ \E k \in Events \ {"restart", "crash"} : Occur(k)
    BY <1>2, EventNames DEF Persist, Events
  <2> QED  BY <1>2, <2>2, <2>3 DEF Persist, SideStep
<1>3. ASSUME NEW j \in Jobs, Push(j)  PROVE [PipelineNext]_vars \/ SideStep
  <2>1. CASE Enqueue(j)
    BY <2>1 DEF PipelineNext
  <2>2. CASE UNCHANGED vars
    BY <2>2
  <2>3. CASE /\ Occur("write_refused")
             /\ UNCHANGED <<redisVars, conn, dbVars, workerVars, batchVars,
                            mainVars, history>>
    BY <2>3 DEF SideStep, Inserted, dbVars, Events
  <2> QED  BY <1>3, <2>1, <2>2, <2>3 DEF Push
<1>4. ASSUME NEW j \in Jobs, Remember(j)  PROVE UNCHANGED vars
  BY <1>4 DEF Remember
<1>5. ASSUME NEW d \in Devices, HeartbeatRow(d)  PROVE SideStep
  BY <1>5 DEF HeartbeatRow, Placeholder, SideStep, Inserted
<1>6. CASE ExamEnds
  BY <1>6 DEF ExamEnds
<1>7. CASE CrashAll \/ RestartAll
  BY <1>7 DEF CrashAll, RestartAll, PipelineNext, Surroundings
<1>8. CASE StopAll
  BY <1>8 DEF StopAll, PipelineNext, StopStep
<1>9. CASE PipelineStep
  BY <1>9 DEF PipelineStep, PipelineNext, StopStep, Surroundings
<1> QED  BY <1>0, <1>1, <1>2, <1>3, <1>4, <1>5, <1>6, <1>7, <1>8, <1>9
         DEF SubmitNext, Arrivals, Handle

\* An event may be counted, nothing is forgotten.
LEMMA SideEnv ==
  ASSUME TypeOK, SideStep
  PROVE  /\ env' \in [Events -> Nat]
         /\ \A x \in Events : env'[x] >= env[x] /\ (env'[x] = 0 => env[x] = 0)
         /\ env'["restart"] = env["restart"] /\ env'["crash"] = env["crash"]
<1>1. CASE env' = env
  BY <1>1 DEF TypeOK
<1>2. ASSUME NEW k \in Events \ {"restart", "crash"}, Occur(k)
      PROVE  /\ env' \in [Events -> Nat]
             /\ \A x \in Events : env'[x] >= env[x] /\ (env'[x] = 0 => env[x] = 0)
             /\ env'["restart"] = env["restart"] /\ env'["crash"] = env["crash"]
  <2>1. /\ env \in [Events -> Nat] /\ k \in Events
        /\ env' = [x \in Events |-> IF x \in {k, "any"} THEN env[x] + 1 ELSE env[x]]
    BY <1>2 DEF Occur, TypeOK
  <2>2. /\ env' \in [Events -> Nat]
        /\ \A x \in Events : env'[x] \in {env[x], env[x] + 1}
    BY <2>1
  <2>3. \A x \in Events : env'[x] >= env[x] /\ (env'[x] = 0 => env[x] = 0)
    BY <2>1, <2>2
  <2>4. "restart" \in Events /\ "crash" \in Events
    BY DEF Events
  <2>5. env'["restart"] = env["restart"] /\ env'["crash"] = env["crash"]
    BY <1>2, <2>1, <2>4
  <2> QED  BY <2>2, <2>3, <2>5
<1> QED  BY <1>1, <1>2 DEF SideStep

LEMMA SideRow ==
  ASSUME TypeOK, SideStep
  PROVE  /\ row' \in [Devices -> Row]
         /\ \A d \in Devices :
              row'[d] # row[d] => /\ row[d].kind = "absent"
                                  /\ row'[d].kind \in {"placeholder", "pending"}
<1>1. row \in [Devices -> Row]
  BY DEF TypeOK
<1>2. \A j \in Jobs : [kind |-> "pending", job |-> j] \in Row
  BY DEF Row
<1>3. [kind |-> "placeholder", job |-> NoJob] \in Row
  BY DEF Row
<1>5. ASSUME NEW d \in Devices, NEW r \in Row, row[d].kind = "absent",
             r.kind \in {"placeholder", "pending"}, row' = [row EXCEPT ![d] = r]
      PROVE  /\ row' \in [Devices -> Row]
             /\ \A c \in Devices :
                  row'[c] # row[c] => /\ row[c].kind = "absent"
                                      /\ row'[c].kind \in {"placeholder", "pending"}
  BY <1>1, <1>5
<1>6. CASE row' = row
  BY <1>1, <1>6
<1>7. CASE \E d \in Devices, r \in Row :
             /\ row[d].kind = "absent" /\ r.kind \in {"placeholder", "pending"}
             /\ row' = [row EXCEPT ![d] = r]
  BY <1>5, <1>7
<1> QED  BY <1>2, <1>3, <1>6, <1>7 DEF SideStep, Inserted

-----------------------------------------------------------------------------
(* What is known of the pipeline. *)

PipelineInv == TypeOK /\ Stages /\ SuccessInv /\ RowInv /\ FailureLeavesTrail
               /\ CopyIInv

LEMMA PipelineInit == Init => PipelineInv
<1>1. Init => RowInv
  BY DEF Init, RowInv, TxInv, RowMatchesCommits, NothingWritten
<1>2. Init => FailureLeavesTrail
  BY DEF Init, FailureLeavesTrail
<1> QED  BY <1>1, <1>2, TypeInit, StagesInit, SuccessInit, CopyIInit
         DEF PipelineInv

LEMMA SidePreserves == PipelineInv /\ SideStep => PipelineInv'
<1> SUFFICES ASSUME PipelineInv, SideStep  PROVE PipelineInv'
  OBVIOUS
<1> USE DEF PipelineInv
<1>u. UNCHANGED <<redisVars, conn, approval, workerVars, batchVars, mainVars,
                  history>>
  BY DEF SideStep
<1> USE DEF redisVars, workerVars, batchVars, mainVars, history
<1>e. /\ env' \in [Events -> Nat] /\ env \in [Events -> Nat]
      /\ \A x \in Events : env'[x] >= env[x] /\ (env'[x] = 0 => env[x] = 0)
  BY SideEnv DEF TypeOK
<1>1. TypeOK'
  BY <1>u, <1>e, SideRow DEF TypeOK
<1>2. Stages'
  <2>1. env["release_failure"] > 0 => env'["release_failure"] > 0
    BY <1>e, EventNames
  <2> QED  BY <1>u, <2>1 DEF Stages, ScoringHolds, BatchStages, StopStages, Joined
<1>3. SuccessInv'
  BY <1>u, <1>e, EventNames DEF SuccessInv
<1>4. RowInv'
  <2>1. TxInv'
    BY <1>u DEF RowInv, TxInv
  <2>2. \A j \in saved : j \in Jobs /\ DevOf[j] \in Devices
    BY QueueAssumption DEF TypeOK
  <2>3. \A d \in Devices : /\ row[d].kind = "scored" => row'[d] = row[d]
                           /\ row'[d].kind = "scored" => row'[d] = row[d]
    BY SideRow
  <2>4. saved' = saved
    BY <1>u
  <2>5. RowMatchesCommits
    BY DEF RowInv
  <2>6. \A j \in saved' : row'[DevOf[j]].kind = "scored"
    BY <2>2, <2>3, <2>4, <2>5 DEF RowMatchesCommits
  <2>7. ASSUME NEW d \in Devices, row'[d].kind = "scored"
        PROVE  row'[d].job \in {j \in saved' : DevOf[j] = d}
    <3>1. row'[d] = row[d]
      BY <2>3, <2>7
    <3>2. row[d].job \in {j \in saved : DevOf[j] = d}
      BY <2>5, <2>7, <3>1 DEF RowMatchesCommits
    <3> QED  BY <2>4, <3>1, <3>2
  <2>8. RowMatchesCommits'
    BY <2>6, <2>7 DEF RowMatchesCommits
  <2> QED  BY <2>1, <2>8 DEF RowInv
<1>5. FailureLeavesTrail'
  BY <1>u DEF FailureLeavesTrail
<1>6. CopyIInv'
  <2>r. /\ env["reply_lost"] \in Nat /\ env'["reply_lost"] \in Nat
        /\ env["commit_unknown"] \in Nat /\ env'["commit_unknown"] \in Nat
        /\ env["reply_lost"] <= env'["reply_lost"]
        /\ env["commit_unknown"] <= env'["commit_unknown"]
    BY <1>e, EventNames
  <2>1. \A j \in Jobs : Copies(j)' = Copies(j) /\ Copies(j) \in Nat
    BY <1>u, CopyBounds DEF Copies
  <2>2. Taken' = Taken
    BY <1>u DEF Taken
  <2>3. CopyInv'
    BY <2>1, <2>2, <2>r DEF CopyIInv, CopyInv
  <2>4. SettledInv'
    <3>1. Surprises' = 0 => Surprises = 0
      BY <2>r DEF Surprises
    <3>2. saved' = saved /\ persisted' = persisted /\ bpc' = bpc
          /\ saved \subseteq Jobs
      BY <1>u DEF TypeOK
    <3>3. \A j : Occurrences(j, persisted') = Occurrences(j, persisted)
      BY <3>2
    <3> QED  BY <2>1, <2>2, <3>1, <3>2, <3>3
             DEF CopyIInv, SettledInv, Reporting
  <2>5. OkInv'
    BY <1>u, <2>1, <2>2, <2>r DEF CopyIInv, OkInv
  <2> QED  BY <2>3, <2>4, <2>5 DEF CopyIInv
<1> QED  BY <1>1, <1>2, <1>3, <1>4, <1>5, <1>6

LEMMA PipelinePreserves == PipelineInv /\ [PipelineNext]_vars => PipelineInv'
  BY TypeNext, StagesNext, SuccessNext, RowNext, TrailNext, CopyINext
     DEF PipelineInv, Stages

LEMMA SubmitPreserves == PipelineInv /\ [SubmitNext]_allVars => PipelineInv'
  BY SubmitSteps, SidePreserves, PipelinePreserves

LEMMA SubmitEnv ==
  ASSUME TypeOK, [SubmitNext]_allVars
  PROVE  /\ env' \in [Events -> Nat]
         /\ \A x \in Events : env'[x] >= env[x] /\ (env'[x] = 0 => env[x] = 0)
  BY SubmitSteps, SideEnv, EnvGrows

THEOREM PipelineInvariant == SubmitSpec => []PipelineInv
  BY PipelineInit, SubmitPreserves, PTL DEF SubmitSpec, SubmitInit

-----------------------------------------------------------------------------
(* Types. *)

HandlerTypes ==
  /\ pc \in [Jobs -> {"idle", "persist", "enqueue", "remember", "answered"}]
  /\ reply \in [Jobs -> {"none", "rejected", "unavailable", "accepted"}]
  /\ told \in [Jobs -> Jobs \cup {NoJob}]
  /\ idem \in [Keys -> Jobs \cup {NoJob}]
  /\ ended \in BOOLEAN /\ kept \subseteq Jobs

LEMMA HandlerTypesNext == HandlerTypes /\ [SubmitNext]_allVars => HandlerTypes'
<1> SUFFICES ASSUME HandlerTypes, [SubmitNext]_allVars  PROVE HandlerTypes'
  OBVIOUS
<1> USE DEF HandlerTypes, submitVars
<1>k. \A j \in Jobs : KeyKnown(j) => /\ KeyOf[j] \in Keys
                                     /\ idem[KeyOf[j]] \in Jobs \cup {NoJob}
  BY SubmitAssumption DEF KeyKnown
<1>0. CASE UNCHANGED allVars
  BY <1>0 DEF allVars
<1>1. ASSUME NEW j \in Jobs, Arrive(j)  PROVE HandlerTypes'
  BY <1>1, <1>k DEF Arrive, Answer
<1>2. ASSUME NEW j \in Jobs, Persist(j)  PROVE HandlerTypes'
  BY <1>2 DEF Persist, Answer
<1>3. ASSUME NEW j \in Jobs, Push(j)  PROVE HandlerTypes'
  BY <1>3 DEF Push, Answer
<1>4. ASSUME NEW j \in Jobs, Remember(j)  PROVE HandlerTypes'
  BY <1>4 DEF Remember, Remembers, Answer
<1>5. ASSUME NEW d \in Devices, HeartbeatRow(d)  PROVE HandlerTypes'
  BY <1>5 DEF HeartbeatRow
<1>6. CASE ExamEnds
  BY <1>6 DEF ExamEnds
<1>7. CASE CrashAll
  BY <1>7 DEF CrashAll
<1>8. CASE RestartAll
  BY <1>8 DEF RestartAll
<1>9. CASE StopAll \/ PipelineStep
  BY <1>9 DEF StopAll, PipelineStep
<1> QED  BY <1>0, <1>1, <1>2, <1>3, <1>4, <1>5, <1>6, <1>7, <1>8, <1>9
         DEF SubmitNext, Arrivals, Handle

\* The state of the handlers and of the pipeline behind them keeps its types.
THEOREM SubmitTypes == SubmitSpec => []SubmitTypeOK
<1>1. SubmitInit => HandlerTypes
  BY DEF SubmitInit, HandlerTypes
<1>2. PipelineInv /\ HandlerTypes => SubmitTypeOK
  BY DEF PipelineInv, HandlerTypes, SubmitTypeOK
<1> QED  BY PipelineInvariant, HandlerTypesNext, <1>1, <1>2, PTL DEF SubmitSpec

-----------------------------------------------------------------------------
(* The key of an accepted request is known until the process restarts. *)

IdemInv ==
  env["restart"] = 0 =>
    \A j \in Jobs : reply[j] = "accepted" /\ KeyOf[j] # NoKey
                    => idem[KeyOf[j]] # NoJob

LEMMA IdemNext ==
  TypeOK /\ HandlerTypes /\ IdemInv /\ [SubmitNext]_allVars => IdemInv'
<1> SUFFICES ASSUME TypeOK, HandlerTypes, IdemInv, [SubmitNext]_allVars,
                    env'["restart"] = 0
             PROVE  \A j \in Jobs : reply'[j] = "accepted" /\ KeyOf[j] # NoKey
                                    => idem'[KeyOf[j]] # NoJob
  BY DEF IdemInv
<1> DEFINE G == \A j \in Jobs : reply'[j] = "accepted" /\ KeyOf[j] # NoKey
                                => idem'[KeyOf[j]] # NoJob
<1>r. env["restart"] = 0
  BY SubmitEnv, EventNames
<1>i. \A j \in Jobs : reply[j] = "accepted" /\ KeyOf[j] # NoKey
                      => idem[KeyOf[j]] # NoJob
  BY <1>r DEF IdemInv
<1>k. \A j \in Jobs : j # NoJob /\ (KeyOf[j] # NoKey => KeyOf[j] \in Keys)
  BY SubmitAssumption, QueueAssumption DEF NoJob
<1>f. ASSUME reply' = reply, idem' = idem  PROVE G
  BY <1>i, <1>f
<1> USE DEF submitVars
<1>0. CASE UNCHANGED allVars
  BY <1>0, <1>f DEF allVars
<1>1. ASSUME NEW j \in Jobs, Arrive(j)  PROVE G
  <2>1. idem' = idem
    BY <1>1 DEF Arrive
  <2>2. \A i \in Jobs : \/ reply'[i] = reply[i]
                        \/ reply'[i] = "rejected"
                        \/ i = j /\ KeyKnown(j)
    BY <1>1 DEF Arrive, Answer, HandlerTypes
  <2> QED  BY <1>i, <2>1, <2>2 DEF KeyKnown
<1>2. ASSUME NEW j \in Jobs, Persist(j)  PROVE G
  <2>1. idem' = idem /\ \A i \in Jobs : reply'[i] = "accepted" => reply[i] = "accepted"
    BY <1>2 DEF Persist, Answer, HandlerTypes
  <2> QED  BY <1>i, <2>1
<1>3. ASSUME NEW j \in Jobs, Push(j)  PROVE G
  <2>1. idem' = idem /\ \A i \in Jobs : reply'[i] = "accepted" => reply[i] = "accepted"
    BY <1>3 DEF Push, Answer, HandlerTypes
  <2> QED  BY <1>i, <2>1
<1>4. ASSUME NEW j \in Jobs, Remember(j)  PROVE G
  <2>1. /\ idem' = Remembers(j)
        /\ \A i \in Jobs : i # j => reply'[i] = reply[i]
    BY <1>4 DEF Remember, Answer, HandlerTypes
  <2>2. KeyOf[j] = NoKey => idem' = idem
    BY <2>1 DEF Remembers
  <2>3. KeyOf[j] # NoKey
          => \A k \in Keys : idem'[k] = IF k = KeyOf[j] THEN j ELSE idem[k]
    BY <1>k, <2>1 DEF Remembers, HandlerTypes
  <2> QED  BY <1>i, <1>k, <2>1, <2>2, <2>3
<1>5. ASSUME NEW d \in Devices, HeartbeatRow(d)  PROVE G
  BY <1>5, <1>f DEF HeartbeatRow
<1>6. CASE ExamEnds
  BY <1>6, <1>f DEF ExamEnds
<1>7. CASE CrashAll
  BY <1>7, <1>f DEF CrashAll
<1>8. CASE RestartAll
  <2>1. Occur("restart") /\ "restart" \in Events
    BY <1>8, EventNames DEF RestartAll, Restart
  <2>2. env'["restart"] > 0
    BY <2>1, OccurFacts DEF TypeOK
  <2> QED  BY <2>2
<1>9. CASE StopAll \/ PipelineStep
  BY <1>9, <1>f DEF StopAll, PipelineStep
<1> QED  BY <1>0, <1>1, <1>2, <1>3, <1>4, <1>5, <1>6, <1>7, <1>8, <1>9
         DEF SubmitNext, Arrivals, Handle

\* A request leaves "idle" for "persist" only through the gate of submit_exam,
\* and not when its key is known.
LEMMA OnlyArrivals ==
  ASSUME HandlerTypes, [SubmitNext]_allVars, NEW j \in Jobs,
         pc[j] = "idle", pc'[j] = "persist"
  PROVE  /\ ~ KeyKnown(j) /\ \E tokenMatches \in BOOLEAN : Gate(DevOf[j], tokenMatches)
<1> USE DEF HandlerTypes, submitVars
<1>0. CASE UNCHANGED allVars
  BY <1>0 DEF allVars
<1>1. ASSUME NEW i \in Jobs, Arrive(i)
      PROVE  ~ KeyKnown(j) /\ \E tokenMatches \in BOOLEAN : Gate(DevOf[j], tokenMatches)
  <2>1. i = j
    BY <1>1 DEF Arrive, Answer
  <2> QED  BY <1>1, <2>1 DEF Arrive, Answer
<1>2. ASSUME NEW i \in Jobs, Persist(i)  PROVE FALSE
  BY <1>2 DEF Persist, Answer
<1>3. ASSUME NEW i \in Jobs, Push(i)  PROVE FALSE
  BY <1>3 DEF Push, Answer
<1>4. ASSUME NEW i \in Jobs, Remember(i)  PROVE FALSE
  BY <1>4 DEF Remember, Answer
<1>5. ASSUME NEW d \in Devices, HeartbeatRow(d)  PROVE FALSE
  BY <1>5 DEF HeartbeatRow
<1>6. CASE ExamEnds \/ RestartAll
  BY <1>6 DEF ExamEnds, RestartAll
<1>7. CASE CrashAll
  BY <1>7 DEF CrashAll
<1>8. CASE StopAll \/ PipelineStep
  BY <1>8 DEF StopAll, PipelineStep
<1> QED  BY <1>0, <1>1, <1>2, <1>3, <1>4, <1>5, <1>6, <1>7, <1>8
         DEF SubmitNext, Arrivals, Handle

\* Who was answered 202 and sends the request again queues nothing: g_idem_jobs
\* holds the key of every accepted request until the process is restarted.
THEOREM RetriesQueueNothing == SubmitSpec => RetryQueuesNothing
<1>1. SubmitInit => HandlerTypes /\ IdemInv
  BY DEF SubmitInit, HandlerTypes, IdemInv
<1>2. PipelineInv /\ HandlerTypes /\ IdemInv /\ [SubmitNext]_allVars
      => (HandlerTypes /\ IdemInv)'
  BY HandlerTypesNext, IdemNext DEF PipelineInv
<1>3. HandlerTypes /\ IdemInv /\ [SubmitNext]_allVars =>
        [env["restart"] = 0 =>
           \A i, j \in Jobs : /\ reply[i] = "accepted" /\ pc[j] = "idle"
                              /\ KeyOf[i] = KeyOf[j] /\ KeyOf[i] # NoKey
                              => pc'[j] # "persist"]_allVars
  <2> SUFFICES ASSUME HandlerTypes, IdemInv, [SubmitNext]_allVars,
                      env["restart"] = 0, NEW i \in Jobs, NEW j \in Jobs,
                      reply[i] = "accepted", pc[j] = "idle",
                      KeyOf[i] = KeyOf[j], KeyOf[i] # NoKey,
                      pc'[j] = "persist"
               PROVE  FALSE
    OBVIOUS
  <2>1. ~ KeyKnown(j)
    BY OnlyArrivals
  <2>2. idem[KeyOf[j]] # NoJob
    BY DEF IdemInv
  <2> QED  BY <2>1, <2>2 DEF KeyKnown
<1> QED  BY PipelineInvariant, <1>1, <1>2, <1>3, PTL
         DEF SubmitSpec, RetryQueuesNothing

-----------------------------------------------------------------------------
(* Inserted answers. *)

LEMMA InsertedNext ==
  PipelineInv /\ HandlerTypes /\ InsertedAnswersStay /\ [SubmitNext]_allVars
  => InsertedAnswersStay'
<1> DEFINE P(j) == \/ row[DevOf[j]] = [kind |-> "pending", job |-> j]
                   \/ row[DevOf[j]].kind = "scored"
                      /\ DevOf[row[DevOf[j]].job] = DevOf[j]
<1> SUFFICES ASSUME PipelineInv, HandlerTypes, InsertedAnswersStay,
                    [SubmitNext]_allVars, NEW j \in kept'
             PROVE  P(j)'
  BY DEF InsertedAnswersStay
<1> DEFINE d == DevOf[j]
<1>t. j \in Jobs /\ d \in Devices
  BY HandlerTypesNext, QueueAssumption DEF HandlerTypes
<1>1. CASE j \in kept
  <2>1. P(j)
    BY <1>1 DEF InsertedAnswersStay
  <2>2. CASE row'[d] = row[d]
    BY <2>1, <2>2
  <2>3. CASE row'[d] # row[d] /\ SideStep
    BY <1>t, <2>1, <2>3, SideRow DEF PipelineInv
  <2>4. CASE row'[d] # row[d] /\ [PipelineNext]_vars
    BY <1>t, <2>4, RowOrigin DEF PipelineInv
  <2> QED  BY <2>2, <2>3, <2>4, SubmitSteps
<1>2. CASE j \notin kept
  <2>1. PICK i \in Jobs : Persist(i) /\ i = j
    <3> USE DEF submitVars
    <3>1. \/ \E i \in Jobs : Persist(i)
          \/ kept' = kept
      BY DEF SubmitNext, Arrivals, Handle, Arrive, Push, Remember, HeartbeatRow,
         ExamEnds, CrashAll, RestartAll, StopAll, PipelineStep, allVars
    <3>2. \A i \in Jobs : Persist(i) => kept' \subseteq kept \cup {i}
      BY DEF Persist
    <3> QED  BY <1>2, <3>1, <3>2
  <2>2. row' = [row EXCEPT ![DevOf[j]] = [kind |-> "pending", job |-> j]]
    BY <1>2, <2>1 DEF Persist
  <2> QED  BY <1>t, <2>2 DEF PipelineInv, TypeOK
<1> QED  BY <1>1, <1>2

\* Answers whose row was inserted before the 202 stay until scored answers of
\* the same device replace them: heartbeats and later requests insert only where
\* there is no row, and only run_batch updates one.
THEOREM InsertedStay == SubmitSpec => []InsertedAnswersStay
<1>1. SubmitInit => HandlerTypes /\ InsertedAnswersStay
  BY DEF SubmitInit, HandlerTypes, InsertedAnswersStay
<1> QED  BY PipelineInvariant, HandlerTypesNext, InsertedNext, <1>1, PTL
         DEF SubmitSpec

-----------------------------------------------------------------------------
(* A spent approval. *)

Undelayed == env["revoke_failure"] = 0 /\ env["commit_unknown"] = 0
             /\ env["crash"] = 0

\* An approval is spent only between COMMIT and DELETE, and the DELETE is going
\* to remove it.
SpentInv ==
  Undelayed => \A d \in Devices : approval[d] = "spent"
                                  => bpc = "revoke" /\ d \in ToRevoke

\* The steps before and after which the batch thread is not at its DELETE.
LEMMA RevokeStays ==
  ASSUME Stages, [PipelineNext]_vars
  PROVE  \/ BatchCommit \/ BatchCommitFails \/ BatchRevoke \/ Crash
         \/ /\ \A d \in Devices : approval'[d] = "spent" => approval[d] = "spent"
            /\ bpc = "revoke" => bpc' = "revoke" /\ persisted' = persisted
<1> DEFINE G == \/ Crash
                \/ /\ \A d \in Devices :
                        approval'[d] = "spent" => approval[d] = "spent"
                   /\ bpc = "revoke" => bpc' = "revoke" /\ persisted' = persisted
<1> USE DEF redisVars, dbVars, workerVars, batchVars, mainVars, history
<1>0. ASSUME UNCHANGED vars PROVE G
  BY <1>0 DEF vars
<1>1. ASSUME NEW i \in Jobs, Enqueue(i) PROVE G
  BY <1>1 DEF Enqueue
<1>2. ASSUME NEW w \in Workers, WorkerPop(w) PROVE G
  BY <1>2 DEF WorkerPop
<1>3. ASSUME NEW w \in Workers, WorkerPopNothing(w) PROVE G
  BY <1>3 DEF WorkerPopNothing
<1>4. ASSUME NEW w \in Workers, WorkerConnLost(w) PROVE G
  BY <1>4 DEF WorkerConnLost
<1>5. ASSUME NEW w \in Workers, WorkerPush(w) PROVE G
  BY <1>5 DEF WorkerPush
<1>6. ASSUME BatchTake PROVE G
  BY <1>6 DEF BatchTake
<1>7. ASSUME BatchExit PROVE G
  BY <1>7 DEF BatchExit
<1>8. ASSUME BatchWrite PROVE G
  BY <1>8 DEF BatchWrite
<1>9. ASSUME BatchWriteFails PROVE G
  BY <1>9 DEF BatchWriteFails
<1>13. ASSUME BatchReinstate PROVE G
  BY <1>13 DEF BatchReinstate
<1>14. ASSUME BatchReport PROVE G
  BY <1>14 DEF BatchReport
<1>15. ASSUME BatchDone PROVE G
  BY <1>15 DEF BatchDone
<1>16. ASSUME Stop PROVE G
  BY <1>16 DEF Stop
<1>17. ASSUME StopDrain PROVE G
  BY <1>17 DEF StopDrain
<1>18. ASSUME StopReinstate PROVE G
  BY <1>18 DEF StopReinstate
<1>19. ASSUME StopDone PROVE G
  BY <1>19 DEF StopDone
<1>20. ASSUME Crash PROVE G
  BY <1>20 DEF Crash
<1>21. ASSUME Restart PROVE G
  BY <1>21 DEF Restart, Stages, StopStages, Joined
<1>22. ASSUME RedisDown PROVE G
  BY <1>22 DEF RedisDown
<1>23. ASSUME RedisBack PROVE G
  BY <1>23 DEF RedisBack
<1>24. ASSUME NEW i \in Jobs, ResultExpires(i) PROVE G
  BY <1>24 DEF ResultExpires
<1>25. ASSUME NEW d \in Devices, Approve(d) PROVE G
  BY <1>25 DEF Approve
<1> QED
  BY <1>0, <1>1, <1>2, <1>3, <1>4, <1>5, <1>6, <1>7, <1>8, <1>9, 
     <1>13, <1>14, <1>15, <1>16, <1>17, <1>18, <1>19, <1>20, <1>21,
     <1>22, <1>23, <1>24, <1>25 DEF PipelineNext, WorkerStep, BatchStep,
     StopStep, Surroundings



LEMMA SpentNext ==
  PipelineInv /\ SpentInv /\ [SubmitNext]_allVars => SpentInv'
<1> SUFFICES ASSUME PipelineInv, SpentInv, [SubmitNext]_allVars,
                    Undelayed', NEW d \in Devices, approval'[d] = "spent"
             PROVE  bpc' = "revoke" /\ d \in ToRevoke'
  BY DEF SpentInv
<1> USE DEF redisVars, dbVars, workerVars, batchVars, mainVars, history
<1>e. /\ Undelayed
      /\ \A k \in {"revoke_failure", "commit_unknown", "crash"} : ~ Occur(k)
  <2>1. Undelayed
    BY SubmitEnv, EventNames DEF Undelayed, PipelineInv
  <2>2. \A k \in Events : Occur(k) => env'[k] > 0
    BY OccurFacts DEF PipelineInv, TypeOK
  <2> QED  BY <2>1, <2>2, EventNames DEF Undelayed
<1>s. approval[d] = "spent" => bpc = "revoke" /\ d \in ToRevoke
  BY <1>e DEF SpentInv
<1>1. CASE SideStep
  BY <1>1, <1>s DEF SideStep, ToRevoke
<1>2. CASE BatchCommit
  <2>1. /\ bpc = "tx" /\ bpc' = "revoke" /\ persisted' = persisted
        /\ approval[d] # "spent"
    BY <1>2, <1>s DEF BatchCommit
  <2>2. written[d] # NoJob
    BY <1>2, <2>1 DEF BatchCommit, NothingCommitted, Committed
  <2>3. written[d] \in JobsIn(persisted) /\ DevOf[written[d]] = d
    BY <2>2 DEF PipelineInv, RowInv, TxInv
  <2> QED  BY <2>1, <2>3 DEF ToRevoke
<1>3. CASE BatchCommitFails
  BY <1>3, <1>e, <1>s DEF BatchCommitFails, NothingCommitted
<1>4. CASE BatchRevoke
  BY <1>4, <1>e, <1>s DEF BatchRevoke
<1>5. CASE Crash
  BY <1>5, <1>e DEF Crash
<1>6. CASE /\ \A c \in Devices : approval'[c] = "spent" => approval[c] = "spent"
           /\ bpc = "revoke" => bpc' = "revoke" /\ persisted' = persisted
  BY <1>6, <1>s DEF ToRevoke
<1> QED  BY <1>1, <1>2, <1>3, <1>4, <1>5, <1>6, SubmitSteps, RevokeStays
         DEF PipelineInv

\* After the end of the exam a request goes on only with an approval that is not
\* spent, but for the instant between the COMMIT and the DELETE of run_batch.
THEOREM LateNeedsApproval == SubmitSpec => LateSubmitNeedsApproval
<1>1. SubmitInit => HandlerTypes /\ SpentInv
  BY DEF SubmitInit, Init, HandlerTypes, SpentInv
<1>2. PipelineInv /\ HandlerTypes /\ SpentInv /\ [SubmitNext]_allVars
      => (HandlerTypes /\ SpentInv)'
  BY HandlerTypesNext, SpentNext
<1>3. PipelineInv /\ HandlerTypes /\ SpentInv /\ [SubmitNext]_allVars =>
        [env["revoke_failure"] + env["commit_unknown"] + env["crash"] = 0 /\ ended =>
           \A j \in Jobs : pc[j] = "idle" /\ pc'[j] = "persist"
             => \/ approval[DevOf[j]] = "granted"
                \/ approval[DevOf[j]] = "spent" /\ bpc = "revoke"]_allVars
  <2> SUFFICES ASSUME PipelineInv, HandlerTypes, SpentInv, [SubmitNext]_allVars,
                      env["revoke_failure"] + env["commit_unknown"] + env["crash"] = 0,
                      ended, NEW j \in Jobs, pc[j] = "idle", pc'[j] = "persist"
               PROVE  \/ approval[DevOf[j]] = "granted"
                      \/ approval[DevOf[j]] = "spent" /\ bpc = "revoke"
    OBVIOUS
  <2>1. Undelayed
    <3>1. /\ env["revoke_failure"] \in Nat /\ env["commit_unknown"] \in Nat
          /\ env["crash"] \in Nat
      BY EventNames DEF PipelineInv, TypeOK
    <3>2. ASSUME NEW a \in Nat, NEW b \in Nat, NEW c \in Nat, a + b + c = 0
          PROVE  a = 0 /\ b = 0 /\ c = 0
      BY <3>2
    <3> QED  BY <3>1, <3>2 DEF Undelayed
  <2>2. approval[DevOf[j]] \in {"granted", "spent"} /\ DevOf[j] \in Devices
    BY OnlyArrivals, QueueAssumption DEF Gate, Approved
  <2> QED  BY <2>1, <2>2 DEF SpentInv
<1> QED  BY PipelineInvariant, <1>1, <1>2, <1>3, PTL
         DEF SubmitSpec, LateSubmitNeedsApproval

-----------------------------------------------------------------------------
(* What a poll answers. *)

\* An entry is put aside only by the two loops that put entries back.
LEMMA AsideOrigin ==
  ASSUME TypeOK, [PipelineNext]_vars, NEW j \in Jobs,
         j \in (dead \cup spool)', j \notin dead \cup spool
  PROVE  j \in JobsIn(failed) \cup JobsIn(rest)
<1> DEFINE G == j \in JobsIn(failed) \cup JobsIn(rest)
<1> USE DEF redisVars, dbVars, workerVars, batchVars, mainVars, history
<1>r. ASSUME NEW t, NEW e, Reinstate(t, e)  PROVE e.job = j
  BY <1>r DEF Reinstate, DeadLettered
<1>0. ASSUME UNCHANGED vars PROVE G
  BY <1>0 DEF vars
<1>1. ASSUME NEW i \in Jobs, Enqueue(i) PROVE G
  BY <1>1 DEF Enqueue
<1>2. ASSUME NEW w \in Workers, WorkerPop(w) PROVE G
  BY <1>2 DEF WorkerPop
<1>3. ASSUME NEW w \in Workers, WorkerPopNothing(w) PROVE G
  BY <1>3 DEF WorkerPopNothing
<1>4. ASSUME NEW w \in Workers, WorkerConnLost(w) PROVE G
  BY <1>4 DEF WorkerConnLost
<1>5. ASSUME NEW w \in Workers, WorkerPush(w) PROVE G
  BY <1>5 DEF WorkerPush
<1>6. ASSUME BatchTake PROVE G
  BY <1>6 DEF BatchTake
<1>7. ASSUME BatchExit PROVE G
  BY <1>7 DEF BatchExit
<1>8. ASSUME BatchWrite PROVE G
  BY <1>8 DEF BatchWrite
<1>9. ASSUME BatchWriteFails PROVE G
  BY <1>9 DEF BatchWriteFails
<1>10. ASSUME BatchCommit PROVE G
  BY <1>10 DEF BatchCommit
<1>11. ASSUME BatchCommitFails PROVE G
  BY <1>11 DEF BatchCommitFails
<1>12. ASSUME BatchRevoke PROVE G
  BY <1>12 DEF BatchRevoke
<1>14. ASSUME BatchReport PROVE G
  BY <1>14 DEF BatchReport
<1>15. ASSUME BatchDone PROVE G
  BY <1>15 DEF BatchDone
<1>16. ASSUME Stop PROVE G
  BY <1>16 DEF Stop
<1>17. ASSUME StopDrain PROVE G
  BY <1>17 DEF StopDrain
<1>13. ASSUME BatchReinstate PROVE G
  <2>1. Head(failed).job = j /\ failed # <<>>
    BY <1>13, <1>r DEF BatchReinstate
  <2> QED  BY <2>1, JobsInTail DEF TypeOK
<1>18. ASSUME StopReinstate PROVE G
  <2>1. Head(rest).job = j /\ rest # <<>>
    BY <1>18, <1>r DEF StopReinstate
  <2> QED  BY <2>1, JobsInTail DEF TypeOK
<1>19. ASSUME StopDone PROVE G
  BY <1>19 DEF StopDone
<1>20. ASSUME Crash PROVE G
  BY <1>20 DEF Crash
<1>21. ASSUME Restart PROVE G
  BY <1>21 DEF Restart
<1>22. ASSUME RedisDown PROVE G
  BY <1>22 DEF RedisDown
<1>23. ASSUME RedisBack PROVE G
  BY <1>23 DEF RedisBack
<1>24. ASSUME NEW i \in Jobs, ResultExpires(i) PROVE G
  BY <1>24 DEF ResultExpires
<1>25. ASSUME NEW d \in Devices, Approve(d) PROVE G
  BY <1>25 DEF Approve
<1> QED
  BY <1>0, <1>1, <1>2, <1>3, <1>4, <1>5, <1>6, <1>7, <1>8, <1>9, <1>10, <1>11,
     <1>12, <1>13, <1>14, <1>15, <1>16, <1>17, <1>18, <1>19, <1>20, <1>21,
     <1>22, <1>23, <1>24, <1>25 DEF PipelineNext, WorkerStep, BatchStep,
     StopStep, Surroundings


LEMMA DoneStoredNext ==
  ASSUME PipelineInv', env'["release_failure"] = 0, NEW j \in Jobs,
         Poll(j)' = "done"
  PROVE  j \in saved'
<1>1. CASE result'[j] = "ok"
  BY <1>1 DEF PipelineInv, SuccessInv
<1>2. CASE row'[DevOf[j]] = [kind |-> "scored", job |-> j]
  BY <1>2, QueueAssumption DEF PipelineInv, RowInv, RowMatchesCommits
<1> QED  BY <1>1, <1>2 DEF Poll

LEMMA DoneStays ==
  ASSUME PipelineInv, [SubmitNext]_allVars, Surprises = 0, NEW j \in Jobs,
         Poll(j) = "done"
  PROVE  Poll(j)' # "failed"
<1> SUFFICES ASSUME result'[j] = "failed"  PROVE FALSE
  BY DEF Poll
<1> USE DEF PipelineInv
<1>1. CASE SideStep
  <2>1. result[j] = "failed" /\ result' = result
    BY <1>1 DEF SideStep, redisVars
  <2>2. j \in saved
    BY <2>1, QueueAssumption DEF Poll, RowInv, RowMatchesCommits
  <2>3. Copies(j) = Occurrences(j, persisted)
    BY <2>2 DEF CopyIInv, SettledInv
  <2> QED  BY <2>1, <2>3, FailedHasCopy, CopyBounds
<1>2. CASE [PipelineNext]_vars
  <2>1. CASE result[j] = "ok"
    BY <1>2, <2>1, NoSurprise, OkStaysOk
  <2>2. CASE row[DevOf[j]] = [kind |-> "scored", job |-> j]
    <3>1. j \in saved
      BY <2>2, QueueAssumption DEF RowInv, RowMatchesCommits
    <3>2. Copies(j) = Occurrences(j, persisted)
      BY <3>1 DEF CopyIInv, SettledInv
    <3>3. Aside(j) = 0 /\ Occurrences(j, failed) = 0 /\ Occurrences(j, rest) = 0
      BY <3>2, OnlyPersisted
    <3>4. j \notin dead \cup spool /\ j \notin JobsIn(failed) \cup JobsIn(rest)
      BY <3>3, OccursIn DEF TypeOK, Aside
    <3>5. j \notin (dead \cup spool)'
      BY <1>2, <3>4, AsideOrigin
    <3>6. FailureLeavesTrail'
      BY <1>2, TrailNext
    <3> QED  BY <3>5, <3>6 DEF FailureLeavesTrail
  <2> QED  BY <2>1, <2>2 DEF Poll
<1> QED  BY <1>1, <1>2, SubmitSteps

\* GET /result says "done" only of answers that a COMMIT has stored, from the
\* key in Redis or from the row, and what it calls done it does not call failed
\* a step later, whatever expires, is repeated or put back meanwhile.
THEOREM PollIsSound == SubmitSpec => PollSound
<1>1. PipelineInv /\ [SubmitNext]_allVars =>
        [PollTruthful' /\ DoneStaysDone]_allVars
  <2> SUFFICES ASSUME PipelineInv, [SubmitNext]_allVars
               PROVE  PollTruthful' /\ DoneStaysDone
    OBVIOUS
  <2>1. DoneStaysDone
    BY DoneStays DEF DoneStaysDone, Surprises
  <2>3. PipelineInv'
    BY SubmitPreserves
  <2> QED  BY <2>1, <2>3, DoneStoredNext DEF PollTruthful
<1> QED  BY PipelineInvariant, <1>1, PTL DEF SubmitSpec, PollSound
===============================================================================
