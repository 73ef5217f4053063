-------------------------------- MODULE ExamDay --------------------------------
(***************************************************************************)
(* One exam while it runs: the presence of the devices (Presence), the     *)
(* WebSocket room of the teachers who watch them (Hub), whose heartbeats   *)
(* go to the same keys and list, and the scores (Scoring) of the answers   *)
(* that come in, as the worker stores them and the results page shows them.*)
(***************************************************************************)
EXTENDS Presence, Hub, Scoring

CONSTANTS Papers, Sheets  \* questions_json the exam may have, answers to them

\* An answer in the body of submit_exam: a JSON array of tokens, or a string, in
\* which no quotation mark is without a backslash.
Answer == {a \in [array : BOOLEAN, tokens : TokenLists] :
             a.array \/ \A i \in DOMAIN a.tokens : a.tokens[i].depth # 1}

ASSUME ExamDayAssumption ==
  /\ Papers \subseteq Seq(Question)
  /\ \A p \in Papers, s \in Sheets : DOMAIN p = DOMAIN s
  /\ \A s \in Sheets : \A i \in DOMAIN s : s[i] \in Answer

VARIABLES
  paper,   \* questions_json
  hub,     \* the connection redis_ctx of the hub works
  marked,  \* marked[d]: the sheets of d that were scored and are not stored
  stored   \* stored[d]: answers_json and score of d's row; the paper it was scored with

resultVars == <<paper, marked, stored>>
vars == <<presenceVars, hubVars, hub, resultVars>>

NoSheet == [answers |-> <<>>, score |-> [got |-> 0, total |-> 1], paper |-> <<>>]

-----------------------------------------------------------------------------
(***************************************************************************)
(* handle_heartbeat and handle_exam_completed of a teacher's client: the   *)
(* Redis calls through the one connection of the hub, which nothing opens  *)
(* again, and then the broadcast.                                          *)
(***************************************************************************)
HubBeat(c) ==
  /\ At(c, "beat") /\ To(c, "snapshot")
  /\ IF hub THEN \E d \in Devices : present' = present \cup {d} /\ Push(d)
     ELSE UNCHANGED <<redis, sent>>
  /\ UNCHANGED <<room, closed, queued, snap, slow, leaked, hub, resultVars,
                 limiter, tables, handlers, flusher, left, env>>

HubCompleted(c) ==
  /\ At(c, "completed") /\ To(c, "snapshot")
  /\ IF hub THEN \E d \in Devices : present' = present \ {d} ELSE UNCHANGED present
  /\ UNCHANGED <<room, closed, queued, snap, slow, leaked, hub, resultVars, list,
                 limiter, tables, handlers, flusher, left, env, sent>>

HubDisconnected ==
  /\ hub /\ Occur("redis_down") /\ hub' = FALSE
  /\ UNCHANGED <<redis, limiter, tables, handlers, flusher, left, sent, hubVars, resultVars>>

\* What a client sends, and its end.
HubFrame(c) ==
  /\ Spend("frame")
  /\ Connect(c) \/ Frame(c) \/ Leave(c) \/ Oversize(c)
  /\ UNCHANGED <<redis, limiter, tables, handlers, flusher, env, sent, hub, resultVars>>

HubWorks(c) == HubStep(c) /\ UNCHANGED <<presenceVars, hub, resultVars>>

-----------------------------------------------------------------------------
(***************************************************************************)
(* submit_exam parses the answers and queues them as JSON; the worker      *)
(* parses that, scores with the questions of the exam, and stores later,   *)
(* as JSON again.                                                          *)
(***************************************************************************)
\* mutant: the string is unescaped, as in a parser of JSON
ParsedAsJson(a) == IF a.array THEN <<>> ELSE Unescaped(a.tokens)

\* parse_string_map: no arrays; the characters of a string as they are.
Parsed(a) == IF a.array THEN <<>> ELSE a.tokens

\* SubmissionJob::to_json and from_json.
Queued(a) == Unescaped(Escaped(Parsed(a)))

Worked(s) ==
  LET got == [i \in DOMAIN s |-> Queued(s[i])] IN
  [answers |-> [i \in DOMAIN s |-> Escaped(got[i])], score |-> Score(paper, got), paper |-> paper]

Mark(d) ==
  /\ Spend("answers") /\ exam
  /\ \E s \in Sheets : marked' = [marked EXCEPT ![d] = @ \cup {Worked(s)}]
  /\ UNCHANGED <<redis, limiter, tables, handlers, flusher, env, sent, hub, hubVars, paper, stored>>

StoreMarked(d) ==
  /\ \E m \in marked[d] :
       /\ marked' = [marked EXCEPT ![d] = @ \ {m}]
       /\ stored' = [stored EXCEPT ![d] = m]
  /\ StoreAnswers(d)
  /\ UNCHANGED <<hubVars, hub, paper>>

\* save_exam_questions; nothing is scored again.
EditPaper ==
  /\ Spend("edit") /\ paper' \in Papers
  /\ UNCHANGED <<redis, limiter, tables, handlers, flusher, env, sent, hub, hubVars, marked, stored>>

(***************************************************************************)
(* cek_hasil_api, for a visitor who may be logged in, of an exam whose     *)
(* results may be public and may show answers.  The questions are read     *)
(* before the rows: any that the exam ever had.                            *)
(***************************************************************************)
MaxScore(read) ==
  SumFunction([i \in DOMAIN read |-> IF read[i].weight > 0 THEN read[i].weight ELSE Unit])

\* parse_answers keeps every backslash of answers_json.
Evaluated(read, answers) == [i \in DOMAIN read |-> Earned(read[i], answers[i])]

Results(read, logged, public, show) ==
  [d \in {d \in Devices : row[d] = "answers" /\ (public \/ logged)} |->
     [score     |-> stored[d].score,
      max_score |-> MaxScore(read),
      details   |-> IF show \/ logged THEN Evaluated(read, stored[d].answers) ELSE <<>>]]

-----------------------------------------------------------------------------
Init ==
  /\ PresenceInit /\ HubInit
  /\ hub = TRUE /\ paper \in Papers
  /\ left["edit"] = 0 => paper = CHOOSE p \in Papers : TRUE  \* bound
  /\ marked = [d \in Devices |-> {}] /\ stored = [d \in Devices |-> NoSheet]

\* A row that is deleted takes its answers along.
PresenceStep ==
  /\ \/ \E t \in Threads : Serve(t)
     \/ Flush
     \/ \E d \in Devices : DeleteSubmission(d) \/ KeyExpires(d) \/ WindowEnds(d)
     \/ DeleteExam
  /\ stored' = [d \in Devices |-> IF row'[d] = "answers" THEN stored[d] ELSE NoSheet]
  /\ UNCHANGED <<hubVars, hub, paper, marked>>

ProcessEnds ==
  /\ Crash /\ Disconnect
  /\ hub' = TRUE /\ marked' = [d \in Devices |-> {}]
  /\ UNCHANGED <<paper, stored>>

Next ==
  \/ PresenceStep
  \/ \E c \in Clients : HubBeat(c) \/ HubCompleted(c) \/ HubFrame(c) \/ HubWorks(c)
  \/ HubDisconnected
  \/ \E d \in Devices : Mark(d) \/ StoreMarked(d)
  \/ EditPaper \/ ProcessEnds

Spec == Init /\ [][Next]_vars

-----------------------------------------------------------------------------
ExamDayTypeOK ==
  /\ PresenceTypeOK /\ HubTypeOK
  /\ paper \in Papers /\ hub \in BOOLEAN
  /\ \A d \in Devices : row[d] # "answers" => stored[d] = NoSheet

\* A score is between 0 and 100 when no question has a negative weight and none
\* is answered with the same option twice.
ScoreInRange == \A d \in Devices :
  /\ \A i \in DOMAIN stored[d].paper : stored[d].paper[i].weight >= 0
  /\ \A i \in DOMAIN stored[d].answers : Distinct(stored[d].answers[i])
  => 0 <= stored[d].score.got /\ stored[d].score.got <= stored[d].score.total

\* The worker scores the answer as submit_exam parsed it, the results page the
\* one that is stored, with backslashes of its own.  Still the stored score is
\* the one that the details of the page and its maximum add up to, unless it was
\* scored with other questions or one of them has no positive weight.
ScoreShown == \A read \in Papers, logged, public, show \in BOOLEAN :
  LET page == Results(read, logged, public, show) IN
  \A d \in DOMAIN page :
    /\ stored[d].paper = read /\ page[d].details # <<>>
    /\ \A i \in DOMAIN read : read[i].weight > 0
    => page[d].score.got * Scale * page[d].max_score
         = page[d].score.total * SumFunction(page[d].details)

\* The escapes of an answer from the device to the row, the worker, an edit of
\* the questions in between, and the results page.
ScoresAgree == ScoreInRange /\ ScoreShown
===============================================================================
