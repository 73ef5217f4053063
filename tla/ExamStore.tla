------------------------------ MODULE ExamStore ------------------------------
(***************************************************************************)
(* The exam records and the handlers that change them: creation with its   *)
(* Idempotency-Key, the teachers' edits, the expiry job, the lazy rotation *)
(* of a dynamic token when a student joins, and the PDF objects in R2.     *)
(*                                                                         *)
(* ExamStorePostgres::update reads a row, lets the handler change its copy *)
(* and writes every column back; a mutex of the process is all that keeps  *)
(* two of them apart.  The statements that do not go through the store     *)
(* (rotation, auto-approve) do not take it.                                *)
(***************************************************************************)
EXTENDS Integers

CONSTANTS
  Threads,      \* HTTP threads; one of them may also be the expiry job
  NoThread,
  NoExam,       \* no row
  Keys,         \* values of the header Idempotency-Key
  NoKey,
  Pdfs,         \* file names
  Interval,     \* token_reset_interval
  Starts,       \* how an exam and its database may be found (StoreInit)
  MaxExam,      \* bound: exams ever numbered
  MaxToken,     \* bound: tokens ever generated or chosen
  MaxClock,     \* bound: time
  MaxRequests,  \* bound: requests served
  MaxEvents     \* bound: MaxEvents[k] failures of kind k, "any" of all kinds

Events == {"stmt_failure", "reply_lost", "r2_failure", "crash", "any"}

ASSUME StoreAssumption ==
  /\ NoThread \notin Threads /\ NoKey \notin Keys
  /\ Interval \in Nat \ {0} /\ MaxExam \in Nat \ {0} /\ MaxToken \in Nat \ {0}
  /\ MaxClock \in Nat /\ MaxRequests \in Nat
  /\ MaxEvents \in [Events -> Nat]

Exams  == 1..MaxExam
Tokens == 1..MaxToken
Time   == 0..MaxClock
Never  == -1
NoPdf  == "no pdf"

\* The owner of the objects pdfs/<file name> of the Go server, which all exams
\* with that file name share.
Legacy == 0

\* The value of nextId in a database that migrate() has created: exams_id_seq is
\* not OWNED BY the column, so that pg_get_serial_sequence answers NULL.
NoSequence == 0

\* One exam has been created and started, with a static or a dynamic token: by
\* this program, in a database of its own or of the Go server, or by the Go
\* server itself.
ASSUME StartsAssumption ==
  \A s \in Starts :
    /\ s \in [dynamic : BOOLEAN, file : BOOLEAN, nextId : {2, NoSequence},
              served : 0..MaxRequests]  \* served: bound of its own
    /\ ~s.file => s.nextId # NoSequence

Places == {"idle", "claim", "update", "write", "upload", "rotate", "add",
           "finalize", "release", "remove", "purge"}

\* The columns that the handlers decide on; file is history: the exam was
\* created by this program and with its PDF.
ExamRow == [token : Tokens, active : Tokens, dynamic : BOOLEAN,
            reset : Time \cup {Never}, started : Time \cup {Never},
            live : BOOLEAN, tomb : BOOLEAN, end : Time \cup {Never},
            auto : BOOLEAN, pdf : Pdfs, file : BOOLEAN]

ASSUME NoExamAssumption == NoExam \notin ExamRow

Ops == {"none", "create", "edit-token", "regenerate", "static", "dynamic",
        "toggle", "start", "stop", "schedule", "other", "edit-pdf",
        "restore-pdf", "expire", "sync", "rotate", "delete"}

Request == [op : Ops, exam : Exams \cup {0}, tok : Tokens \cup {0},
            pdf : Pdfs \cup {NoPdf}, key : Keys \cup {NoKey},
            now : Time \cup {Never}, file : BOOLEAN]
NoRequest == [op |-> "none", exam |-> 0, tok |-> 0, pdf |-> NoPdf,
              key |-> NoKey, now |-> Never, file |-> FALSE]

VARIABLES
  row,        \* table exams: row[x]
  objects,    \* PDF objects in R2: <<exam or Legacy, file name>>
  idem,       \* table exam_idempotency
  nextId,     \* the sequence of exams.id, if there is one
  lastToken,  \* the tokens up to here have been used
  mu,         \* who is inside ExamStorePostgres::update
  pc, req,    \* where each thread is, and what it was asked
  seen,       \* seen[t]: the row thread t has read
  clock,
  served,     \* requests begun, or not to be begun
  made,       \* history: made[k]: how many exams were inserted under key k
  edited,     \* history: edited[x]: the token a teacher was told is set
  env         \* env[k]: how often event k has happened

tables  == <<row, objects, idem, nextId, lastToken>>
threads == <<mu, pc, req, seen>>
bounds  == <<clock, served, env>>
past    == <<made, edited>>
storeVars == <<tables, threads, bounds, past>>

NoEdit == [tok |-> 0, at |-> Never]
Unused == [state |-> "free", exam |-> 0]

Occur(k) == /\ env[k] < MaxEvents[k] /\ env["any"] < MaxEvents["any"]
            /\ env' = [e \in Events |-> IF e \in {k, "any"} THEN env[e] + 1
                                        ELSE env[e]]

-----------------------------------------------------------------------------
(***************************************************************************)
(* Control of a handler.                                                   *)
(***************************************************************************)
Begin(t, q, at) == /\ pc[t] = "idle" /\ served < MaxRequests
                   /\ served' = served + 1
                   /\ pc'  = [pc EXCEPT ![t] = at]
                   /\ req' = [req EXCEPT ![t] = q]

Goto(t, at) == pc' = [pc EXCEPT ![t] = at] /\ UNCHANGED <<req, seen>>

Done(t) == /\ pc'   = [pc EXCEPT ![t] = "idle"]
           /\ req'  = [req EXCEPT ![t] = NoRequest]
           /\ seen' = [seen EXCEPT ![t] = NoExam]

Asked(op, x) == [NoRequest EXCEPT !.op = op, !.exam = x]

Generated == lastToken + 1

NoStoreLock == TRUE  \* mutant: update() without lock_guard

\* Every method of the store takes mu_; only update() holds it over two
\* statements.
StoreFree == mu = NoThread

Taken(tok, x) == \E y \in Exams \ {x} : row[y] # NoExam /\ row[y].token = tok

-----------------------------------------------------------------------------
(***************************************************************************)
(* Token rotation: due when a dynamic exam has started and its interval    *)
(* has passed since the last reset, or since the start.                    *)
(***************************************************************************)
Ref(e) == IF e.reset = Never THEN e.started ELSE e.reset

Due(e, now) == e.dynamic /\ e.started # Never /\ now >= Ref(e) + Interval

\* examtoken::matches
Matches(e, tok) == \/ tok = e.active
                   \/ ~e.dynamic /\ tok = e.token

(***************************************************************************)
(* The mutators handed to update().                                        *)
(***************************************************************************)
StartedAgain(q, e) ==  \* mutant: the already-started guard is gone
  [e EXCEPT !.live = TRUE, !.started = q.now, !.reset = q.now, !.tomb = FALSE,
            !.active = e.token]

Started(q, e) ==
  IF e.started # Never THEN e
  ELSE [e EXCEPT !.live = TRUE, !.started = q.now, !.reset = q.now,
                 !.tomb = FALSE, !.active = e.token]

Rotated(q, e) == [e EXCEPT !.active = q.tok, !.reset = q.now]

Mutated(q, e) ==
  CASE q.op = "edit-token" -> [e EXCEPT !.token = q.tok, !.active = q.tok,
                                         !.reset = q.now]
    [] q.op = "regenerate" -> [e EXCEPT !.token = q.tok, !.active = q.tok]
    [] q.op = "static"     -> [e EXCEPT !.dynamic = FALSE, !.reset = Never]
    [] q.op = "dynamic"    -> [e EXCEPT !.dynamic = TRUE]
    [] q.op = "toggle"     -> [e EXCEPT !.live = ~e.live, !.tomb = e.tomb /\ e.live]
    [] q.op = "start"      -> Started(q, e)
    [] q.op = "stop"       -> [e EXCEPT !.live = FALSE, !.started = Never]
    [] q.op = "schedule"   -> [e EXCEPT !.end = q.now]
    [] q.op = "expire"     -> [e EXCEPT !.live = FALSE, !.tomb = TRUE]
    [] q.op = "sync"       -> Rotated(q, e)
    [] q.op = "rotate" /\ Due(e, q.now) -> Rotated(q, e)
    [] q.op \in {"edit-pdf", "restore-pdf"} -> [e EXCEPT !.pdf = q.pdf]
    [] OTHER -> e  \* a name, a delegate, questions

\* These read the clock inside the mutator; the others carry a time along.
ReadsClock == {"edit-token", "start"}

-----------------------------------------------------------------------------
(***************************************************************************)
(* ExamStorePostgres::update: SELECT, mutator, UPDATE of every column.     *)
(***************************************************************************)
UpdateRead(t) ==
  /\ pc[t] = "update" /\ StoreFree
  /\ LET x == req[t].exam IN
     \/ /\ row[x] # NoExam
        /\ mu'   = t
        /\ seen' = [seen EXCEPT ![t] = row[x]]
        /\ req'  = IF req[t].op \in ReadsClock
                   THEN [req EXCEPT ![t].now = clock] ELSE req
        /\ pc'   = [pc EXCEPT ![t] = "write"]
        /\ UNCHANGED env
     \* No row, or the SELECT failed: update() returns false.
     \/ /\ \/ row[x] = NoExam /\ UNCHANGED env
           \/ Occur("stmt_failure")
        /\ Done(t)
        /\ UNCHANGED mu
  /\ UNCHANGED <<tables, clock, served, past>>

SyncPending(x) == \E u \in Threads : /\ req[u].op = "sync" /\ req[u].exam = x
                                    /\ pc[u] # "rotate"

\* What a teacher has been told, as far as the next interval is concerned.
\* A rotation that has been committed and not yet been copied by its st.update
\* is about to overwrite the token.
Told(q, x) ==
  CASE q.op = "edit-token" -> IF SyncPending(x) THEN NoEdit
                              ELSE [tok |-> q.tok, at |-> q.now]
    [] q.op \in {"regenerate", "static", "dynamic"} -> NoEdit
    [] OTHER -> edited[x]

UpdateWrite(t) ==
  /\ pc[t] = "write" /\ mu' = NoThread
  /\ LET q == req[t]
         x == q.exam
         new == Mutated(q, seen[t]) IN
     \/ /\ ~Taken(new.token, x)
        /\ row' = [row EXCEPT ![x] = new]
        /\ edited' = [edited EXCEPT ![x] = Told(q, x)]
        /\ IF q.op = "edit-pdf" THEN Goto(t, "upload") ELSE Done(t)
        /\ UNCHANGED env
     \* The UNIQUE constraint on token, or another error.
     \/ /\ \/ Taken(new.token, x) /\ UNCHANGED env
           \/ Occur("stmt_failure")
        /\ Done(t)
        /\ UNCHANGED <<row, edited>>
     \* Done by the server, but update() returns false.
     \/ /\ ~Taken(new.token, x) /\ Occur("reply_lost")
        /\ row' = [row EXCEPT ![x] = new]
        /\ edited' = [edited EXCEPT ![x] = NoEdit]
        /\ Done(t)
  /\ UNCHANGED <<objects, idem, nextId, lastToken, clock, served, made>>

-----------------------------------------------------------------------------
(***************************************************************************)
(* Handlers that only call update().                                       *)
(***************************************************************************)
AskChange(t, ops) ==
  /\ \E x \in Exams, op \in ops : row[x] # NoExam /\ Begin(t, Asked(op, x), "update")
  /\ UNCHANGED <<tables, mu, seen, clock, env, past>>

AskTokenMode(t) == AskChange(t, {"static", "dynamic"})

AskLifecycle(t) == AskChange(t, {"toggle", "start", "stop"})

\* delegate_exam, after its own UPDATE of a column no other handler decides on.
AskDelegate(t) == AskChange(t, {"other"})

\* save_exam_questions: an end time, or none.
AskSchedule(t) ==
  /\ \E x \in Exams, e \in Time \cup {Never} :
       row[x] # NoExam /\ Begin(t, [Asked("schedule", x) EXCEPT !.now = e], "update")
  /\ UNCHANGED <<tables, mu, seen, clock, env, past>>

\* regenerate-token: claim_token finds no exam with a fresh token.
AskRegenerate(t) ==
  /\ Generated \in Tokens /\ lastToken' = Generated
  /\ \E x \in Exams :
       /\ row[x] # NoExam
       /\ Begin(t, [Asked("regenerate", x) EXCEPT !.tok = Generated], "update")
  /\ UNCHANGED <<row, objects, idem, nextId, mu, seen, clock, env, past>>

\* edit-token: the teacher chooses any token, used or not.
AskEditToken(t) ==
  /\ \E x \in Exams, tok \in Tokens :
       /\ row[x] # NoExam /\ tok <= Generated
       /\ Begin(t, [Asked("edit-token", x) EXCEPT !.tok = tok], "claim")
       /\ lastToken' = IF tok = Generated THEN tok ELSE lastToken
  /\ UNCHANGED <<row, objects, idem, nextId, mu, seen, clock, env, past>>

\* edit with a new PDF: the row first, R2 afterwards.
AskEditPdf(t) ==
  /\ \E x \in Exams, p \in Pdfs :
       row[x] # NoExam /\ Begin(t, [Asked("edit-pdf", x) EXCEPT !.pdf = p], "update")
  /\ UNCHANGED <<tables, mu, seen, clock, env, past>>

\* run_expiry_job: list_all, then update() without looking again.  Without an
\* end it expires 14 days after created_at; any exam may be as old as that.
AskExpire(t) ==
  /\ \E x \in Exams : /\ row[x] # NoExam /\ ~row[x].tomb
                      /\ row[x].end # Never => clock > row[x].end
                      /\ Begin(t, Asked("expire", x), "update")
  /\ UNCHANGED <<tables, mu, seen, clock, env, past>>

\* set_auto_approve: one UPDATE that does not go through the store.
SetAuto(t) ==
  /\ pc[t] = "idle" /\ served < MaxRequests /\ served' = served + 1
  /\ \E x \in Exams : row[x] # NoExam /\ row' = [row EXCEPT ![x].auto = ~@]
  /\ UNCHANGED <<objects, idem, nextId, lastToken, threads, clock, env, past>>

(***************************************************************************)
(* exam_by_token: a join that finds the rotation due.  It rotates in the   *)
(* database under a row lock and then once more through update().          *)
(***************************************************************************)
Join(t) ==
  /\ \E x \in Exams :
       /\ row[x] # NoExam /\ Due(row[x], clock)
       /\ \E tok \in Tokens : Matches(row[x], tok)
       /\ Generated \in Tokens /\ lastToken' = Generated
       /\ Begin(t, [Asked("sync", x) EXCEPT !.tok = Generated, !.now = clock], "rotate")
       /\ seen' = [seen EXCEPT ![t] = row[x]]
  /\ UNCHANGED <<row, objects, idem, nextId, mu, clock, env, past>>

RotatesBlindly(q, e, s) == FALSE  \* mutant: no recheck under FOR UPDATE

\* Another node, or a teacher, has reset the token since the snapshot s.
FreshInDb(q, e, s) ==
  q.now < Interval + IF e.reset = Never THEN Ref(s) ELSE e.reset

Rotate(t) ==
  /\ pc[t] = "rotate"
  /\ LET q == req[t]
         x == q.exam IN
     \/ /\ row[x] # NoExam /\ FreshInDb(q, row[x], seen[t])
        /\ Done(t)
        /\ UNCHANGED <<row, env>>
     \/ /\ row[x] # NoExam /\ ~FreshInDb(q, row[x], seen[t])
        \* The result of COMMIT is not looked at.
        /\ \/ row' = [row EXCEPT ![x] = Rotated(q, row[x])] /\ UNCHANGED env
           \/ UNCHANGED row /\ Occur("stmt_failure")
        /\ Goto(t, "update")
     \* No connection, no row, or a statement failed: update() with a recheck.
     \/ /\ \/ row[x] = NoExam /\ UNCHANGED env
           \/ Occur("stmt_failure")
        /\ req' = [req EXCEPT ![t].op = "rotate"]
        /\ pc'  = [pc EXCEPT ![t] = "update"]
        /\ UNCHANGED <<row, seen>>
  /\ UNCHANGED <<objects, idem, nextId, lastToken, mu, clock, served, past>>

-----------------------------------------------------------------------------
(***************************************************************************)
(* create_exam.                                                            *)
(***************************************************************************)
ReservesPending(k) == idem[k].state # "done"  \* mutant: no ON CONFLICT

Reservable(k) == idem[k].state = "free"

\* reserve_idempotency; a replay, a conflict or a failing database changes
\* nothing, unless the INSERT took effect and its reply was lost.
AskCreate(t) ==
  /\ StoreFree
  /\ \E p \in Pdfs, file \in BOOLEAN, tok \in Tokens, k \in Keys \cup {NoKey} :
       /\ tok <= Generated
       /\ lastToken' = IF tok = Generated THEN tok ELSE lastToken
       /\ k # NoKey => Reservable(k)
       /\ idem' = IF k = NoKey THEN idem
                  ELSE [idem EXCEPT ![k] = [state |-> "pending", exam |-> 0]]
       /\ \/ /\ \E at \in {"claim", "release"} :  \* release: invalid input
                  Begin(t, [NoRequest EXCEPT !.op = "create", !.tok = tok,
                                             !.pdf = p, !.file = file,
                                             !.key = k], at)
             /\ UNCHANGED env
          \/ /\ k # NoKey /\ Occur("reply_lost")
             /\ pc[t] = "idle" /\ served < MaxRequests /\ served' = served + 1
             /\ UNCHANGED <<pc, req>>
  /\ UNCHANGED <<row, objects, nextId, mu, seen, clock, past>>

RejectedKeepsKey(t) == Done(t)  \* mutant: return without release

\* release_and_return
Rejected(t) == IF req[t].key = NoKey THEN Done(t) ELSE Goto(t, "release")

\* next_id, when its query is answered: NULL is no number, and gives 1.
Numbers(x) == IF nextId = NoSequence THEN x = 1 /\ UNCHANGED nextId
              ELSE x = nextId /\ nextId' = nextId + 1

\* claim_token and next_id; claim_token_if_absent.  A failing query finds no
\* exam with the token, and a failing next_id answers 1 as well.  A form that
\* names a file without sending one uploads nothing.
Claim(t) ==
  /\ pc[t] = "claim" /\ StoreFree
  /\ LET q == req[t] IN
     \/ /\ Taken(q.tok, q.exam)
        /\ IF q.op = "create" THEN Rejected(t) ELSE Done(t)
        /\ UNCHANGED <<nextId, env>>
     \/ /\ q.op = "edit-token"
        /\ \/ ~Taken(q.tok, q.exam) /\ UNCHANGED env
           \/ Occur("stmt_failure")
        /\ Goto(t, "update")
        /\ UNCHANGED nextId
     \/ /\ q.op = "create"
        /\ \E x \in Exams :
             /\ req' = [req EXCEPT ![t].exam = x]
             /\ \/ ~Taken(q.tok, q.exam) /\ Numbers(x) /\ UNCHANGED env
                \/ Numbers(x) /\ Occur("stmt_failure")
                \/ /\ ~Taken(q.tok, q.exam) /\ x = 1 /\ UNCHANGED nextId
                   /\ Occur("stmt_failure")
        /\ pc' = [pc EXCEPT ![t] = IF q.file THEN "upload" ELSE "add"]
        /\ UNCHANGED seen
  /\ UNCHANGED <<row, objects, idem, lastToken, mu, clock, served, past>>

LeavesNewName(t) == Done(t)  \* mutant: 502 without restoring the old name

RestoresNothing(t) ==  \* mutant: the old name was not copied out
  /\ req' = [req EXCEPT ![t] = [@ EXCEPT !.op = "restore-pdf", !.pdf = NoPdf]]
  /\ pc'  = [pc EXCEPT ![t] = "update"]
  /\ UNCHANGED seen

\* The old name and size go back by a second update().
RestorePdf(t) == /\ req' = [req EXCEPT ![t] = [@ EXCEPT !.op = "restore-pdf",
                                                        !.pdf = seen[t].pdf]]
                 /\ pc'  = [pc EXCEPT ![t] = "update"]
                 /\ UNCHANGED seen

\* Upload and HEAD; after a failure the object may be there all the same.
Upload(t) ==
  /\ pc[t] = "upload"
  /\ LET q == req[t]
         object == {<<q.exam, q.pdf>>} IN
     \/ /\ objects' = objects \cup object
        /\ IF q.op = "create" THEN Goto(t, "add") ELSE Done(t)
        /\ UNCHANGED env
     \/ /\ Occur("r2_failure")
        /\ objects' = objects \/ objects' = objects \cup object
        /\ IF q.op = "create" THEN Rejected(t) ELSE RestorePdf(t)
  /\ UNCHANGED <<row, idem, nextId, lastToken, mu, clock, served, past>>

NewRow(q) == [token |-> q.tok, active |-> q.tok, dynamic |-> FALSE,
              reset |-> Never, started |-> Never, live |-> FALSE,
              tomb |-> FALSE, end |-> Never, auto |-> FALSE, pdf |-> q.pdf,
              file |-> q.file]

\* add(), then the answer 201; when it fails an object that was uploaded is
\* removed again.
\* Only the answer in JSON is finalized, the one in protobuf is not.
Add(t) ==
  /\ pc[t] = "add" /\ StoreFree
  /\ LET q == req[t]
         x == q.exam
         possible == row[x] = NoExam /\ ~Taken(q.tok, x)
         inserted == /\ possible
                     /\ row' = [row EXCEPT ![x] = NewRow(q)]
                     /\ made' = IF q.key = NoKey THEN made
                                ELSE [made EXCEPT ![q.key] = @ + 1]
         cleaned  == /\ \/ UNCHANGED objects
                        \/ q.file /\ objects' = objects \ {<<x, q.pdf>>}
                     /\ Rejected(t) IN
     \/ /\ inserted
        /\ Done(t) \/ (q.key # NoKey /\ Goto(t, "finalize"))
        /\ UNCHANGED <<objects, env>>
     \/ /\ \/ ~possible /\ UNCHANGED env
           \/ Occur("stmt_failure")
        /\ cleaned
        /\ UNCHANGED <<row, made>>
     \/ inserted /\ Occur("reply_lost") /\ cleaned
  /\ UNCHANGED <<idem, nextId, lastToken, mu, clock, served, edited>>

\* finalize_idempotency, release_idempotency: their failures are not noticed.
Finish(t) ==
  /\ pc[t] \in {"finalize", "release"} /\ StoreFree
  /\ LET k == req[t].key IN
     \/ /\ idem' = IF k = NoKey THEN idem
                   ELSE IF pc[t] = "release" THEN [idem EXCEPT ![k] = Unused]
                   ELSE [idem EXCEPT ![k] = [state |-> "done", exam |-> req[t].exam]]
        /\ UNCHANGED env
     \/ Occur("stmt_failure") /\ UNCHANGED idem
  /\ Done(t)
  /\ UNCHANGED <<row, objects, nextId, lastToken, mu, clock, served, past>>

(***************************************************************************)
(* delete_exam and bulk_delete_exams, one exam after the other: the row    *)
(* first, then the objects of the row that was read, in both layouts.      *)
(***************************************************************************)
AskDelete(t) ==
  /\ \E x \in Exams : /\ row[x] # NoExam
                      /\ Begin(t, [Asked("delete", x) EXCEPT !.pdf = row[x].pdf], "remove")
  /\ UNCHANGED <<tables, mu, seen, clock, env, past>>

Remove(t) ==
  /\ pc[t] = "remove" /\ StoreFree
  /\ \/ /\ row' = [row EXCEPT ![req[t].exam] = NoExam]
        /\ edited' = [edited EXCEPT ![req[t].exam] = NoEdit]
        /\ Goto(t, "purge")
        /\ UNCHANGED env
     \/ /\ Occur("stmt_failure") /\ Done(t)
        /\ UNCHANGED <<row, edited>>
  /\ UNCHANGED <<objects, idem, nextId, lastToken, mu, clock, served, made>>

\* Each removal may fail by itself.  Nobody writes a legacy object, so it does
\* not matter that the two are not removed at once.
Purge(t) ==
  /\ pc[t] = "purge"
  /\ LET pdfs == {Legacy, req[t].exam} \X {req[t].pdf} IN
     \/ objects' = objects \ pdfs /\ UNCHANGED env
     \/ /\ Occur("r2_failure")
        /\ \E some \in SUBSET pdfs : objects' = objects \ some
  /\ Done(t)
  /\ UNCHANGED <<row, idem, nextId, lastToken, mu, clock, served, past>>

-----------------------------------------------------------------------------
\* The process dies with its requests and is started again.
CrashRestart ==
  /\ \E t \in Threads : pc[t] # "idle"
  /\ Occur("crash")
  /\ mu' = NoThread
  /\ pc' = [t \in Threads |-> "idle"]
  /\ req' = [t \in Threads |-> NoRequest]
  /\ seen' = [t \in Threads |-> NoExam]
  /\ UNCHANGED <<tables, clock, served, past>>

Tick == /\ clock < MaxClock /\ clock' = clock + 1
        /\ UNCHANGED <<tables, threads, served, env, past>>

StoreInit ==
  /\ \E p \in Pdfs, s \in Starts :
       /\ row = [x \in Exams |->
                   IF x = 1 THEN [token |-> 1, active |-> 1, dynamic |-> s.dynamic,
                                  reset |-> 0, started |-> 0, live |-> TRUE,
                                  tomb |-> FALSE, end |-> Never, auto |-> FALSE,
                                  pdf |-> p, file |-> s.file]
                   ELSE NoExam]
       /\ objects = {<<IF s.file THEN 1 ELSE Legacy, p>>}
       /\ nextId = s.nextId /\ served = s.served
  /\ idem = [k \in Keys |-> Unused]
  /\ lastToken = 1
  /\ mu = NoThread
  /\ pc = [t \in Threads |-> "idle"]
  /\ req = [t \in Threads |-> NoRequest]
  /\ seen = [t \in Threads |-> NoExam]
  /\ clock = 0
  /\ made = [k \in Keys |-> 0]
  /\ edited = [x \in Exams |-> NoEdit]
  /\ env = [e \in Events |-> 0]

ThreadStep(t) ==
  \/ AskTokenMode(t) \/ AskLifecycle(t) \/ AskDelegate(t) \/ AskSchedule(t)
  \/ AskRegenerate(t) \/ AskEditToken(t) \/ AskEditPdf(t) \/ AskExpire(t)
  \/ SetAuto(t) \/ Join(t) \/ AskCreate(t) \/ AskDelete(t)
  \/ UpdateRead(t) \/ UpdateWrite(t) \/ Rotate(t)
  \/ Claim(t) \/ Upload(t) \/ Add(t) \/ Finish(t)
  \/ Remove(t) \/ Purge(t)

StoreNext == (\E t \in Threads : ThreadStep(t)) \/ CrashRestart \/ Tick

StoreSpec == StoreInit /\ [][StoreNext]_storeVars

-----------------------------------------------------------------------------
(***************************************************************************)
(* Properties.                                                             *)
(***************************************************************************)
\* Types.
StoreTypeOK ==
  /\ row \in [Exams -> ExamRow \cup {NoExam}]
  /\ objects \subseteq (Exams \cup {Legacy}) \X Pdfs
  /\ idem \in [Keys -> [state : {"free", "pending", "done"}, exam : Exams \cup {0}]]
  /\ nextId \in 1..(MaxExam + 1) \cup {NoSequence} /\ lastToken \in Tokens
  /\ mu \in Threads \cup {NoThread}
  /\ pc \in [Threads -> Places]
  /\ req \in [Threads -> Request]
  /\ seen \in [Threads -> ExamRow \cup {NoExam}]
  /\ clock \in Time /\ served \in 0..MaxRequests
  /\ made \in [Keys -> Nat]
  /\ edited \in [Exams -> [tok : Tokens \cup {0}, at : Time \cup {Never}]]
  /\ env \in [Events -> Nat]

\* The columns that only update() and the statements under mu_ write, and the
\* history, which nothing writes.
Owned(e) == <<e.token, e.dynamic, e.started, e.live, e.tomb, e.end, e.pdf, e.file>>

(***************************************************************************)
(* "update() tidak menjatuhkan field", for the columns it owns: what a     *)
(* handler is about to write back is what the table still holds, whatever  *)
(* the other threads have done since the SELECT.                           *)
(***************************************************************************)
SerialUpdates ==
  \A t \in Threads :
    pc[t] = "write" => /\ mu = t
                       /\ row[req[t].exam] # NoExam
                       /\ Owned(row[req[t].exam]) = Owned(seen[t])

(***************************************************************************)
(* Two teachers who start an exam at the same time: the start of a running *)
(* exam never moves (the students' clocks hang on it), it can only be      *)
(* stopped.                                                                *)
(***************************************************************************)
StartedOnce ==
  [][\A x \in Exams :
       row[x] # NoExam /\ row'[x] # NoExam /\ row[x].started # Never
         => row'[x].started \in {row[x].started, Never}]_storeVars

(***************************************************************************)
(* The token a teacher was told is set is the one that lets students in    *)
(* for a whole interval: no join that was under way, no retry and no other *)
(* update replaces it.                                                     *)
(***************************************************************************)
TokenLives ==
  \A x \in Exams :
    edited[x] # NoEdit /\ clock < edited[x].at + Interval
      => row[x].active = edited[x].tok

\* A replacement of the PDF whose outcome is open.
PdfOpen(u, x) == /\ req[u].exam = x
                 /\ \/ req[u].op = "edit-pdf" /\ pc[u] = "upload"
                    \/ req[u].op = "restore-pdf"

(***************************************************************************)
(* P35-D4, as far as it holds: whatever is created, replaced and deleted   *)
(* beside it under the same file name, an exam that was created with its   *)
(* PDF has it under a key of its own, or a request is at work on it.  It   *)
(* does not hold without a sequence (PdfExists), nor when two replacements *)
(* overlap and both fail: the second restores the name that the first has  *)
(* never uploaded; so may a crash or a failing statement.                  *)
(***************************************************************************)
PdfKept ==
  /\ nextId # NoSequence
  /\ env["crash"] + env["stmt_failure"] + env["reply_lost"] = 0
  /\ env["r2_failure"] <= 1
  => \A x \in Exams :
       row[x] # NoExam /\ row[x].file
         => \/ <<x, row[x].pdf>> \in objects
            \/ \E t \in Threads : PdfOpen(t, x)

\* A request that is repeated with its Idempotency-Key, at the same time or
\* later, over crashes and failures, creates one exam.
OneExamPerKey ==
  env["reply_lost"] = 0 => \A k \in Keys : made[k] <= 1

(***************************************************************************)
(* P33-D1: a key under which no exam was created does not stay reserved    *)
(* (every retry would be answered 409), unless the process dies or the     *)
(* database fails in between.                                              *)
(***************************************************************************)
NoStuckKey ==
  env["crash"] + env["stmt_failure"] + env["reply_lost"] = 0 =>
    \A k \in Keys : idem[k].state = "pending" /\ made[k] = 0
                    => \E t \in Threads : req[t].op = "create" /\ req[t].key = k

\* "ujian tanpa file = data rusak", "fresh-DB harus bisa jalan tanpa skema Go":
\* whenever no request is at work, an exam that was created with its PDF has it.
PdfExists ==
  (\A t \in Threads : pc[t] = "idle")
    => \A x \in Exams :
         row[x] # NoExam /\ row[x].file => <<x, row[x].pdf>> \in objects
===============================================================================
