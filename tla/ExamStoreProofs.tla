--------------------------- MODULE ExamStoreProofs ---------------------------
(***************************************************************************)
(* Proofs about ExamStore, for every number of threads, exams, keys and    *)
(* files, and whatever the bounds of time, requests and failures are.      *)
(***************************************************************************)
EXTENDS ExamStore, TLAPS

-----------------------------------------------------------------------------
(***************************************************************************)
(* The inductive invariant: what a request carries at which stage.         *)
(***************************************************************************)
\* The parameters that its operation needs.
Carried(q) ==
  /\ q.op \in {"create", "edit-token", "regenerate", "sync", "rotate"}
       => q.tok \in Tokens
  /\ q.op \in {"sync", "rotate"} => q.now \in Time
  /\ q.op \in {"create", "edit-pdf", "restore-pdf"} => q.pdf \in Pdfs

\* A request q at stage p, with s the row it has read.
Placed(p, q, s) ==
  /\ p \in {"update", "write", "rotate", "upload", "add", "finalize",
            "remove", "purge"} => q.exam \in Exams
  /\ p = "claim"  => \/ q.op = "create"
                     \/ q.op = "edit-token" /\ q.exam \in Exams
  /\ p = "rotate" => q.op = "sync"
  /\ p = "add"    => q.op = "create"
  /\ p = "upload" => q.op = "create" \/ (q.op = "edit-pdf" /\ s \in ExamRow)
  /\ p = "write"  => s \in ExamRow /\ (q.op \in ReadsClock => q.now \in Time)

Carries == \A t \in Threads : Carried(req[t]) /\ Placed(pc[t], req[t], seen[t])

StoreInv == StoreTypeOK /\ Carries

-----------------------------------------------------------------------------
(* Operators of the model. *)

LEMMA EventNames == {"stmt_failure", "reply_lost", "r2_failure", "crash", "any"} = Events
  BY DEF Events

LEMMA OccurFacts ==
  ASSUME NEW k \in Events, env \in [Events -> Nat], Occur(k)
  PROVE  /\ env' \in [Events -> Nat]
         /\ \A e \in Events : env'[e] >= env[e]
         /\ env'[k] > 0
  BY DEF Occur

LEMMA Never1 == Never \notin Time /\ NoThread \notin Threads /\ NoKey \notin Keys
  BY StoreAssumption DEF Never, Time

\* An empty request and a fresh row have their types.
LEMMA NoRequestType == NoRequest \in Request /\ NoRequest.op = "none" /\ NoRequest.key = NoKey
  BY DEF NoRequest, Request, Ops

LEMMA NewRowType ==
  ASSUME NEW q, q.tok \in Tokens, q.pdf \in Pdfs, q.file \in BOOLEAN
  PROVE  NewRow(q) \in ExamRow
  BY DEF NewRow, ExamRow

\* Every mutator returns an exam, and a start time that runs stays or goes.
LEMMA MutatedFacts ==
  ASSUME NEW q \in Request, NEW e \in ExamRow, Carried(q),
         q.op \in ReadsClock => q.now \in Time
  PROVE  /\ Mutated(q, e) \in ExamRow
         /\ e.started # Never => Mutated(q, e).started \in {e.started, Never}
<1> USE DEF ReadsClock
<1>1. CASE q.op = "edit-token"
  <2>1. Mutated(q, e) = [e EXCEPT !.token = q.tok, !.active = q.tok, !.reset = q.now]
    BY <1>1 DEF Mutated
  <2> QED  BY <2>1, <1>1 DEF ExamRow, Request, Carried
<1>2. CASE q.op = "regenerate"
  <2>1. Mutated(q, e) = [e EXCEPT !.token = q.tok, !.active = q.tok]
    BY <1>2 DEF Mutated
  <2> QED  BY <2>1, <1>2 DEF ExamRow, Request, Carried
<1>3. CASE q.op = "static"
  <2>1. Mutated(q, e) = [e EXCEPT !.dynamic = FALSE, !.reset = Never]
    BY <1>3 DEF Mutated
  <2> QED  BY <2>1, <1>3 DEF ExamRow, Request, Carried
<1>4. CASE q.op = "dynamic"
  <2>1. Mutated(q, e) = [e EXCEPT !.dynamic = TRUE]
    BY <1>4 DEF Mutated
  <2> QED  BY <2>1, <1>4 DEF ExamRow, Request, Carried
<1>5. CASE q.op = "toggle"
  <2>1. Mutated(q, e) = [e EXCEPT !.live = ~e.live, !.tomb = e.tomb /\ e.live]
    BY <1>5 DEF Mutated
  <2> QED  BY <2>1, <1>5 DEF ExamRow, Request, Carried
<1>6. CASE q.op = "stop"
  <2>1. Mutated(q, e) = [e EXCEPT !.live = FALSE, !.started = Never]
    BY <1>6 DEF Mutated
  <2> QED  BY <2>1, <1>6 DEF ExamRow, Request, Carried
<1>7. CASE q.op = "schedule"
  <2>1. Mutated(q, e) = [e EXCEPT !.end = q.now]
    BY <1>7 DEF Mutated
  <2> QED  BY <2>1, <1>7 DEF ExamRow, Request, Carried
<1>8. CASE q.op = "expire"
  <2>1. Mutated(q, e) = [e EXCEPT !.live = FALSE, !.tomb = TRUE]
    BY <1>8 DEF Mutated
  <2> QED  BY <2>1, <1>8 DEF ExamRow, Request, Carried
<1>9. CASE q.op = "start"
  <2>1. Mutated(q, e) = Started(q, e)
    BY <1>9 DEF Mutated
  <2> QED  BY <2>1, <1>9 DEF Started, ExamRow
<1>10. CASE q.op \in {"sync", "rotate"}
  <2>1. Mutated(q, e) \in {Rotated(q, e), e}
    BY <1>10 DEF Mutated
  <2> QED  BY <2>1, <1>10 DEF Rotated, ExamRow, Carried
<1>11. CASE q.op \in {"edit-pdf", "restore-pdf"}
  <2>1. Mutated(q, e) = [e EXCEPT !.pdf = q.pdf]
    BY <1>11 DEF Mutated
  <2> QED  BY <2>1, <1>11 DEF ExamRow, Carried
<1>12. CASE q.op \in {"none", "create", "other", "delete"}
  <2>1. Mutated(q, e) = e
    BY <1>12 DEF Mutated
  <2> QED  BY <2>1
<1> QED  BY <1>1, <1>2, <1>3, <1>4, <1>5, <1>6, <1>7, <1>8, <1>9, <1>10, <1>11, <1>12 DEF Request, Ops

\* The rotation leaves the columns alone that only update() writes.
LEMMA RotatedFacts ==
  ASSUME NEW q, NEW e \in ExamRow, q.tok \in Tokens, q.now \in Time
  PROVE  /\ Rotated(q, e) \in ExamRow
         /\ Owned(Rotated(q, e)) = Owned(e)
         /\ Rotated(q, e).started = e.started
  BY DEF Rotated, Owned, ExamRow

LEMMA AutoFacts ==
  ASSUME NEW e \in ExamRow
  PROVE  /\ [e EXCEPT !.auto = ~@] \in ExamRow
         /\ Owned([e EXCEPT !.auto = ~@]) = Owned(e)
         /\ [e EXCEPT !.auto = ~@].started = e.started
  BY DEF Owned, ExamRow

-----------------------------------------------------------------------------
(* Types. *)

\* The other threads are left alone.
Elsewhere(t) ==
  \A u \in Threads \ {t} : pc'[u] = pc[u] /\ req'[u] = req[u] /\ seen'[u] = seen[u]

\* What a step of thread t has to show about the handlers.
Handled(t) ==
  /\ pc'   \in [Threads -> Places]
  /\ req'  \in [Threads -> Request]
  /\ seen' \in [Threads -> ExamRow \cup {NoExam}]
  /\ Elsewhere(t)
  /\ Carried(req'[t]) /\ Placed(pc'[t], req'[t], seen'[t])

LEMMA HandledCarries ==
  ASSUME Carries, NEW t \in Threads, Handled(t)
  PROVE  Carries'
  BY DEF Carries, Handled, Elsewhere

LEMMA DoneHandled ==
  ASSUME StoreInv, NEW t \in Threads, Done(t)
  PROVE  Handled(t) /\ pc'[t] = "idle" /\ req'[t].key = NoKey
  BY NoRequestType DEF StoreInv, StoreTypeOK, Done, Handled, Elsewhere, Carried,
     Placed, NoRequest, Places

LEMMA GotoHandled ==
  ASSUME StoreInv, NEW t \in Threads, NEW p \in Places, Goto(t, p),
         Placed(p, req[t], seen[t])
  PROVE  Handled(t) /\ pc'[t] = p /\ req'[t] = req[t]
  BY DEF StoreInv, StoreTypeOK, Goto, Handled, Elsewhere, Carries

LEMMA BeginHandled ==
  ASSUME StoreInv, NEW t \in Threads, NEW q \in Request, NEW p \in Places,
         Begin(t, q, p), Carried(q),
         \/ Placed(p, q, seen[t]) /\ UNCHANGED seen
         \/ /\ p = "rotate" /\ q.op = "sync" /\ q.exam \in Exams
            /\ \E s \in ExamRow : seen' = [seen EXCEPT ![t] = s]
  PROVE  /\ Handled(t) /\ pc'[t] = p /\ req'[t] = q
         /\ pc[t] = "idle" /\ served' \in 0..MaxRequests
  BY StoreAssumption DEF StoreInv, StoreTypeOK, Begin, Handled, Elsewhere, Placed

\* A new request has the type of requests and carries what it needs.
LEMMA AskedFacts ==
  ASSUME NEW op \in Ops, NEW x \in Exams
  PROVE  /\ Asked(op, x) \in Request
         /\ Asked(op, x).op = op /\ Asked(op, x).exam = x /\ Asked(op, x).key = NoKey
  BY DEF Asked, NoRequest, Request

LEMMA AskStep ==
  ASSUME StoreInv, NEW t \in Threads,
         \/ AskTokenMode(t) \/ AskLifecycle(t) \/ AskDelegate(t) \/ AskSchedule(t)
         \/ AskRegenerate(t) \/ AskEditToken(t) \/ AskEditPdf(t) \/ AskExpire(t)
         \/ AskDelete(t) \/ Join(t)
  PROVE  /\ StoreTypeOK' /\ Handled(t) /\ pc[t] = "idle"
         /\ pc'[t] # "write" /\ req'[t].key = NoKey
         /\ UNCHANGED <<row, mu, idem, made, env>>
<1> USE DEF tables, threads, bounds, past
<1>1. ASSUME NEW op \in Ops \ {"create", "edit-token", "regenerate", "sync", "rotate",
                               "edit-pdf", "restore-pdf"},
             AskChange(t, {op})
      PROVE  /\ StoreTypeOK' /\ Handled(t) /\ pc[t] = "idle"
             /\ pc'[t] # "write" /\ req'[t].key = NoKey
             /\ UNCHANGED <<row, mu, idem, made, env>>
  <2>1. PICK x \in Exams : Begin(t, Asked(op, x), "update")
    BY <1>1 DEF AskChange
  <2>2. Carried(Asked(op, x)) /\ Placed("update", Asked(op, x), seen[t])
    BY AskedFacts DEF Carried, Placed
  <2>3. Handled(t) /\ pc'[t] = "update" /\ req'[t] = Asked(op, x)
        /\ pc[t] = "idle" /\ served' \in 0..MaxRequests
    BY <1>1, <2>1, <2>2, AskedFacts, BeginHandled DEF AskChange, Places
  <2> QED  BY <1>1, <2>3, AskedFacts DEF AskChange, StoreInv, StoreTypeOK, Handled
<1>2. CASE AskTokenMode(t) \/ AskLifecycle(t) \/ AskDelegate(t)
  <2>1. PICK op \in {"static", "dynamic", "toggle", "start", "stop", "other"} :
          AskChange(t, {op})
    BY <1>2 DEF AskTokenMode, AskLifecycle, AskDelegate, AskChange
  <2> QED  BY <1>1, <2>1 DEF Ops
<1>3. CASE AskSchedule(t)
  <2>1. PICK x \in Exams, e \in Time \cup {Never} : Begin(t, [Asked("schedule", x) EXCEPT !.now = e], "update")
    BY <1>3 DEF AskSchedule
  <2> DEFINE q == [Asked("schedule", x) EXCEPT !.now = e]
  <2>2. /\ q \in Request /\ q.key = NoKey /\ Carried(q) /\ Placed("update", q, seen[t])
    BY TRUE DEF Asked, NoRequest, Request, Ops, Carried, Placed
  <2>3. Handled(t) /\ pc'[t] = "update" /\ req'[t] = q
        /\ pc[t] = "idle" /\ served' \in 0..MaxRequests
    <3> HIDE DEF q
    <3> QED  BY <1>3, <2>1, <2>2, BeginHandled DEF AskSchedule, Places, q
  <2> QED  BY <1>3, <2>2, <2>3 DEF AskSchedule, StoreInv, StoreTypeOK, Handled
<1>4. CASE AskRegenerate(t)
  <2>1. PICK x \in Exams : Begin(t, [Asked("regenerate", x) EXCEPT !.tok = Generated], "update")
    BY <1>4 DEF AskRegenerate
  <2> DEFINE q == [Asked("regenerate", x) EXCEPT !.tok = Generated]
  <2>2. /\ q \in Request /\ q.key = NoKey /\ Carried(q) /\ Placed("update", q, seen[t])
    BY <1>4 DEF Asked, NoRequest, Request, Ops, Carried, Placed, AskRegenerate
  <2>3. Handled(t) /\ pc'[t] = "update" /\ req'[t] = q
        /\ pc[t] = "idle" /\ served' \in 0..MaxRequests
    <3> HIDE DEF q
    <3> QED  BY <1>4, <2>1, <2>2, BeginHandled DEF AskRegenerate, Places, q
  <2> QED  BY <1>4, <2>2, <2>3 DEF AskRegenerate, StoreInv, StoreTypeOK, Handled
<1>5. CASE AskEditToken(t)
  <2>1. PICK x \in Exams, tok \in Tokens : Begin(t, [Asked("edit-token", x) EXCEPT !.tok = tok], "claim")
    BY <1>5 DEF AskEditToken
  <2> DEFINE q == [Asked("edit-token", x) EXCEPT !.tok = tok]
  <2>2. /\ q \in Request /\ q.key = NoKey /\ Carried(q) /\ Placed("claim", q, seen[t])
    BY TRUE DEF Asked, NoRequest, Request, Ops, Carried, Placed
  <2>3. Handled(t) /\ pc'[t] = "claim" /\ req'[t] = q
        /\ pc[t] = "idle" /\ served' \in 0..MaxRequests
    <3> HIDE DEF q
    <3> QED  BY <1>5, <2>1, <2>2, BeginHandled DEF AskEditToken, Places, q
  <2> QED  BY <1>5, <2>2, <2>3 DEF AskEditToken, StoreInv, StoreTypeOK, Handled
<1>6. CASE AskEditPdf(t)
  <2>1. PICK x \in Exams, p \in Pdfs : Begin(t, [Asked("edit-pdf", x) EXCEPT !.pdf = p], "update")
    BY <1>6 DEF AskEditPdf
  <2> DEFINE q == [Asked("edit-pdf", x) EXCEPT !.pdf = p]
  <2>2. /\ q \in Request /\ q.key = NoKey /\ Carried(q) /\ Placed("update", q, seen[t])
    BY TRUE DEF Asked, NoRequest, Request, Ops, Carried, Placed
  <2>3. Handled(t) /\ pc'[t] = "update" /\ req'[t] = q
        /\ pc[t] = "idle" /\ served' \in 0..MaxRequests
    <3> HIDE DEF q
    <3> QED  BY <1>6, <2>1, <2>2, BeginHandled DEF AskEditPdf, Places, q
  <2> QED  BY <1>6, <2>2, <2>3 DEF AskEditPdf, StoreInv, StoreTypeOK, Handled
<1>7. CASE AskExpire(t)
  <2>1. PICK x \in Exams : Begin(t, Asked("expire", x), "update")
    BY <1>7 DEF AskExpire
  <2> DEFINE q == Asked("expire", x)
  <2>2. /\ q \in Request /\ q.key = NoKey /\ Carried(q) /\ Placed("update", q, seen[t])
    BY TRUE DEF Asked, NoRequest, Request, Ops, Carried, Placed
  <2>3. Handled(t) /\ pc'[t] = "update" /\ req'[t] = q
        /\ pc[t] = "idle" /\ served' \in 0..MaxRequests
    <3> HIDE DEF q
    <3> QED  BY <1>7, <2>1, <2>2, BeginHandled DEF AskExpire, Places, q
  <2> QED  BY <1>7, <2>2, <2>3 DEF AskExpire, StoreInv, StoreTypeOK, Handled
<1>8. CASE AskDelete(t)
  <2>1. PICK x \in Exams : /\ row[x] # NoExam
                           /\ Begin(t, [Asked("delete", x) EXCEPT !.pdf = row[x].pdf], "remove")
    BY <1>8 DEF AskDelete
  <2> DEFINE q == [Asked("delete", x) EXCEPT !.pdf = row[x].pdf]
  <2>2. row[x].pdf \in Pdfs
    BY <2>1 DEF StoreInv, StoreTypeOK, ExamRow
  <2>3. /\ q \in Request /\ q.key = NoKey /\ Carried(q) /\ Placed("remove", q, seen[t])
    BY <2>2 DEF Asked, NoRequest, Request, Ops, Carried, Placed
  <2>4. Handled(t) /\ pc'[t] = "remove" /\ req'[t] = q
        /\ pc[t] = "idle" /\ served' \in 0..MaxRequests
    <3> HIDE DEF q
    <3> QED  BY <1>8, <2>1, <2>3, BeginHandled DEF AskDelete, Places, q
  <2> QED  BY <1>8, <2>3, <2>4 DEF AskDelete, StoreInv, StoreTypeOK, Handled
<1>9. CASE Join(t)
  <2>1. PICK x \in Exams :
          /\ row[x] # NoExam
          /\ Begin(t, [Asked("sync", x) EXCEPT !.tok = Generated, !.now = clock], "rotate")
          /\ seen' = [seen EXCEPT ![t] = row[x]]
    BY <1>9 DEF Join
  <2> DEFINE q == [Asked("sync", x) EXCEPT !.tok = Generated, !.now = clock]
  <2>2. row[x] \in ExamRow /\ clock \in Time /\ Generated \in Tokens /\ lastToken' \in Tokens
    BY <1>9, <2>1 DEF Join, StoreInv, StoreTypeOK
  <2>3. q \in Request /\ q.key = NoKey /\ q.op = "sync" /\ q.exam \in Exams /\ Carried(q)
    BY <2>2 DEF Asked, NoRequest, Request, Ops, Carried
  <2>4. Handled(t) /\ pc'[t] = "rotate" /\ req'[t] = q
        /\ pc[t] = "idle" /\ served' \in 0..MaxRequests
    <3> HIDE DEF q
    <3> QED  BY <2>1, <2>2, <2>3, BeginHandled DEF Places, q
  <2> QED  BY <1>9, <2>2, <2>3, <2>4 DEF Join, StoreInv, StoreTypeOK, Handled
<1> QED  BY <1>2, <1>3, <1>4, <1>5, <1>6, <1>7, <1>8, <1>9

LEMMA AskCreateStep ==
  ASSUME StoreInv, NEW t \in Threads, AskCreate(t)
  PROVE  /\ StoreTypeOK' /\ Handled(t) /\ UNCHANGED <<row, mu, made>>
         /\ pc[t] = "idle" /\ pc'[t] # "write"
<1> USE DEF tables, threads, bounds, past
<1>1. PICK p \in Pdfs, file \in BOOLEAN, tok \in Tokens, k \in Keys \cup {NoKey} :
        /\ lastToken' = IF tok = Generated THEN tok ELSE lastToken
        /\ idem' = IF k = NoKey THEN idem
                   ELSE [idem EXCEPT ![k] = [state |-> "pending", exam |-> 0]]
        /\ \/ /\ \E at \in {"claim", "release"} :
                   Begin(t, [NoRequest EXCEPT !.op = "create", !.tok = tok,
                                              !.pdf = p, !.file = file, !.key = k], at)
              /\ UNCHANGED env
           \/ /\ k # NoKey /\ Occur("reply_lost")
              /\ pc[t] = "idle" /\ served < MaxRequests /\ served' = served + 1
              /\ UNCHANGED <<pc, req>>
  BY DEF AskCreate
<1>2. /\ idem' \in [Keys -> [state : {"free", "pending", "done"}, exam : Exams \cup {0}]]
      /\ lastToken' \in Tokens
  BY <1>1 DEF StoreInv, StoreTypeOK
<1>3. ASSUME NEW at \in {"claim", "release"},
             Begin(t, [NoRequest EXCEPT !.op = "create", !.tok = tok,
                                        !.pdf = p, !.file = file, !.key = k], at)
      PROVE  /\ Handled(t) /\ served' \in 0..MaxRequests
             /\ pc[t] = "idle" /\ pc'[t] # "write"
  <2> DEFINE q == [NoRequest EXCEPT !.op = "create", !.tok = tok, !.pdf = p, !.file = file, !.key = k]
  <2>1. q \in Request /\ Carried(q) /\ Placed(at, q, seen[t])
    BY <1>1 DEF NoRequest, Request, Ops, Carried, Placed
  <2>2. UNCHANGED seen
    BY DEF AskCreate
  <2> HIDE DEF q
  <2>3. Handled(t) /\ served' \in 0..MaxRequests /\ pc[t] = "idle" /\ pc'[t] = at
    BY <1>3, <2>1, <2>2, BeginHandled DEF Places, q
  <2> QED  BY <2>3
<1>4. CASE /\ Occur("reply_lost") /\ served < MaxRequests /\ served' = served + 1
           /\ UNCHANGED <<pc, req>>
  <2>1. env' \in [Events -> Nat]
    BY <1>4, OccurFacts, EventNames DEF StoreInv, StoreTypeOK
  <2>2. Handled(t)
    BY <1>4 DEF AskCreate, StoreInv, StoreTypeOK, Carries, Handled, Elsewhere
  <2>3. pc[t] = "idle" /\ pc'[t] # "write"
    BY <1>1, <1>4 DEF Begin
  <2>4. StoreTypeOK'
    BY <1>1, <1>2, <1>4, <2>1, <2>2, StoreAssumption
    DEF AskCreate, StoreInv, StoreTypeOK, Handled
  <2> QED  BY <2>2, <2>3, <2>4 DEF AskCreate
<1> QED  BY <1>1, <1>2, <1>3, <1>4 DEF AskCreate, StoreInv, StoreTypeOK, Handled

\* Only auto_approve of x changes.
AutoOnly(x) == row[x] \in ExamRow /\ row' = [row EXCEPT ![x] = [row[x] EXCEPT !.auto = ~@]]

LEMMA SetAutoStep ==
  ASSUME StoreInv, NEW t \in Threads, SetAuto(t)
  PROVE  /\ StoreTypeOK' /\ Handled(t) /\ UNCHANGED <<threads, idem, made, env>>
         /\ \E x \in Exams : AutoOnly(x)
<1> USE DEF tables, threads, bounds, past
<1>1. PICK x \in Exams : row[x] # NoExam /\ row' = [row EXCEPT ![x].auto = ~@]
  BY DEF SetAuto
<1>2. AutoOnly(x)
  BY <1>1 DEF StoreInv, StoreTypeOK, AutoOnly
<1>3. row' \in [Exams -> ExamRow \cup {NoExam}]
  BY <1>2, AutoFacts DEF StoreInv, StoreTypeOK, AutoOnly
<1>4. Handled(t)
  BY DEF SetAuto, StoreInv, StoreTypeOK, Carries, Handled, Elsewhere
<1>5. StoreTypeOK' /\ UNCHANGED <<threads, idem, made, env>>
  BY <1>3, StoreAssumption DEF SetAuto, StoreInv, StoreTypeOK
<1> QED  BY <1>2, <1>4, <1>5

LEMMA UpdateReadStep ==
  ASSUME StoreInv, NEW t \in Threads, UpdateRead(t)
  PROVE  /\ StoreTypeOK' /\ Handled(t) /\ req'[t].key \in {req[t].key, NoKey}
         /\ UNCHANGED <<row, idem, made>> /\ pc[t] = "update" /\ StoreFree
         /\ \/ UNCHANGED mu /\ pc'[t] # "write"
            \/ /\ row[req[t].exam] # NoExam /\ mu' = t
               /\ seen'[t] = row[req[t].exam] /\ req'[t].exam = req[t].exam
<1> USE DEF tables, threads, bounds, past
<1> DEFINE x == req[t].exam
<1>1. x \in Exams /\ Carried(req[t]) /\ req[t] \in Request
  BY DEF UpdateRead, StoreInv, StoreTypeOK, Carries, Placed
<1>2. CASE /\ row[x] # NoExam
           /\ mu'   = t
           /\ seen' = [seen EXCEPT ![t] = row[x]]
           /\ req'  = IF req[t].op \in ReadsClock
                      THEN [req EXCEPT ![t].now = clock] ELSE req
           /\ pc'   = [pc EXCEPT ![t] = "write"]
           /\ UNCHANGED env
  <2>1. row[x] \in ExamRow /\ clock \in Time
    BY <1>1, <1>2 DEF StoreInv, StoreTypeOK
  <2>2. /\ req' \in [Threads -> Request] /\ \A u \in Threads \ {t} : req'[u] = req[u]
        /\ req'[t].op = req[t].op /\ req'[t].exam = req[t].exam
        /\ req'[t].tok = req[t].tok /\ req'[t].pdf = req[t].pdf
        /\ req'[t].key = req[t].key
        /\ req'[t].now = IF req[t].op \in ReadsClock THEN clock ELSE req[t].now
    BY <1>1, <1>2, <2>1 DEF StoreInv, StoreTypeOK, Request
  <2>3. Carried(req'[t]) /\ Placed("write", req'[t], row[x])
    BY <1>1, <2>1, <2>2 DEF Carried, Placed, ReadsClock
  <2>4. Handled(t)
    BY <1>2, <2>1, <2>2, <2>3 DEF Handled, Elsewhere, StoreInv, StoreTypeOK, Places
  <2> QED  BY <1>2, <2>2, <2>4 DEF UpdateRead, StoreInv, StoreTypeOK, Handled
<1>3. CASE Done(t) /\ UNCHANGED mu /\ (UNCHANGED env \/ Occur("stmt_failure"))
  <2>1. env' \in [Events -> Nat]
    BY <1>3, OccurFacts, EventNames DEF StoreInv, StoreTypeOK
  <2> QED  BY <1>3, <2>1, DoneHandled DEF UpdateRead, StoreInv, StoreTypeOK, Handled
<1> QED  BY <1>2, <1>3 DEF UpdateRead

LEMMA UpdateWriteStep ==
  ASSUME StoreInv, NEW t \in Threads, UpdateWrite(t)
  PROVE  /\ StoreTypeOK' /\ Handled(t) /\ pc'[t] # "write"
         /\ row' \in {row, [row EXCEPT ![req[t].exam] = Mutated(req[t], seen[t])]}
         /\ req'[t].key \in {req[t].key, NoKey} /\ UNCHANGED <<idem, made>>
         /\ pc[t] = "write"
<1> USE DEF tables, threads, bounds, past
<1> DEFINE q == req[t]
           x == q.exam
           new == Mutated(q, seen[t])
<1>1. /\ x \in Exams /\ q \in Request /\ Carried(q) /\ seen[t] \in ExamRow
      /\ q.op \in ReadsClock => q.now \in Time
  BY DEF UpdateWrite, StoreInv, StoreTypeOK, Carries, Placed
<1>2. new \in ExamRow
  BY <1>1, MutatedFacts
<1>3. Told(q, x) \in [tok : Tokens \cup {0}, at : Time \cup {Never}]
  BY <1>1 DEF Told, NoEdit, Carried, ReadsClock, StoreInv, StoreTypeOK
<1>4. NoEdit \in [tok : Tokens \cup {0}, at : Time \cup {Never}]
  BY DEF NoEdit
<1> HIDE DEF new
<1>5. /\ row' \in {row, [row EXCEPT ![x] = new]}
      /\ edited' \in {edited, [edited EXCEPT ![x] = Told(q, x)],
                      [edited EXCEPT ![x] = NoEdit]}
      /\ Done(t) \/ (q.op = "edit-pdf" /\ Goto(t, "upload"))
      /\ UNCHANGED env \/ Occur("stmt_failure") \/ Occur("reply_lost")
  BY DEF UpdateWrite, new
<1>6. row' \in [Exams -> ExamRow \cup {NoExam}]
  BY <1>1, <1>2, <1>5 DEF StoreInv, StoreTypeOK
<1>7. edited' \in [Exams -> [tok : Tokens \cup {0}, at : Time \cup {Never}]]
  BY <1>1, <1>3, <1>4, <1>5 DEF StoreInv, StoreTypeOK
<1>8. env' \in [Events -> Nat]
  BY <1>5, OccurFacts, EventNames DEF StoreInv, StoreTypeOK
<1>9. Handled(t) /\ pc'[t] # "write" /\ req'[t].key \in {q.key, NoKey}
  <2>1. CASE Done(t)
    BY <2>1, DoneHandled
  <2>2. CASE q.op = "edit-pdf" /\ Goto(t, "upload")
    BY <1>1, <2>2, GotoHandled DEF Placed, Places
  <2> QED  BY <1>5, <2>1, <2>2
<1>10. pc[t] = "write" /\ mu' = NoThread /\ UNCHANGED <<objects, idem, nextId, lastToken, clock, served, made>>
  BY DEF UpdateWrite
<1> QED  BY <1>5, <1>6, <1>7, <1>8, <1>9, <1>10 DEF StoreInv, StoreTypeOK, Handled, new

LEMMA RotateStep ==
  ASSUME StoreInv, NEW t \in Threads, Rotate(t)
  PROVE  /\ StoreTypeOK' /\ Handled(t) /\ pc'[t] # "write"
         /\ row' \in {row, [row EXCEPT ![req[t].exam] = Rotated(req[t], row[req[t].exam])]}
         /\ row' # row => row[req[t].exam] \in ExamRow
         /\ req[t].tok \in Tokens /\ req[t].now \in Time /\ req'[t].key \in {req[t].key, NoKey}
<1> USE DEF tables, threads, bounds, past
<1> DEFINE q == req[t]
           x == q.exam
<1>1. /\ x \in Exams /\ q \in Request /\ q.op = "sync" /\ Carried(q)
      /\ q.tok \in Tokens /\ q.now \in Time
  BY DEF Rotate, StoreInv, StoreTypeOK, Carries, Placed, Carried
<1>2. /\ row' \in {row, [row EXCEPT ![x] = Rotated(q, row[x])]}
      /\ row' # row => row[x] # NoExam
      /\ UNCHANGED env \/ Occur("stmt_failure")
      /\ \/ Done(t) \/ Goto(t, "update")
         \/ /\ req' = [req EXCEPT ![t].op = "rotate"]
            /\ pc'  = [pc EXCEPT ![t] = "update"] /\ UNCHANGED seen
  BY DEF Rotate
<1>3. row' # row => row[x] \in ExamRow /\ Rotated(q, row[x]) \in ExamRow
  BY <1>1, <1>2, RotatedFacts DEF StoreInv, StoreTypeOK
<1>4. row' \in [Exams -> ExamRow \cup {NoExam}]
  BY <1>1, <1>2, <1>3 DEF StoreInv, StoreTypeOK
<1>5. env' \in [Events -> Nat]
  BY <1>2, OccurFacts, EventNames DEF StoreInv, StoreTypeOK
<1>6. Handled(t) /\ pc'[t] # "write" /\ req'[t].key \in {q.key, NoKey}
  <2>1. CASE Done(t)
    BY <2>1, DoneHandled
  <2>2. CASE Goto(t, "update")
    BY <1>1, <2>2, GotoHandled DEF Placed, Places
  <2>3. CASE /\ req' = [req EXCEPT ![t].op = "rotate"]
             /\ pc'  = [pc EXCEPT ![t] = "update"] /\ UNCHANGED seen
    <3>1. /\ req'[t] = [q EXCEPT !.op = "rotate"]
          /\ req' \in [Threads -> Request] /\ req'[t].key = q.key
          /\ Carried(req'[t]) /\ req'[t].exam = x
      BY <1>1, <2>3 DEF StoreInv, StoreTypeOK, Request, Ops, Carried
    <3> QED  BY <1>1, <2>3, <3>1
             DEF Handled, Elsewhere, Placed, Places, StoreInv, StoreTypeOK
  <2> QED  BY <1>2, <2>1, <2>2, <2>3
<1>7. UNCHANGED <<objects, idem, nextId, lastToken, mu, clock, served, past>>
  BY DEF Rotate
<1> QED  BY <1>1, <1>2, <1>3, <1>4, <1>5, <1>6, <1>7 DEF StoreInv, StoreTypeOK, Handled

\* What the steps of create_exam that reject do to the handler.
LEMMA RejectedHandled ==
  ASSUME StoreInv, NEW t \in Threads, Rejected(t)
  PROVE  /\ Handled(t) /\ pc'[t] \in {"idle", "release"}
         /\ req'[t].key \in {req[t].key, NoKey}
<1>1. Placed("release", req[t], seen[t])
  BY DEF Placed
<1> QED  BY <1>1, DoneHandled, GotoHandled DEF Rejected, Places

LEMMA ClaimStep ==
  ASSUME StoreInv, NEW t \in Threads, Claim(t)
  PROVE  /\ StoreTypeOK' /\ Handled(t) /\ pc'[t] \notin {"write", "finalize"}
         /\ req'[t].key \in {req[t].key, NoKey}
<1> USE DEF tables, threads, bounds, past
<1> DEFINE q == req[t]
<1>1. /\ q \in Request /\ Carried(q) /\ q.op \in {"create", "edit-token"}
      /\ q.op = "edit-token" => q.exam \in Exams
  BY DEF Claim, StoreInv, StoreTypeOK, Carries, Placed
<1>2. env' \in [Events -> Nat]
  BY OccurFacts, EventNames DEF Claim, StoreInv, StoreTypeOK
<1>3. UNCHANGED <<row, objects, idem, lastToken, mu, clock, served, past>>
  BY DEF Claim
<1>4. CASE (Rejected(t) \/ Done(t)) /\ UNCHANGED nextId
  <2>1. Handled(t) /\ pc'[t] \in {"idle", "release"} /\ req'[t].key \in {q.key, NoKey}
    BY <1>4, DoneHandled, RejectedHandled
  <2> QED  BY <1>2, <1>3, <1>4, <2>1 DEF StoreInv, StoreTypeOK, Handled
<1>5. CASE q.op = "edit-token" /\ Goto(t, "update") /\ UNCHANGED nextId
  <2>1. Handled(t) /\ pc'[t] = "update" /\ req'[t].key = q.key
    BY <1>1, <1>5, GotoHandled DEF Placed, Places
  <2> QED  BY <1>2, <1>3, <1>5, <2>1 DEF StoreInv, StoreTypeOK, Handled
<1>6. CASE /\ q.op = "create"
           /\ \E x \in Exams :
                /\ req' = [req EXCEPT ![t].exam = x]
                /\ Numbers(x) \/ UNCHANGED nextId
           /\ pc' = [pc EXCEPT ![t] = IF q.file THEN "upload" ELSE "add"]
           /\ UNCHANGED seen
  <2>1. PICK x \in Exams : /\ req' = [req EXCEPT ![t].exam = x]
                           /\ Numbers(x) \/ UNCHANGED nextId
    BY <1>6
  <2>2. /\ req'[t] = [q EXCEPT !.exam = x] /\ req' \in [Threads -> Request]
        /\ Carried(req'[t]) /\ req'[t].exam = x /\ req'[t].key = q.key
        /\ req'[t].op = "create"
    BY <1>1, <1>6, <2>1 DEF StoreInv, StoreTypeOK, Request, Carried
  <2>3. Handled(t) /\ pc'[t] \in {"upload", "add"}
    BY <1>6, <2>1, <2>2 DEF Handled, Elsewhere, Placed, Places, StoreInv, StoreTypeOK
  <2>4. nextId' \in 1..(MaxExam + 1) \cup {NoSequence}
    BY <2>1, StoreAssumption DEF Exams, Numbers, StoreInv, StoreTypeOK
  <2> QED  BY <1>2, <1>3, <2>2, <2>3, <2>4 DEF StoreInv, StoreTypeOK, Handled
<1> QED  BY <1>4, <1>5, <1>6 DEF Claim

LEMMA UploadStep ==
  ASSUME StoreInv, NEW t \in Threads, Upload(t)
  PROVE  /\ StoreTypeOK' /\ Handled(t) /\ pc'[t] \notin {"write", "finalize"}
         /\ req'[t].key \in {req[t].key, NoKey}
<1> USE DEF tables, threads, bounds, past
<1> DEFINE q == req[t]
<1>1. /\ q \in Request /\ Carried(q) /\ q.exam \in Exams /\ q.pdf \in Pdfs
      /\ q.op = "create" \/ (q.op = "edit-pdf" /\ seen[t] \in ExamRow)
  BY DEF Upload, StoreInv, StoreTypeOK, Carries, Placed, Carried
<1>2. env' \in [Events -> Nat]
  BY OccurFacts, EventNames DEF Upload, StoreInv, StoreTypeOK
<1>3. /\ UNCHANGED <<row, idem, nextId, lastToken, mu, clock, served, past>>
      /\ objects' \in {objects, objects \cup {<<q.exam, q.pdf>>}}
      /\ \/ q.op = "create" /\ Goto(t, "add")
         \/ Done(t) \/ Rejected(t)
         \/ q.op # "create" /\ RestorePdf(t)
  BY DEF Upload
<1>4. Handled(t) /\ pc'[t] \notin {"write", "finalize"} /\ req'[t].key \in {q.key, NoKey}
  <2>1. CASE q.op = "create" /\ Goto(t, "add")
    BY <1>1, <2>1, GotoHandled DEF Placed, Places
  <2>2. CASE Done(t) \/ Rejected(t)
    BY <2>2, DoneHandled, RejectedHandled
  <2>3. CASE q.op # "create" /\ RestorePdf(t)
    <3>1. seen[t] \in ExamRow /\ seen[t].pdf \in Pdfs
      BY <1>1, <2>3 DEF ExamRow
    <3> DEFINE new == [q EXCEPT !.op = "restore-pdf", !.pdf = seen[t].pdf]
    <3>2. /\ new \in Request /\ Carried(new) /\ new.key = q.key /\ new.exam = q.exam
      BY <1>1, <3>1 DEF Request, Ops, Carried
    <3>3. req' = [req EXCEPT ![t] = new] /\ pc' = [pc EXCEPT ![t] = "update"]
          /\ UNCHANGED seen
      BY <2>3 DEF RestorePdf
    <3> HIDE DEF new
    <3>4. req'[t] = new /\ req' \in [Threads -> Request] /\ Elsewhere(t)
          /\ pc'[t] = "update" /\ pc' \in [Threads -> Places]
      BY <3>2, <3>3 DEF Elsewhere, Places, StoreInv, StoreTypeOK
    <3> QED  BY <1>1, <3>2, <3>3, <3>4 DEF Handled, Placed, StoreInv, StoreTypeOK
  <2> QED  BY <1>3, <2>1, <2>2, <2>3
<1>5. objects' \subseteq (Exams \cup {Legacy}) \X Pdfs
  BY <1>1, <1>3 DEF StoreInv, StoreTypeOK
<1> QED  BY <1>2, <1>3, <1>4, <1>5 DEF StoreInv, StoreTypeOK, Handled

\* The exam of request q of a creation is inserted.
Inserted(q) ==
  /\ row[q.exam] = NoExam
  /\ row' = [row EXCEPT ![q.exam] = NewRow(q)]
  /\ made' = IF q.key = NoKey THEN made
             ELSE [made EXCEPT ![q.key] = @ + 1]

LEMMA AddStep ==
  ASSUME StoreInv, NEW t \in Threads, Add(t)
  PROVE  /\ StoreTypeOK' /\ Handled(t) /\ pc'[t] # "write"
         /\ UNCHANGED <<mu, idem>> /\ StoreFree /\ pc[t] = "add"
         /\ req'[t].key \in {req[t].key, NoKey} /\ req[t].exam \in Exams
         /\ \/ UNCHANGED <<row, made>> /\ pc'[t] # "finalize"
            \/ /\ Inserted(req[t])
               /\ \/ pc'[t] = "finalize" \/ env'["reply_lost"] > 0
                  \/ req'[t].key = NoKey
<1> USE DEF tables, threads, bounds, past
<1> DEFINE q == req[t]
<1>1. /\ q \in Request /\ Carried(q) /\ q.exam \in Exams /\ q.pdf \in Pdfs
      /\ q.tok \in Tokens /\ NewRow(q) \in ExamRow
  <2>1. q.file \in BOOLEAN
    BY DEF StoreInv, StoreTypeOK, Request
  <2> QED  BY <2>1, NewRowType DEF Add, StoreInv, StoreTypeOK, Carries, Placed, Carried
<1>2. env' \in [Events -> Nat] /\ (Occur("reply_lost") => env'["reply_lost"] > 0)
  BY OccurFacts, EventNames DEF Add, StoreInv, StoreTypeOK
<1>3. /\ UNCHANGED <<idem, nextId, lastToken, mu, clock, served, edited>>
      /\ objects' \in {objects, objects \ {<<q.exam, q.pdf>>}}
      /\ \/ Inserted(q) /\ (Done(t) \/ Goto(t, "finalize"))
         \/ UNCHANGED <<row, made>> /\ Rejected(t)
         \/ Inserted(q) /\ Occur("reply_lost") /\ Rejected(t)
      /\ StoreFree /\ pc[t] = "add"
  BY DEF Add, Inserted
<1>4. /\ Handled(t) /\ req'[t].key \in {q.key, NoKey}
      /\ Done(t) => pc'[t] = "idle" /\ req'[t].key = NoKey
      /\ Goto(t, "finalize") => pc'[t] = "finalize"
      /\ Rejected(t) => pc'[t] \in {"idle", "release"}
      /\ pc'[t] # "write"
  <2>1. Done(t) => Handled(t) /\ pc'[t] = "idle" /\ req'[t].key = NoKey
    BY DoneHandled
  <2>2. Goto(t, "finalize") => Handled(t) /\ pc'[t] = "finalize" /\ req'[t] = q
    BY <1>1, GotoHandled DEF Placed, Places
  <2>3. Rejected(t) => /\ Handled(t) /\ pc'[t] \in {"idle", "release"}
                       /\ req'[t].key \in {q.key, NoKey}
    BY RejectedHandled
  <2> QED  BY <1>3, <2>1, <2>2, <2>3
<1>5. row' \in [Exams -> ExamRow \cup {NoExam}] /\ made' \in [Keys -> Nat]
  <2>1. CASE UNCHANGED <<row, made>>
    BY <2>1 DEF StoreInv, StoreTypeOK
  <2>2. CASE Inserted(q)
    <3>1. row' \in [Exams -> ExamRow \cup {NoExam}]
      BY <1>1, <2>2 DEF Inserted, StoreInv, StoreTypeOK
    <3>2. made[q.key] + 1 \in Nat \/ q.key = NoKey
      BY <1>1 DEF StoreInv, StoreTypeOK, Request
    <3>3. made' \in [Keys -> Nat]
      BY <2>2, <3>2 DEF Inserted, StoreInv, StoreTypeOK
    <3> QED  BY <3>1, <3>3
  <2> QED  BY <1>3, <2>1, <2>2
<1>6. objects' \subseteq (Exams \cup {Legacy}) \X Pdfs
  BY <1>3 DEF StoreInv, StoreTypeOK
<1>7. StoreTypeOK'
  BY <1>2, <1>3, <1>4, <1>5, <1>6 DEF StoreInv, StoreTypeOK, Handled
<1>8. \/ UNCHANGED <<row, made>> /\ pc'[t] # "finalize"
      \/ /\ Inserted(q)
         /\ pc'[t] = "finalize" \/ req'[t].key = NoKey \/ env'["reply_lost"] > 0
  BY <1>2, <1>3, <1>4
<1> QED  BY <1>1, <1>3, <1>4, <1>7, <1>8

LEMMA FinishStep ==
  ASSUME StoreInv, NEW t \in Threads, Finish(t)
  PROVE  /\ StoreTypeOK' /\ Handled(t) /\ pc'[t] = "idle" /\ req'[t].key = NoKey
         /\ UNCHANGED <<row, mu, made>>
<1> USE DEF tables, threads, bounds, past
<1>1. req[t] \in Request /\ (pc[t] = "finalize" => req[t].exam \in Exams)
  BY DEF StoreInv, StoreTypeOK, Carries, Placed
<1>2. idem' \in [Keys -> [state : {"free", "pending", "done"}, exam : Exams \cup {0}]]
  <2> DEFINE k == req[t].key
             S == [state : {"free", "pending", "done"}, exam : Exams \cup {0}]
  <2>1. idem \in [Keys -> S]
    BY DEF StoreInv, StoreTypeOK
  <2>2. idem' = idem \/ \E v \in S : idem' = [idem EXCEPT ![k] = v]
    <3>1. Unused \in S
      BY DEF Unused
    <3>2. pc[t] = "finalize" => [state |-> "done", exam |-> req[t].exam] \in S
      BY <1>1
    <3> HIDE DEF S
    <3> QED  BY <3>1, <3>2 DEF Finish
  <2> HIDE DEF S
  <2>3. idem' \in [Keys -> S]
    BY <2>1, <2>2
  <2> QED  BY <2>3 DEF S
<1>3. env' \in [Events -> Nat]
  BY OccurFacts, EventNames DEF Finish, StoreInv, StoreTypeOK
<1> QED  BY <1>2, <1>3, DoneHandled DEF Finish, StoreInv, StoreTypeOK, Handled

LEMMA RemoveStep ==
  ASSUME StoreInv, NEW t \in Threads, Remove(t)
  PROVE  /\ StoreTypeOK' /\ Handled(t) /\ pc'[t] \in {"idle", "purge"} /\ StoreFree
         /\ row' \in {row, [row EXCEPT ![req[t].exam] = NoExam]}
         /\ req'[t].key \in {req[t].key, NoKey} /\ UNCHANGED <<mu, idem, made>>
<1> USE DEF tables, threads, bounds, past
<1>1. req[t].exam \in Exams
  BY DEF Remove, StoreInv, StoreTypeOK, Carries, Placed
<1>2. row' \in {row, [row EXCEPT ![req[t].exam] = NoExam]}
  BY DEF Remove
<1>3. row' \in [Exams -> ExamRow \cup {NoExam}]
  BY <1>2 DEF StoreInv, StoreTypeOK
<1>4. edited' \in [Exams -> [tok : Tokens \cup {0}, at : Time \cup {Never}]]
  BY DEF Remove, NoEdit, StoreInv, StoreTypeOK
<1>5. env' \in [Events -> Nat]
  BY OccurFacts, EventNames DEF Remove, StoreInv, StoreTypeOK
<1>6. Placed("purge", req[t], seen[t])
  BY <1>1 DEF Placed
<1>7. Handled(t) /\ pc'[t] \in {"idle", "purge"} /\ req'[t].key \in {req[t].key, NoKey}
  BY <1>6, DoneHandled, GotoHandled DEF Remove, Places
<1> QED  BY <1>2, <1>3, <1>4, <1>5, <1>7 DEF Remove, StoreInv, StoreTypeOK, Handled

LEMMA PurgeStep ==
  ASSUME StoreInv, NEW t \in Threads, Purge(t)
  PROVE  /\ StoreTypeOK' /\ Handled(t) /\ pc'[t] = "idle" /\ req'[t].key = NoKey
         /\ UNCHANGED <<row, mu, idem, made>>
<1> USE DEF tables, threads, bounds, past
<1>1. env' \in [Events -> Nat]
  BY OccurFacts, EventNames DEF Purge, StoreInv, StoreTypeOK
<1>2. objects' \subseteq (Exams \cup {Legacy}) \X Pdfs
  BY DEF Purge, StoreInv, StoreTypeOK
<1> QED  BY <1>1, <1>2, DoneHandled DEF Purge, StoreInv, StoreTypeOK, Handled

LEMMA CrashStep ==
  ASSUME StoreInv, CrashRestart
  PROVE  StoreInv'
<1> USE DEF tables, threads, bounds, past
<1>1. env' \in [Events -> Nat]
  BY OccurFacts, EventNames DEF CrashRestart, StoreInv, StoreTypeOK
<1>2. StoreTypeOK'
  BY <1>1, NoRequestType DEF CrashRestart, StoreInv, StoreTypeOK, Places
<1>3. Carries'
  BY NoRequestType DEF CrashRestart, Carries, Carried, Placed
<1> QED  BY <1>2, <1>3 DEF StoreInv

LEMMA TickStep ==
  ASSUME StoreInv, Tick
  PROVE  StoreInv'
<1> USE DEF tables, threads, bounds, past
<1>1. clock' \in Time
  BY StoreAssumption DEF Tick, Time, StoreInv, StoreTypeOK
<1> QED  BY <1>1 DEF Tick, StoreInv, StoreTypeOK, Carries

LEMMA ThreadStepInv ==
  ASSUME StoreInv, NEW t \in Threads, ThreadStep(t)
  PROVE  StoreInv' /\ Handled(t)
<1>1. StoreTypeOK' /\ Handled(t)
  BY AskStep, AskCreateStep, SetAutoStep, UpdateReadStep, UpdateWriteStep, RotateStep,
     ClaimStep, UploadStep, AddStep, FinishStep, RemoveStep, PurgeStep DEF ThreadStep
<1> QED  BY <1>1, HandledCarries DEF StoreInv

LEMMA StoreInvInit == StoreInit => StoreInv
<1> SUFFICES ASSUME StoreInit  PROVE StoreInv
  OBVIOUS
<1> USE StoreAssumption
<1>1. PICK p \in Pdfs, s \in Starts :
        /\ row = [x \in Exams |->
                    IF x = 1 THEN [token |-> 1, active |-> 1, dynamic |-> s.dynamic,
                                   reset |-> 0, started |-> 0, live |-> TRUE,
                                   tomb |-> FALSE, end |-> Never, auto |-> FALSE,
                                   pdf |-> p, file |-> s.file]
                    ELSE NoExam]
        /\ objects = {<<IF s.file THEN 1 ELSE Legacy, p>>}
        /\ nextId = s.nextId /\ served = s.served
  BY DEF StoreInit
<1>2. 1 \in Exams /\ 1 \in Tokens /\ 0 \in Time
  BY DEF Exams, Tokens, Time
<1>3. row \in [Exams -> ExamRow \cup {NoExam}]
      /\ objects \subseteq (Exams \cup {Legacy}) \X Pdfs
  <2>1. s.dynamic \in BOOLEAN /\ s.file \in BOOLEAN
    BY StartsAssumption
  <2> QED  BY <1>1, <1>2, <2>1 DEF ExamRow
<1>4. nextId \in 1..(MaxExam + 1) \cup {NoSequence} /\ lastToken \in Tokens /\ clock \in Time
      /\ served \in 0..MaxRequests
  <2>1. nextId \in {2, NoSequence} /\ served \in 0..MaxRequests
    BY <1>1, StartsAssumption
  <2> QED  BY <1>2, <2>1 DEF StoreInit, Exams
<1>5. /\ idem \in [Keys -> [state : {"free", "pending", "done"}, exam : Exams \cup {0}]]
      /\ made \in [Keys -> Nat]
      /\ edited \in [Exams -> [tok : Tokens \cup {0}, at : Time \cup {Never}]]
      /\ env \in [Events -> Nat]
  BY DEF StoreInit, Unused, NoEdit
<1>6. /\ pc \in [Threads -> Places] /\ req \in [Threads -> Request]
      /\ seen \in [Threads -> ExamRow \cup {NoExam}] /\ mu \in Threads \cup {NoThread}
      /\ Carries
  BY NoRequestType DEF StoreInit, Places, Carries, Carried, Placed
<1> QED  BY <1>3, <1>4, <1>5, <1>6 DEF StoreInv, StoreTypeOK

\* The types are right, and every request carries what its stage needs.
THEOREM StoreInvariant == StoreSpec => []StoreInv
<1>1. StoreInv /\ [StoreNext]_storeVars => StoreInv'
  <2> SUFFICES ASSUME StoreInv, [StoreNext]_storeVars  PROVE StoreInv'
    OBVIOUS
  <2>1. CASE UNCHANGED storeVars
    BY <2>1 DEF storeVars, tables, threads, bounds, past, StoreInv, StoreTypeOK, Carries
  <2>2. CASE StoreNext
    BY <2>2, ThreadStepInv, CrashStep, TickStep DEF StoreNext
  <2> QED  BY <2>1, <2>2
<1> QED  BY <1>1, StoreInvInit, PTL DEF StoreSpec

\* Types, for any number of threads and exams.
THEOREM StoreTypeCorrect == StoreSpec => []StoreTypeOK
<1>1. StoreInv => StoreTypeOK
  BY DEF StoreInv
<1> QED  BY <1>1, StoreInvariant, PTL

-----------------------------------------------------------------------------
(* What the mutex of the store gives. *)

\* An exam stays as update() owns it, in a step that is not update()'s.
OwnedKept == \A x \in Exams :
  row[x] # NoExam => row'[x] # NoExam /\ Owned(row'[x]) = Owned(row[x])

LEMMA SerialFrame ==
  ASSUME StoreInv, SerialUpdates, NEW t \in Threads, Elsewhere(t),
         pc'[t] # "write", mu' = mu, OwnedKept
  PROVE  SerialUpdates'
<1>1. SUFFICES ASSUME NEW u \in Threads, pc'[u] = "write"
               PROVE  /\ mu' = u /\ row'[req'[u].exam] # NoExam
                      /\ Owned(row'[req'[u].exam]) = Owned(seen'[u])
  BY DEF SerialUpdates
<1>2. u # t /\ pc[u] = "write" /\ req'[u] = req[u] /\ seen'[u] = seen[u]
  BY <1>1 DEF Elsewhere
<1>3. req[u].exam \in Exams
  BY <1>2 DEF StoreInv, Carries, Placed
<1> QED  BY <1>2, <1>3 DEF SerialUpdates, OwnedKept

LEMMA NobodyWrites ==
  ASSUME SerialUpdates, StoreFree
  PROVE  \A u \in Threads : pc[u] # "write"
  BY StoreAssumption DEF SerialUpdates, StoreFree

\* NoExam is not an exam: a row that is rewritten is still there.
LEMMA RewrittenKept ==
  ASSUME StoreInv, NEW x \in Exams, NEW e \in ExamRow, row' = [row EXCEPT ![x] = e],
         row[x] # NoExam => Owned(e) = Owned(row[x])
  PROVE  OwnedKept
  BY NoExamAssumption DEF OwnedKept, StoreInv, StoreTypeOK

LEMMA SerialStep ==
  ASSUME StoreInv, SerialUpdates, NEW t \in Threads, ThreadStep(t)
  PROVE  SerialUpdates'
<1> USE DEF tables, threads, bounds, past
<1>1. UNCHANGED row => OwnedKept
  BY DEF OwnedKept
<1>2. CASE \/ AskTokenMode(t) \/ AskLifecycle(t) \/ AskDelegate(t) \/ AskSchedule(t)
           \/ AskRegenerate(t) \/ AskEditToken(t) \/ AskEditPdf(t) \/ AskExpire(t)
           \/ AskDelete(t) \/ Join(t)
  BY <1>1, <1>2, AskStep, SerialFrame DEF Handled
<1>3. CASE AskCreate(t)
  BY <1>1, <1>3, AskCreateStep, SerialFrame DEF Handled
<1>4. CASE SetAuto(t)
  <2>1. PICK x \in Exams : AutoOnly(x)
    BY <1>4, SetAutoStep
  <2>2. OwnedKept
    BY <2>1, AutoFacts, RewrittenKept DEF AutoOnly
  <2>3. Elsewhere(t) /\ pc'[t] # "write" /\ mu' = mu
    BY <1>4, SetAutoStep DEF Handled, SetAuto
  <2> QED  BY <2>2, <2>3, SerialFrame
<1>5. CASE UpdateRead(t)
  <2>1. CASE UNCHANGED mu /\ pc'[t] # "write"
    BY <1>1, <1>5, <2>1, UpdateReadStep, SerialFrame DEF Handled
  <2>2. CASE /\ row[req[t].exam] # NoExam /\ mu' = t
             /\ seen'[t] = row[req[t].exam] /\ req'[t].exam = req[t].exam
    <3>1. UNCHANGED row /\ Elsewhere(t) /\ StoreFree
      BY <1>5, UpdateReadStep DEF Handled
    <3>2. \A u \in Threads : pc'[u] = "write" => u = t
      BY <3>1, NobodyWrites DEF Elsewhere
    <3> QED  BY <2>2, <3>1, <3>2 DEF SerialUpdates
  <2> QED  BY <1>5, <2>1, <2>2, UpdateReadStep
<1>6. CASE UpdateWrite(t)
  <2>1. mu = t /\ pc'[t] # "write" /\ Elsewhere(t)
    BY <1>6, UpdateWriteStep DEF SerialUpdates, Handled
  <2>2. \A u \in Threads : pc'[u] # "write"
    BY <2>1 DEF Elsewhere, SerialUpdates
  <2> QED  BY <2>2 DEF SerialUpdates
<1>7. CASE Rotate(t)
  <2> DEFINE x == req[t].exam
  <2>1. x \in Exams
    BY <1>7 DEF Rotate, StoreInv, Carries, Placed
  <2>2. OwnedKept
    <3>1. CASE row' = row
      BY <1>1, <3>1
    <3>2. CASE row' # row
      <4>1. /\ row[x] \in ExamRow /\ req[t].tok \in Tokens /\ req[t].now \in Time
            /\ row' = [row EXCEPT ![x] = Rotated(req[t], row[x])]
        BY <1>7, <3>2, RotateStep
      <4>2. Rotated(req[t], row[x]) \in ExamRow
            /\ Owned(Rotated(req[t], row[x])) = Owned(row[x])
        BY <4>1, RotatedFacts
      <4> QED  BY <2>1, <4>1, <4>2, RewrittenKept
    <3> QED  BY <3>1, <3>2
  <2> QED  BY <1>7, <2>2, RotateStep, SerialFrame DEF Handled, Rotate
<1>8. CASE Claim(t)
  BY <1>1, <1>8, ClaimStep, SerialFrame DEF Handled, Claim
<1>9. CASE Upload(t)
  BY <1>1, <1>9, UploadStep, SerialFrame DEF Handled, Upload
<1>10. CASE Add(t)
  <2>1. OwnedKept
    BY <1>1, <1>10, AddStep DEF OwnedKept, Inserted, StoreInv, StoreTypeOK
  <2> QED  BY <1>10, <2>1, AddStep, SerialFrame DEF Handled
<1>11. CASE Finish(t)
  BY <1>1, <1>11, FinishStep, SerialFrame DEF Handled
<1>12. CASE Remove(t)
  <2>1. \A u \in Threads : pc'[u] # "write"
    BY <1>12, RemoveStep, NobodyWrites DEF Handled, Elsewhere
  <2> QED  BY <2>1 DEF SerialUpdates
<1>13. CASE Purge(t)
  BY <1>1, <1>13, PurgeStep, SerialFrame DEF Handled
<1> QED  BY <1>2, <1>3, <1>4, <1>5, <1>6, <1>7, <1>8, <1>9, <1>10, <1>11, <1>12, <1>13
         DEF ThreadStep

(***************************************************************************)
(* SerialUpdates: between the SELECT and the UPDATE of update() nobody     *)
(* changes a column that update() owns, for any number of threads.         *)
(***************************************************************************)
THEOREM SerialUpdatesAlways == StoreSpec => []SerialUpdates
<1>1. StoreInit => SerialUpdates
  BY DEF StoreInit, SerialUpdates
<1>2. StoreInv /\ SerialUpdates /\ [StoreNext]_storeVars => SerialUpdates'
  <2> SUFFICES ASSUME StoreInv, SerialUpdates, [StoreNext]_storeVars  PROVE SerialUpdates'
    OBVIOUS
  <2>1. CASE UNCHANGED storeVars \/ Tick
    BY <2>1 DEF Tick, storeVars, tables, threads, bounds, past, SerialUpdates
  <2>2. CASE CrashRestart
    BY <2>2 DEF CrashRestart, SerialUpdates
  <2> QED  BY <2>1, <2>2, SerialStep DEF StoreNext
<1> QED  BY <1>1, <1>2, StoreInvariant, PTL DEF StoreSpec

-----------------------------------------------------------------------------
(* The start of a running exam. *)

\* What StartedOnce says of one step.
StartKept ==
  \A x \in Exams :
    row[x] # NoExam /\ row'[x] # NoExam /\ row[x].started # Never
      => row'[x].started \in {row[x].started, Never}

LEMMA StartKeptStep ==
  ASSUME StoreInv, SerialUpdates, NEW t \in Threads, ThreadStep(t)
  PROVE  StartKept
<1> USE DEF tables, threads, bounds, past
<1>1. UNCHANGED row => StartKept
  BY DEF StartKept
<1>2. CASE SetAuto(t)
  <2>1. PICK x \in Exams : AutoOnly(x)
    BY <1>2, SetAutoStep
  <2> QED  BY <2>1, AutoFacts DEF AutoOnly, StartKept, StoreInv, StoreTypeOK
<1>3. CASE UpdateWrite(t)
  <2> DEFINE q == req[t]
             x == q.exam
  <2>1. /\ x \in Exams /\ q \in Request /\ Carried(q) /\ seen[t] \in ExamRow
        /\ q.op \in ReadsClock => q.now \in Time
    BY <1>3 DEF UpdateWrite, StoreInv, StoreTypeOK, Carries, Placed
  <2>2. row[x] # NoExam /\ row[x].started = seen[t].started
    BY <1>3 DEF UpdateWrite, SerialUpdates, Owned
  <2>3. row[x].started # Never
          => Mutated(q, seen[t]).started \in {row[x].started, Never}
    BY <2>1, <2>2, MutatedFacts
  <2>4. row' \in {row, [row EXCEPT ![x] = Mutated(q, seen[t])]}
    BY <1>3, UpdateWriteStep
  <2> QED  BY <2>1, <2>3, <2>4 DEF StartKept, StoreInv, StoreTypeOK
<1>4. CASE Rotate(t)
  <2> DEFINE x == req[t].exam
  <2>1. CASE row' # row
    <3>1. /\ row[x] \in ExamRow /\ req[t].tok \in Tokens /\ req[t].now \in Time
          /\ row' = [row EXCEPT ![x] = Rotated(req[t], row[x])]
      BY <1>4, <2>1, RotateStep
    <3>2. Rotated(req[t], row[x]).started = row[x].started
      BY <3>1, RotatedFacts
    <3> QED  BY <3>1, <3>2 DEF StartKept, StoreInv, StoreTypeOK
  <2> QED  BY <1>1, <2>1
<1>5. CASE Add(t)
  BY <1>1, <1>5, AddStep DEF Inserted, StartKept, StoreInv, StoreTypeOK
<1>6. CASE Remove(t)
  BY <1>1, <1>6, RemoveStep DEF StartKept, StoreInv, StoreTypeOK
<1>7. CASE \/ AskTokenMode(t) \/ AskLifecycle(t) \/ AskDelegate(t) \/ AskSchedule(t)
           \/ AskRegenerate(t) \/ AskEditToken(t) \/ AskEditPdf(t) \/ AskExpire(t)
           \/ AskDelete(t) \/ Join(t) \/ AskCreate(t)
  BY <1>1, <1>7, AskStep, AskCreateStep
<1>8. CASE UpdateRead(t) \/ Finish(t) \/ Purge(t)
  BY <1>1, <1>8, UpdateReadStep, FinishStep, PurgeStep
<1>9. CASE Claim(t) \/ Upload(t)
  BY <1>1, <1>9 DEF Claim, Upload
<1> QED  BY <1>2, <1>3, <1>4, <1>5, <1>6, <1>7, <1>8, <1>9 DEF ThreadStep

(***************************************************************************)
(* StartedOnce: no step moves the start of an exam that is running, for    *)
(* any number of teachers who start, stop and edit it at the same time.    *)
(***************************************************************************)
THEOREM StartedOnceAlways == StoreSpec => StartedOnce
<1>1. StoreInv /\ SerialUpdates /\ [StoreNext]_storeVars => [StartKept]_storeVars
  <2> SUFFICES ASSUME StoreInv, SerialUpdates, StoreNext  PROVE StartKept
    OBVIOUS
  <2>1. CASE CrashRestart \/ Tick
    BY <2>1 DEF CrashRestart, Tick, StartKept, tables
  <2> QED  BY <2>1, StartKeptStep DEF StoreNext
<1>2. StoreSpec => [][StartKept]_storeVars
  BY <1>1, StoreInvariant, SerialUpdatesAlways, PTL DEF StoreSpec
<1> QED  BY <1>2 DEF StartedOnce, StartKept

-----------------------------------------------------------------------------
(* The Idempotency-Key. *)

(***************************************************************************)
(* Who works under a key has it reserved and is alone; once an exam is     *)
(* inserted under it, it is never free again and only its finalization is  *)
(* left.                                                                   *)
(***************************************************************************)
KeyHeld(k) ==
  /\ \A t \in Threads : req[t].key = k => idem[k].state = "pending"
  /\ \A t, u \in Threads : req[t].key = k /\ req[u].key = k => t = u
  /\ made[k] > 0 => /\ idem[k].state # "free"
                     /\ \A t \in Threads : req[t].key = k => pc[t] = "finalize"
  /\ made[k] <= 1

KeysHeld == env["reply_lost"] = 0 => \A k \in Keys : KeyHeld(k)

LEMMA KeyFrame ==
  ASSUME NEW k \in Keys, KeyHeld(k), NEW t \in Threads, Elsewhere(t),
         UNCHANGED <<idem, made>>, req'[t].key \in {req[t].key, NoKey},
         pc[t] # "finalize"
  PROVE  KeyHeld(k)'
BY StoreAssumption DEF KeyHeld, Elsewhere

\* No event is forgotten.
LEMMA EventsStay ==
  ASSUME StoreInv, [StoreNext]_storeVars
  PROVE  \A e \in Events : /\ env'[e] \in Nat /\ env[e] \in Nat /\ env[e] <= env'[e]
                           /\ env'[e] = 0 => env[e] = 0
<1> USE DEF tables, threads, bounds, past
<1>1. UNCHANGED env \/ \E k \in Events : Occur(k)
  <2>1. CASE UNCHANGED storeVars
    BY <2>1 DEF storeVars
  <2>2. CASE CrashRestart \/ Tick
    BY <2>2, EventNames DEF CrashRestart, Tick
  <2>3. ASSUME NEW t \in Threads, ThreadStep(t)
        PROVE  UNCHANGED env \/ \E k \in Events : Occur(k)
    <3>1. CASE \/ AskTokenMode(t) \/ AskLifecycle(t) \/ AskDelegate(t) \/ AskSchedule(t)
               \/ AskRegenerate(t) \/ AskEditToken(t) \/ AskEditPdf(t) \/ AskExpire(t)
               \/ AskDelete(t) \/ Join(t)
      BY <3>1, AskStep
    <3>2. CASE AskCreate(t)
      BY <3>2, EventNames DEF AskCreate
    <3>3. CASE SetAuto(t) \/ UpdateRead(t)
      BY <3>3, EventNames DEF SetAuto, UpdateRead
    <3>4. CASE UpdateWrite(t)
      BY <3>4, EventNames DEF UpdateWrite
    <3>5. CASE Rotate(t) \/ Claim(t)
      BY <3>5, EventNames DEF Rotate, Claim
    <3>6. CASE Upload(t) \/ Add(t)
      BY <3>6, EventNames DEF Upload, Add
    <3>7. CASE Finish(t) \/ Remove(t) \/ Purge(t)
      BY <3>7, EventNames DEF Finish, Remove, Purge
    <3> QED  BY <2>3, <3>1, <3>2, <3>3, <3>4, <3>5, <3>6, <3>7 DEF ThreadStep
  <2> QED  BY <2>1, <2>2, <2>3 DEF StoreNext
<1>2. env \in [Events -> Nat]
  BY DEF StoreInv, StoreTypeOK
<1>3. ASSUME NEW k \in Events, Occur(k)
      PROVE  env' \in [Events -> Nat] /\ \A e \in Events : env'[e] >= env[e]
  BY <1>2, <1>3, OccurFacts
<1> QED  BY <1>1, <1>2, <1>3

LEMMA KeyStep ==
  ASSUME StoreInv, NEW k \in Keys, KeyHeld(k), NEW t \in Threads, ThreadStep(t),
         env'["reply_lost"] = 0
  PROVE  KeyHeld(k)'
<1> USE DEF tables, threads, bounds, past
<1>1. CASE \/ AskTokenMode(t) \/ AskLifecycle(t) \/ AskDelegate(t) \/ AskSchedule(t)
           \/ AskRegenerate(t) \/ AskEditToken(t) \/ AskEditPdf(t) \/ AskExpire(t)
           \/ AskDelete(t) \/ Join(t)
  BY <1>1, AskStep, KeyFrame DEF Handled
<1>2. CASE AskCreate(t)
  <2>1. Elsewhere(t) /\ pc[t] = "idle" /\ UNCHANGED made
    BY <1>2, AskCreateStep DEF Handled
  <2>2. ASSUME Occur("reply_lost")  PROVE FALSE
    BY <2>2, OccurFacts, EventNames DEF StoreInv, StoreTypeOK
  <2>3. PICK q \in Request :
          /\ q.key # NoKey => Reservable(q.key)
          /\ req'[t] = q
          /\ idem' = IF q.key = NoKey THEN idem
                     ELSE [idem EXCEPT ![q.key] = [state |-> "pending", exam |-> 0]]
    <3>1. PICK p \in Pdfs, file \in BOOLEAN, tok \in Tokens, key \in Keys \cup {NoKey} :
            /\ key # NoKey => Reservable(key)
            /\ idem' = IF key = NoKey THEN idem
                       ELSE [idem EXCEPT ![key] = [state |-> "pending", exam |-> 0]]
            /\ \E at \in {"claim", "release"} :
                 Begin(t, [NoRequest EXCEPT !.op = "create", !.tok = tok,
                                            !.pdf = p, !.file = file, !.key = key], at)
      BY <1>2, <2>2 DEF AskCreate
    <3> DEFINE q == [NoRequest EXCEPT !.op = "create", !.tok = tok, !.pdf = p, !.file = file, !.key = key]
    <3>2. q \in Request /\ q.key = key
      BY DEF NoRequest, Request, Ops
    <3>3. req' = [req EXCEPT ![t] = q]
      BY <3>1 DEF Begin
    <3> HIDE DEF q
    <3>4. req'[t] = q
      BY <3>3 DEF StoreInv, StoreTypeOK
    <3> QED  BY <3>1, <3>2, <3>4
  <2>4. CASE q.key # k
    <3>1. idem'[k] = idem[k]
      BY <2>3, <2>4
    <3> QED  BY <2>1, <2>3, <2>4, <3>1 DEF KeyHeld, Elsewhere
  <2>5. CASE q.key = k
    <3>1. idem[k].state = "free" /\ idem'[k].state = "pending"
      BY <2>3, <2>5, StoreAssumption DEF Reservable, StoreInv, StoreTypeOK
    <3>2. made[k] = 0 /\ \A u \in Threads : req[u].key # k
      BY <3>1 DEF KeyHeld, StoreInv, StoreTypeOK
    <3>3. \A u \in Threads : req'[u].key = k => u = t
      BY <2>1, <3>2 DEF Elsewhere
    <3> QED  BY <2>1, <3>1, <3>2, <3>3 DEF KeyHeld
  <2> QED  BY <2>4, <2>5
<1>3. CASE SetAuto(t)
  BY <1>3, SetAutoStep DEF KeyHeld
<1>4. CASE UpdateRead(t)
  BY <1>4, UpdateReadStep, KeyFrame DEF Handled
<1>5. CASE UpdateWrite(t)
  BY <1>5, UpdateWriteStep, KeyFrame DEF Handled
<1>6. CASE Rotate(t)
  BY <1>6, RotateStep, KeyFrame DEF Handled, Rotate
<1>7. CASE Claim(t)
  BY <1>7, ClaimStep, KeyFrame DEF Handled, Claim
<1>8. CASE Upload(t)
  BY <1>8, UploadStep, KeyFrame DEF Handled, Upload
<1>9. CASE Add(t)
  <2>1. /\ Elsewhere(t) /\ UNCHANGED idem /\ pc[t] = "add"
        /\ req'[t].key \in {req[t].key, NoKey}
    BY <1>9, AddStep DEF Handled
  <2>2. CASE UNCHANGED made
    BY <2>1, <2>2, KeyFrame
  <2>3. CASE Inserted(req[t]) /\ (pc'[t] = "finalize" \/ req'[t].key = NoKey)
    <3>1. CASE req[t].key # k
      <4>1. made'[k] = made[k]
        BY <2>3, <3>1 DEF Inserted, StoreInv, StoreTypeOK
      <4>2. req'[t].key # k
        BY <2>1, <3>1, StoreAssumption
      <4> QED  BY <2>1, <3>1, <4>1, <4>2 DEF KeyHeld, Elsewhere
    <3>2. CASE req[t].key = k
      <4>1. made[k] = 0 /\ idem[k].state = "pending"
            /\ \A u \in Threads : req[u].key = k => u = t
        BY <2>1, <3>2 DEF KeyHeld, StoreInv, StoreTypeOK
      <4>2. made'[k] = 1
        BY <2>3, <3>2, <4>1, StoreAssumption DEF Inserted, StoreInv, StoreTypeOK
      <4>3. \A u \in Threads : req'[u].key = k => u = t /\ pc'[u] = "finalize"
        BY <2>1, <2>3, <4>1, StoreAssumption DEF Elsewhere
      <4> QED  BY <2>1, <4>1, <4>2, <4>3 DEF KeyHeld
    <3> QED  BY <3>1, <3>2
  <2> QED  BY <1>9, <2>2, <2>3, AddStep
<1>10. CASE Finish(t)
  <2>1. /\ Elsewhere(t) /\ UNCHANGED made /\ req'[t].key = NoKey
    BY <1>10, FinishStep DEF Handled
  <2>2. \A u \in Threads : req'[u].key = k => u # t /\ req[u].key = k /\ pc'[u] = pc[u]
    BY <2>1, StoreAssumption DEF Elsewhere
  <2>3. CASE idem'[k] = idem[k]
    BY <2>1, <2>2, <2>3 DEF KeyHeld
  <2>4. CASE req[t].key = k
    <3>1. \A u \in Threads : req'[u].key # k
      BY <2>2, <2>4 DEF KeyHeld
    <3>2. made[k] > 0 => idem'[k].state # "free"
      <4>1. SUFFICES ASSUME made[k] > 0  PROVE idem'[k].state # "free"
        OBVIOUS
      <4>2. pc[t] = "finalize" /\ idem[k].state # "free" /\ k # NoKey
        BY <2>4, <4>1, StoreAssumption DEF KeyHeld
      <4>3. idem' = idem \/ idem' = [idem EXCEPT ![k] = [state |-> "done", exam |-> req[t].exam]]
        BY <1>10, <2>4, <4>2 DEF Finish
      <4> QED  BY <4>2, <4>3 DEF StoreInv, StoreTypeOK
    <3> QED  BY <2>1, <3>1, <3>2 DEF KeyHeld
  <2>5. CASE req[t].key # k
    <3>1. idem'[k] = idem[k]
      BY <1>10, <2>5 DEF Finish, StoreInv, StoreTypeOK
    <3> QED  BY <2>3, <3>1
  <2> QED  BY <2>4, <2>5
<1>11. CASE Remove(t)
  BY <1>11, RemoveStep, KeyFrame DEF Handled, Remove
<1>12. CASE Purge(t)
  BY <1>12, PurgeStep, KeyFrame DEF Handled, Purge
<1> QED  BY <1>1, <1>2, <1>3, <1>4, <1>5, <1>6, <1>7, <1>8, <1>9, <1>10, <1>11, <1>12
         DEF ThreadStep

(***************************************************************************)
(* OneExamPerKey: one exam per Idempotency-Key, for any number of          *)
(* repetitions in any number of threads, over crashes and failing          *)
(* statements, unless the answer of a statement that took effect is lost.  *)
(***************************************************************************)
THEOREM OneExamPerKeyAlways == StoreSpec => []OneExamPerKey
<1>1. StoreInit => KeysHeld
  BY NoRequestType, StoreAssumption DEF StoreInit, KeysHeld, KeyHeld
<1>2. StoreInv /\ KeysHeld /\ [StoreNext]_storeVars => KeysHeld'
  <2> SUFFICES ASSUME StoreInv, KeysHeld, [StoreNext]_storeVars,
                      env'["reply_lost"] = 0, NEW k \in Keys
               PROVE  KeyHeld(k)'
    BY DEF KeysHeld
  <2>1. KeyHeld(k)
    BY EventsStay, EventNames DEF KeysHeld
  <2>2. CASE UNCHANGED storeVars \/ Tick
    BY <2>1, <2>2 DEF Tick, storeVars, tables, threads, bounds, past, KeyHeld
  <2>3. CASE CrashRestart
    BY <2>1, <2>3, NoRequestType, StoreAssumption
    DEF CrashRestart, tables, past, KeyHeld
  <2> QED  BY <2>1, <2>2, <2>3, KeyStep DEF StoreNext
<1>3. KeysHeld => OneExamPerKey
  BY DEF KeysHeld, KeyHeld, OneExamPerKey
<1> QED  BY <1>1, <1>2, <1>3, StoreInvariant, PTL DEF StoreSpec

-----------------------------------------------------------------------------
(* A key that is reserved. *)

\* Who works under a key creates an exam, and has done so when it finalizes.
Creating(t) == req[t].key # NoKey =>
  /\ req[t].op = "create" /\ pc[t] \in {"claim", "upload", "add", "release", "finalize"}
  /\ pc[t] = "finalize" => made[req[t].key] > 0

\* A reserved key has its exam or somebody who works under it.
Worked(k) == idem[k].state = "pending" =>
  made[k] > 0 \/ \E t \in Threads : req[t].key = k

Undamaged == \A e \in {"crash", "stmt_failure", "reply_lost"} : env[e] = 0

KeysWorked == /\ \A t \in Threads : Creating(t)
              /\ Undamaged => \A k \in Keys : Worked(k)

\* A step of a thread that works under no key.
LEMMA WorkFrame ==
  ASSUME \A u \in Threads : Creating(u), NEW t \in Threads, Elsewhere(t),
         UNCHANGED <<idem, made>>, req[t].key = NoKey, req'[t].key = NoKey
  PROVE  /\ \A u \in Threads : Creating(u)'
         /\ \A k \in Keys : Worked(k) => Worked(k)'
<1>1. \A u \in Threads : Creating(u)'
  BY DEF Creating, Elsewhere
<1>2. ASSUME NEW k \in Keys, Worked(k)  PROVE Worked(k)'
  <2>1. \A u \in Threads : req[u].key = k => req'[u].key = k
    BY StoreAssumption DEF Elsewhere
  <2> QED  BY <1>2, <2>1 DEF Worked
<1> QED  BY <1>1, <1>2

\* A step of a thread that keeps its key.
LEMMA WorkGoesOn ==
  ASSUME \A u \in Threads : Creating(u), NEW t \in Threads, Elsewhere(t), UNCHANGED idem,
         made \in [Keys -> Nat], made' \in [Keys -> Nat], \A k \in Keys : made[k] <= made'[k],
         req[t].key \in Keys, req'[t].key = req[t].key, req'[t].op = "create",
         pc'[t] \in {"claim", "upload", "add", "release", "finalize"},
         pc'[t] = "finalize" => made'[req[t].key] > 0,
         \A u \in Threads : req[u].key \in Keys \cup {NoKey}
  PROVE  /\ \A u \in Threads : Creating(u)'
         /\ \A k \in Keys : Worked(k) => Worked(k)'
<1>0. \A k \in Keys : made[k] > 0 => made'[k] > 0
  OBVIOUS
<1>1. \A u \in Threads : Creating(u)'
  BY <1>0 DEF Creating, Elsewhere
<1>2. ASSUME NEW k \in Keys, Worked(k)  PROVE Worked(k)'
  <2>1. \A u \in Threads : req[u].key = k => req'[u].key = k
    BY DEF Elsewhere
  <2> QED  BY <1>0, <1>2, <2>1 DEF Worked
<1> QED  BY <1>1, <1>2

LEMMA WorkStep ==
  ASSUME StoreInv, \A u \in Threads : Creating(u), NEW t \in Threads, ThreadStep(t)
  PROVE  /\ \A u \in Threads : Creating(u)'
         /\ Undamaged' => \A k \in Keys : Worked(k) => Worked(k)'
<1> USE DEF tables, threads, bounds, past
<1>0. /\ \A u \in Threads : req[u] \in Request /\ req[u].key \in Keys \cup {NoKey}
      /\ made \in [Keys -> Nat]
  BY DEF StoreInv, StoreTypeOK, Request
<1>1. CASE \/ AskTokenMode(t) \/ AskLifecycle(t) \/ AskDelegate(t) \/ AskSchedule(t)
           \/ AskRegenerate(t) \/ AskEditToken(t) \/ AskEditPdf(t) \/ AskExpire(t)
           \/ AskDelete(t) \/ Join(t)
  <2>1. Elsewhere(t) /\ pc[t] = "idle" /\ UNCHANGED <<idem, made>> /\ req'[t].key = NoKey
    BY <1>1, AskStep DEF Handled
  <2> QED  BY <2>1, WorkFrame DEF Creating
<1>2. CASE AskCreate(t)
  <2>1. Elsewhere(t) /\ pc[t] = "idle" /\ UNCHANGED made
    BY <1>2, AskCreateStep DEF Handled
  <2>2. PICK p \in Pdfs, file \in BOOLEAN, tok \in Tokens, k \in Keys \cup {NoKey} :
          /\ idem' = IF k = NoKey THEN idem
                     ELSE [idem EXCEPT ![k] = [state |-> "pending", exam |-> 0]]
          /\ \/ \E at \in {"claim", "release"} :
                  Begin(t, [NoRequest EXCEPT !.op = "create", !.tok = tok,
                                             !.pdf = p, !.file = file, !.key = k], at)
             \/ k # NoKey /\ Occur("reply_lost") /\ UNCHANGED <<pc, req>>
    BY <1>2 DEF AskCreate
  <2>3. CASE Occur("reply_lost") /\ UNCHANGED <<pc, req>>
    <3>1. ~Undamaged'
      BY <2>3, OccurFacts, EventNames DEF Undamaged, StoreInv, StoreTypeOK
    <3>2. \A u \in Threads : Creating(u)'
      BY <2>1, <2>3 DEF Creating
    <3> QED  BY <3>1, <3>2
  <2>4. CASE \E at \in {"claim", "release"} :
               Begin(t, [NoRequest EXCEPT !.op = "create", !.tok = tok, !.pdf = p, !.file = file, !.key = k], at)
    <3> DEFINE q == [NoRequest EXCEPT !.op = "create", !.tok = tok, !.pdf = p, !.file = file, !.key = k]
    <3>1. q.key = k /\ q.op = "create"
      BY DEF NoRequest
    <3>2. PICK at \in {"claim", "release"} :
            pc' = [pc EXCEPT ![t] = at] /\ req' = [req EXCEPT ![t] = q]
      BY <2>4 DEF Begin
    <3> HIDE DEF q
    <3>3. pc'[t] \in {"claim", "release"} /\ req'[t].key = k /\ req'[t].op = "create"
      BY <3>1, <3>2 DEF StoreInv, StoreTypeOK
    <3>4. req[t].key = NoKey
      BY <2>1 DEF Creating
    <3>5. \A u \in Threads : Creating(u)'
      BY <2>1, <3>3 DEF Creating, Elsewhere
    <3>6. ASSUME NEW x \in Keys, Worked(x)  PROVE Worked(x)'
      <4>1. CASE x = k
        BY <3>3, <4>1 DEF Worked
      <4>2. CASE x # k
        <5>1. idem'[x] = idem[x]
          BY <2>2, <4>2 DEF StoreInv, StoreTypeOK
        <5>2. \A u \in Threads : req[u].key = x => req'[u].key = x
          BY <2>1, <3>4, StoreAssumption DEF Elsewhere
        <5> QED  BY <2>1, <3>6, <5>1, <5>2 DEF Worked
      <4> QED  BY <4>1, <4>2
    <3> QED  BY <3>5, <3>6
  <2> QED  BY <2>2, <2>3, <2>4
<1>3. CASE SetAuto(t)
  <2>1. UNCHANGED <<pc, req, idem, made>>
    BY <1>3, SetAutoStep
  <2> QED  BY <2>1 DEF Creating, Worked
<1>4. CASE UpdateRead(t) \/ UpdateWrite(t)
  <2>1. Elsewhere(t) /\ pc[t] \in {"update", "write"} /\ UNCHANGED <<idem, made>>
        /\ req'[t].key \in {req[t].key, NoKey}
    BY <1>4, UpdateReadStep, UpdateWriteStep DEF Handled
  <2>2. req[t].key = NoKey
    BY <2>1 DEF Creating
  <2> QED  BY <2>1, <2>2, WorkFrame
<1>5. CASE Rotate(t) \/ Remove(t) \/ Purge(t)
  <2>1. Elsewhere(t) /\ pc[t] \in {"rotate", "remove", "purge"} /\ UNCHANGED <<idem, made>>
        /\ req'[t].key \in {req[t].key, NoKey}
    BY <1>5, RotateStep, RemoveStep, PurgeStep DEF Handled, Rotate, Remove, Purge
  <2>2. req[t].key = NoKey
    BY <2>1 DEF Creating
  <2> QED  BY <2>1, <2>2, WorkFrame
<1>6. CASE Claim(t) \/ Upload(t)
  <2>1. Elsewhere(t) /\ UNCHANGED <<idem, made>> /\ req'[t].key \in {req[t].key, NoKey}
    BY <1>6, ClaimStep, UploadStep DEF Handled, Claim, Upload
  <2>2. CASE req[t].key = NoKey
    BY <2>1, <2>2, WorkFrame
  <2>3. CASE req[t].key # NoKey
    <3>1. req[t].op = "create" /\ req[t].key \in Keys
      BY <1>0, <2>3 DEF Creating
    <3>2. \/ \E at \in {"release", "add"} : Goto(t, at)
          \/ /\ \E at \in {"upload", "add"} : pc' = [pc EXCEPT ![t] = at]
             /\ \E x \in Nat : req' = [req EXCEPT ![t].exam = x]
      <4>1. CASE Claim(t)
        BY <2>3, <3>1, <4>1 DEF Claim, Rejected, Exams
      <4>2. CASE Upload(t)
        BY <2>3, <3>1, <4>2 DEF Upload, Rejected
      <4> QED  BY <1>6, <4>1, <4>2
    <3>3. pc'[t] \in {"release", "add", "upload"} /\ req'[t].key = req[t].key /\ req'[t].op = "create"
      <4>1. CASE \E at \in {"release", "add"} : Goto(t, at)
        BY <3>1, <4>1 DEF Goto, StoreInv, StoreTypeOK
      <4>2. CASE /\ \E at \in {"upload", "add"} : pc' = [pc EXCEPT ![t] = at]
                 /\ \E x \in Nat : req' = [req EXCEPT ![t].exam = x]
        <5>1. PICK x \in Nat : req' = [req EXCEPT ![t] = [req[t] EXCEPT !.exam = x]]
          BY <4>2
        <5>2. req'[t] = [req[t] EXCEPT !.exam = x]
          BY <5>1 DEF StoreInv, StoreTypeOK
        <5>3. req'[t].key = req[t].key /\ req'[t].op = req[t].op
          BY <1>0, <5>2 DEF Request
        <5> QED  BY <3>1, <4>2, <5>3 DEF StoreInv, StoreTypeOK
      <4> QED  BY <3>2, <4>1, <4>2
    <3> QED  BY <1>0, <2>1, <3>1, <3>3, WorkGoesOn
  <2> QED  BY <2>2, <2>3
<1>7. CASE Add(t)
  <2>1. Elsewhere(t) /\ UNCHANGED idem /\ pc[t] = "add" /\ req'[t].key \in {req[t].key, NoKey}
    BY <1>7, AddStep DEF Handled
  <2>2. CASE req[t].key = NoKey
    <3>1. UNCHANGED made
      BY <1>7, <2>2 DEF Add
    <3> QED  BY <2>1, <2>2, <3>1, WorkFrame
  <2>3. CASE req[t].key # NoKey
    <3>1. PICK k \in Keys : k = req[t].key
      BY <1>0, <2>3
    <3>2. req[t].op = "create"
      BY <2>3 DEF Creating
    <3>3. PICK x \in Exams : x = req[t].exam
      BY <1>7, AddStep
    <3>4. \/ made' = made /\ Goto(t, "release")
          \/ made' = [made EXCEPT ![k] = made[k] + 1] /\ \E at \in {"finalize", "release"} : Goto(t, at)
          \/ made' = [made EXCEPT ![k] = made[k] + 1] /\ Done(t)
      BY <1>7, <2>3, <3>1, <3>3 DEF Add, Rejected
    <3>5. /\ made' \in [Keys -> Nat] /\ \A y \in Keys : made[y] <= made'[y]
          /\ made' = made \/ made'[k] > 0
      BY <1>0, <3>4
    <3>6. ASSUME NEW at \in {"finalize", "release"}, Goto(t, at), at = "finalize" => made'[k] > 0
          PROVE  /\ \A u \in Threads : Creating(u)'
                 /\ \A y \in Keys : Worked(y) => Worked(y)'
      <4>1. pc'[t] = at /\ req'[t] = req[t]
        BY <3>6 DEF Goto, StoreInv, StoreTypeOK
      <4> QED  BY <1>0, <2>1, <3>1, <3>2, <3>5, <3>6, <4>1, WorkGoesOn
    <3>7. CASE made'[k] > 0 /\ Done(t)
      <4>1. pc'[t] = "idle" /\ req'[t].key = NoKey
        BY <3>7, DoneHandled
      <4>2. \A u \in Threads : Creating(u)'
        BY <1>0, <2>1, <3>5, <4>1 DEF Creating, Elsewhere
      <4>3. ASSUME NEW y \in Keys, Worked(y)  PROVE Worked(y)'
        <5>1. CASE y = k
          BY <3>7, <5>1 DEF Worked
        <5>2. CASE y # k
          <6>1. \A u \in Threads : req[u].key = y => req'[u].key = y
            BY <2>1, <3>1, <5>2 DEF Elsewhere
          <6>2. made[y] > 0 => made'[y] > 0
            BY <1>0, <3>5
          <6> QED  BY <2>1, <4>3, <6>1, <6>2 DEF Worked
        <5> QED  BY <5>1, <5>2
      <4> QED  BY <4>2, <4>3
    <3>8. made' = [made EXCEPT ![k] = made[k] + 1] => made'[k] > 0
      BY <1>0
    <3> QED  BY <3>4, <3>6, <3>7, <3>8
  <2> QED  BY <2>2, <2>3
<1>8. CASE Finish(t)
  <2>1. Elsewhere(t) /\ UNCHANGED made /\ pc'[t] = "idle" /\ req'[t].key = NoKey
    BY <1>8, FinishStep DEF Handled
  <2>2. \A u \in Threads : Creating(u)'
    BY <2>1 DEF Creating, Elsewhere
  <2>3. ASSUME Undamaged', NEW k \in Keys, Worked(k)  PROVE Worked(k)'
    <3>1. ~Occur("stmt_failure")
      BY <2>3, OccurFacts, EventNames DEF Undamaged, StoreInv, StoreTypeOK
    <3>2. idem' = IF req[t].key = NoKey THEN idem
                  ELSE IF pc[t] = "release" THEN [idem EXCEPT ![req[t].key] = Unused]
                  ELSE [idem EXCEPT ![req[t].key] = [state |-> "done", exam |-> req[t].exam]]
      BY <1>8, <3>1 DEF Finish
    <3>3. CASE req[t].key = k
      <4>1. idem'[k].state # "pending"
        BY <3>2, <3>3, StoreAssumption DEF StoreInv, StoreTypeOK, Unused
      <4> QED  BY <4>1 DEF Worked
    <3>4. CASE req[t].key # k
      <4>1. idem'[k] = idem[k]
        BY <3>2, <3>4 DEF StoreInv, StoreTypeOK
      <4>2. \A u \in Threads : req[u].key = k => req'[u].key = k
        BY <2>1, <3>4 DEF Elsewhere
      <4> QED  BY <2>1, <2>3, <4>1, <4>2 DEF Worked
    <3> QED  BY <3>3, <3>4
  <2> QED  BY <2>2, <2>3
<1> QED  BY <1>1, <1>2, <1>3, <1>4, <1>5, <1>6, <1>7, <1>8 DEF ThreadStep

(***************************************************************************)
(* NoStuckKey: create_exam leaves no key reserved under which no exam was  *)
(* created and nobody is at work, on whichever of its error paths it       *)
(* returns (release_and_return).                                           *)
(***************************************************************************)
THEOREM NoStuckKeyAlways == StoreSpec => []NoStuckKey
<1>1. StoreInit => KeysWorked
  BY NoRequestType DEF StoreInit, KeysWorked, Creating, Worked, Unused
<1>2. StoreInv /\ KeysWorked /\ [StoreNext]_storeVars => KeysWorked'
  <2> SUFFICES ASSUME StoreInv, KeysWorked, [StoreNext]_storeVars  PROVE KeysWorked'
    OBVIOUS
  <2>1. Undamaged' => Undamaged
    BY EventsStay, EventNames DEF Undamaged
  <2>2. CASE UNCHANGED storeVars \/ Tick
    BY <2>1, <2>2 DEF Tick, storeVars, tables, threads, bounds, past, KeysWorked, Creating, Worked
  <2>3. CASE CrashRestart
    <3>1. ~Undamaged'
      BY <2>3, OccurFacts, EventNames DEF CrashRestart, Undamaged, StoreInv, StoreTypeOK
    <3>2. \A t \in Threads : req'[t].key = NoKey
      BY <2>3, NoRequestType DEF CrashRestart
    <3> QED  BY <3>1, <3>2 DEF KeysWorked, Creating
  <2>4. ASSUME NEW t \in Threads, ThreadStep(t)  PROVE KeysWorked'
    <3>1. /\ \A u \in Threads : Creating(u)'
          /\ Undamaged' => \A k \in Keys : Worked(k) => Worked(k)'
      BY <2>4, WorkStep DEF KeysWorked
    <3> QED  BY <2>1, <3>1 DEF KeysWorked
  <2> QED  BY <2>2, <2>3, <2>4 DEF StoreNext
<1>3. StoreInv /\ KeysWorked => NoStuckKey
  <2> SUFFICES ASSUME StoreInv, KeysWorked,
                      env["crash"] + env["stmt_failure"] + env["reply_lost"] = 0,
                      NEW k \in Keys, idem[k].state = "pending", made[k] = 0
               PROVE  \E t \in Threads : req[t].op = "create" /\ req[t].key = k
    BY DEF NoStuckKey
  <2>1. Undamaged
    <3>1. env["crash"] \in Nat /\ env["stmt_failure"] \in Nat /\ env["reply_lost"] \in Nat
      BY EventNames DEF StoreInv, StoreTypeOK
    <3>2. \A a, b, c \in Nat : a + b + c = 0 => a = 0 /\ b = 0 /\ c = 0
      OBVIOUS
    <3>3. env["crash"] = 0 /\ env["stmt_failure"] = 0 /\ env["reply_lost"] = 0
      BY <3>1, <3>2
    <3> QED  BY <3>3 DEF Undamaged
  <2>2. PICK t \in Threads : req[t].key = k
    BY <2>1 DEF KeysWorked, Worked
  <2> QED  BY <2>2, StoreAssumption DEF KeysWorked, Creating
<1> QED  BY <1>1, <1>2, <1>3, StoreInvariant, PTL DEF StoreSpec

-----------------------------------------------------------------------------
(* The token that a teacher was told is set. *)

\* It is still in its interval.
Fresh(x) == edited[x] # NoEdit /\ clock < edited[x].at + Interval

\* The row holds it, and was reset when it was set or later.
TokenSet(x) ==
  /\ edited[x] # NoEdit => /\ row[x] # NoExam /\ row[x].token = edited[x].tok
                           /\ edited[x].at \in 0..clock
  /\ Fresh(x) => row[x].active = edited[x].tok /\ row[x].reset >= edited[x].at

\* So does the copy that an update() is about to write back.
TokenRead(t) == pc[t] = "write" =>
  /\ edited[req[t].exam] # NoEdit /\ req[t].op \in ReadsClock
       => edited[req[t].exam].at <= req[t].now
  /\ Fresh(req[t].exam) => /\ seen[t].active = edited[req[t].exam].tok
                           /\ seen[t].reset >= edited[req[t].exam].at

\* The times that requests carry are not in the future, and a rotation that
\* has been committed and not been copied yet overtakes no fresh token.
Rotating(t) ==
  /\ req[t].op \in {"sync", "rotate"} => req[t].now <= clock
  /\ pc[t] = "write" /\ req[t].op \in ReadsClock => req[t].now <= clock
  /\ req[t].op = "sync" /\ pc[t] \in {"update", "write"} => ~Fresh(req[t].exam)

TokenInv == /\ \A x \in Exams : TokenSet(x)
            /\ \A t \in Threads : TokenRead(t) /\ Rotating(t)

\* A step of t that tells no teacher anything.
LEMMA TokenFrame ==
  ASSUME TokenInv, NEW t \in Threads, Elsewhere(t), UNCHANGED <<edited, clock>>,
         \A x \in Exams : TokenSet(x)', pc'[t] # "write", Rotating(t)'
  PROVE  TokenInv'
<1>1. ASSUME NEW u \in Threads  PROVE TokenRead(u)'
  BY <1>1 DEF TokenInv, Elsewhere, TokenRead, Fresh
<1>2. ASSUME NEW u \in Threads  PROVE Rotating(u)'
  BY <1>2 DEF TokenInv, Elsewhere, Rotating, Fresh
<1> QED  BY <1>1, <1>2 DEF TokenInv

LEMMA TokenSetKept ==
  ASSUME TokenInv, UNCHANGED <<row, edited, clock>>
  PROVE  \A x \in Exams : TokenSet(x)'
  BY DEF TokenInv, TokenSet, Fresh

LEMMA NotRotating ==
  ASSUME NEW t \in Threads, req'[t].op \notin {"sync", "rotate"}, pc'[t] # "write"
  PROVE  Rotating(t)'
  BY DEF Rotating

LEMMA DoneNotRotating ==
  ASSUME StoreInv, NEW t \in Threads, Done(t)
  PROVE  Rotating(t)' /\ pc'[t] # "write"
  BY NoRequestType DEF Done, Rotating, StoreInv, StoreTypeOK

\* A new request.
LEMMA BegunRotating ==
  ASSUME StoreInv, NEW t \in Threads, NEW q, NEW p \in Places, Begin(t, q, p),
         \/ q.op \notin {"sync", "rotate"} /\ p # "write"
         \/ p = "rotate" /\ q.op = "sync" /\ q.now = clock /\ clock' = clock
  PROVE  Rotating(t)'
<1>1. req'[t] = q /\ pc'[t] = p
  BY DEF Begin, StoreInv, StoreTypeOK
<1>2. clock \in Int
  BY DEF StoreInv, StoreTypeOK, Time
<1> QED  BY <1>1, <1>2 DEF Rotating, ReadsClock

LEMMA TokenAsk ==
  ASSUME StoreInv, TokenInv, NEW t \in Threads,
         \/ AskTokenMode(t) \/ AskLifecycle(t) \/ AskDelegate(t) \/ AskSchedule(t)
         \/ AskRegenerate(t) \/ AskEditToken(t) \/ AskEditPdf(t) \/ AskExpire(t)
         \/ AskDelete(t) \/ Join(t)
  PROVE  TokenInv'
<1> USE DEF tables, threads, bounds, past
<1>1. UNCHANGED <<row, edited, clock>>
  BY DEF AskTokenMode, AskLifecycle, AskDelegate, AskChange, AskSchedule, AskRegenerate,
     AskEditToken, AskEditPdf, AskExpire, AskDelete, Join
<1>2. Elsewhere(t) /\ pc'[t] # "write"
  BY AskStep DEF Handled
<1>3. ASSUME NEW op \in Ops \ {"sync", "rotate"}, AskChange(t, {op})  PROVE Rotating(t)'
  <2>1. PICK x \in Exams : Begin(t, Asked(op, x), "update")
    BY <1>3 DEF AskChange
  <2> QED  BY <2>1, AskedFacts, BegunRotating DEF Places
<1>4. CASE AskTokenMode(t) \/ AskLifecycle(t) \/ AskDelegate(t)
  <2>1. PICK op \in {"static", "dynamic", "toggle", "start", "stop", "other"} :
          AskChange(t, {op})
    BY <1>4 DEF AskTokenMode, AskLifecycle, AskDelegate, AskChange
  <2> QED  BY <1>1, <1>2, <1>3, <2>1, TokenSetKept, TokenFrame DEF Ops
<1>5. CASE \/ AskSchedule(t) \/ AskRegenerate(t) \/ AskEditToken(t) \/ AskEditPdf(t)
           \/ AskExpire(t) \/ AskDelete(t)
  <2>1. ASSUME NEW op \in {"schedule", "regenerate", "edit-token", "edit-pdf", "expire", "delete"},
               NEW q, q.op = op, NEW p \in {"update", "claim", "remove"}, Begin(t, q, p)
        PROVE  Rotating(t)'
    BY <2>1, BegunRotating DEF Places
  <2>2. Rotating(t)'
    <3>1. CASE AskSchedule(t)
      <4>1. PICK x \in Exams, e \in Time \cup {Never} :
              Begin(t, [Asked("schedule", x) EXCEPT !.now = e], "update")
        BY <3>1 DEF AskSchedule
      <4>2. PICK q : q = [Asked("schedule", x) EXCEPT !.now = e]
        OBVIOUS
      <4>3. q.op = "schedule"
        BY <4>2 DEF Asked, NoRequest
      <4> QED  BY <2>1, <4>1, <4>2, <4>3
    <3>2. CASE AskRegenerate(t)
      <4>1. PICK x \in Exams : Begin(t, [Asked("regenerate", x) EXCEPT !.tok = Generated], "update")
        BY <3>2 DEF AskRegenerate
      <4>2. PICK q : q = [Asked("regenerate", x) EXCEPT !.tok = Generated]
        OBVIOUS
      <4>3. q.op = "regenerate"
        BY <4>2 DEF Asked, NoRequest
      <4> QED  BY <2>1, <4>1, <4>2, <4>3
    <3>3. CASE AskEditToken(t)
      <4>1. PICK x \in Exams, tok \in Tokens :
              Begin(t, [Asked("edit-token", x) EXCEPT !.tok = tok], "claim")
        BY <3>3 DEF AskEditToken
      <4>2. PICK q : q = [Asked("edit-token", x) EXCEPT !.tok = tok]
        OBVIOUS
      <4>3. q.op = "edit-token"
        BY <4>2 DEF Asked, NoRequest
      <4> QED  BY <2>1, <4>1, <4>2, <4>3
    <3>4. CASE AskEditPdf(t)
      <4>1. PICK x \in Exams, p \in Pdfs :
              Begin(t, [Asked("edit-pdf", x) EXCEPT !.pdf = p], "update")
        BY <3>4 DEF AskEditPdf
      <4>2. PICK q : q = [Asked("edit-pdf", x) EXCEPT !.pdf = p]
        OBVIOUS
      <4>3. q.op = "edit-pdf"
        BY <4>2 DEF Asked, NoRequest
      <4> QED  BY <2>1, <4>1, <4>2, <4>3
    <3>5. CASE AskExpire(t)
      <4>1. PICK x \in Exams : Begin(t, Asked("expire", x), "update")
        BY <3>5 DEF AskExpire
      <4>2. PICK q : q = Asked("expire", x)
        OBVIOUS
      <4>3. q.op = "expire"
        BY <4>2 DEF Asked, NoRequest
      <4> QED  BY <2>1, <4>1, <4>2, <4>3
    <3>6. CASE AskDelete(t)
      <4>1. PICK x \in Exams : Begin(t, [Asked("delete", x) EXCEPT !.pdf = row[x].pdf], "remove")
        BY <3>6 DEF AskDelete
      <4>2. PICK q : q = [Asked("delete", x) EXCEPT !.pdf = row[x].pdf]
        OBVIOUS
      <4>3. q.op = "delete"
        BY <4>2 DEF Asked, NoRequest
      <4> QED  BY <2>1, <4>1, <4>2, <4>3
    <3> QED  BY <1>5, <3>1, <3>2, <3>3, <3>4, <3>5, <3>6
  <2> QED  BY <1>1, <1>2, <2>2, TokenSetKept, TokenFrame
<1>6. CASE Join(t)
  <2>1. PICK x \in Exams :
          Begin(t, [Asked("sync", x) EXCEPT !.tok = Generated, !.now = clock], "rotate")
    BY <1>6 DEF Join
  <2> DEFINE q == [Asked("sync", x) EXCEPT !.tok = Generated, !.now = clock]
  <2>2. q.op = "sync" /\ q.now = clock
    BY DEF Asked, NoRequest
  <2> HIDE DEF q
  <2>3. Rotating(t)'
    BY <1>1, <2>1, <2>2, BegunRotating DEF Places, q
  <2> QED  BY <1>1, <1>2, <2>3, TokenSetKept, TokenFrame
<1> QED  BY <1>4, <1>5, <1>6

\* What a mutator does to the token of an exam.
LEMMA MutatedToken ==
  ASSUME NEW q \in Request, NEW e \in ExamRow
  PROVE  /\ q.op = "edit-token" => /\ Mutated(q, e).token = q.tok
                                   /\ Mutated(q, e).active = q.tok
                                   /\ Mutated(q, e).reset = q.now
         /\ q.op \notin {"edit-token", "regenerate", "static", "dynamic"} =>
              /\ Mutated(q, e).token = e.token
              /\ \/ Mutated(q, e).active = e.active /\ Mutated(q, e).reset = e.reset
                 \/ /\ q.op = "start" /\ Mutated(q, e).active = e.token
                    /\ Mutated(q, e).reset = q.now
                 \/ q.op = "sync"
                 \/ q.op = "rotate" /\ Due(e, q.now)
<1>1. CASE q.op = "edit-token"
  <2>1. Mutated(q, e) = [e EXCEPT !.token = q.tok, !.active = q.tok, !.reset = q.now]
    BY <1>1 DEF Mutated
  <2> QED  BY <2>1, <1>1 DEF ExamRow
<1>2. CASE q.op = "start"
  <2>1. Mutated(q, e) = Started(q, e)
    BY <1>2 DEF Mutated
  <2> QED  BY <2>1, <1>2 DEF Started, ExamRow
<1>3. CASE q.op \in {"sync", "rotate"}
  <2>1. CASE q.op = "sync" \/ Due(e, q.now)
    <3>1. Mutated(q, e) = Rotated(q, e)
      BY <1>3, <2>1 DEF Mutated
    <3> QED  BY <1>3, <2>1, <3>1 DEF Rotated, ExamRow
  <2>2. CASE q.op = "rotate" /\ ~Due(e, q.now)
    <3>1. Mutated(q, e) = e
      BY <2>2 DEF Mutated
    <3> QED  BY <1>3, <3>1
  <2> QED  BY <1>3, <2>1, <2>2
<1>4. CASE q.op \in {"toggle", "stop", "schedule", "expire", "edit-pdf", "restore-pdf"}
  <2>1. \/ Mutated(q, e) = [e EXCEPT !.live = ~e.live, !.tomb = e.tomb /\ e.live]
        \/ Mutated(q, e) = [e EXCEPT !.live = FALSE, !.started = Never]
        \/ Mutated(q, e) = [e EXCEPT !.end = q.now]
        \/ Mutated(q, e) = [e EXCEPT !.live = FALSE, !.tomb = TRUE]
        \/ Mutated(q, e) = [e EXCEPT !.pdf = q.pdf]
    BY <1>4 DEF Mutated
  <2>2. /\ Mutated(q, e).token = e.token /\ Mutated(q, e).active = e.active
        /\ Mutated(q, e).reset = e.reset
    BY <2>1 DEF ExamRow
  <2> QED  BY <1>4, <2>2
<1>5. CASE q.op \in {"none", "create", "other", "delete"}
  <2>1. Mutated(q, e) = e
    BY <1>5 DEF Mutated
  <2> QED  BY <1>5, <2>1
<1>6. CASE q.op \in {"regenerate", "static", "dynamic"}
  BY <1>6
<1> QED  BY <1>1, <1>2, <1>3, <1>4, <1>5, <1>6 DEF Request, Ops

\* The UPDATE of update().
LEMMA TokenWrite ==
  ASSUME StoreInv, SerialUpdates, TokenInv, NEW t \in Threads, UpdateWrite(t)
  PROVE  TokenInv'
<1> USE DEF tables, threads, bounds, past
<1>1. PICK x \in Exams : x = req[t].exam
  BY DEF UpdateWrite, StoreInv, Carries, Placed
<1>2. PICK q \in Request : q = req[t]
  BY DEF StoreInv, StoreTypeOK
<1>3. PICK e \in ExamRow : e = seen[t]
  BY DEF UpdateWrite, StoreInv, Carries, Placed
<1>4. PICK new \in ExamRow : new = Mutated(q, e)
  BY <1>2, <1>3, MutatedFacts DEF UpdateWrite, StoreInv, Carries, Placed
<1>5. /\ q.exam = x /\ row[x] # NoExam /\ e.token = row[x].token
      /\ q.op \in ReadsClock => q.now \in Time /\ q.now <= clock
      /\ clock \in Nat /\ clock' = clock
      /\ TokenSet(x) /\ TokenRead(t) /\ Rotating(t)
  BY <1>1, <1>2, <1>3 DEF UpdateWrite, SerialUpdates, Owned, StoreInv, StoreTypeOK, Carries,
     Placed, TokenInv, Rotating, Time
<1>6. /\ Elsewhere(t) /\ pc'[t] # "write" /\ pc[t] = "write"
      /\ \A u \in Threads : pc'[u] # "write"
  <2>1. mu = t /\ pc'[t] # "write" /\ Elsewhere(t) /\ pc[t] = "write"
    BY UpdateWriteStep DEF SerialUpdates, Handled
  <2> QED  BY <2>1 DEF Elsewhere, SerialUpdates
\* The three outcomes.
<1>7. \/ UNCHANGED <<row, edited>> /\ Done(t)
      \/ /\ row' = [row EXCEPT ![x] = new]
         /\ \/ edited' = [edited EXCEPT ![x] = NoEdit] /\ Done(t)
            \/ /\ edited' = [edited EXCEPT ![x] = Told(q, x)]
               /\ Done(t) \/ (q.op = "edit-pdf" /\ Goto(t, "upload"))
  BY <1>1, <1>2, <1>3, <1>4 DEF UpdateWrite
<1>8. Rotating(t)'
  <2>1. Done(t) => Rotating(t)'
    BY DoneNotRotating
  <2>2. q.op = "edit-pdf" /\ Goto(t, "upload") => Rotating(t)'
    BY <1>2, <1>6, NotRotating DEF Goto
  <2> QED  BY <1>7, <2>1, <2>2
<1>9. CASE UNCHANGED <<row, edited>>
  BY <1>5, <1>6, <1>8, <1>9, TokenSetKept, TokenFrame
<1>10. CASE /\ row' = [row EXCEPT ![x] = new]
            /\ \/ edited' = [edited EXCEPT ![x] = NoEdit]
               \/ edited' = [edited EXCEPT ![x] = Told(q, x)]
  <2>1. /\ row'[x] = new /\ edited'[x] \in {NoEdit, Told(q, x)}
        /\ \A y \in Exams \ {x} : row'[y] = row[y] /\ edited'[y] = edited[y]
    BY <1>10 DEF StoreInv, StoreTypeOK
  <2>2. \A y \in Exams \ {x} : TokenSet(y)'
    BY <1>5, <2>1 DEF TokenInv, TokenSet, Fresh
  <2>3. \/ edited'[x] = NoEdit
        \/ q.op = "edit-token" /\ ~SyncPending(x) /\ edited'[x] = [tok |-> q.tok, at |-> q.now]
        \/ /\ q.op \notin {"edit-token", "regenerate", "static", "dynamic"}
           /\ edited'[x] = edited[x]
    <3>1. q.op = "edit-token" => Told(q, x) = IF SyncPending(x) THEN NoEdit
                                              ELSE [tok |-> q.tok, at |-> q.now]
      BY DEF Told
    <3>2. q.op \in {"regenerate", "static", "dynamic"} => Told(q, x) = NoEdit
      BY DEF Told
    <3>3. q.op \notin {"edit-token", "regenerate", "static", "dynamic"} => Told(q, x) = edited[x]
      BY DEF Told
    <3> QED  BY <2>1, <3>1, <3>2, <3>3
  <2>4. TokenSet(x)'
    <3>1. CASE edited'[x] = NoEdit
      BY <3>1 DEF TokenSet, Fresh
    <3>2. CASE q.op = "edit-token" /\ edited'[x] = [tok |-> q.tok, at |-> q.now]
      <4>1. new.token = q.tok /\ new.active = q.tok /\ new.reset = q.now
        BY <1>4, <3>2, MutatedToken
      <4>2. edited'[x].tok = q.tok /\ edited'[x].at = q.now
        BY <3>2
      <4>3. q.now \in 0..clock'
        BY <1>5, <3>2 DEF ReadsClock, Time
      <4> QED  BY <1>5, <2>1, <4>1, <4>2, <4>3, NoExamAssumption DEF TokenSet
    <3>3. CASE /\ q.op \notin {"edit-token", "regenerate", "static", "dynamic"}
               /\ edited'[x] = edited[x]
      <4>1. new.token = e.token
        BY <1>4, <3>3, MutatedToken
      <4>2. ASSUME Fresh(x)
            PROVE  new.active = edited[x].tok /\ new.reset >= edited[x].at
        <5>1. /\ e.active = edited[x].tok /\ e.reset >= edited[x].at
              /\ row[x].token = edited[x].tok /\ edited[x].at \in Nat
              /\ q.op \in ReadsClock => edited[x].at <= q.now
              /\ q.op # "sync"
          BY <1>1, <1>2, <1>3, <1>5, <1>6, <4>2 DEF TokenRead, TokenSet, Fresh, Rotating
        <5>2. CASE new.active = e.active /\ new.reset = e.reset
          BY <5>1, <5>2
        <5>3. CASE q.op = "start" /\ new.active = e.token /\ new.reset = q.now
          BY <1>5, <5>1, <5>3 DEF ReadsClock, Time
        <5>4. CASE q.op = "rotate" /\ Due(e, q.now)
          <6>1. e.reset \in Int /\ q.now \in Int /\ Interval \in Nat
            <7>1. q.now \in Time \cup {Never}
              BY DEF Request
            <7> QED  BY <7>1, StoreAssumption DEF ExamRow, Time, Never
          <6>2. e.reset # Never
            BY <5>1 DEF Never
          <6>3. q.now >= e.reset + Interval
            BY <5>4, <6>2 DEF Due, Ref
          <6>4. q.now <= clock /\ clock < edited[x].at + Interval
            BY <1>2, <1>5, <4>2, <5>4 DEF Rotating, Fresh
          <6>5. FALSE
            BY <1>5, <5>1, <6>1, <6>3, <6>4
          <6> QED  BY <6>5
        <5> QED  BY <1>4, <3>3, <5>1, <5>2, <5>3, <5>4, MutatedToken
      <4> QED  BY <1>5, <2>1, <3>3, <4>1, <4>2, NoExamAssumption DEF TokenSet, Fresh
    <3> QED  BY <2>3, <3>1, <3>2, <3>3
  <2>5. ASSUME NEW u \in Threads \ {t}  PROVE Rotating(u)'
    <3>1. pc'[u] = pc[u] /\ req'[u] = req[u] /\ pc'[u] # "write" /\ Rotating(u)
      BY <1>6 DEF Elsewhere, TokenInv
    <3>2. ASSUME req[u].op = "sync", pc[u] \in {"update", "write"}  PROVE ~(Fresh(req[u].exam)')
      <4>1. CASE req[u].exam = x
        <5>1. SyncPending(x)
          BY <3>2, <4>1 DEF SyncPending
        <5>2. edited'[x] \in {NoEdit, edited[x]}
          BY <2>3, <5>1
        <5> QED  BY <1>5, <3>1, <3>2, <4>1, <5>2 DEF Rotating, Fresh
      <4>2. CASE req[u].exam # x
        <5>1. req[u].exam \in Exams
          BY <3>2 DEF StoreInv, Carries, Placed
        <5> QED  BY <1>5, <2>1, <3>1, <3>2, <4>2, <5>1 DEF Rotating, Fresh
      <4> QED  BY <4>1, <4>2
    <3> QED  BY <1>5, <3>1, <3>2 DEF Rotating
  <2>6. \A u \in Threads : TokenRead(u)'
    BY <1>6 DEF TokenRead
  <2> QED  BY <1>8, <2>2, <2>4, <2>5, <2>6 DEF TokenInv
<1> QED  BY <1>7, <1>9, <1>10

\* The SELECT of update().
LEMMA TokenReads ==
  ASSUME StoreInv, SerialUpdates, TokenInv, NEW t \in Threads, UpdateRead(t)
  PROVE  TokenInv'
<1> USE DEF tables, threads, bounds, past
<1>1. PICK x \in Exams : x = req[t].exam
  BY DEF UpdateRead, StoreInv, Carries, Placed
<1>2. /\ UNCHANGED <<row, edited, clock>> /\ Elsewhere(t) /\ TokenSet(x) /\ Rotating(t)
      /\ pc[t] = "update" /\ req \in [Threads -> Request] /\ clock \in Nat
  BY UpdateReadStep DEF UpdateRead, Handled, TokenInv, StoreInv, StoreTypeOK, Time
<1>3. CASE Done(t)
  BY <1>2, <1>3, DoneNotRotating, TokenSetKept, TokenFrame
<1>4. CASE /\ seen' = [seen EXCEPT ![t] = row[x]]
           /\ req'  = IF req[t].op \in ReadsClock
                      THEN [req EXCEPT ![t].now = clock] ELSE req
           /\ pc'   = [pc EXCEPT ![t] = "write"]
  <2>1. /\ seen'[t] = row[x] /\ req'[t].exam = x /\ req'[t].op = req[t].op
        /\ req[t].op \in ReadsClock => req'[t].now = clock
        /\ req[t].op \notin ReadsClock => req'[t].now = req[t].now
    <3>1. seen'[t] = row[x]
      BY <1>4 DEF StoreInv, StoreTypeOK
    <3>2. CASE req[t].op \in ReadsClock
      <4>1. req'[t] = [req[t] EXCEPT !.now = clock]
        BY <1>2, <1>4, <3>2
      <4> QED  BY <1>1, <1>2, <3>1, <3>2, <4>1 DEF Request
    <3>3. CASE req[t].op \notin ReadsClock
      BY <1>1, <1>4, <3>1, <3>3
    <3> QED  BY <3>2, <3>3
  <2>2. TokenRead(t)'
    BY <1>2, <2>1 DEF TokenRead, TokenSet, Fresh
  <2>3. Rotating(t)'
    BY <1>1, <1>2, <2>1 DEF Rotating, Fresh, ReadsClock
  <2>4. \A u \in Threads \ {t} : TokenRead(u)' /\ Rotating(u)'
    BY <1>2 DEF TokenInv, TokenRead, Rotating, Fresh, Elsewhere
  <2> QED  BY <1>2, <2>2, <2>3, <2>4, TokenSetKept DEF TokenInv
<1> QED  BY <1>1, <1>3, <1>4 DEF UpdateRead

\* The rotation under the row lock: what is due is not fresh.
LEMMA TokenRotate ==
  ASSUME StoreInv, SerialUpdates, TokenInv, NEW t \in Threads, Rotate(t)
  PROVE  TokenInv'
<1> USE DEF tables, threads, bounds, past
<1>1. PICK x \in Exams : x = req[t].exam
  BY DEF Rotate, StoreInv, Carries, Placed
<1>2. PICK q \in Request : q = req[t] /\ q.op = "sync" /\ q.tok \in Tokens /\ q.now \in Time
  BY DEF Rotate, StoreInv, StoreTypeOK, Carries, Placed, Carried
<1>3. /\ UNCHANGED <<edited, clock>> /\ Elsewhere(t) /\ pc'[t] # "write"
      /\ TokenSet(x) /\ Rotating(t) /\ q.now <= clock /\ clock \in Nat
  BY <1>2, RotateStep DEF Rotate, Handled, TokenInv, Rotating, StoreInv, StoreTypeOK, Time
<1>4. ASSUME row[x] # NoExam, ~FreshInDb(q, row[x], seen[t])  PROVE ~Fresh(x)
  <2>1. SUFFICES ASSUME Fresh(x)  PROVE FALSE
    OBVIOUS
  <2>2. /\ row[x].reset >= edited[x].at /\ edited[x].at \in Nat /\ row[x].reset \in Int
        /\ clock < edited[x].at + Interval /\ Interval \in Nat /\ q.now \in Int
    BY <1>2, <1>3, <1>4, <2>1, StoreAssumption
    DEF TokenSet, Fresh, StoreInv, StoreTypeOK, ExamRow, Time, Never
  <2>3. row[x].reset # Never
    BY <2>2 DEF Never
  <2>4. ~(q.now < Interval + row[x].reset)
    BY <1>4, <2>3 DEF FreshInDb
  <2> QED  BY <1>3, <2>2, <2>4
<1>5. CASE UNCHANGED row /\ Done(t)
  BY <1>3, <1>5, DoneNotRotating, TokenSetKept, TokenFrame
<1>6. CASE /\ row[x] # NoExam /\ ~FreshInDb(q, row[x], seen[t]) /\ Goto(t, "update")
           /\ row' = [row EXCEPT ![x] = Rotated(q, row[x])] \/ UNCHANGED row
  <2>1. Rotating(t)'
    BY <1>1, <1>2, <1>3, <1>4, <1>6 DEF Goto, Rotating, Fresh
  <2>2. ASSUME NEW y \in Exams  PROVE TokenSet(y)'
    <3>1. CASE row'[y] = row[y]
      BY <1>3, <3>1 DEF TokenInv, TokenSet, Fresh
    <3>2. CASE y = x /\ row'[x] = Rotated(q, row[x])
      <4>1. Rotated(q, row[x]).token = row[x].token /\ Rotated(q, row[x]) # NoExam
        BY <1>2, <1>6, RotatedFacts, NoExamAssumption DEF Owned, StoreInv, StoreTypeOK
      <4> QED  BY <1>3, <1>4, <1>6, <3>2, <4>1 DEF TokenSet, Fresh
    <3> QED  BY <1>6, <3>1, <3>2 DEF StoreInv, StoreTypeOK
  <2> QED  BY <1>3, <2>1, <2>2, TokenFrame
<1>7. CASE req' = [req EXCEPT ![t].op = "rotate"] /\ UNCHANGED row
  <2>1. req'[t].op = "rotate" /\ req'[t].now = q.now
    <3>1. req'[t] = [q EXCEPT !.op = "rotate"]
      BY <1>2, <1>7 DEF StoreInv, StoreTypeOK
    <3> QED  BY <3>1 DEF Request
  <2>2. Rotating(t)'
    BY <1>3, <2>1 DEF Rotating, ReadsClock
  <2> QED  BY <1>3, <1>7, <2>2, TokenSetKept, TokenFrame
<1> QED  BY <1>1, <1>2, <1>5, <1>6, <1>7 DEF Rotate

\* Creation, upload and deletion.
LEMMA TokenOther ==
  ASSUME StoreInv, SerialUpdates, TokenInv, NEW t \in Threads,
         AskCreate(t) \/ SetAuto(t) \/ Claim(t) \/ Upload(t) \/ Add(t) \/ Finish(t)
         \/ Remove(t) \/ Purge(t)
  PROVE  TokenInv'
<1> USE DEF tables, threads, bounds, past
<1>1. Elsewhere(t) /\ UNCHANGED clock
  BY AskCreateStep, SetAutoStep, ClaimStep, UploadStep, AddStep, FinishStep, RemoveStep,
     PurgeStep
  DEF Handled, AskCreate, SetAuto, Claim, Upload, Add, Finish, Remove, Purge
<1>2. ASSUME Goto(t, "add") \/ Goto(t, "release") \/ Goto(t, "finalize") \/ Goto(t, "upload"),
             req[t].op \in {"create", "edit-token"}
      PROVE  Rotating(t)' /\ pc'[t] # "write"
  <2>1. req' = req /\ pc'[t] # "write"
    BY <1>2 DEF Goto, StoreInv, StoreTypeOK
  <2> QED  BY <1>2, <2>1, NotRotating
<1>3. CASE AskCreate(t)
  <2>1. UNCHANGED <<row, edited>> /\ pc'[t] # "write"
    BY <1>3, AskCreateStep DEF AskCreate
  <2>2. Rotating(t)'
    <3>1. CASE UNCHANGED <<pc, req>>
      <4>1. Rotating(t)
        BY DEF TokenInv
      <4> QED  BY <1>1, <2>1, <3>1, <4>1 DEF Rotating, Fresh
    <3>2. CASE \E p \in Pdfs, file \in BOOLEAN, tok \in Tokens,
                 k \in Keys \cup {NoKey}, at \in {"claim", "release"} :
                 Begin(t, [NoRequest EXCEPT !.op = "create", !.tok = tok, !.pdf = p, !.file = file, !.key = k], at)
      <4>1. PICK p \in Pdfs, file \in BOOLEAN, tok \in Tokens, k \in Keys \cup {NoKey}, at \in {"claim", "release"} :
              Begin(t, [NoRequest EXCEPT !.op = "create", !.tok = tok, !.pdf = p, !.file = file, !.key = k], at)
        BY <3>2
      <4>2. [NoRequest EXCEPT !.op = "create", !.tok = tok, !.pdf = p, !.file = file, !.key = k].op = "create"
        BY DEF NoRequest
      <4> QED  BY <4>1, <4>2, BegunRotating DEF Places
    <3> QED  BY <1>3, <3>1, <3>2 DEF AskCreate
  <2> QED  BY <1>1, <2>1, <2>2, TokenSetKept, TokenFrame
<1>4. CASE SetAuto(t)
  <2>1. UNCHANGED <<edited, pc, req, seen>>
    BY <1>4 DEF SetAuto
  <2>2. PICK z \in Exams : AutoOnly(z)
    BY <1>4, SetAutoStep
  <2>3. ASSUME NEW y \in Exams  PROVE TokenSet(y)'
    <3>1. \/ row'[y] = row[y]
          \/ /\ row[y] \in ExamRow /\ row'[y] = [row[y] EXCEPT !.auto = ~@]
             /\ row'[y] # NoExam
      BY <2>2, AutoFacts, NoExamAssumption DEF AutoOnly, StoreInv, StoreTypeOK
    <3>2. TokenSet(y)
      BY DEF TokenInv
    <3>3. CASE row'[y] = row[y]
      BY <1>1, <2>1, <3>2, <3>3 DEF TokenSet, Fresh
    <3>4. CASE row[y] \in ExamRow /\ row'[y] = [row[y] EXCEPT !.auto = ~@] /\ row'[y] # NoExam
      <4>1. /\ row'[y].token = row[y].token /\ row'[y].active = row[y].active
            /\ row'[y].reset = row[y].reset
        BY <3>4 DEF ExamRow
      <4> QED  BY <1>1, <2>1, <3>2, <3>4, <4>1 DEF TokenSet, Fresh
    <3> QED  BY <3>1, <3>3, <3>4
  <2> QED  BY <1>1, <2>1, <2>3 DEF TokenInv, TokenRead, Rotating, Fresh
<1>5. CASE Claim(t)
  <2>1. UNCHANGED <<row, edited>> /\ req[t].op \in {"create", "edit-token"} /\ pc'[t] # "write"
    BY <1>5, ClaimStep DEF Claim, StoreInv, Carries, Placed
  <2>2. req'[t].op \in {req[t].op, "none"}
    <3>1. \/ Done(t) \/ Goto(t, "release") \/ Goto(t, "update")
          \/ \E n : req' = [req EXCEPT ![t].exam = n]
      BY <1>5 DEF Claim, Rejected
    <3>2. Done(t) => req'[t].op = "none"
      BY NoRequestType DEF Done, StoreInv, StoreTypeOK
    <3>3. ASSUME NEW n, req' = [req EXCEPT ![t].exam = n]  PROVE req'[t].op = req[t].op
      <4>1. req'[t] = [req[t] EXCEPT !.exam = n] /\ req[t] \in Request
        BY <3>3 DEF StoreInv, StoreTypeOK
      <4> QED  BY <4>1 DEF Request
    <3> QED  BY <3>1, <3>2, <3>3 DEF Goto
  <2>3. Rotating(t)'
    BY <2>1, <2>2, NotRotating
  <2> QED  BY <1>1, <2>1, <2>3, TokenSetKept, TokenFrame
<1>6. CASE Upload(t)
  <2>1. UNCHANGED <<row, edited>> /\ req[t].op \in {"create", "edit-pdf"} /\ pc'[t] # "write"
    BY <1>6, UploadStep DEF Upload, StoreInv, Carries, Placed
  <2>2. req'[t].op \in {"create", "none", "restore-pdf"}
    <3>1. \/ Done(t) \/ RestorePdf(t)
          \/ req[t].op = "create" /\ (Goto(t, "add") \/ Goto(t, "release"))
      BY <1>6, <2>1 DEF Upload, Rejected
    <3>2. Done(t) => req'[t].op = "none"
      BY NoRequestType DEF Done, StoreInv, StoreTypeOK
    <3>3. RestorePdf(t) => req'[t].op = "restore-pdf"
      <4>1. SUFFICES ASSUME RestorePdf(t)  PROVE req'[t].op = "restore-pdf"
        OBVIOUS
      <4>2. req'[t] = [req[t] EXCEPT !.op = "restore-pdf", !.pdf = seen[t].pdf]
            /\ req[t] \in Request
        BY <4>1 DEF RestorePdf, StoreInv, StoreTypeOK
      <4> QED  BY <4>2 DEF Request
    <3> QED  BY <3>1, <3>2, <3>3 DEF Goto
  <2>3. Rotating(t)'
    BY <2>1, <2>2, NotRotating
  <2> QED  BY <1>1, <2>1, <2>3, TokenSetKept, TokenFrame
<1>7. CASE Add(t)
  <2>1. req[t].op = "create" /\ req[t].exam \in Exams /\ pc[t] = "add" /\ UNCHANGED edited
    BY <1>7 DEF Add, StoreInv, Carries, Placed
  <2>2. Done(t) \/ Goto(t, "release") \/ Goto(t, "finalize")
    BY <1>7 DEF Add, Rejected
  <2>3. Rotating(t)' /\ pc'[t] # "write"
    BY <1>2, <2>1, <2>2, DoneNotRotating
  <2>4. ASSUME NEW y \in Exams  PROVE TokenSet(y)'
    <3>1. row'[y] = row[y] \/ row[y] = NoExam
      BY <1>7, AddStep DEF Inserted, StoreInv, StoreTypeOK
    <3> QED  BY <1>1, <2>1, <3>1 DEF TokenInv, TokenSet, Fresh
  <2> QED  BY <1>1, <2>1, <2>3, <2>4, TokenFrame
<1>8. CASE Finish(t) \/ Purge(t)
  <2>1. UNCHANGED <<row, edited>> /\ Done(t)
    BY <1>8 DEF Finish, Purge
  <2> QED  BY <1>1, <2>1, DoneNotRotating, TokenSetKept, TokenFrame
<1>9. CASE Remove(t)
  <2>1. PICK x \in Exams : x = req[t].exam
    BY <1>9 DEF Remove, StoreInv, Carries, Placed
  <2>2. \A u \in Threads : pc'[u] # "write"
    BY <1>9, RemoveStep, NobodyWrites DEF Handled, Elsewhere
  <2>3. \/ UNCHANGED <<row, edited>>
        \/ row' = [row EXCEPT ![x] = NoExam] /\ edited' = [edited EXCEPT ![x] = NoEdit]
    BY <1>9, <2>1 DEF Remove
  <2>4. \A y \in Exams : \/ row'[y] = row[y] /\ edited'[y] = edited[y]
                         \/ edited'[y] = NoEdit
    BY <2>3 DEF StoreInv, StoreTypeOK
  <2>5. ASSUME NEW y \in Exams  PROVE TokenSet(y)' /\ (Fresh(y)' => Fresh(y))
    BY <1>1, <2>4 DEF TokenInv, TokenSet, Fresh
  <2>6. ASSUME NEW u \in Threads \ {t}  PROVE Rotating(u)'
    <3>1. pc'[u] = pc[u] /\ req'[u] = req[u] /\ Rotating(u)
      BY <1>1 DEF Elsewhere, TokenInv
    <3>2. pc[u] \in {"update", "write"} => req[u].exam \in Exams
      BY DEF StoreInv, Carries, Placed
    <3> QED  BY <1>1, <2>5, <3>1, <3>2 DEF Rotating, Fresh
  <2>7. Rotating(t)'
    <3>1. Goto(t, "purge") => pc'[t] = "purge" /\ req'[t] = req[t]
      BY DEF Goto, StoreInv, StoreTypeOK
    <3>2. Rotating(t)
      BY DEF TokenInv
    <3>3. Goto(t, "purge") => Rotating(t)'
      BY <1>1, <3>1, <3>2 DEF Rotating
    <3> QED  BY <1>9, <3>3, DoneNotRotating DEF Remove
  <2> QED  BY <2>2, <2>5, <2>6, <2>7 DEF TokenInv, TokenRead
<1> QED  BY <1>3, <1>4, <1>5, <1>6, <1>7, <1>8, <1>9

(***************************************************************************)
(* TokenLives: the token that a teacher was told is set (edit_exam_token)  *)
(* admits students for a whole interval, over joins that rotate, copies of *)
(* rotations, starts, deletions and failures in any number of threads.     *)
(***************************************************************************)
THEOREM TokenLivesAlways == StoreSpec => []TokenLives
<1>1. StoreInit => TokenInv
  BY NoRequestType DEF StoreInit, TokenInv, TokenSet, TokenRead, Rotating, Fresh
<1>2. StoreInv /\ SerialUpdates /\ TokenInv /\ [StoreNext]_storeVars => TokenInv'
  <2> SUFFICES ASSUME StoreInv, SerialUpdates, TokenInv, [StoreNext]_storeVars  PROVE TokenInv'
    OBVIOUS
  <2> USE DEF tables, threads, bounds, past
  <2>1. CASE UNCHANGED storeVars
    BY <2>1 DEF storeVars, TokenInv, TokenSet, TokenRead, Rotating, Fresh
  <2>2. CASE Tick
    <3>1. UNCHANGED <<row, edited, pc, req, seen>> /\ clock' = clock + 1 /\ clock \in Nat
      BY <2>2 DEF Tick, StoreInv, StoreTypeOK, Time
    <3>2. \A x \in Exams : edited[x].at \in Int
      BY DEF StoreInv, StoreTypeOK, Time, Never
    <3>3. ASSUME NEW x \in Exams, Fresh(x)'  PROVE Fresh(x)
      BY <3>1, <3>2, <3>3, StoreAssumption DEF Fresh
    <3>4. ASSUME NEW x \in Exams  PROVE TokenSet(x)'
      BY <3>1, <3>3 DEF TokenInv, TokenSet
    <3>5. ASSUME NEW t \in Threads  PROVE TokenRead(t)'
      <4>1. pc[t] = "write" => req[t].exam \in Exams
        BY DEF StoreInv, Carries, Placed
      <4> QED  BY <3>1, <3>3, <4>1 DEF TokenInv, TokenRead
    <3>6. ASSUME NEW t \in Threads  PROVE Rotating(t)'
      <4>1. pc[t] \in {"update", "write"} => req[t].exam \in Exams
        BY DEF StoreInv, Carries, Placed
      <4>2. req[t].now \in Int
        BY DEF StoreInv, StoreTypeOK, Request, Time, Never
      <4> QED  BY <3>1, <3>3, <4>1, <4>2 DEF TokenInv, Rotating
    <3> QED  BY <3>4, <3>5, <3>6 DEF TokenInv
  <2>3. CASE CrashRestart
    BY <2>3, NoRequestType DEF CrashRestart, TokenInv, TokenSet, TokenRead, Rotating, Fresh
  <2>4. ASSUME NEW t \in Threads, ThreadStep(t)  PROVE TokenInv'
    BY <2>4, TokenAsk, TokenWrite, TokenReads, TokenRotate, TokenOther DEF ThreadStep
  <2> QED  BY <2>1, <2>2, <2>3, <2>4 DEF StoreNext
<1>3. TokenInv => TokenLives
  BY DEF TokenInv, TokenSet, Fresh, TokenLives
<1> QED  BY <1>1, <1>2, <1>3, StoreInvariant, SerialUpdatesAlways, PTL DEF StoreSpec

-----------------------------------------------------------------------------
(* The PDF of an exam. *)

\* The conditions of PdfKept.
Calm == Undamaged /\ env["r2_failure"] <= 1 /\ nextId # NoSequence

\* A replacement that has put the name into the row and is uploading.
Replacing(u, x, p) == /\ pc[u] = "upload" /\ req[u].op = "edit-pdf"
                      /\ req[u].exam = x /\ req[u].pdf = p

Restoring(u, x) == req[u].op = "restore-pdf" /\ req[u].exam = x

Covered(x, p) == <<x, p>> \in objects \/ \E u \in Threads : Replacing(u, x, p)

\* The exam was created with its PDF.
Filed(x) == row[x] # NoExam /\ row[x].file

RowCovered(x) ==
  Filed(x) => Covered(x, row[x].pdf) \/ \E u \in Threads : Restoring(u, x)

\* The name that is put back is covered; only after a failure is one put back.
RestoreCovered(u) == req[u].op = "restore-pdf" =>
  /\ pc[u] \in {"update", "write"} /\ env["r2_failure"] = 1
  /\ Filed(req[u].exam) => Covered(req[u].exam, req[u].pdf)

\* Before the first failure, so is the name that a replacement has replaced,
\* by an object or by another replacement.
ReplacedCovered(t) ==
  pc[t] = "upload" /\ req[t].op = "edit-pdf" /\ Filed(req[t].exam)
  /\ env["r2_failure"] = 0
    => \/ <<req[t].exam, seen[t].pdf>> \in objects
       \/ \E u \in Threads \ {t} : Replacing(u, req[t].exam, seen[t].pdf)

\* An exam that is being created is nobody else's.
CreatesAlone(t) == req[t].op = "create" /\ pc[t] \in {"upload", "add"} =>
  /\ row[req[t].exam] = NoExam
  /\ \A u \in Threads \ {t} : req[u].exam # req[t].exam
  /\ pc[t] = "add" /\ req[t].file => <<req[t].exam, req[t].pdf>> \in objects

\* The sequence gives out every number once; a deleted exam does not return.
Numbered == /\ \A t \in Threads : req[t].exam < nextId
            /\ \A x \in Exams : x >= nextId => row[x] = NoExam
            /\ \A t \in Threads : pc[t] = "purge" => row[req[t].exam] = NoExam

\* With a sequence.
LEMMA NextIdFacts ==
  ASSUME StoreInv, Numbered, NEW t \in Threads
  PROVE  nextId \in Int /\ 0 < nextId /\ 0 \notin Exams
<1>1. req[t].exam \in Int /\ req[t].exam >= 0 /\ nextId \in Int
  BY DEF StoreInv, StoreTypeOK, Request, Exams, NoSequence
<1> QED  BY <1>1 DEF Numbered, Exams

\* The UNIQUE constraint on token.
TokensApart == \A x \in Exams : row[x] # NoExam => ~Taken(row[x].token, x)

\* A step that leaves the names of the PDFs alone.
FilesStay == \A y \in Exams :
  row'[y] # NoExam => row[y] # NoExam /\ row'[y].file = row[y].file

NamesStay == FilesStay /\ \A y \in Exams : row'[y] # NoExam => row'[y].pdf = row[y].pdf

\* What an operation does to the name of the PDF.
LEMMA MutatedPdf ==
  ASSUME NEW q \in Request, NEW e \in ExamRow
  PROVE  /\ Mutated(q, e).pdf = IF q.op \in {"edit-pdf", "restore-pdf"} THEN q.pdf ELSE e.pdf
         /\ Mutated(q, e).file = e.file
<1>1. CASE q.op \in {"edit-pdf", "restore-pdf"}
  <2>1. Mutated(q, e) = [e EXCEPT !.pdf = q.pdf]
    BY <1>1 DEF Mutated
  <2> QED  BY <1>1, <2>1 DEF ExamRow
<1>2. CASE q.op = "start"
  <2>1. Mutated(q, e) = Started(q, e)
    BY <1>2 DEF Mutated
  <2> QED  BY <1>2, <2>1 DEF Started, ExamRow
<1>3. CASE q.op \in {"sync", "rotate"}
  <2>1. Mutated(q, e) \in {Rotated(q, e), e}
    BY <1>3 DEF Mutated
  <2> QED  BY <1>3, <2>1 DEF Rotated, ExamRow
<1>4. CASE q.op \in {"edit-token", "regenerate", "static", "dynamic", "toggle", "stop",
                     "schedule", "expire"}
  <2>1. \/ Mutated(q, e) = [e EXCEPT !.token = q.tok, !.active = q.tok, !.reset = q.now]
        \/ Mutated(q, e) = [e EXCEPT !.token = q.tok, !.active = q.tok]
        \/ Mutated(q, e) = [e EXCEPT !.dynamic = FALSE, !.reset = Never]
        \/ Mutated(q, e) = [e EXCEPT !.dynamic = TRUE]
        \/ Mutated(q, e) = [e EXCEPT !.live = ~e.live, !.tomb = e.tomb /\ e.live]
        \/ Mutated(q, e) = [e EXCEPT !.live = FALSE, !.started = Never]
        \/ Mutated(q, e) = [e EXCEPT !.end = q.now]
        \/ Mutated(q, e) = [e EXCEPT !.live = FALSE, !.tomb = TRUE]
    BY <1>4 DEF Mutated
  <2>2. Mutated(q, e).pdf = e.pdf /\ Mutated(q, e).file = e.file
    BY <2>1 DEF ExamRow
  <2> QED  BY <1>4, <2>2
<1>5. CASE q.op \in {"none", "create", "other", "delete"}
  <2>1. Mutated(q, e) = e
    BY <1>5 DEF Mutated
  <2> QED  BY <1>5, <2>1
<1> QED  BY <1>1, <1>2, <1>3, <1>4, <1>5 DEF Request, Ops

\* A write of one row keeps the tokens apart if it respects the constraint.
LEMMA TokensStay ==
  ASSUME StoreInv, TokensApart, NEW x \in Exams, NEW e, row' = [row EXCEPT ![x] = e],
         e # NoExam => ~Taken(e.token, x)
  PROVE  TokensApart'
<1>1. row'[x] = e /\ \A y \in Exams \ {x} : row'[y] = row[y]
  BY DEF StoreInv, StoreTypeOK
<1> QED  BY <1>1 DEF TokensApart, Taken

\* Covered stays, except for an exam z whose objects are removed.
LEMMA CoveredStays ==
  ASSUME NEW t \in Threads, NEW z, Elsewhere(t),
         \A x \in Exams : \A p : x # z /\ <<x, p>> \in objects => <<x, p>> \in objects',
         \A x, p : Replacing(t, x, p) => <<x, p>> \in objects' \/ Replacing(t, x, p)'
  PROVE  \A x \in Exams : \A p : x # z /\ Covered(x, p) => Covered(x, p)'
<1>1. SUFFICES ASSUME NEW x \in Exams, NEW p, x # z, Covered(x, p)  PROVE Covered(x, p)'
  OBVIOUS
<1>2. CASE <<x, p>> \in objects
  BY <1>1, <1>2 DEF Covered
<1>3. ASSUME NEW u \in Threads, Replacing(u, x, p)  PROVE Covered(x, p)'
  <2>1. CASE u = t
    BY <1>3, <2>1 DEF Covered
  <2>2. CASE u # t
    <3>1. Replacing(u, x, p)'
      BY <1>3, <2>2 DEF Replacing, Elsewhere
    <3> QED  BY <3>1 DEF Covered
  <2> QED  BY <2>1, <2>2
<1> QED  BY <1>1, <1>2, <1>3 DEF Covered

\* The inductive invariant, under those conditions.
PdfOK == /\ \A x \in Exams : RowCovered(x)
         /\ \A t \in Threads :
              RestoreCovered(t) /\ ReplacedCovered(t) /\ CreatesAlone(t)
         /\ Numbered /\ TokensApart

\* A step of thread t that inserts no exam: what it has to show.
LEMMA PdfFrame ==
  ASSUME StoreInv, PdfOK, NEW t \in Threads, NEW z, Elsewhere(t),
         \* objects are removed of exam z only, which is nobody's
         \A x \in Exams : \A p : x # z /\ <<x, p>> \in objects => <<x, p>> \in objects',
         z \in Exams => row'[z] = NoExam,
         \A u \in Threads \ {t} :
           req[u].op = "create" /\ pc[u] \in {"upload", "add"} => req[u].exam # z,
         \* the rows
         FilesStay,
         \A y \in Exams : Filed(y)' => row'[y].pdf = row[y].pdf \/ Covered(y, row[y].pdf)',
         TokensApart',
         nextId \in Int, nextId' \in Int, nextId <= nextId',
         env'["r2_failure"] \in {env["r2_failure"], 1},
         \* thread t
         \A x, p : Replacing(t, x, p) => <<x, p>> \in objects' \/ Replacing(t, x, p)',
         \A x \in Exams : Restoring(t, x) /\ Filed(x)'
                          => Restoring(t, x)' \/ Covered(x, row[x].pdf)',
         RestoreCovered(t)', ReplacedCovered(t)', CreatesAlone(t)',
         req'[t].exam < nextId',
         \/ req'[t].exam \in {0, req[t].exam, nextId}
         \/ req'[t].exam \in Exams /\ row[req'[t].exam] # NoExam,
         pc'[t] = "purge" => row'[req'[t].exam] = NoExam
  PROVE  PdfOK'
<1>1. \A x \in Exams : \A p : x # z /\ Covered(x, p) => Covered(x, p)'
  BY CoveredStays
<1>2. ASSUME NEW x \in Exams  PROVE RowCovered(x)'
  <2>1. SUFFICES ASSUME Filed(x)', ~Covered(x, row[x].pdf)'
                 PROVE  \E u \in Threads : Restoring(u, x)'
    BY DEF RowCovered
  <2>2. Filed(x) /\ row'[x].pdf = row[x].pdf /\ x # z
    BY <2>1 DEF Filed, FilesStay
  <2>3. ~Covered(x, row[x].pdf)
    <3>1. PICK p : p = row[x].pdf
      OBVIOUS
    <3>2. ~Covered(x, p)'
      BY <2>1, <2>2, <3>1 DEF Covered, Replacing
    <3> QED  BY <1>1, <2>2, <3>1, <3>2
  <2>4. PICK u \in Threads : Restoring(u, x)
    BY <2>2, <2>3 DEF PdfOK, RowCovered
  <2>5. CASE u = t
    BY <2>1, <2>4, <2>5
  <2>6. CASE u # t
    BY <2>4, <2>6 DEF Restoring, Elsewhere
  <2> QED  BY <2>5, <2>6
<1>3. ASSUME NEW u \in Threads \ {t}
      PROVE  RestoreCovered(u)' /\ ReplacedCovered(u)' /\ CreatesAlone(u)'
  <2>1. /\ pc'[u] = pc[u] /\ req'[u] = req[u] /\ seen'[u] = seen[u]
        /\ RestoreCovered(u) /\ ReplacedCovered(u) /\ CreatesAlone(u)
    BY DEF Elsewhere, PdfOK
  <2>2. pc[u] \in {"update", "write", "upload", "add", "purge"} => req[u].exam \in Exams
    BY DEF StoreInv, Carries, Placed
  <2>3. RestoreCovered(u)'
    <3>1. SUFFICES ASSUME req[u].op = "restore-pdf"
                   PROVE  /\ pc[u] \in {"update", "write"} /\ env'["r2_failure"] = 1
                          /\ Filed(req[u].exam)' => Covered(req[u].exam, req[u].pdf)'
      BY <2>1 DEF RestoreCovered, Filed
    <3>2. /\ pc[u] \in {"update", "write"} /\ env["r2_failure"] = 1
          /\ Filed(req[u].exam) => Covered(req[u].exam, req[u].pdf)
      BY <2>1, <3>1 DEF RestoreCovered
    <3>3. req[u].exam \in Exams
      BY <2>2, <3>2
    <3>4. PICK x, p : x = req[u].exam /\ p = req[u].pdf
      OBVIOUS
    <3>5. Filed(x)' => Covered(x, p)'
      BY <1>1, <3>2, <3>3, <3>4 DEF Filed, FilesStay
    <3>6. Covered(x, p)' => Covered(req[u].exam, req[u].pdf)'
      BY <2>1, <3>4 DEF Covered, Replacing
    <3> QED  BY <2>1, <3>2, <3>4, <3>5, <3>6 DEF Filed
  <2>4. ReplacedCovered(u)'
    <3>1. SUFFICES ASSUME pc[u] = "upload", req[u].op = "edit-pdf", Filed(req[u].exam)',
                          env'["r2_failure"] = 0
                   PROVE  \/ <<req[u].exam, seen[u].pdf>> \in objects'
                          \/ \E v \in Threads \ {u} : Replacing(v, req[u].exam, seen[u].pdf)'
      BY <2>1 DEF ReplacedCovered, Replacing, Filed
    <3>2. /\ Filed(req[u].exam) /\ env["r2_failure"] = 0 /\ req[u].exam # z
          /\ req[u].exam \in Exams
      BY <2>1, <2>2, <3>1 DEF Filed, FilesStay
    <3>3. CASE <<req[u].exam, seen[u].pdf>> \in objects
      BY <3>2, <3>3
    <3>4. ASSUME NEW v \in Threads \ {u}, Replacing(v, req[u].exam, seen[u].pdf)
          PROVE  \/ <<req[u].exam, seen[u].pdf>> \in objects'
                 \/ Replacing(v, req[u].exam, seen[u].pdf)'
      <4>1. CASE v = t
        <5>1. PICK x, p : x = req[u].exam /\ p = seen[u].pdf
          OBVIOUS
        <5>2. <<x, p>> \in objects' \/ Replacing(t, x, p)'
          BY <3>4, <4>1, <5>1
        <5> QED  BY <2>1, <4>1, <5>1, <5>2 DEF Replacing
      <4>2. CASE v # t
        BY <2>1, <3>4, <4>2 DEF Replacing, Elsewhere
      <4> QED  BY <4>1, <4>2
    <3> QED  BY <2>1, <3>1, <3>2, <3>3, <3>4 DEF ReplacedCovered
  <2>5. CreatesAlone(u)'
    <3>1. SUFFICES ASSUME req[u].op = "create", pc[u] \in {"upload", "add"}
                   PROVE  /\ row'[req[u].exam] = NoExam
                          /\ \A v \in Threads \ {u} : req'[v].exam # req[u].exam
                          /\ pc[u] = "add" /\ req[u].file => <<req[u].exam, req[u].pdf>> \in objects'
      BY <2>1 DEF CreatesAlone
    <3>2. /\ row[req[u].exam] = NoExam /\ req[u].exam \in Exams
          /\ \A v \in Threads \ {u} : req[v].exam # req[u].exam
          /\ pc[u] = "add" /\ req[u].file => <<req[u].exam, req[u].pdf>> \in objects
      BY <2>1, <2>2, <3>1 DEF CreatesAlone
    <3>3. req[u].exam # 0 /\ req[u].exam < nextId /\ req[u].exam # z
      BY <3>1, <3>2 DEF Exams, PdfOK, Numbered
    <3>4. req'[t].exam # req[u].exam
      BY <3>2, <3>3
    <3>5. \A v \in Threads \ {u} : req'[v].exam # req[u].exam
      BY <3>2, <3>4 DEF Elsewhere
    <3> QED  BY <3>2, <3>3, <3>5 DEF FilesStay
  <2> QED  BY <2>3, <2>4, <2>5
<1>4. Numbered'
  <2>1. \A u \in Threads : req[u].exam \in Int
    BY DEF StoreInv, StoreTypeOK, Request, Exams
  <2>2. \A u \in Threads : req'[u].exam < nextId'
    BY <2>1 DEF Elsewhere, PdfOK, Numbered
  <2>3. \A x \in Exams : x >= nextId' => row'[x] = NoExam
    BY DEF PdfOK, Numbered, Exams, FilesStay
  <2>4. \A u \in Threads : pc'[u] = "purge" => row'[req'[u].exam] = NoExam
    <3>1. \A u \in Threads : pc[u] = "purge" => req[u].exam \in Exams
      BY DEF StoreInv, Carries, Placed
    <3> QED  BY <3>1 DEF Elsewhere, PdfOK, Numbered, FilesStay
  <2> QED  BY <2>2, <2>3, <2>4 DEF Numbered
<1> QED  BY <1>2, <1>3, <1>4 DEF PdfOK

\* A step of a thread that is not busy with a PDF, before and after.
LEMMA PdfSimple ==
  ASSUME StoreInv, PdfOK, NEW t \in Threads, Elsewhere(t), objects' = objects, nextId' = nextId,
         env'["r2_failure"] = env["r2_failure"],
         NamesStay,
         TokensApart',
         req[t].op # "restore-pdf", req'[t].op # "restore-pdf",
         ~(pc[t] = "upload" /\ req[t].op = "edit-pdf"),
         ~(pc'[t] = "upload" /\ req'[t].op = "edit-pdf"),
         ~(pc'[t] \in {"upload", "add"} /\ req'[t].op = "create"),
         \/ req'[t].exam \in {0, req[t].exam}
         \/ req'[t].exam \in Exams /\ row[req'[t].exam] # NoExam,
         pc'[t] = "purge" => row'[req'[t].exam] = NoExam
  PROVE  PdfOK'
<1>1. nextId \in Int /\ 0 < nextId /\ 0 \notin Exams
  BY NextIdFacts DEF PdfOK
<1>2. req'[t].exam < nextId'
  <2>1. req[t].exam < nextId /\ req[t].exam \in Int
    BY DEF PdfOK, Numbered, StoreInv, StoreTypeOK, Request, Exams
  <2>3. \A x \in Exams : row[x] # NoExam => x < nextId
    BY <1>1 DEF PdfOK, Numbered, Exams
  <2> QED  BY <1>1, <2>1, <2>3
<1>3. RestoreCovered(t)' /\ ReplacedCovered(t)' /\ CreatesAlone(t)'
  BY DEF RestoreCovered, ReplacedCovered, CreatesAlone
<1>4. \A x, p : ~Replacing(t, x, p) /\ ~Restoring(t, x)
  BY DEF Replacing, Restoring
<1>5. \A u \in Threads : req[u].op = "create" /\ pc[u] \in {"upload", "add"} => req[u].exam # 0
  BY <1>1 DEF StoreInv, Carries, Placed
<1>6. nextId <= nextId'
  BY <1>1
<1> HIDE DEF PdfOK
<1> QED  BY <1>1, <1>2, <1>3, <1>4, <1>5, <1>6, PdfFrame DEF NamesStay, Filed

LEMMA CalmNow ==
  ASSUME StoreInv, Calm'
  PROVE  /\ ~Occur("stmt_failure") /\ ~Occur("reply_lost") /\ ~Occur("crash")
         /\ Occur("r2_failure") => env["r2_failure"] = 0 /\ env'["r2_failure"] = 1
<1>1. env \in [Events -> Nat]
  BY DEF StoreInv, StoreTypeOK
<1>2. /\ env'["stmt_failure"] = 0 /\ env'["reply_lost"] = 0 /\ env'["crash"] = 0
      /\ env'["r2_failure"] <= 1
  BY DEF Calm, Undamaged
<1>3. ~Occur("stmt_failure") /\ ~Occur("reply_lost") /\ ~Occur("crash")
  BY <1>1, <1>2, OccurFacts, EventNames
<1>4. Occur("r2_failure") => env'["r2_failure"] = env["r2_failure"] + 1
  BY <1>1, EventNames DEF Occur
<1>5. env["r2_failure"] \in Nat
  BY <1>1, EventNames
<1> QED  BY <1>2, <1>3, <1>4, <1>5

\* What the threads do when a request begins and when it ends.
LEMMA DoneFacts ==
  ASSUME StoreInv, NEW t \in Threads, Done(t)
  PROVE  /\ pc'[t] = "idle" /\ req'[t].op = "none" /\ req'[t].exam = 0
         /\ Elsewhere(t)
  BY DEF Done, StoreInv, StoreTypeOK, NoRequest, Elsewhere

LEMMA GotoFacts ==
  ASSUME StoreInv, NEW t \in Threads, NEW p \in Places, Goto(t, p)
  PROVE  pc'[t] = p /\ req' = req /\ seen' = seen /\ Elsewhere(t)
  BY DEF Goto, StoreInv, StoreTypeOK, Elsewhere

LEMMA TokensSame ==
  ASSUME TokensApart, UNCHANGED row
  PROVE  TokensApart'
  BY DEF TokensApart, Taken

LEMMA PdfAsk ==
  ASSUME StoreInv, PdfOK, NEW t \in Threads,
         \/ AskTokenMode(t) \/ AskLifecycle(t) \/ AskDelegate(t) \/ AskSchedule(t)
         \/ AskRegenerate(t) \/ AskEditToken(t) \/ AskEditPdf(t) \/ AskExpire(t)
         \/ AskDelete(t) \/ Join(t)
  PROVE  PdfOK'
<1> USE DEF tables, threads, bounds, past
<1>1. UNCHANGED <<row, objects, nextId, env>>
  BY DEF AskTokenMode, AskLifecycle, AskDelegate, AskChange, AskSchedule, AskRegenerate,
     AskEditToken, AskEditPdf, AskExpire, AskDelete, Join
<1>2. Elsewhere(t) /\ pc[t] = "idle"
  BY AskStep DEF Handled
<1>3. req[t].op # "restore-pdf"
  BY <1>2 DEF PdfOK, RestoreCovered
<1>4. ASSUME NEW q, NEW x \in Exams, NEW p \in {"update", "claim", "remove", "rotate"},
             Begin(t, q, p), row[x] # NoExam, q.exam = x, q.op # "restore-pdf"
      PROVE  PdfOK'
  <2>1. req'[t] = q /\ pc'[t] = p
    BY <1>4 DEF Begin, StoreInv, StoreTypeOK
  <2>2. TokensApart'
    BY <1>1, TokensSame DEF PdfOK
  <2>3. NamesStay
    BY <1>1 DEF NamesStay, FilesStay
  <2> QED  BY <1>1, <1>2, <1>3, <1>4, <2>1, <2>2, <2>3, PdfSimple
<1>5. CASE AskTokenMode(t) \/ AskLifecycle(t) \/ AskDelegate(t)
  <2>1. PICK op \in {"static", "dynamic", "toggle", "start", "stop", "other"}, x \in Exams :
          row[x] # NoExam /\ Begin(t, Asked(op, x), "update")
    BY <1>5 DEF AskTokenMode, AskLifecycle, AskDelegate, AskChange
  <2> QED  BY <1>4, <2>1, AskedFacts DEF Ops
<1>6. CASE AskSchedule(t)
  <2>1. PICK x \in Exams, e \in Time \cup {Never} :
          row[x] # NoExam /\ Begin(t, [Asked("schedule", x) EXCEPT !.now = e], "update")
    BY <1>6 DEF AskSchedule
  <2>2. PICK q : q = [Asked("schedule", x) EXCEPT !.now = e]
    OBVIOUS
  <2>3. q.op = "schedule" /\ q.exam = x
    BY <2>2 DEF Asked, NoRequest
  <2> QED  BY <1>4, <2>1, <2>2, <2>3
<1>7. CASE AskRegenerate(t)
  <2>1. PICK x \in Exams :
          row[x] # NoExam /\ Begin(t, [Asked("regenerate", x) EXCEPT !.tok = Generated], "update")
    BY <1>7 DEF AskRegenerate
  <2>2. PICK q : q = [Asked("regenerate", x) EXCEPT !.tok = Generated]
    OBVIOUS
  <2>3. q.op = "regenerate" /\ q.exam = x
    BY <2>2 DEF Asked, NoRequest
  <2> QED  BY <1>4, <2>1, <2>2, <2>3
<1>8. CASE AskEditToken(t)
  <2>1. PICK x \in Exams, tok \in Tokens :
          row[x] # NoExam /\ Begin(t, [Asked("edit-token", x) EXCEPT !.tok = tok], "claim")
    BY <1>8 DEF AskEditToken
  <2>2. PICK q : q = [Asked("edit-token", x) EXCEPT !.tok = tok]
    OBVIOUS
  <2>3. q.op = "edit-token" /\ q.exam = x
    BY <2>2 DEF Asked, NoRequest
  <2> QED  BY <1>4, <2>1, <2>2, <2>3
<1>9. CASE AskEditPdf(t)
  <2>1. PICK x \in Exams, p \in Pdfs :
          row[x] # NoExam /\ Begin(t, [Asked("edit-pdf", x) EXCEPT !.pdf = p], "update")
    BY <1>9 DEF AskEditPdf
  <2>2. PICK q : q = [Asked("edit-pdf", x) EXCEPT !.pdf = p]
    OBVIOUS
  <2>3. q.op = "edit-pdf" /\ q.exam = x
    BY <2>2 DEF Asked, NoRequest
  <2> QED  BY <1>4, <2>1, <2>2, <2>3
<1>10. CASE AskExpire(t)
  <2>1. PICK x \in Exams :
          row[x] # NoExam /\ Begin(t, Asked("expire", x), "update")
    BY <1>10 DEF AskExpire
  <2>2. PICK q : q = Asked("expire", x)
    OBVIOUS
  <2>3. q.op = "expire" /\ q.exam = x
    BY <2>2 DEF Asked, NoRequest
  <2> QED  BY <1>4, <2>1, <2>2, <2>3
<1>11. CASE AskDelete(t)
  <2>1. PICK x \in Exams :
          row[x] # NoExam /\ Begin(t, [Asked("delete", x) EXCEPT !.pdf = row[x].pdf], "remove")
    BY <1>11 DEF AskDelete
  <2>2. PICK q : q = [Asked("delete", x) EXCEPT !.pdf = row[x].pdf]
    OBVIOUS
  <2>3. q.op = "delete" /\ q.exam = x
    BY <2>2 DEF Asked, NoRequest
  <2> QED  BY <1>4, <2>1, <2>2, <2>3
<1>12. CASE Join(t)
  <2>1. PICK x \in Exams :
          /\ row[x] # NoExam
          /\ Begin(t, [Asked("sync", x) EXCEPT !.tok = Generated, !.now = clock], "rotate")
    BY <1>12 DEF Join
  <2>2. PICK q : q = [Asked("sync", x) EXCEPT !.tok = Generated, !.now = clock]
    OBVIOUS
  <2>3. q.op = "sync" /\ q.exam = x
    BY <2>2 DEF Asked, NoRequest
  <2> QED  BY <1>4, <2>1, <2>2, <2>3
<1> QED  BY <1>5, <1>6, <1>7, <1>8, <1>9, <1>10, <1>11, <1>12

\* Steps that do not concern the name of a PDF.
LEMMA PdfOther ==
  ASSUME StoreInv, PdfOK, NEW t \in Threads, Calm',
         AskCreate(t) \/ SetAuto(t) \/ Rotate(t) \/ Finish(t)
  PROVE  PdfOK'
<1> USE DEF tables, threads, bounds, past
<1>1. /\ ~Occur("stmt_failure") /\ ~Occur("reply_lost")
      /\ RestoreCovered(t) /\ TokensApart
  BY CalmNow DEF PdfOK
<1>2. CASE AskCreate(t)
  <2>1. PICK pdf \in Pdfs, file \in BOOLEAN, tok \in Tokens, k \in Keys \cup {NoKey},
             p \in {"claim", "release"} :
          Begin(t, [NoRequest EXCEPT !.op = "create", !.tok = tok, !.pdf = pdf, !.file = file, !.key = k], p)
    BY <1>1, <1>2 DEF AskCreate
  <2>2. PICK q : q = [NoRequest EXCEPT !.op = "create", !.tok = tok, !.pdf = pdf, !.file = file, !.key = k]
    OBVIOUS
  <2>3. q.op = "create" /\ q.exam = 0
    BY <2>2 DEF NoRequest
  <2>4. req'[t] = q /\ pc'[t] = p /\ pc[t] = "idle"
    BY <2>1, <2>2 DEF Begin, StoreInv, StoreTypeOK
  <2>5. UNCHANGED <<row, objects, nextId, env>> /\ Elsewhere(t)
    BY <1>1, <1>2, AskCreateStep DEF AskCreate, Handled
  <2>6. TokensApart' /\ req[t].op # "restore-pdf"
    BY <1>1, <2>4, <2>5, TokensSame DEF RestoreCovered
  <2>7. NamesStay
    BY <2>5 DEF NamesStay, FilesStay
  <2> QED  BY <2>3, <2>4, <2>5, <2>6, <2>7, PdfSimple
<1>3. CASE SetAuto(t)
  <2>1. PICK x \in Exams : AutoOnly(x)
    BY <1>3, SetAutoStep
  <2>2. /\ UNCHANGED <<pc, req, objects, nextId, env>> /\ Elsewhere(t) /\ pc[t] = "idle"
    BY <1>3, SetAutoStep DEF SetAuto, Handled
  <2>3. PICK e \in ExamRow : e = [row[x] EXCEPT !.auto = ~@] /\ row' = [row EXCEPT ![x] = e]
    BY <2>1, AutoFacts DEF AutoOnly
  <2>4. /\ e.pdf = row[x].pdf /\ e.file = row[x].file /\ e.token = row[x].token
        /\ row[x] # NoExam /\ e # NoExam
    BY <2>1, <2>3, NoExamAssumption DEF AutoOnly, ExamRow
  <2>5. TokensApart'
    BY <1>1, <2>3, <2>4, TokensStay DEF TokensApart
  <2>6. NamesStay
    BY <2>3, <2>4 DEF NamesStay, FilesStay, StoreInv, StoreTypeOK
  <2>7. req[t].op # "restore-pdf"
    BY <1>1, <2>2 DEF RestoreCovered
  <2> QED  BY <2>2, <2>5, <2>6, <2>7, PdfSimple
<1>4. CASE Rotate(t)
  <2>1. PICK x \in Exams : x = req[t].exam
    BY <1>4 DEF Rotate, StoreInv, Carries, Placed
  <2>2. /\ UNCHANGED <<objects, nextId, env>> /\ Elsewhere(t) /\ pc[t] = "rotate"
        /\ req[t].op = "sync" /\ req[t].tok \in Tokens /\ req[t].now \in Time
    BY <1>1, <1>4, RotateStep DEF Rotate, Handled, StoreInv, Carries, Placed
  <2>3. TokensApart' /\ NamesStay
    <3>1. CASE UNCHANGED row
      BY <1>1, <3>1, TokensSame DEF NamesStay, FilesStay
    <3>2. CASE row' # row
      <4>1. row[x] \in ExamRow /\ row' = [row EXCEPT ![x] = Rotated(req[t], row[x])]
        BY <1>4, <2>1, <3>2, RotateStep
      <4>2. PICK e \in ExamRow : e = Rotated(req[t], row[x])
        BY <2>2, <4>1, RotatedFacts
      <4>3. /\ e.pdf = row[x].pdf /\ e.file = row[x].file /\ e.token = row[x].token
        /\ row[x] # NoExam /\ e # NoExam
        BY <4>1, <4>2, NoExamAssumption DEF Rotated, ExamRow
      <4>4. TokensApart'
        BY <1>1, <4>1, <4>2, <4>3, TokensStay DEF TokensApart
      <4> QED  BY <4>1, <4>2, <4>3, <4>4 DEF NamesStay, FilesStay, StoreInv, StoreTypeOK
    <3> QED  BY <3>1, <3>2
  <2>4. /\ pc'[t] \in {"idle", "update"} /\ req'[t].exam \in {0, req[t].exam}
        /\ req'[t].op \in {"none", "sync", "rotate"}
    <3>1. Done(t) \/ Goto(t, "update")
          \/ (req' = [req EXCEPT ![t].op = "rotate"] /\ pc' = [pc EXCEPT ![t] = "update"])
      BY <1>4 DEF Rotate
    <3>2. CASE Done(t)
      BY <3>2, DoneFacts
    <3>3. CASE Goto(t, "update")
      BY <2>2, <3>3, GotoFacts DEF Places
    <3>4. CASE req' = [req EXCEPT ![t].op = "rotate"] /\ pc' = [pc EXCEPT ![t] = "update"]
      <4>1. req'[t] = [req[t] EXCEPT !.op = "rotate"] /\ req[t] \in Request /\ pc'[t] = "update"
        BY <3>4 DEF StoreInv, StoreTypeOK
      <4> QED  BY <4>1 DEF Request
    <3> QED  BY <3>1, <3>2, <3>3, <3>4
  <2> QED  BY <2>2, <2>3, <2>4, PdfSimple
<1>5. CASE Finish(t)
  <2>1. UNCHANGED <<row, objects, nextId, env>> /\ Done(t) /\ pc[t] \in {"finalize", "release"}
    BY <1>1, <1>5 DEF Finish
  <2>2. TokensApart' /\ req[t].op # "restore-pdf"
    BY <1>1, <2>1, TokensSame DEF RestoreCovered
  <2>3. NamesStay
    BY <2>1 DEF NamesStay, FilesStay
  <2> QED  BY <2>1, <2>2, <2>3, DoneFacts, PdfSimple
<1> QED  BY <1>2, <1>3, <1>4, <1>5

\* The SELECT of update().
LEMMA PdfRead ==
  ASSUME StoreInv, PdfOK, NEW t \in Threads, Calm', UpdateRead(t)
  PROVE  PdfOK'
<1> USE DEF tables, threads, bounds, past
<1>1. PICK x \in Exams : x = req[t].exam
  BY DEF UpdateRead, StoreInv, Carries, Placed
<1>2. /\ UNCHANGED <<row, objects, nextId, env>> /\ Elsewhere(t) /\ pc[t] = "update"
      /\ RestoreCovered(t) /\ Numbered /\ TokensApart'
  BY CalmNow, UpdateReadStep, TokensSame DEF UpdateRead, Handled, PdfOK
<1>3. NamesStay
  BY <1>2 DEF NamesStay, FilesStay
<1>4. \/ row[x] = NoExam /\ Done(t)
      \/ /\ pc'[t] = "write" /\ req'[t].exam = x /\ req'[t].op = req[t].op
         /\ req'[t].pdf = req[t].pdf
  <2>1. CASE row[x] = NoExam
    BY <1>1, <2>1 DEF UpdateRead
  <2>2. CASE row[x] # NoExam
    <3>1. /\ pc' = [pc EXCEPT ![t] = "write"]
          /\ req'  = IF req[t].op \in ReadsClock
                     THEN [req EXCEPT ![t].now = clock] ELSE req
      BY <1>1, <2>2, CalmNow DEF UpdateRead
    <3>2. pc'[t] = "write" /\ req[t] \in Request
          /\ req'[t] \in {req[t], [req[t] EXCEPT !.now = clock]}
      BY <3>1 DEF StoreInv, StoreTypeOK
    <3> QED  BY <1>1, <3>2 DEF Request
  <2> QED  BY <2>1, <2>2
<1>5. CASE req[t].op # "restore-pdf"
  <2>1. req'[t].op # "restore-pdf" /\ pc'[t] \in {"idle", "write"}
        /\ req'[t].exam \in {0, req[t].exam}
    BY <1>1, <1>4, <1>5, DoneFacts
  <2> QED  BY <1>2, <1>3, <1>5, <2>1, PdfSimple
<1>6. CASE req[t].op = "restore-pdf"
  <2>1. /\ env["r2_failure"] = 1 /\ nextId \in Int /\ 0 < nextId /\ x < nextId
        /\ 0 \notin Exams /\ env'["r2_failure"] = 1
    BY <1>1, <1>2, <1>6, NextIdFacts DEF RestoreCovered, Numbered
  <2>2. /\ req'[t].exam < nextId' /\ req'[t].exam \in {0, req[t].exam, nextId}
        /\ pc'[t] \in {"idle", "write"}
        /\ req'[t].op \in {"none", "restore-pdf"}
    BY <1>1, <1>2, <1>4, <1>6, <2>1, DoneFacts
  <2>3. RestoreCovered(t)'
    <3>1. CASE Done(t)
      BY <3>1, DoneFacts DEF RestoreCovered
    <3>2. CASE pc'[t] = "write" /\ req'[t].exam = x /\ req'[t].pdf = req[t].pdf
      <4>1. PICK p : p = req[t].pdf
        OBVIOUS
      <4>2. Filed(x) => Covered(x, p)
        BY <1>1, <1>2, <1>6, <4>1 DEF RestoreCovered
      <4>3. \A u \in Threads : Replacing(u, x, p) => Replacing(u, x, p)'
        BY <1>2 DEF Replacing, Elsewhere
      <4>4. Filed(x)' => Covered(x, p)'
        BY <1>2, <4>2, <4>3 DEF Covered, Filed
      <4> QED  BY <2>1, <3>2, <4>1, <4>4 DEF RestoreCovered, Covered, Replacing, Filed
    <3> QED  BY <1>4, <3>1, <3>2
  <2>4. ReplacedCovered(t)' /\ CreatesAlone(t)'
    BY <2>2 DEF ReplacedCovered, CreatesAlone
  <2>5. \A y, p : ~Replacing(t, y, p)
    BY <1>2 DEF Replacing
  <2>6. \A y \in Exams : Restoring(t, y) /\ Filed(y)'
                         => Restoring(t, y)' \/ Covered(y, row[y].pdf)'
    BY <1>1, <1>2, <1>4, <1>6 DEF Restoring, Filed
  <2>7. \A u \in Threads : req[u].op = "create" /\ pc[u] \in {"upload", "add"} => req[u].exam # 0
    BY <2>1 DEF StoreInv, Carries, Placed
  <2>8. env'["r2_failure"] \in {env["r2_failure"], 1} /\ nextId' \in Int /\ nextId <= nextId'
        /\ (0 \in Exams => row'[0] = NoExam) /\ (pc'[t] = "purge" => row'[req'[t].exam] = NoExam)
    BY <1>2, <2>1, <2>2
  <2>9. \A y \in Exams : \A p : y # 0 /\ <<y, p>> \in objects => <<y, p>> \in objects'
    BY <1>2
  <2> HIDE DEF PdfOK
  <2> QED  BY <1>2, <1>3, <2>1, <2>2, <2>3, <2>4, <2>5, <2>6, <2>7, <2>8, <2>9, PdfFrame
           DEF NamesStay, Filed
<1> QED  BY <1>5, <1>6

\* The UPDATE of update().
LEMMA PdfWrite ==
  ASSUME StoreInv, SerialUpdates, PdfOK, NEW t \in Threads, Calm', UpdateWrite(t)
  PROVE  PdfOK'
<1> USE DEF tables, threads, bounds, past
<1>1. PICK x \in Exams : x = req[t].exam
  BY DEF UpdateWrite, StoreInv, Carries, Placed
<1>2. PICK q \in Request : q = req[t] /\ q.exam = x
  BY <1>1 DEF StoreInv, StoreTypeOK
<1>3. PICK e \in ExamRow : e = seen[t]
  BY DEF UpdateWrite, StoreInv, Carries, Placed
<1>4. PICK new \in ExamRow : new = Mutated(q, e)
  BY <1>2, <1>3, MutatedFacts DEF UpdateWrite, StoreInv, Carries, Placed
<1>5. /\ row[x] # NoExam /\ e.token = row[x].token /\ e.pdf = row[x].pdf
      /\ e.file = row[x].file
      /\ pc[t] = "write" /\ new # NoExam
      /\ RestoreCovered(t) /\ Numbered /\ TokensApart /\ RowCovered(x)
  BY <1>1, <1>2, <1>3, NoExamAssumption DEF UpdateWrite, SerialUpdates, Owned, PdfOK
<1>6. /\ UNCHANGED <<objects, nextId, env>> /\ Elsewhere(t)
      /\ \/ UNCHANGED row /\ Done(t) /\ Taken(new.token, x)
         \/ /\ row' = [row EXCEPT ![x] = new] /\ ~Taken(new.token, x)
            /\ IF q.op = "edit-pdf" THEN Goto(t, "upload") ELSE Done(t)
  BY <1>1, <1>2, <1>3, <1>4, CalmNow, UpdateWriteStep DEF UpdateWrite, Handled
<1>7. TokensApart'
  BY <1>5, <1>6, TokensSame, TokensStay
<1>8. ASSUME row' = [row EXCEPT ![x] = new]
      PROVE  row'[x] = new /\ \A y \in Exams \ {x} : row'[y] = row[y]
  BY <1>8 DEF StoreInv, StoreTypeOK
<1>9. CASE \/ q.op \notin {"edit-pdf", "restore-pdf"}
           \/ q.op = "edit-pdf" /\ UNCHANGED row /\ Done(t)
  <2>1. NamesStay
    <3>1. CASE UNCHANGED row
      BY <3>1 DEF NamesStay, FilesStay
    <3>2. CASE q.op \notin {"edit-pdf", "restore-pdf"} /\ row' = [row EXCEPT ![x] = new]
      BY <1>4, <1>5, <1>8, <3>2, MutatedPdf DEF NamesStay, FilesStay
    <3> QED  BY <1>6, <1>9, <3>1, <3>2
  <2>2. Done(t)
    BY <1>6, <1>9
  <2>3. req[t].op # "restore-pdf"
    BY <1>2, <1>9
  <2> QED  BY <1>5, <1>6, <1>7, <2>1, <2>2, <2>3, DoneFacts, PdfSimple
\* A common part of the two cases that write the name.
<1>10. /\ nextId \in Int /\ nextId' \in Int /\ nextId <= nextId' /\ 0 < nextId /\ x < nextId
       /\ 0 \notin Exams /\ env'["r2_failure"] \in {env["r2_failure"], 1}
       /\ \A y \in Exams : \A p : y # 0 /\ <<y, p>> \in objects => <<y, p>> \in objects'
       /\ \A y, p : ~Replacing(t, y, p)
       /\ \A u \in Threads : req[u].op = "create" /\ pc[u] \in {"upload", "add"} => req[u].exam # 0
  <2>1. nextId \in Int /\ 0 < nextId /\ x < nextId /\ 0 \notin Exams
    BY <1>1, <1>5, NextIdFacts DEF Numbered
  <2>2. \A u \in Threads : req[u].op = "create" /\ pc[u] \in {"upload", "add"} => req[u].exam # 0
    BY <2>1 DEF StoreInv, Carries, Placed
  <2>3. \A y, p : ~Replacing(t, y, p)
    BY <1>5 DEF Replacing
  <2> QED  BY <1>6, <2>1, <2>2, <2>3
<1>11. CASE q.op = "edit-pdf" /\ row' = [row EXCEPT ![x] = new] /\ Goto(t, "upload")
  <2>1. new.pdf = q.pdf /\ pc'[t] = "upload" /\ req' = req /\ seen' = seen
    BY <1>4, <1>11, MutatedPdf, GotoFacts DEF Places
  <2>2. Replacing(t, x, q.pdf)'
    BY <1>1, <1>2, <1>11, <2>1 DEF Replacing
  <2>3. FilesStay /\ \A y \in Exams : Filed(y)' => row'[y].pdf = row[y].pdf \/ Covered(y, row[y].pdf)'
    <3>1. Covered(x, row[x].pdf)'
      BY <1>8, <1>11, <2>1, <2>2 DEF Covered, Replacing
    <3> QED  BY <1>4, <1>5, <1>8, <1>11, <3>1, MutatedPdf DEF FilesStay
  <2>4. RestoreCovered(t)' /\ CreatesAlone(t)'
    BY <1>2, <1>11, <2>1 DEF RestoreCovered, CreatesAlone
  <2>5. ReplacedCovered(t)'
    <3>1. SUFFICES ASSUME env["r2_failure"] = 0, Filed(x)
                   PROVE  \/ <<x, e.pdf>> \in objects
                          \/ \E u \in Threads \ {t} : Replacing(u, x, e.pdf)'
      BY <1>1, <1>3, <1>4, <1>5, <1>6, <1>8, <1>11, <2>1, MutatedPdf
      DEF ReplacedCovered, Replacing, Filed
    <3>2. \A u \in Threads : ~Restoring(u, x)
      BY <3>1 DEF PdfOK, RestoreCovered, Restoring
    <3>3. Covered(x, e.pdf)
      BY <1>5, <3>1, <3>2 DEF RowCovered
    <3>4. \A u \in Threads : Replacing(u, x, e.pdf) => u # t /\ Replacing(u, x, e.pdf)'
      BY <1>6, <1>10 DEF Replacing, Elsewhere
    <3> QED  BY <3>3, <3>4 DEF Covered
  <2>6. \A y \in Exams : Restoring(t, y) /\ Filed(y)'
                         => Restoring(t, y)' \/ Covered(y, row[y].pdf)'
    BY <1>2, <1>11 DEF Restoring
  <2>7. /\ req'[t].exam < nextId' /\ req'[t].exam \in {0, req[t].exam, nextId}
        /\ pc'[t] # "purge"
    BY <1>1, <1>6, <1>10, <2>1
  <2> HIDE DEF PdfOK
  <2> QED  BY <1>6, <1>7, <1>10, <2>3, <2>4, <2>5, <2>6, <2>7, PdfFrame
<1>12. CASE q.op = "restore-pdf"
  <2>1. new.token = row[x].token /\ new.pdf = q.pdf
    BY <1>4, <1>5, <1>12, MutatedToken, MutatedPdf
  <2>2. ~Taken(new.token, x)
    BY <1>5, <2>1 DEF TokensApart
  <2>3. row' = [row EXCEPT ![x] = new] /\ Done(t)
    BY <1>6, <1>12, <2>2
  <2>4. pc'[t] = "idle" /\ req'[t].op = "none" /\ req'[t].exam = 0
    BY <2>3, DoneFacts
  <2>5. Filed(x) => Covered(x, q.pdf)
    BY <1>1, <1>2, <1>5, <1>12 DEF RestoreCovered
  <2>6. Filed(x)' => Covered(x, row[x].pdf)'
    <3>1. PICK p : p = q.pdf
      OBVIOUS
    <3>2. \A u \in Threads : Replacing(u, x, p) => Replacing(u, x, p)'
      BY <1>6, <1>10 DEF Replacing, Elsewhere
    <3>3. row'[x].pdf = p
      BY <1>8, <2>1, <2>3, <3>1
    <3>4. Filed(x)' => Filed(x)
      BY <1>4, <1>5, <1>8, <2>3, MutatedPdf DEF Filed
    <3> QED  BY <1>6, <2>5, <3>1, <3>2, <3>3, <3>4 DEF Covered, Replacing
  <2>7. FilesStay /\ \A y \in Exams : Filed(y)' => row'[y].pdf = row[y].pdf \/ Covered(y, row[y].pdf)'
    BY <1>4, <1>5, <1>8, <2>3, <2>6, MutatedPdf DEF FilesStay, Filed
  <2>8. RestoreCovered(t)' /\ CreatesAlone(t)' /\ ReplacedCovered(t)'
    BY <2>4 DEF RestoreCovered, CreatesAlone, ReplacedCovered
  <2>9. \A y \in Exams : Restoring(t, y) /\ Filed(y)'
                         => Restoring(t, y)' \/ Covered(y, row[y].pdf)'
    BY <1>1, <2>6 DEF Restoring
  <2>10. req'[t].exam < nextId' /\ req'[t].exam \in {0, req[t].exam, nextId} /\ pc'[t] # "purge"
    BY <1>6, <1>10, <2>4
  <2> HIDE DEF PdfOK
  <2> QED  BY <1>6, <1>7, <1>10, <2>7, <2>8, <2>9, <2>10, PdfFrame
<1> QED  BY <1>6, <1>9, <1>11, <1>12

\* A new number from the sequence.
LEMMA PdfClaim ==
  ASSUME StoreInv, PdfOK, NEW t \in Threads, Calm', Claim(t)
  PROVE  PdfOK'
<1> USE DEF tables, threads, bounds, past
<1>1. /\ UNCHANGED <<row, objects, env>> /\ Elsewhere(t) /\ pc[t] = "claim"
      /\ req[t].op \in {"create", "edit-token"} /\ Numbered /\ TokensApart'
      /\ req[t] \in Request /\ nextId \in Int /\ 0 < nextId
  BY CalmNow, ClaimStep, TokensSame, NextIdFacts
  DEF Claim, Handled, PdfOK, StoreInv, StoreTypeOK, Carries, Placed
<1>2. NamesStay
  BY <1>1 DEF NamesStay, FilesStay
<1>3. \/ UNCHANGED nextId /\ (Done(t) \/ Goto(t, "release"))
      \/ UNCHANGED nextId /\ Goto(t, "update")
      \/ /\ req[t].op = "create" /\ nextId \in Exams /\ nextId' = nextId + 1
         /\ req' = [req EXCEPT ![t].exam = nextId]
         /\ pc' = [pc EXCEPT ![t] = IF req[t].file THEN "upload" ELSE "add"]
         /\ UNCHANGED seen
  BY <1>1, CalmNow DEF Claim, Rejected, Numbers, NoSequence
<1>4. CASE UNCHANGED nextId /\ (Done(t) \/ Goto(t, "release") \/ Goto(t, "update"))
  <2>1. /\ pc'[t] \in {"idle", "release", "update"} /\ req'[t].exam \in {0, req[t].exam}
        /\ req'[t].op \in {"none", "create", "edit-token"}
    BY <1>1, <1>4, DoneFacts, GotoFacts DEF Places
  <2> QED  BY <1>1, <1>2, <1>4, <2>1, PdfSimple
<1>5. CASE /\ req[t].op = "create" /\ nextId \in Exams /\ nextId' = nextId + 1
           /\ req' = [req EXCEPT ![t].exam = nextId]
           /\ pc' = [pc EXCEPT ![t] = IF req[t].file THEN "upload" ELSE "add"]
  <2>1. /\ req'[t].exam = nextId /\ req'[t].op = "create" /\ req'[t].file = req[t].file
        /\ pc'[t] = IF req[t].file THEN "upload" ELSE "add"
    <3>1. /\ req'[t] = [req[t] EXCEPT !.exam = nextId]
          /\ pc'[t] = IF req[t].file THEN "upload" ELSE "add"
      BY <1>5 DEF StoreInv, StoreTypeOK
    <3> QED  BY <1>1, <1>5, <3>1 DEF Request
  <2>2. row[nextId] = NoExam /\ \A u \in Threads : req[u].exam # nextId
    <3>1. \A u \in Threads : req[u].exam < nextId /\ req[u].exam \in Int
      BY <1>1 DEF Numbered, StoreInv, StoreTypeOK, Request, Exams
    <3> QED  BY <1>1, <1>5, <3>1 DEF Numbered
  <2>3. CreatesAlone(t)'
    BY <1>1, <2>1, <2>2 DEF CreatesAlone, Elsewhere
  <2>4. RestoreCovered(t)' /\ ReplacedCovered(t)'
    BY <2>1 DEF RestoreCovered, ReplacedCovered
  <2>5. \A y, p : ~Replacing(t, y, p) /\ ~Restoring(t, y)
    BY <1>1 DEF Replacing, Restoring
  <2>6. /\ nextId' \in Int /\ nextId <= nextId' /\ req'[t].exam < nextId' /\ 0 \notin Exams
        /\ env'["r2_failure"] \in {env["r2_failure"], 1} /\ pc'[t] # "purge"
        /\ req'[t].exam \in {0, req[t].exam, nextId}
    BY <1>1, <1>5, <2>1 DEF Exams
  <2>7. \A u \in Threads : req[u].op = "create" /\ pc[u] \in {"upload", "add"} => req[u].exam # 0
    BY <2>6 DEF StoreInv, Carries, Placed
  <2> HIDE DEF PdfOK
  <2> QED  BY <1>1, <1>2, <2>3, <2>4, <2>5, <2>6, <2>7, PdfFrame
           DEF NamesStay, Filed
<1> QED  BY <1>3, <1>4, <1>5

\* Upload and HEAD: the first failure starts a restoration.
LEMMA PdfUpload ==
  ASSUME StoreInv, PdfOK, NEW t \in Threads, Calm', Upload(t)
  PROVE  PdfOK'
<1> USE DEF tables, threads, bounds, past
<1>1. PICK x \in Exams : x = req[t].exam
  BY DEF Upload, StoreInv, Carries, Placed
<1>2. PICK q \in Request : q = req[t] /\ q.exam = x /\ q.op \in {"create", "edit-pdf"}
  BY <1>1 DEF Upload, StoreInv, StoreTypeOK, Carries, Placed
<1>3. /\ UNCHANGED <<row, nextId>> /\ Elsewhere(t) /\ pc[t] = "upload"
      /\ Numbered /\ TokensApart' /\ CreatesAlone(t) /\ ReplacedCovered(t)
      /\ nextId \in Int /\ 0 < nextId /\ x < nextId /\ 0 \notin Exams
      /\ objects' \in {objects, objects \cup {<<x, q.pdf>>}}
      /\ nextId' \in Int /\ nextId <= nextId'
  <2>1. /\ UNCHANGED <<row, nextId>> /\ Elsewhere(t) /\ pc[t] = "upload"
        /\ Numbered /\ TokensApart' /\ CreatesAlone(t) /\ ReplacedCovered(t)
        /\ nextId \in Int /\ 0 < nextId /\ 0 \notin Exams
        /\ objects' \in {objects, objects \cup {<<x, q.pdf>>}}
    BY <1>1, <1>2, UploadStep, TokensSame, NextIdFacts
    DEF Upload, Handled, PdfOK, StoreInv, StoreTypeOK, Exams
  <2>2. x < nextId
    BY <1>1, <2>1 DEF Numbered
  <2> QED  BY <2>1, <2>2
<1>4. NamesStay
  BY <1>3 DEF NamesStay, FilesStay
<1>5. /\ \A y \in Exams : \A p : y # 0 /\ <<y, p>> \in objects => <<y, p>> \in objects'
      /\ \A y : ~Restoring(t, y)
      /\ \A u \in Threads : req[u].op = "create" /\ pc[u] \in {"upload", "add"} => req[u].exam # 0
  <2>1. \A u \in Threads : req[u].op = "create" /\ pc[u] \in {"upload", "add"} => req[u].exam # 0
    BY <1>3 DEF StoreInv, Carries, Placed
  <2> QED  BY <1>2, <1>3, <2>1 DEF Restoring
<1>6. \/ /\ objects' = objects \cup {<<x, q.pdf>>} /\ UNCHANGED env
         /\ IF q.op = "create" THEN Goto(t, "add") ELSE Done(t)
      \/ /\ env["r2_failure"] = 0 /\ env'["r2_failure"] = 1
         /\ IF q.op = "create" THEN Rejected(t) ELSE RestorePdf(t)
  BY <1>1, <1>2, CalmNow DEF Upload
\* An upload that succeeds, and a creation that fails.
<1>7. CASE \/ /\ objects' = objects \cup {<<x, q.pdf>>} /\ UNCHANGED env
              /\ IF q.op = "create" THEN Goto(t, "add") ELSE Done(t)
           \/ env'["r2_failure"] = 1 /\ q.op = "create" /\ Rejected(t)
  <2>1. \/ pc'[t] = "idle" /\ req'[t].op = "none" /\ req'[t].exam = 0
        \/ /\ pc'[t] = "add" /\ req' = req /\ q.op = "create"
           /\ <<x, q.pdf>> \in objects'
        \/ pc'[t] = "release" /\ req' = req /\ q.op = "create"
    BY <1>7, DoneFacts, GotoFacts DEF Rejected, Places
  <2>2. RestoreCovered(t)' /\ ReplacedCovered(t)'
    BY <1>2, <2>1 DEF RestoreCovered, ReplacedCovered
  <2>3. CreatesAlone(t)'
    BY <1>1, <1>2, <1>3, <2>1 DEF CreatesAlone, Elsewhere
  <2>4. \A y, p : Replacing(t, y, p) => <<y, p>> \in objects' \/ Replacing(t, y, p)'
    BY <1>1, <1>2, <1>7 DEF Replacing
  <2>5. /\ req'[t].exam < nextId' /\ req'[t].exam \in {0, req[t].exam, nextId}
        /\ pc'[t] # "purge" /\ env'["r2_failure"] \in {env["r2_failure"], 1}
    BY <1>1, <1>2, <1>3, <1>7, <2>1
  <2> HIDE DEF PdfOK
  <2> QED  BY <1>3, <1>4, <1>5, <2>2, <2>3, <2>4, <2>5, PdfFrame
           DEF NamesStay, Filed
\* A replacement that fails.
<1>8. CASE q.op = "edit-pdf" /\ env["r2_failure"] = 0 /\ env'["r2_failure"] = 1 /\ RestorePdf(t)
  <2>1. PICK p : p = seen[t].pdf
    OBVIOUS
  <2>2. /\ req'[t].op = "restore-pdf" /\ req'[t].exam = x /\ req'[t].pdf = p /\ pc'[t] = "update"
    <3>1. req'[t] = [q EXCEPT !.op = "restore-pdf", !.pdf = p] /\ pc'[t] = "update"
      BY <1>2, <1>8, <2>1 DEF RestorePdf, StoreInv, StoreTypeOK
    <3> QED  BY <1>2, <3>1 DEF Request
  <2>3. \A u \in Threads : req[u].op # "restore-pdf"
    BY <1>8 DEF PdfOK, RestoreCovered
  <2>4. \A y, v : <<y, v>> # <<x, q.pdf>> /\ Covered(y, v) => Covered(y, v)'
    <3>1. \A u \in Threads : \A y, v :
            Replacing(u, y, v) /\ <<y, v>> # <<x, q.pdf>> => Replacing(u, y, v)'
      BY <1>2, <1>3 DEF Replacing, Elsewhere
    <3> QED  BY <1>3, <3>1 DEF Covered
  <2>5. ASSUME NEW y \in Exams  PROVE RowCovered(y)'
    <3>1. CASE y = x
      BY <2>2, <3>1 DEF RowCovered, Restoring
    <3>2. CASE y # x
      <4>1. Filed(y) => Covered(y, row[y].pdf)
        BY <2>3 DEF PdfOK, RowCovered, Restoring
      <4>2. PICK v : v = row[y].pdf
        OBVIOUS
      <4>3. Filed(y) => Covered(y, v)'
        BY <2>4, <3>2, <4>1, <4>2
      <4> QED  BY <1>3, <4>2, <4>3 DEF RowCovered, Covered, Replacing, Filed
    <3> QED  BY <3>1, <3>2
  <2>6. RestoreCovered(t)'
    <3>1. Filed(x) => \/ <<x, p>> \in objects
                      \/ \E u \in Threads \ {t} : Replacing(u, x, p)
      BY <1>1, <1>2, <1>3, <1>8, <2>1 DEF ReplacedCovered
    <3>2. \A u \in Threads \ {t} : Replacing(u, x, p) => Replacing(u, x, p)'
      BY <1>3 DEF Replacing, Elsewhere
    <3>3. Filed(x)' => Covered(x, p)'
      BY <1>3, <3>1, <3>2 DEF Covered, Filed
    <3> QED  BY <1>8, <2>2, <3>3 DEF RestoreCovered, Covered, Replacing, Filed
  <2>7. \A u \in Threads \ {t} : RestoreCovered(u)'
    BY <1>3, <2>3 DEF RestoreCovered, Elsewhere
  <2>8. \A u \in Threads : ReplacedCovered(u)'
    BY <1>8 DEF ReplacedCovered
  <2>9. ASSUME NEW u \in Threads  PROVE CreatesAlone(u)'
    <3>1. CreatesAlone(u)
      BY DEF PdfOK
    <3>2. \A v \in Threads : req'[v].exam = req[v].exam
      BY <1>1, <1>3, <2>2 DEF Elsewhere
    <3>3. req'[u].op = "create" => u # t /\ pc'[u] = pc[u] /\ req'[u] = req[u]
      BY <1>3, <2>2 DEF Elsewhere
    <3> QED  BY <1>3, <3>1, <3>2, <3>3 DEF CreatesAlone
  <2>10. Numbered'
    <3>1. \A v \in Threads : req'[v].exam = req[v].exam /\ (pc'[v] = "purge" => pc[v] = "purge")
      BY <1>1, <1>3, <2>2 DEF Elsewhere
    <3> QED  BY <1>3, <3>1 DEF Numbered
  <2> QED  BY <1>3, <2>5, <2>6, <2>7, <2>8, <2>9, <2>10 DEF PdfOK
<1> QED  BY <1>2, <1>6, <1>7, <1>8

\* The INSERT, or the removal of the object when it was refused.
LEMMA PdfAdd ==
  ASSUME StoreInv, PdfOK, NEW t \in Threads, Calm', Add(t)
  PROVE  PdfOK'
<1> USE DEF tables, threads, bounds, past
<1>1. PICK x \in Exams : x = req[t].exam
  BY DEF Add, StoreInv, Carries, Placed
<1>2. PICK q \in Request : /\ q = req[t] /\ q.exam = x /\ q.op = "create"
                           /\ q.tok \in Tokens /\ q.pdf \in Pdfs
  BY <1>1 DEF Add, StoreInv, StoreTypeOK, Carries, Placed, Carried
<1>3. /\ UNCHANGED <<nextId, env>> /\ Elsewhere(t) /\ pc[t] = "add"
      /\ Numbered /\ TokensApart /\ row[x] = NoExam
      /\ q.file => <<x, q.pdf>> \in objects
      /\ \A u \in Threads \ {t} : req[u].exam # x
      /\ nextId \in Int /\ 0 < nextId /\ x < nextId
  <2>1. /\ UNCHANGED <<nextId, env>> /\ Elsewhere(t) /\ pc[t] = "add"
        /\ Numbered /\ TokensApart /\ CreatesAlone(t) /\ nextId \in Int /\ 0 < nextId
    BY CalmNow, AddStep, NextIdFacts DEF Add, Handled, PdfOK
  <2> QED  BY <1>1, <1>2, <2>1 DEF CreatesAlone, Numbered
<1>4. \/ /\ row' = [row EXCEPT ![x] = NewRow(q)] /\ ~Taken(q.tok, x) /\ UNCHANGED objects
         /\ Done(t) \/ Goto(t, "finalize")
      \/ /\ UNCHANGED row /\ objects' \in {objects, objects \ {<<x, q.pdf>>}}
         /\ Done(t) \/ Goto(t, "release")
  BY <1>1, <1>2, CalmNow DEF Add, Rejected
<1>5. /\ pc'[t] \in {"idle", "finalize", "release"} /\ req'[t].exam \in {0, x}
      /\ req'[t].op \in {"none", "create"}
  BY <1>1, <1>2, <1>4, DoneFacts, GotoFacts DEF Places
<1>6. RestoreCovered(t)' /\ ReplacedCovered(t)' /\ CreatesAlone(t)'
  BY <1>5 DEF RestoreCovered, ReplacedCovered, CreatesAlone
\* It was refused.
<1>7. CASE UNCHANGED row /\ objects' \in {objects, objects \ {<<x, q.pdf>>}}
  <2>1. NamesStay
    BY <1>7 DEF NamesStay, FilesStay
  <2>2. TokensApart'
    BY <1>3, <1>7, TokensSame
  <2>3. \A y, p : ~Replacing(t, y, p) /\ ~Restoring(t, y)
    BY <1>2, <1>3 DEF Replacing, Restoring
  <2>4. /\ nextId' \in Int /\ nextId <= nextId' /\ req'[t].exam < nextId'
        /\ env'["r2_failure"] \in {env["r2_failure"], 1} /\ pc'[t] # "purge"
        /\ req'[t].exam \in {0, req[t].exam, nextId} /\ row'[x] = NoExam
        /\ \A y \in Exams : \A p : y # x /\ <<y, p>> \in objects => <<y, p>> \in objects'
    BY <1>1, <1>3, <1>5, <1>7
  <2> HIDE DEF PdfOK
  <2> QED  BY <1>3, <1>6, <2>1, <2>2, <2>3, <2>4, PdfFrame
           DEF NamesStay, Filed
\* It is inserted.
<1>8. CASE row' = [row EXCEPT ![x] = NewRow(q)] /\ ~Taken(q.tok, x) /\ UNCHANGED objects
  <2>1. PICK e \in ExamRow : /\ e = NewRow(q) /\ e.token = q.tok /\ e.pdf = q.pdf
                             /\ e.file = q.file
    <3>1. q.file \in BOOLEAN
      BY DEF Request
    <3> QED  BY <1>2, <3>1, NewRowType DEF NewRow
  <2>2. row'[x] = e /\ \A y \in Exams \ {x} : row'[y] = row[y]
    BY <1>8, <2>1 DEF StoreInv, StoreTypeOK
  <2>3. TokensApart'
    BY <1>3, <1>8, <2>1, TokensStay
  <2>4. \A u \in Threads : \A y, p : Replacing(u, y, p) => Replacing(u, y, p)'
    BY <1>3 DEF Replacing, Elsewhere
  <2>5. ASSUME NEW y \in Exams  PROVE RowCovered(y)'
    <3>1. CASE y = x
      BY <1>3, <1>8, <2>1, <2>2, <3>1 DEF RowCovered, Covered, Filed
    <3>2. CASE y # x
      <4>1. RowCovered(y) /\ row'[y] = row[y]
        BY <2>2, <3>2 DEF PdfOK
      <4>2. \A u \in Threads : Restoring(u, y) => Restoring(u, y)'
        BY <1>2, <1>3 DEF Restoring, Elsewhere
      <4>3. Covered(y, row[y].pdf) => Covered(y, row[y].pdf)'
        <5>1. PICK p : p = row[y].pdf
          OBVIOUS
        <5>2. Covered(y, p) => Covered(y, p)'
          BY <1>8, <2>4 DEF Covered
        <5> QED  BY <4>1, <5>1, <5>2 DEF Covered, Replacing
      <4> QED  BY <4>1, <4>2, <4>3 DEF RowCovered, Filed
    <3> QED  BY <3>1, <3>2
  <2>6. ASSUME NEW u \in Threads \ {t}
        PROVE  RestoreCovered(u)' /\ ReplacedCovered(u)' /\ CreatesAlone(u)'
    <3>1. /\ pc'[u] = pc[u] /\ req'[u] = req[u] /\ seen'[u] = seen[u] /\ req[u].exam # x
          /\ RestoreCovered(u) /\ ReplacedCovered(u) /\ CreatesAlone(u)
      BY <1>3 DEF Elsewhere, PdfOK
    <3>2. /\ pc[u] \in {"update", "write", "upload", "add"} => req[u].exam \in Exams
          /\ x # 0
      BY DEF StoreInv, Carries, Placed, Exams
    <3>3. RestoreCovered(u)'
      <4>1. PICK y, p : y = req[u].exam /\ p = req[u].pdf
        OBVIOUS
      <4>2. Covered(y, p) => Covered(y, p)'
        BY <1>8, <2>4 DEF Covered
      <4>3. Covered(req[u].exam, req[u].pdf) => Covered(req[u].exam, req[u].pdf)'
        BY <3>1, <4>1, <4>2 DEF Covered, Replacing
      <4> QED  BY <1>3, <2>2, <3>1, <3>2, <4>3 DEF RestoreCovered, Filed
    <3>4. ReplacedCovered(u)'
      <4>1. PICK y, p : y = req[u].exam /\ p = seen[u].pdf
        OBVIOUS
      <4>2. \A v \in Threads : Replacing(v, y, p) => Replacing(v, y, p)'
        BY <2>4
      <4>3. \A v \in Threads : Replacing(v, req[u].exam, seen[u].pdf)
                               => Replacing(v, req[u].exam, seen[u].pdf)'
        BY <3>1, <4>1, <4>2 DEF Replacing
      <4> QED  BY <1>3, <1>8, <2>2, <3>1, <3>2, <4>3 DEF ReplacedCovered, Filed
    <3>5. CreatesAlone(u)'
      <4>1. \A v \in Threads \ {t} : req'[v].exam = req[v].exam
        BY <1>3 DEF Elsewhere
      <4>2. req[u].op = "create" /\ pc[u] \in {"upload", "add"} => req'[t].exam # req[u].exam
        <5>1. 0 \notin Exams
          BY DEF Exams
        <5> QED  BY <1>5, <3>1, <3>2, <5>1
      <4> QED  BY <1>8, <2>2, <3>1, <3>2, <4>1, <4>2 DEF CreatesAlone
    <3> QED  BY <3>3, <3>4, <3>5
  <2>7. Numbered'
    <3>1. \A u \in Threads : req'[u].exam < nextId'
      BY <1>3, <1>5 DEF Numbered, Elsewhere
    <3>2. \A y \in Exams : y >= nextId' => row'[y] = NoExam
      BY <1>3, <2>2 DEF Numbered, Exams
    <3>3. \A u \in Threads : pc'[u] = "purge" => row'[req'[u].exam] = NoExam
      <4>1. \A u \in Threads : pc[u] = "purge" => req[u].exam \in Exams
        BY DEF StoreInv, Carries, Placed
      <4> QED  BY <1>3, <1>5, <2>2, <4>1 DEF Numbered, Elsewhere
    <3> QED  BY <3>1, <3>2, <3>3 DEF Numbered
  <2> QED  BY <1>6, <2>3, <2>5, <2>6, <2>7 DEF PdfOK
<1> QED  BY <1>4, <1>7, <1>8

\* The deletion of the row, and then of the object.
LEMMA PdfDelete ==
  ASSUME StoreInv, PdfOK, NEW t \in Threads, Calm', Remove(t) \/ Purge(t)
  PROVE  PdfOK'
<1> USE DEF tables, threads, bounds, past
<1>1. PICK x \in Exams : x = req[t].exam
  BY DEF Remove, Purge, StoreInv, Carries, Placed
<1>2. /\ UNCHANGED nextId /\ Elsewhere(t) /\ pc[t] \in {"remove", "purge"}
      /\ Numbered /\ TokensApart /\ RestoreCovered(t)
      /\ nextId \in Int /\ 0 < nextId /\ 0 \notin Exams
  BY RemoveStep, PurgeStep, NextIdFacts DEF Remove, Purge, Handled, PdfOK
<1>3. x < nextId /\ req[t].op # "restore-pdf"
  BY <1>1, <1>2 DEF Numbered, RestoreCovered
<1>4. \A y, p : ~Replacing(t, y, p) /\ ~Restoring(t, y)
  BY <1>2, <1>3 DEF Replacing, Restoring
<1>5. CASE Remove(t)
  <2>1. row' = [row EXCEPT ![x] = NoExam] /\ Goto(t, "purge") /\ UNCHANGED <<objects, env>>
    BY <1>1, <1>5, CalmNow DEF Remove
  <2>2. row'[x] = NoExam /\ \A y \in Exams \ {x} : row'[y] = row[y]
    BY <2>1 DEF StoreInv, StoreTypeOK
  <2>3. TokensApart'
    BY <1>2, <2>1, TokensStay
  <2>4. NamesStay
    BY <2>2 DEF NamesStay, FilesStay
  <2>5. pc'[t] = "purge" /\ req' = req
    BY <2>1, GotoFacts DEF Places
  <2>6. req[t].exam \in {0, req[t].exam} /\ row'[req'[t].exam] = NoExam
    BY <1>1, <2>2, <2>5
  <2> QED  BY <1>2, <1>3, <2>1, <2>3, <2>4, <2>5, <2>6, PdfSimple
<1>6. CASE Purge(t)
  <2>1. /\ UNCHANGED row /\ Done(t) /\ pc[t] = "purge" /\ row[x] = NoExam
        /\ \E some \in SUBSET ({Legacy, x} \X {req[t].pdf}) : objects' = objects \ some
        /\ env'["r2_failure"] \in {env["r2_failure"], 1}
    BY <1>1, <1>2, <1>6, CalmNow DEF Purge, Numbered
  <2>2. pc'[t] = "idle" /\ req'[t].op = "none" /\ req'[t].exam = 0
    BY <2>1, DoneFacts
  <2>3. \A u \in Threads \ {t} :
          req[u].op = "create" /\ pc[u] \in {"upload", "add"} => req[u].exam # x
    BY <1>1 DEF PdfOK, CreatesAlone
  <2>4. RestoreCovered(t)' /\ ReplacedCovered(t)' /\ CreatesAlone(t)'
    BY <2>2 DEF RestoreCovered, ReplacedCovered, CreatesAlone
  <2>5. TokensApart'
    BY <1>2, <2>1, TokensSame
  <2>6. NamesStay
    BY <2>1 DEF NamesStay, FilesStay
  <2>7. /\ nextId' \in Int /\ nextId <= nextId' /\ req'[t].exam < nextId' /\ pc'[t] # "purge"
        /\ req'[t].exam \in {0, req[t].exam, nextId} /\ row'[x] = NoExam
    BY <1>2, <2>1, <2>2
  <2>8. \A y \in Exams : \A p : y # x /\ <<y, p>> \in objects => <<y, p>> \in objects'
    BY <1>2, <2>1 DEF Legacy
  <2> HIDE DEF PdfOK
  <2> QED  BY <1>2, <1>4, <2>1, <2>3, <2>4, <2>5, <2>6, <2>7, <2>8, PdfFrame
           DEF NamesStay, Filed
<1> QED  BY <1>5, <1>6

\* A database gets no sequence and loses none.
LEMMA SequenceStays ==
  ASSUME StoreInv, [StoreNext]_storeVars, nextId = NoSequence
  PROVE  nextId' = NoSequence
<1> USE DEF tables, threads, bounds, past
<1>1. CASE UNCHANGED storeVars \/ CrashRestart \/ Tick
  BY <1>1 DEF storeVars, CrashRestart, Tick
<1>2. ASSUME NEW t \in Threads, ThreadStep(t)  PROVE nextId' = nextId
  <2>1. CASE \/ AskTokenMode(t) \/ AskLifecycle(t) \/ AskDelegate(t) \/ AskSchedule(t)
             \/ AskRegenerate(t) \/ AskEditToken(t) \/ AskEditPdf(t) \/ AskExpire(t)
             \/ AskDelete(t) \/ Join(t)
    BY <2>1 DEF AskTokenMode, AskLifecycle, AskDelegate, AskChange, AskSchedule,
       AskRegenerate, AskEditToken, AskEditPdf, AskExpire, AskDelete, Join
  <2>2. CASE Claim(t)
    BY <2>2 DEF Claim, Numbers
  <2>3. CASE \/ SetAuto(t) \/ AskCreate(t) \/ UpdateRead(t) \/ UpdateWrite(t) \/ Rotate(t)
             \/ Upload(t) \/ Add(t) \/ Finish(t) \/ Remove(t) \/ Purge(t)
    BY <2>3 DEF SetAuto, AskCreate, UpdateRead, UpdateWrite, Rotate, Upload, Add, Finish,
       Remove, Purge
  <2> QED  BY <1>2, <2>1, <2>2, <2>3 DEF ThreadStep
<1> QED  BY <1>1, <1>2 DEF StoreNext

(***************************************************************************)
(* PdfKept (P35-D4): in a database with a sequence, while nothing crashes, *)
(* no statement fails and R2 fails at most once, every exam that was       *)
(* created with its PDF has it in R2 or being replaced, for any number of  *)
(* threads that create exams with and without a PDF, replace PDFs and      *)
(* delete exams of both layouts.                                           *)
(***************************************************************************)
THEOREM PdfKeptAlways == StoreSpec => []PdfKept
<1> DEFINE PdfInv == Calm => PdfOK
<1>1. StoreInit => PdfInv
  <2> SUFFICES ASSUME StoreInit, Calm  PROVE PdfOK
    OBVIOUS
  <2>1. PICK p \in Pdfs, s \in Starts :
          /\ row = [x \in Exams |->
                      IF x = 1 THEN [token |-> 1, active |-> 1, dynamic |-> s.dynamic,
                                     reset |-> 0, started |-> 0, live |-> TRUE,
                                     tomb |-> FALSE, end |-> Never, auto |-> FALSE,
                                     pdf |-> p, file |-> s.file]
                      ELSE NoExam]
          /\ objects = {<<IF s.file THEN 1 ELSE Legacy, p>>}
          /\ nextId = s.nextId
    BY DEF StoreInit
  <2>2. \A x \in Exams : row[x] # NoExam => x = 1 /\ row[x].pdf = p /\ row[x].file = s.file
    BY <2>1
  <2>3. /\ nextId = 2 /\ \A t \in Threads : pc[t] = "idle" /\ req[t] = NoRequest
        /\ NoRequest.op = "none" /\ NoRequest.exam = 0
    BY <2>1, StartsAssumption DEF StoreInit, NoRequest, Calm
  <2>4. \A x \in Exams : RowCovered(x)
    BY <2>1, <2>2 DEF RowCovered, Covered, Filed
  <2>5. \A t \in Threads : RestoreCovered(t) /\ ReplacedCovered(t) /\ CreatesAlone(t)
    BY <2>3 DEF RestoreCovered, ReplacedCovered, CreatesAlone
  <2>6. Numbered
    BY <2>2, <2>3 DEF Numbered, Exams
  <2>7. TokensApart
    BY <2>2 DEF TokensApart, Taken
  <2> QED  BY <2>4, <2>5, <2>6, <2>7 DEF PdfOK
<1>2. StoreInv /\ SerialUpdates /\ PdfInv /\ [StoreNext]_storeVars => PdfInv'
  <2> SUFFICES ASSUME StoreInv, SerialUpdates, PdfInv, [StoreNext]_storeVars, Calm'
               PROVE  PdfOK'
    OBVIOUS
  <2> USE DEF tables, threads, bounds, past
  <2>1. Calm
    <3>1. Undamaged /\ env["r2_failure"] <= 1
      BY EventsStay, EventNames DEF Calm, Undamaged
    <3>2. nextId # NoSequence
      BY SequenceStays DEF Calm
    <3> QED  BY <3>1, <3>2 DEF Calm
  <2>2. PdfOK
    BY <2>1
  <2>3. CASE UNCHANGED storeVars \/ Tick
    <3>1. UNCHANGED <<row, objects, nextId, pc, req, seen, env>>
      BY <2>3 DEF Tick, storeVars
    <3> QED  BY <2>2, <3>1
        DEF PdfOK, RowCovered, RestoreCovered, ReplacedCovered, CreatesAlone, Covered,
            Replacing, Restoring, Numbered, TokensApart, Taken, Filed
  <2>4. CASE CrashRestart
    BY <2>4, CalmNow DEF CrashRestart
  <2>5. ASSUME NEW t \in Threads, ThreadStep(t)  PROVE PdfOK'
    BY <2>2, <2>5, PdfAsk, PdfOther, PdfRead, PdfWrite, PdfClaim, PdfUpload, PdfAdd, PdfDelete
    DEF ThreadStep
  <2> QED  BY <2>3, <2>4, <2>5 DEF StoreNext
<1>3. StoreInv /\ PdfInv => PdfKept
  <2> SUFFICES ASSUME StoreInv, PdfInv, env["r2_failure"] <= 1,
                      env["crash"] + env["stmt_failure"] + env["reply_lost"] = 0,
                      nextId # NoSequence, NEW x \in Exams, Filed(x)
               PROVE  \/ <<x, row[x].pdf>> \in objects
                      \/ \E t \in Threads : PdfOpen(t, x)
    BY DEF PdfKept, Filed
  <2>1. Undamaged
    <3>1. env["crash"] \in Nat /\ env["stmt_failure"] \in Nat /\ env["reply_lost"] \in Nat
      BY EventNames DEF StoreInv, StoreTypeOK
    <3>2. \A a, b, c \in Nat : a + b + c = 0 => a = 0 /\ b = 0 /\ c = 0
      OBVIOUS
    <3>3. env["crash"] = 0 /\ env["stmt_failure"] = 0 /\ env["reply_lost"] = 0
      BY <3>1, <3>2
    <3> QED  BY <3>3 DEF Undamaged
  <2>2. RowCovered(x)
    BY <2>1 DEF Calm, PdfOK
  <2> QED  BY <2>2 DEF RowCovered, Covered, Replacing, Restoring, PdfOpen
<1> QED  BY <1>1, <1>2, <1>3, StoreInvariant, SerialUpdatesAlways, PTL DEF StoreSpec

=============================================================================
