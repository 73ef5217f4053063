---------------------------- MODULE ApprovalsProofs ----------------------------
(***************************************************************************)
(* Proofs about Approvals, for every number of devices, threads and        *)
(* servers, every cap, and whatever the bounds are.                        *)
(***************************************************************************)
EXTENDS Approvals, FiniteSetTheorems, TLAPS

\* Devices with an automatic approval.
ByItself == {d \in Approved : by[d] = "auto"}

\* A request that is being served names a device.
Asks == \A t \in Threads : pc[t] # "idle" => ask[t].dev \in Devices

\* Who may store holds the lock, and when it may approve there is room.
Room == \A t \in Threads : pc[t] = "persist" =>
          capLock = t /\ (ask[t].auto => Cardinality(ByItself) < Cap)

CapInv == ApprovalsTypeOK /\ Asks /\ Room /\ CapKept

\* While Redis can be reached, the key is there while a server runs the job.
JobInv ==
  /\ env["redis_down"] = 0 => redisUp /\ local = {}
  /\ env["redis_down"] + env["overrun"] = 0 =>
       /\ Running # {} => jobKey
       /\ \A v, w \in Running : v = w

-----------------------------------------------------------------------------
LEMMA OccurFacts ==
  ASSUME NEW k \in Events, env \in [Events -> Nat], Occur(k)
  PROVE  /\ env' \in [Events -> Nat]
         /\ \A e \in Events : env'[e] >= env[e]
         /\ env'[k] > 0
  BY DEF Occur

LEMMA EventNames ==
  "stmt_failure" \in Events /\ "redis_down" \in Events /\ "reply_lost" \in Events
  /\ "overrun" \in Events /\ "crash" \in Events
  BY DEF Events

\* The CASE of the INSERT: a status, automatic approval only when it is
\* allowed, and never over a rejection without a reset.
LEMMA DecidedFacts ==
  ASSUME NEW s \in Status \cup {NoRow}, NEW reset \in BOOLEAN, NEW auto \in BOOLEAN
  PROVE  /\ Decided(s, reset, auto) \in Status
         /\ Decided(s, reset, auto) = "approved" /\ s # "approved" => auto
         /\ s = "rejected" /\ ~reset => Decided(s, reset, auto) = "rejected"
<1>1. CASE s = NoRow
  <2>1. Decided(s, reset, auto) = IF auto THEN "approved" ELSE "pending"
    BY <1>1 DEF Decided
  <2> QED  BY <2>1, <1>1 DEF Status, NoRow
<1>2. CASE s # NoRow /\ reset
  <2>1. Decided(s, reset, auto) = IF auto \/ s = "approved" THEN "approved" ELSE "pending"
    BY <1>2 DEF Decided
  <2> QED  BY <2>1, <1>2 DEF Status
<1>3. CASE s # NoRow /\ ~reset
  <2>1. Decided(s, reset, auto) = IF auto /\ s = "pending" THEN "approved" ELSE s
    BY <1>3 DEF Decided
  <2> QED  BY <2>1, <1>3 DEF Status
<1> QED  BY <1>1, <1>2, <1>3

LEMMA AutoFinite ==
  IsFiniteSet(ByItself) /\ Cardinality(ByItself) \in Nat
  /\ IsFiniteSet(Approved) /\ Cardinality(ByItself) <= Cardinality(Approved)
  /\ Cardinality(Approved) \in Nat
<1>1. IsFiniteSet(Approved)
  BY ApprovalsAssumption, FS_Subset DEF Approved
<1>2. ByItself \in SUBSET Approved
  BY DEF ByItself
<1>3. IsFiniteSet(ByItself) /\ Cardinality(ByItself) <= Cardinality(Approved)
  BY <1>1, <1>2, FS_Subset
<1> QED  BY <1>1, <1>3, FS_CardinalityType

\* Fewer automatic approvals, or one more where there was room.
LEMMA AutoShrinks ==
  ASSUME ByItself' \in SUBSET ByItself
  PROVE  /\ Cardinality(ByItself') <= Cardinality(ByItself)
         /\ Cardinality(ByItself') \in Nat
<1>1. IsFiniteSet(ByItself) /\ Cardinality(ByItself) \in Nat
  BY AutoFinite
<1>2. IsFiniteSet(ByItself') /\ Cardinality(ByItself') <= Cardinality(ByItself)
  BY <1>1, FS_Subset
<1> QED  BY <1>2, FS_CardinalityType

LEMMA AutoGrows ==
  ASSUME NEW d, ByItself' \in SUBSET (ByItself \cup {d})
  PROVE  Cardinality(ByItself') <= Cardinality(ByItself) + 1 /\ Cardinality(ByItself') \in Nat
<1>1. IsFiniteSet(ByItself) /\ Cardinality(ByItself) \in Nat
  BY AutoFinite
<1>2. IsFiniteSet(ByItself \cup {d}) /\ Cardinality(ByItself \cup {d}) <= Cardinality(ByItself) + 1
      /\ Cardinality(ByItself \cup {d}) \in Nat
  BY <1>1, FS_AddElement, FS_CardinalityType
<1>3. IsFiniteSet(ByItself') /\ Cardinality(ByItself') <= Cardinality(ByItself \cup {d})
  BY <1>2, FS_Subset
<1>4. Cardinality(ByItself') \in Nat
  BY <1>3, FS_CardinalityType
<1> QED  BY <1>1, <1>2, <1>3, <1>4

-----------------------------------------------------------------------------
(***************************************************************************)
(* The types, and the room under the cap.                                  *)
(***************************************************************************)
LEMMA InitCap == Init => CapInv
<1> SUFFICES ASSUME Init PROVE CapInv
  OBVIOUS
<1> USE DEF Init
<1>1. ApprovalsTypeOK
  <2>1. exam \in Exam
    BY DEF Exam
  <2>2. NoAsk \in [dev : Devices \cup {NoRow}, reset : BOOLEAN,
                  auto : BOOLEAN, claim : Status \cup {NoAnswer}]
    BY DEF NoAsk
  <2>3. ask \in [Threads -> [dev : Devices \cup {NoRow}, reset : BOOLEAN,
                            auto : BOOLEAN, claim : Status \cup {NoAnswer}]]
    BY <2>2
  <2>4. row \in [Devices -> Status \cup {NoRow}]
        /\ answered \in [Devices -> Status \cup {NoAnswer}]
        /\ by \in [Devices -> {"auto", "proctor", Nobody}]
    OBVIOUS
  <2>5. asked \in 0..MaxRequests /\ moves \in 0..MaxMoves /\ env \in [Events -> Nat]
    BY ApprovalsAssumption
  <2>6. pc \in [Threads -> {"idle", "lock", "persist"}] /\ job \in [Servers -> 0..5]
    OBVIOUS
  <2> QED  BY <2>1, <2>3, <2>4, <2>5, <2>6 DEF ApprovalsTypeOK
<1>2. Asks /\ Room
  BY DEF Asks, Room
<1>3. CapKept
  <2>1. ByItself = {}
    BY DEF ByItself, Approved, Status, NoRow
  <2>2. Cardinality(ByItself) = 0
    BY <2>1, FS_EmptySet
  <2> QED  BY <2>2, ApprovalsAssumption DEF CapKept, ByItself
<1> QED  BY <1>1, <1>2, <1>3 DEF CapInv

\* A step that leaves who is approved, the lock and the requests alone.
LEMMA SameRoom ==
  ASSUME CapInv, ByItself' \in SUBSET ByItself, UNCHANGED <<capLock, pc, ask>>
  PROVE  (Asks /\ Room /\ CapKept)'
<1>1. Cardinality(ByItself') <= Cardinality(ByItself) /\ Cardinality(ByItself') \in Nat
      /\ Cardinality(ByItself) \in Nat
  BY AutoShrinks, AutoFinite
<1>2. Asks'
  BY DEF CapInv, Asks
<1>3. Room'
  <2> SUFFICES ASSUME NEW t \in Threads, pc'[t] = "persist"
               PROVE  capLock' = t /\ (ask'[t].auto => Cardinality(ByItself') < Cap)
    BY DEF Room
  <2>1. capLock = t /\ (ask[t].auto => Cardinality(ByItself) < Cap)
    BY DEF CapInv, Room
  <2> QED  BY <1>1, <2>1, ApprovalsAssumption
<1>4. CapKept'
  BY <1>1, ApprovalsAssumption DEF CapInv, CapKept, ByItself
<1> QED  BY <1>2, <1>3, <1>4

\* Threads come and go; nobody who was not there may store.
LEMMA FewerStore ==
  ASSUME CapInv, ByItself' = ByItself,
         \A t \in Threads : pc'[t] \in {pc[t], "idle", "lock"},
         \A t \in Threads : pc'[t] = "persist" => ask'[t] = ask[t] /\ capLock' = capLock
  PROVE  (Room /\ CapKept)'
<1>1. Room'
  <2> SUFFICES ASSUME NEW t \in Threads, pc'[t] = "persist"
               PROVE  capLock' = t /\ (ask'[t].auto => Cardinality(ByItself') < Cap)
    BY DEF Room
  <2> QED  BY DEF CapInv, Room
<1>2. CapKept'
  BY DEF CapInv, CapKept, ByItself
<1> QED  BY <1>1, <1>2

LEMMA AnsweredTypes ==
  ASSUME ApprovalsTypeOK, NEW t \in Threads, Answered(t)
  PROVE  /\ pc' \in [Threads -> {"idle", "lock", "persist"}]
         /\ ask' \in [Threads -> [dev : Devices \cup {NoRow}, reset : BOOLEAN,
                                  auto : BOOLEAN, claim : Status \cup {NoAnswer}]]
         /\ capLock' \in Threads \cup {Nobody}
         /\ \A u \in Threads : u # t => pc'[u] = pc[u] /\ ask'[u] = ask[u]
         /\ pc'[t] = "idle"
         /\ capLock' = IF capLock = t THEN Nobody ELSE capLock
<1>1. NoAsk \in [dev : Devices \cup {NoRow}, reset : BOOLEAN,
                 auto : BOOLEAN, claim : Status \cup {NoAnswer}]
  BY DEF NoAsk
<1> QED  BY <1>1 DEF ApprovalsTypeOK, Answered

LEMMA RequestKeeps ==
  ASSUME CapInv, NEW t \in Threads, Request(t)
  PROVE  CapInv'
<1> USE DEF CapInv, ApprovalsTypeOK
<1>1. PICK d \in Devices, reset \in BOOLEAN :
        ask' = [ask EXCEPT ![t] =
                  [dev |-> d, reset |-> reset, auto |-> Automatic(exam),
                   claim |-> IF Automatic(exam) THEN "approved" ELSE "pending"]]
  BY DEF Request
<1>2. Automatic(exam) \in BOOLEAN
  BY DEF Automatic, Exam
<1>3. [dev |-> d, reset |-> reset, auto |-> Automatic(exam),
       claim |-> IF Automatic(exam) THEN "approved" ELSE "pending"]
        \in [dev : Devices \cup {NoRow}, reset : BOOLEAN,
             auto : BOOLEAN, claim : Status \cup {NoAnswer}]
  BY <1>2 DEF Status
<1>4. ApprovalsTypeOK'
  BY <1>1, <1>3, ApprovalsAssumption DEF Request, approvals, jobs
<1>5. Asks'
  BY <1>1 DEF Request, Asks
<1>6. (Room /\ CapKept)'
  <2>1. ByItself' = ByItself
    BY DEF Request, approvals, ByItself, Approved
  <2>2. \A u \in Threads : pc'[u] \in {pc[u], "lock"}
    BY DEF Request
  <2>3. \A u \in Threads : pc'[u] = "persist" => ask'[u] = ask[u] /\ capLock' = capLock
    BY <1>1 DEF Request
  <2> QED  BY <2>1, <2>2, <2>3, FewerStore
<1> QED  BY <1>4, <1>5, <1>6

LEMMA CountKeeps ==
  ASSUME CapInv, NEW t \in Threads, Count(t)
  PROVE  CapInv'
<1> DEFINE room == Cardinality(Approved) < Cap
<1>1. ask' = [ask EXCEPT ![t] = [@ EXCEPT !.auto = ask[t].auto /\ room]]
  BY DEF Count
<1>2. room \in BOOLEAN
  OBVIOUS
<1>3. ApprovalsTypeOK'
  <2>1. ask[t] \in [dev : Devices \cup {NoRow}, reset : BOOLEAN,
                    auto : BOOLEAN, claim : Status \cup {NoAnswer}]
    BY DEF CapInv, ApprovalsTypeOK
  <2>2. [ask[t] EXCEPT !.auto = ask[t].auto /\ room]
          \in [dev : Devices \cup {NoRow}, reset : BOOLEAN,
               auto : BOOLEAN, claim : Status \cup {NoAnswer}]
    BY <2>1
  <2> HIDE DEF room
  <2> QED  BY <1>1, <2>2 DEF CapInv, ApprovalsTypeOK, Count, approvals, jobs, limits
<1>4. Asks'
  BY <1>1 DEF CapInv, ApprovalsTypeOK, Asks, Count
<1>5. ByItself' = ByItself
  BY DEF Count, approvals, ByItself, Approved
<1>6. Room'
  <2> SUFFICES ASSUME NEW u \in Threads, pc'[u] = "persist"
               PROVE  capLock' = u /\ (ask'[u].auto => Cardinality(ByItself') < Cap)
    BY DEF Room
  <2>1. CASE u = t
    <3>1. capLock' = t /\ (ask'[t].auto => room)
      BY <1>1 DEF Count, CapInv, ApprovalsTypeOK
    <3>2. room => Cardinality(ByItself) < Cap
      BY AutoFinite, ApprovalsAssumption
    <3> QED  BY <2>1, <3>1, <3>2, <1>5
  <2>2. CASE u # t
    <3>1. pc[u] = "persist" /\ capLock = Nobody
      BY <2>2 DEF Count, CapLockFree, CapInv, ApprovalsTypeOK
    <3> QED  BY <3>1, ApprovalsAssumption DEF CapInv, Room
  <2> QED  BY <2>1, <2>2
<1>7. CapKept'
  BY <1>5 DEF CapInv, CapKept, ByItself
<1> QED  BY <1>3, <1>4, <1>6, <1>7 DEF CapInv

LEMMA UnpersistedKeeps ==
  ASSUME CapInv, NEW t \in Threads, Unpersisted(t)
  PROVE  CapInv'
<1>1. ApprovalsTypeOK /\ Answered(t) /\ ask[t].dev \in Devices /\ ask[t].claim \in Status \cup {NoAnswer}
  BY DEF CapInv, ApprovalsTypeOK, Asks, Unpersisted
<1>2. env' \in [Events -> Nat]
  BY <1>1, OccurFacts, EventNames DEF ApprovalsTypeOK, Unpersisted
<1>3. answered' \in [Devices -> Status \cup {NoAnswer}]
  BY <1>1 DEF ApprovalsTypeOK, Unpersisted
<1>4. ApprovalsTypeOK'
  BY <1>1, <1>2, <1>3, AnsweredTypes DEF ApprovalsTypeOK, Unpersisted, jobs
<1>5. Asks'
  BY <1>1, AnsweredTypes DEF CapInv, Asks
<1>6. ByItself' = ByItself
  BY DEF Unpersisted, ByItself, Approved
<1>7. \A u \in Threads : pc'[u] = "persist" => ask'[u] = ask[u] /\ capLock' = capLock
  <2>1. \A u \in Threads : pc[u] = "persist" => capLock = u
    BY DEF CapInv, Room
  <2>2. pc[t] = "lock"
    BY DEF Unpersisted
  <2> QED  BY <1>1, <2>1, <2>2, AnsweredTypes
<1> QED  BY <1>1, <1>4, <1>5, <1>6, <1>7, AnsweredTypes, FewerStore DEF CapInv

LEMMA StoredTypes ==
  ASSUME ApprovalsTypeOK, NEW d \in Devices, NEW s \in Status, NEW reset \in BOOLEAN,
         Stored(d, s, reset)
  PROVE  /\ row' \in [Devices -> Status \cup {NoRow}] /\ old' \subseteq Devices
         /\ by' \in [Devices -> {"auto", "proctor", Nobody}]
         /\ refused' \subseteq Devices
         /\ row'[d] = s
         /\ \A e \in Devices : e # d => row'[e] = row[e] /\ by'[e] = by[e]
         /\ row[d] = "approved" /\ s = "approved" => by'[d] = by[d]
         /\ refused' = IF reset THEN refused \ {d} ELSE refused
<1> DEFINE who == IF s # "approved" THEN Nobody
                  ELSE IF row[d] = "approved" THEN by[d] ELSE "auto"
<1>1. by' = [by EXCEPT ![d] = who]
  BY DEF Stored
<1>2. who \in {"auto", "proctor", Nobody}
  BY DEF ApprovalsTypeOK
<1>3. row[d] = "approved" /\ s = "approved" => who = by[d]
  OBVIOUS
<1> HIDE DEF who
<1> QED  BY <1>1, <1>2, <1>3 DEF ApprovalsTypeOK, Stored

LEMMA PersistKeeps ==
  ASSUME CapInv, NEW t \in Threads, Persist(t)
  PROVE  CapInv'
<1> DEFINE q == ask[t]
           s == Decided(row[q.dev], q.reset, q.auto)
<1>1. ApprovalsTypeOK /\ Answered(t) /\ pc[t] = "persist"
      /\ UNCHANGED <<exam, jobs, asked, moves>>
  BY DEF CapInv, Persist
<1>2. q.dev \in Devices /\ q.reset \in BOOLEAN /\ q.auto \in BOOLEAN
      /\ q.claim \in Status \cup {NoAnswer}
  BY <1>1 DEF CapInv, ApprovalsTypeOK, Asks
<1>3. s \in Status /\ (s = "approved" /\ row[q.dev] # "approved" => q.auto)
  <2>1. row[q.dev] \in Status \cup {NoRow}
    BY <1>1, <1>2 DEF ApprovalsTypeOK
  <2> QED  BY <2>1, <1>2, DecidedFacts
<1>4. capLock = t /\ (q.auto => Cardinality(ByItself) < Cap)
  BY <1>1 DEF CapInv, Room
<1>5. \/ Stored(q.dev, s, q.reset) /\ answered' = [answered EXCEPT ![q.dev] = s]
         /\ UNCHANGED env
      \/ /\ Occur("stmt_failure") /\ UNCHANGED <<row, old, by, refused>>
         /\ \E told \in {q.claim, s} : answered' = [answered EXCEPT ![q.dev] = told]
  BY DEF Persist, Answer
<1> HIDE DEF q, s
<1>6. /\ row' \in [Devices -> Status \cup {NoRow}] /\ old' \subseteq Devices
      /\ by' \in [Devices -> {"auto", "proctor", Nobody}] /\ refused' \subseteq Devices
      /\ answered' \in [Devices -> Status \cup {NoAnswer}] /\ env' \in [Events -> Nat]
  <2>1. CASE Stored(q.dev, s, q.reset) /\ answered' = [answered EXCEPT ![q.dev] = s]
             /\ UNCHANGED env
    <3>1. answered' \in [Devices -> Status \cup {NoAnswer}] /\ env' \in [Events -> Nat]
      BY <1>1, <1>3, <2>1 DEF ApprovalsTypeOK
    <3> QED  BY <1>1, <1>2, <1>3, <2>1, <3>1, StoredTypes
  <2>2. CASE Occur("stmt_failure") /\ UNCHANGED <<row, old, by, refused>>
             /\ \E told \in {q.claim, s} : answered' = [answered EXCEPT ![q.dev] = told]
    <3>1. env' \in [Events -> Nat]
      BY <1>1, <2>2, OccurFacts, EventNames DEF ApprovalsTypeOK
    <3> QED  BY <1>1, <1>2, <1>3, <2>2, <3>1 DEF ApprovalsTypeOK
  <2> QED  BY <1>5, <2>1, <2>2
<1>7. ApprovalsTypeOK'
  BY <1>1, <1>6, AnsweredTypes DEF ApprovalsTypeOK, jobs
<1>8. Asks'
  BY <1>1, AnsweredTypes DEF CapInv, Asks
<1>9. Room'
  <2>1. \A u \in Threads : pc[u] = "persist" => capLock = u
    BY DEF CapInv, Room
  <2>2. \A u \in Threads : pc'[u] # "persist"
    BY <1>1, <1>4, <2>1, AnsweredTypes
  <2> QED  BY <2>2 DEF Room
<1>10. /\ ByItself' \in SUBSET (ByItself \cup {q.dev})
       /\ ~q.auto => ByItself' \in SUBSET ByItself
  <2>1. CASE Stored(q.dev, s, q.reset)
    <3>1. \A e \in Devices : e # q.dev => row'[e] = row[e] /\ by'[e] = by[e]
      BY <1>1, <1>2, <1>3, <2>1, StoredTypes
    <3>2. row'[q.dev] = s
          /\ (row[q.dev] = "approved" /\ s = "approved" => by'[q.dev] = by[q.dev])
      BY <1>1, <1>2, <1>3, <2>1, StoredTypes
    <3>3. \A e \in ByItself' : e \in Devices /\ row'[e] = "approved" /\ by'[e] = "auto"
      BY DEF ByItself, Approved
    <3>4. \A e \in Devices : row[e] = "approved" /\ by[e] = "auto" => e \in ByItself
      BY DEF ByItself, Approved
    <3> QED  BY <1>3, <3>1, <3>2, <3>3, <3>4
  <2>2. CASE UNCHANGED <<row, by>>
    BY <2>2 DEF ByItself, Approved
  <2> QED  BY <1>5, <2>1, <2>2
<1>11. CapKept'
  <2>1. Cardinality(ByItself') <= Cap
    <3>1. CASE q.auto
      <4>1. Cardinality(ByItself') <= Cardinality(ByItself) + 1 /\ Cardinality(ByItself') \in Nat
        BY <1>10, AutoGrows
      <4>2. Cardinality(ByItself) < Cap /\ Cardinality(ByItself) \in Nat
        BY <1>4, <3>1, AutoFinite
      <4> QED  BY <4>1, <4>2, ApprovalsAssumption
    <3>2. CASE ~q.auto
      <4>1. Cardinality(ByItself) <= Cap
        BY DEF CapInv, CapKept, ByItself
      <4> QED  BY <1>10, <3>2, <4>1, AutoShrinks, AutoFinite, ApprovalsAssumption
    <3> QED  BY <3>1, <3>2
  <2> QED  BY <2>1 DEF CapKept, ByItself
<1> QED  BY <1>7, <1>8, <1>9, <1>11 DEF CapInv

LEMMA DeletedTypes ==
  ASSUME ApprovalsTypeOK, NEW D \in SUBSET Devices, Deleted(D)
  PROVE  /\ row' \in [Devices -> Status \cup {NoRow}] /\ old' \subseteq Devices
         /\ by' \in [Devices -> {"auto", "proctor", Nobody}]
         /\ answered' \in [Devices -> Status \cup {NoAnswer}]
         /\ ByItself' \in SUBSET ByItself
<1>1. ByItself' \in SUBSET ByItself
  <2>1. \A d \in Devices : row'[d] = "approved" => row[d] = "approved" /\ d \notin D
    BY DEF Deleted, NoRow
  <2>2. \A d \in Devices : d \notin D => by'[d] = by[d]
    BY DEF Deleted
  <2> QED  BY <2>1, <2>2 DEF ByItself, Approved
<1> QED  BY <1>1 DEF ApprovalsTypeOK, Deleted

LEMMA MoveTypes ==
  ASSUME ApprovalsTypeOK, Move
  PROVE  moves' \in 0..MaxMoves
  BY ApprovalsAssumption DEF ApprovalsTypeOK, Move

LEMMA ClerksKeep ==
  ASSUME CapInv, SetApproval \/ Revoke \/ ExamChanges \/ RowsAge
  PROVE  CapInv'
<1>0. ApprovalsTypeOK /\ UNCHANGED <<capLock, pc, ask>>
  BY DEF CapInv, SetApproval, Revoke, ExamChanges, RowsAge, handlers
<1>1. CASE SetApproval
  <2>1. PICK d \in Devices, s \in Status :
          /\ row' = [row EXCEPT ![d] = s]
          /\ by' = [by EXCEPT ![d] = IF s = "approved" THEN "proctor" ELSE Nobody]
          /\ refused' = IF s = "rejected" THEN refused \cup {d} ELSE refused \ {d}
          /\ answered' = [answered EXCEPT ![d] = NoAnswer]
    BY <1>1 DEF SetApproval
  <2>2. /\ row' \in [Devices -> Status \cup {NoRow}]
        /\ by' \in [Devices -> {"auto", "proctor", Nobody}]
        /\ refused' \subseteq Devices
        /\ answered' \in [Devices -> Status \cup {NoAnswer}]
    BY <1>0, <2>1 DEF ApprovalsTypeOK
  <2>3. ApprovalsTypeOK'
    BY <1>0, <1>1, <2>2, MoveTypes DEF ApprovalsTypeOK, SetApproval, handlers, jobs
  <2>4. ByItself' \in SUBSET ByItself
    <3>1. \A e \in Devices : e # d => row'[e] = row[e] /\ by'[e] = by[e]
      BY <1>0, <2>1 DEF ApprovalsTypeOK
    <3>2. by'[d] = "auto" => row'[d] # "approved"
      BY <1>0, <2>1 DEF ApprovalsTypeOK
    <3> QED  BY <3>1, <3>2 DEF ByItself, Approved
  <2> QED  BY <1>0, <2>3, <2>4, SameRoom DEF CapInv
<1>2. CASE Revoke
  <2>1. PICK d \in Devices : Deleted({d}) /\ refused' = refused \ {d}
    BY <1>2 DEF Revoke
  <2>2. /\ row' \in [Devices -> Status \cup {NoRow}] /\ old' \subseteq Devices
        /\ by' \in [Devices -> {"auto", "proctor", Nobody}]
        /\ answered' \in [Devices -> Status \cup {NoAnswer}]
        /\ ByItself' \in SUBSET ByItself
    <3>1. {d} \in SUBSET Devices
      OBVIOUS
    <3> QED  BY <1>0, <2>1, <3>1, DeletedTypes
  <2>3. ApprovalsTypeOK'
    BY <1>0, <1>2, <2>1, <2>2, MoveTypes DEF ApprovalsTypeOK, Revoke, handlers, jobs
  <2> QED  BY <1>0, <2>2, <2>3, SameRoom DEF CapInv
<1>3. CASE ExamChanges
  <2>1. exam' \in Exam
    <3>1. exam \in Exam
      BY <1>0 DEF ApprovalsTypeOK
    <3>2. CASE exam' = [exam EXCEPT !.auto = ~exam.auto]
      <4>1. exam.auto \in BOOLEAN
        BY <3>1 DEF Exam
      <4> QED  BY <3>1, <3>2, <4>1 DEF Exam
    <3>3. CASE \E s \in {"inactive", "active", "started"} : exam' = [exam EXCEPT !.status = s]
      BY <3>1, <3>3 DEF Exam
    <3>4. CASE \E s \in {"ahead", "over", "long over"} : exam' = [exam EXCEPT !.end = s]
      BY <3>1, <3>4 DEF Exam
    <3> QED  BY <1>3, <3>2, <3>3, <3>4 DEF ExamChanges
  <2>2. ApprovalsTypeOK'
    BY <1>0, <1>3, <2>1, MoveTypes
       DEF ApprovalsTypeOK, ExamChanges, approvals, handlers, jobs
  <2>3. ByItself' \in SUBSET ByItself
    BY <1>3 DEF ExamChanges, approvals, ByItself, Approved
  <2> QED  BY <1>0, <2>2, <2>3, SameRoom DEF CapInv
<1>4. CASE RowsAge
  <2>1. ApprovalsTypeOK'
    BY <1>0, <1>4, MoveTypes DEF ApprovalsTypeOK, RowsAge, handlers, jobs
  <2>2. ByItself' \in SUBSET ByItself
    BY <1>4 DEF RowsAge, ByItself, Approved
  <2> QED  BY <1>0, <2>1, <2>2, SameRoom DEF CapInv
<1> QED  BY <1>1, <1>2, <1>3, <1>4

LEMMA JobStepsKeep ==
  ASSUME CapInv, NEW v \in Servers, Acquire(v) \/ Clean(v) \/ Release(v)
  PROVE  CapInv'
<1>0. ApprovalsTypeOK /\ UNCHANGED <<exam, refused, capLock, pc, ask, redisUp, asked, moves>>
  BY DEF CapInv, Acquire, Clean, Release, handlers, approvals
<1>1. CASE Acquire(v) \/ Release(v)
  <2>1. env' \in [Events -> Nat]
    BY <1>0, <1>1, OccurFacts, EventNames DEF ApprovalsTypeOK, Acquire, Release
  <2>2. job' \in [Servers -> 0..5] /\ local' \subseteq Servers
    BY <1>0, <1>1 DEF ApprovalsTypeOK, Acquire, Release
  <2>3. jobKey' \in BOOLEAN
    <3>1. CASE Acquire(v)
      BY <1>0, <3>1 DEF ApprovalsTypeOK, Acquire
    <3>2. CASE Release(v)
      <4>1. jobKey' = (jobKey /\ ~redisUp) \/ jobKey' = jobKey
        BY <3>2 DEF Release
      <4> QED  BY <4>1, <1>0 DEF ApprovalsTypeOK
    <3> QED  BY <1>1, <3>1, <3>2
  <2>4. UNCHANGED approvals
    BY <1>1 DEF Acquire, Release
  <2>5. ApprovalsTypeOK'
    BY <1>0, <2>1, <2>2, <2>3, <2>4 DEF ApprovalsTypeOK, approvals
  <2>6. ByItself' \in SUBSET ByItself
    BY <2>4 DEF approvals, ByItself, Approved
  <2> QED  BY <1>0, <2>5, <2>6, SameRoom DEF CapInv
<1>2. CASE Clean(v)
  <2>1. /\ row' \in [Devices -> Status \cup {NoRow}] /\ old' \subseteq Devices
        /\ by' \in [Devices -> {"auto", "proctor", Nobody}]
        /\ answered' \in [Devices -> Status \cup {NoAnswer}]
        /\ ByItself' \in SUBSET ByItself
    <3>1. CASE Deleted({d \in Devices : Stale(d, job[v])})
      <4>1. {d \in Devices : Stale(d, job[v])} \in SUBSET Devices
        OBVIOUS
      <4> QED  BY <1>0, <3>1, <4>1, DeletedTypes
    <3>2. CASE UNCHANGED <<row, old, by, answered>>
      BY <1>0, <3>2 DEF ApprovalsTypeOK, ByItself, Approved
    <3> QED  BY <1>2, <3>1, <3>2 DEF Clean
  <2>2. job' \in [Servers -> 0..5]
    BY <1>0, <1>2 DEF ApprovalsTypeOK, Clean, Deletes
  <2>3. env' \in [Events -> Nat]
    BY <1>0, <1>2, OccurFacts, EventNames DEF ApprovalsTypeOK, Clean
  <2>4. ApprovalsTypeOK'
    BY <1>0, <1>2, <2>1, <2>2, <2>3 DEF ApprovalsTypeOK, Clean
  <2> QED  BY <1>0, <2>1, <2>4, SameRoom DEF CapInv
<1> QED  BY <1>1, <1>2

LEMMA EnvironmentKeeps ==
  ASSUME CapInv, LocksExpire \/ RedisTurns
  PROVE  CapInv'
<1>1. ApprovalsTypeOK /\ UNCHANGED <<exam, approvals, capLock, pc, ask, job, asked, moves>>
  BY DEF CapInv, LocksExpire, RedisTurns, handlers
<1>2. env' \in [Events -> Nat]
  BY <1>1, OccurFacts, EventNames DEF ApprovalsTypeOK, LocksExpire, RedisTurns
<1>3. jobKey' \in BOOLEAN /\ local' \subseteq Servers
  BY <1>1 DEF ApprovalsTypeOK, LocksExpire, RedisTurns
<1>4. redisUp' \in BOOLEAN
  <2>1. redisUp' = ~redisUp \/ redisUp' = redisUp
    BY DEF LocksExpire, RedisTurns
  <2> QED  BY <1>1, <2>1 DEF ApprovalsTypeOK
<1>5. ApprovalsTypeOK'
  BY <1>1, <1>2, <1>3, <1>4 DEF ApprovalsTypeOK, approvals
<1>6. ByItself' \in SUBSET ByItself
  BY <1>1 DEF approvals, ByItself, Approved
<1> QED  BY <1>1, <1>5, <1>6, SameRoom DEF CapInv

LEMMA CrashKeeps ==
  ASSUME CapInv, NEW v \in Servers, ServerCrash(v)
  PROVE  CapInv'
<1> DEFINE mine == {t \in Threads : Home[t] = v}
<1>1. /\ ApprovalsTypeOK /\ Occur("crash")
      /\ job' = [job EXCEPT ![v] = 0] /\ local' = local \ {v}
      /\ pc'  = [t \in Threads |-> IF t \in mine THEN "idle" ELSE pc[t]]
      /\ ask' = [t \in Threads |-> IF t \in mine THEN NoAsk ELSE ask[t]]
      /\ capLock' = IF capLock \in mine THEN Nobody ELSE capLock
      /\ UNCHANGED <<exam, approvals, jobKey, redisUp, asked, moves>>
  BY DEF CapInv, ServerCrash
<1> HIDE DEF mine
<1>2. env' \in [Events -> Nat]
  BY <1>1, OccurFacts, EventNames DEF ApprovalsTypeOK
<1>3. NoAsk \in [dev : Devices \cup {NoRow}, reset : BOOLEAN,
                auto : BOOLEAN, claim : Status \cup {NoAnswer}]
  BY DEF NoAsk
<1>4. ApprovalsTypeOK'
  <2>1. ask' \in [Threads -> [dev : Devices \cup {NoRow}, reset : BOOLEAN,
                             auto : BOOLEAN, claim : Status \cup {NoAnswer}]]
    BY <1>1, <1>3 DEF ApprovalsTypeOK
  <2>2. pc' \in [Threads -> {"idle", "lock", "persist"}] /\ capLock' \in Threads \cup {Nobody}
        /\ job' \in [Servers -> 0..5] /\ local' \subseteq Servers
    BY <1>1 DEF ApprovalsTypeOK
  <2> QED  BY <1>1, <1>2, <2>1, <2>2 DEF ApprovalsTypeOK, approvals
<1>5. Asks'
  BY <1>1 DEF CapInv, Asks
<1>6. ByItself' = ByItself
  BY <1>1 DEF approvals, ByItself, Approved
<1>7. \A t \in Threads : pc'[t] \in {pc[t], "idle", "lock"}
  BY <1>1
<1>8. \A t \in Threads : pc'[t] = "persist" => ask'[t] = ask[t] /\ capLock' = capLock
  <2> SUFFICES ASSUME NEW t \in Threads, pc'[t] = "persist"
               PROVE  ask'[t] = ask[t] /\ capLock' = capLock
    OBVIOUS
  <2>1. t \notin mine /\ pc[t] = "persist"
    BY <1>1
  <2>2. capLock = t
    BY <2>1 DEF CapInv, Room
  <2> QED  BY <1>1, <2>1, <2>2
<1> QED  BY <1>4, <1>5, <1>6, <1>7, <1>8, FewerStore DEF CapInv

LEMMA CapKeeps == CapInv /\ [Next]_vars => CapInv'
<1> SUFFICES ASSUME CapInv, [Next]_vars PROVE CapInv'
  OBVIOUS
<1>1. CASE \E t \in Threads : Request(t) \/ Count(t) \/ Unpersisted(t) \/ Persist(t)
  BY <1>1, RequestKeeps, CountKeeps, UnpersistedKeeps, PersistKeeps
<1>2. CASE SetApproval \/ Revoke \/ ExamChanges \/ RowsAge
  BY <1>2, ClerksKeep
<1>3. CASE \E v \in Servers : Acquire(v) \/ Clean(v) \/ Release(v) \/ ServerCrash(v)
  BY <1>3, JobStepsKeep, CrashKeeps
<1>4. CASE LocksExpire \/ RedisTurns
  BY <1>4, EnvironmentKeeps
<1>5. CASE UNCHANGED vars
  <2>1. ApprovalsTypeOK'
    BY <1>5 DEF CapInv, ApprovalsTypeOK, vars, approvals, handlers, jobs, limits
  <2>2. ByItself' \in SUBSET ByItself /\ UNCHANGED <<capLock, pc, ask>>
    BY <1>5 DEF vars, approvals, handlers, ByItself, Approved
  <2> QED  BY <2>1, <2>2, SameRoom DEF CapInv
<1> QED  BY <1>1, <1>2, <1>3, <1>4, <1>5 DEF Next

\* The types of the approvals, for every number of devices, threads and servers.
THEOREM ApprovalsTypes == Spec => []ApprovalsTypeOK
<1>1. Spec => []CapInv
  BY InitCap, CapKeeps, PTL DEF Spec
<1>2. CapInv => ApprovalsTypeOK
  BY DEF CapInv
<1> QED  BY <1>1, <1>2, PTL

\* The cap of request_approval: the count and the INSERT are one transaction
\* under the advisory lock, so that no interleaving of requests, no failure and
\* no crash lets more than Cap devices in without a proctor.
THEOREM CapIsKept == Spec => []CapKept
<1>1. Spec => []CapInv
  BY InitCap, CapKeeps, PTL DEF Spec
<1>2. CapInv => CapKept
  BY DEF CapInv
<1> QED  BY <1>1, <1>2, PTL

-----------------------------------------------------------------------------
(***************************************************************************)
(* What the rows say: rejections, and the answers of request_approval.     *)
(***************************************************************************)
\* Failures are only added up.
LEMMA EnvGrows ==
  ASSUME CapInv, [Next]_vars
  PROVE  \A k \in Events : env'[k] >= env[k]
<1>1. env \in [Events -> Nat]
  BY DEF CapInv, ApprovalsTypeOK
<1>2. env' = env \/ \E k \in Events : Occur(k)
  BY EventNames DEF Next, vars, limits, Request, Count, Unpersisted, Persist, SetApproval,
     Revoke, ExamChanges, RowsAge, Acquire, Clean, Release, ServerCrash, LocksExpire, RedisTurns
<1> QED  BY <1>1, <1>2, OccurFacts

\* A step that touches no row and answers nobody.
LEMMA RowsStay ==
  ASSUME RejectionStands, UNCHANGED <<row, refused>>
  PROVE  RejectionStands'
  BY DEF RejectionStands

LEMMA RejectionKeeps == CapInv /\ RejectionStands /\ [Next]_vars => RejectionStands'
<1> SUFFICES ASSUME CapInv, RejectionStands, [Next]_vars PROVE RejectionStands'
  OBVIOUS
<1>0. ApprovalsTypeOK
  BY DEF CapInv
<1>1. CASE \E t \in Threads : Persist(t)
  <2>1. PICK t \in Threads : Persist(t)
    BY <1>1
  <2> DEFINE q == ask[t]
             s == Decided(row[q.dev], q.reset, q.auto)
  <2>2. q.dev \in Devices /\ q.reset \in BOOLEAN /\ q.auto \in BOOLEAN
    BY <2>1 DEF CapInv, ApprovalsTypeOK, Asks, Persist
  <2>3. s \in Status /\ (row[q.dev] = "rejected" /\ ~q.reset => s = "rejected")
    <3>1. row[q.dev] \in Status \cup {NoRow}
      BY <1>0, <2>2 DEF ApprovalsTypeOK
    <3> QED  BY <3>1, <2>2, DecidedFacts
  <2>4. Stored(q.dev, s, q.reset) \/ UNCHANGED <<row, refused>>
    BY <2>1 DEF Persist
  <2> HIDE DEF q, s
  <2>5. CASE Stored(q.dev, s, q.reset)
    <3> SUFFICES ASSUME NEW d \in refused' PROVE row'[d] = "rejected"
      BY DEF RejectionStands
    <3>1. /\ refused' \subseteq Devices /\ row'[q.dev] = s
          /\ \A e \in Devices : e # q.dev => row'[e] = row[e]
          /\ refused' = IF q.reset THEN refused \ {q.dev} ELSE refused
      BY <1>0, <2>2, <2>3, <2>5, StoredTypes
    <3> QED  BY <2>3, <3>1 DEF RejectionStands
  <2> QED  BY <2>4, <2>5, RowsStay
<1>2. CASE SetApproval
  BY <1>0, <1>2 DEF RejectionStands, SetApproval, ApprovalsTypeOK
<1>3. CASE Revoke
  <2>1. PICK d \in Devices : Deleted({d}) /\ refused' = refused \ {d}
    BY <1>3 DEF Revoke
  <2>2. \A e \in Devices : e # d => row'[e] = row[e]
    BY <2>1 DEF Deleted
  <2>3. refused \subseteq Devices
    BY <1>0 DEF ApprovalsTypeOK
  <2> QED  BY <2>1, <2>2, <2>3 DEF RejectionStands
<1>4. CASE \E v \in Servers : Clean(v)
  <2>1. PICK v \in Servers : Clean(v)
    BY <1>4
  <2>2. CASE Deleted({d \in Devices : Stale(d, job[v])})
    <3>1. \A d \in refused : d \in Devices /\ row[d] = "rejected" /\ ~Stale(d, job[v])
      BY <1>0 DEF ApprovalsTypeOK, RejectionStands, Stale
    <3>2. \A d \in Devices : ~Stale(d, job[v]) => row'[d] = row[d]
      BY <2>2 DEF Deleted
    <3>3. refused' = refused
      BY <2>1 DEF Clean
    <3> QED  BY <3>1, <3>2, <3>3 DEF RejectionStands
  <2>3. CASE UNCHANGED <<row, old, by, answered>>
    BY <2>1, <2>3, RowsStay DEF Clean
  <2> QED  BY <2>1, <2>2, <2>3 DEF Clean
<1>5. CASE \/ \E t \in Threads : Request(t) \/ Count(t) \/ Unpersisted(t)
           \/ ExamChanges \/ RowsAge \/ LocksExpire \/ RedisTurns
           \/ \E v \in Servers : Acquire(v) \/ Release(v) \/ ServerCrash(v)
  BY <1>5, RowsStay DEF Request, Count, Unpersisted, ExamChanges, RowsAge, LocksExpire,
     RedisTurns, Acquire, Release, ServerCrash, approvals
<1>6. CASE UNCHANGED vars
  BY <1>6, RowsStay DEF vars, approvals
<1> QED  BY <1>1, <1>2, <1>3, <1>4, <1>5, <1>6 DEF Next

\* The CASE of the INSERT never lifts a rejection without a reset, and the job
\* deletes no rejected row.
THEOREM RejectionsStand == Spec => []RejectionStands
<1>1. Init => CapInv /\ RejectionStands
  BY InitCap DEF Init, RejectionStands
<1>2. CapInv /\ RejectionStands /\ [Next]_vars => (CapInv /\ RejectionStands)'
  BY CapKeeps, RejectionKeeps
<1> QED  BY <1>1, <1>2, PTL DEF Spec

\* ... and answers nobody, or fails.
LEMMA AnswersStay ==
  ASSUME ToldIsStored, env'["stmt_failure"] = 0 => env["stmt_failure"] = 0,
         UNCHANGED <<row, answered>> \/ env'["stmt_failure"] # 0
  PROVE  ToldIsStored'
  BY DEF ToldIsStored

LEMMA ToldKeeps == CapInv /\ ToldIsStored /\ [Next]_vars => ToldIsStored'
<1> SUFFICES ASSUME CapInv, ToldIsStored, [Next]_vars PROVE ToldIsStored'
  OBVIOUS
<1>0. ApprovalsTypeOK
  BY DEF CapInv
<1>1. env \in [Events -> Nat] /\ (env'["stmt_failure"] = 0 => env["stmt_failure"] = 0)
  <2>1. env'["stmt_failure"] >= env["stmt_failure"] /\ env["stmt_failure"] \in Nat
    BY <1>0, EnvGrows, EventNames DEF ApprovalsTypeOK
  <2> QED  BY <1>0, <2>1 DEF ApprovalsTypeOK
<1>2. CASE \E t \in Threads : Persist(t) \/ Unpersisted(t)
  <2>1. PICK t \in Threads : Persist(t) \/ Unpersisted(t)
    BY <1>2
  <2> DEFINE q == ask[t]
             s == Decided(row[q.dev], q.reset, q.auto)
  <2>2. \/ Stored(q.dev, s, q.reset) /\ answered' = [answered EXCEPT ![q.dev] = s]
        \/ Occur("stmt_failure")
    BY <2>1 DEF Persist, Unpersisted, Answer
  <2>3. CASE Stored(q.dev, s, q.reset) /\ answered' = [answered EXCEPT ![q.dev] = s]
    <3>1. row' = [row EXCEPT ![q.dev] = s]
      BY <2>3 DEF Stored
    <3> HIDE DEF q, s
    <3> QED  BY <1>0, <1>1, <2>3, <3>1 DEF ToldIsStored, ApprovalsTypeOK
  <2>4. CASE Occur("stmt_failure")
    <3>1. env'["stmt_failure"] # 0
      BY <1>1, <2>4, OccurFacts, EventNames
    <3> QED  BY <3>1 DEF ToldIsStored
  <2> QED  BY <2>2, <2>3, <2>4
<1>3. CASE SetApproval
  BY <1>0, <1>1, <1>3 DEF ToldIsStored, SetApproval, ApprovalsTypeOK
<1>4. CASE Revoke
  BY <1>0, <1>1, <1>4 DEF ToldIsStored, Revoke, Deleted, ApprovalsTypeOK
<1>5. CASE \E v \in Servers : Clean(v)
  BY <1>0, <1>1, <1>5 DEF ToldIsStored, Clean, Deleted, ApprovalsTypeOK
<1>6. CASE \/ \E t \in Threads : Request(t) \/ Count(t)
           \/ ExamChanges \/ RowsAge \/ LocksExpire \/ RedisTurns
           \/ \E v \in Servers : Acquire(v) \/ Release(v) \/ ServerCrash(v)
  <2>1. UNCHANGED <<row, answered>>
    BY <1>6 DEF Request, Count, ExamChanges, RowsAge, LocksExpire, RedisTurns, Acquire,
       Release, ServerCrash, approvals
  <2> QED  BY <1>1, <2>1, AnswersStay
<1>7. CASE UNCHANGED vars
  BY <1>1, <1>7, AnswersStay DEF vars, approvals
<1> QED  BY <1>2, <1>3, <1>4, <1>5, <1>6, <1>7 DEF Next

\* RETURNING, and not the decision before the count, is what the student is told.
THEOREM AnswersAreStored == Spec => []ToldIsStored
<1>1. Init => CapInv /\ ToldIsStored
  BY InitCap DEF Init, ToldIsStored
<1>2. CapInv /\ ToldIsStored /\ [Next]_vars => (CapInv /\ ToldIsStored)'
  BY CapKeeps, ToldKeeps
<1> QED  BY <1>1, <1>2, PTL DEF Spec

-----------------------------------------------------------------------------
(***************************************************************************)
(* The lock of the cleanup job.                                            *)
(***************************************************************************)
LEMMA InitJob == Init => JobInv
<1> SUFFICES ASSUME Init PROVE JobInv
  OBVIOUS
<1>1. Running = {}
  BY DEF Init, Running
<1> QED  BY <1>1 DEF Init, JobInv

LEMMA JobKeeps == CapInv /\ JobInv /\ [Next]_vars => JobInv'
<1> SUFFICES ASSUME CapInv, JobInv, [Next]_vars PROVE JobInv'
  OBVIOUS
<1>0. job \in [Servers -> 0..5] /\ env \in [Events -> Nat]
  BY DEF CapInv, ApprovalsTypeOK
<1>1. /\ env["redis_down"] \in Nat /\ env["overrun"] \in Nat
      /\ env'["redis_down"] >= env["redis_down"] /\ env'["overrun"] >= env["overrun"]
  BY <1>0, EnvGrows, EventNames
<1>2. env' \in [Events -> Nat]
  BY CapKeeps DEF CapInv, ApprovalsTypeOK
<1>3. env'["redis_down"] \in Nat /\ env'["overrun"] \in Nat
  BY <1>2, EventNames
<1>4. /\ env'["redis_down"] = 0 => env["redis_down"] = 0
      /\ env'["redis_down"] + env'["overrun"] = 0
           => env["redis_down"] = 0 /\ env["redis_down"] + env["overrun"] = 0
  BY <1>1, <1>3
<1>5. ASSUME UNCHANGED <<jobKey, redisUp>>, local' \subseteq local,
             Running' \subseteq Running
      PROVE  JobInv'
  BY <1>4, <1>5 DEF JobInv
<1>6. CASE \E v \in Servers : Acquire(v)
  <2>1. PICK v \in Servers : Acquire(v)
    BY <1>6
  <2>2. CASE ~redisUp
    <3>1. env["redis_down"] # 0
      BY <2>2 DEF JobInv
    <3> QED  BY <1>4, <3>1 DEF JobInv
  <2>3. CASE redisUp
    <3>1. ~jobKey /\ jobKey' /\ UNCHANGED <<local, redisUp>>
          /\ (job' = [job EXCEPT ![v] = 1] \/ job' = job)
      BY <2>1, <2>3 DEF Acquire, KeyFree
    <3>2. Running' \subseteq Running \cup {v}
      BY <1>0, <3>1 DEF Running
    <3> QED  BY <1>4, <3>1, <3>2 DEF JobInv
  <2> QED  BY <2>2, <2>3
<1>7. CASE \E v \in Servers : Clean(v)
  <2>1. Running' \subseteq Running
    BY <1>0, <1>7 DEF Clean, Deletes, Running
  <2>2. UNCHANGED <<jobKey, redisUp, local>>
    BY <1>7 DEF Clean
  <2> QED  BY <2>1, <2>2, <1>5
<1>8. CASE \E v \in Servers : Release(v)
  <2>1. PICK v \in Servers : Release(v)
    BY <1>8
  <2>2. job[v] = 5 /\ job' = [job EXCEPT ![v] = 0] /\ local' = local \ {v}
        /\ UNCHANGED redisUp
    BY <2>1 DEF Release
  <2>3. v \in Running /\ Running' = Running \ {v}
    BY <1>0, <2>2 DEF Running
  <2> QED  BY <1>4, <2>2, <2>3 DEF JobInv
<1>9. CASE \E v \in Servers : ServerCrash(v)
  <2>1. Running' \subseteq Running
    BY <1>0, <1>9 DEF ServerCrash, Running
  <2>2. UNCHANGED <<jobKey, redisUp>> /\ local' \subseteq local
    BY <1>9 DEF ServerCrash
  <2> QED  BY <2>1, <2>2, <1>5
<1>10. CASE LocksExpire
  <2>1. Running' = Running /\ local' = {} /\ UNCHANGED redisUp
    BY <1>10 DEF LocksExpire, Running
  <2>2. Running # {} => env'["overrun"] > 0
    BY <1>0, <1>10, OccurFacts, EventNames DEF LocksExpire
  <2> QED  BY <1>3, <1>4, <2>1, <2>2 DEF JobInv
<1>11. CASE RedisTurns
  <2>1. env'["redis_down"] # 0
    <3>1. CASE redisUp
      BY <1>0, <1>11, <3>1, OccurFacts, EventNames DEF RedisTurns
    <3>2. CASE ~redisUp
      BY <1>11, <3>2 DEF RedisTurns, JobInv
    <3> QED  BY <3>1, <3>2
  <2> QED  BY <1>3, <2>1 DEF JobInv
<1>12. CASE \/ \E t \in Threads : Request(t) \/ Count(t) \/ Unpersisted(t) \/ Persist(t)
            \/ SetApproval \/ Revoke \/ ExamChanges \/ RowsAge
  <2>1. UNCHANGED jobs
    BY <1>12 DEF Request, Count, Unpersisted, Persist, SetApproval, Revoke, ExamChanges,
       RowsAge
  <2>2. Running' = Running /\ UNCHANGED <<jobKey, redisUp, local>>
    BY <2>1 DEF jobs, Running
  <2> QED  BY <2>2, <1>5
<1>13. CASE UNCHANGED vars
  <2>1. Running' = Running /\ UNCHANGED <<jobKey, redisUp, local>>
    BY <1>13 DEF vars, jobs, Running
  <2> QED  BY <2>1, <1>5
<1> QED  BY <1>6, <1>7, <1>8, <1>9, <1>10, <1>11, <1>12, <1>13 DEF Next

LEMMA AtMostOne ==
  ASSUME NEW S, \A v, w \in S : v = w
  PROVE  Cardinality(S) <= 1
<1>1. CASE S = {}
  BY <1>1, FS_EmptySet
<1>2. CASE S # {}
  <2>1. PICK v \in S : S = {v}
    BY <1>2
  <2> QED  BY <2>1, FS_Singleton
<1> QED  BY <1>1, <1>2

\* SET NX is the lock: a server that runs the job has set the key, so no other
\* gets it before the DEL or the 1800 s.
THEOREM OneServerCleans == Spec => []OneCleanup
<1>1. Init => CapInv /\ JobInv
  BY InitCap, InitJob
<1>2. CapInv /\ JobInv /\ [Next]_vars => (CapInv /\ JobInv)'
  BY CapKeeps, JobKeeps
<1>3. JobInv => OneCleanup
  BY AtMostOne DEF JobInv, OneCleanup
<1> QED  BY <1>1, <1>2, <1>3, PTL DEF Spec
===============================================================================
