----------------------------- MODULE ExamDayProofs -----------------------------
(***************************************************************************)
(* Proofs about ExamDay: the room of the WebSocket clients, the limiter of *)
(* the heartbeats, and their way through the list and the flusher to the   *)
(* table, for every number of clients, devices and threads, every limit,   *)
(* and whatever the bounds are; and the scores, for all questions, weights *)
(* and answers, however often an answer is escaped on its way.             *)
(***************************************************************************)
EXTENDS ExamDay, TLAPS, FiniteSetTheorems, WellFoundedInduction

\* A client that has not connected yet is nowhere: no broadcast, however long
\* it has been under way, can have met it.
Nowhere ==
  \A c \in Clients : wpc[c] = "new" =>
    /\ c \notin room \cup closed
    /\ \A x \in Clients : c \notin snap[x] \cup slow[x]

RoomInv == HubTypeOK /\ RoomSound /\ Nowhere

-----------------------------------------------------------------------------
LEMMA OfferTypes ==
  ASSUME HubTypeOK, NEW c \in Clients, Offer(c)
  PROVE  /\ queued' \in [Clients -> 0..MaxQueue]
         /\ \A x \in closed : queued'[x] = queued[x]
<1>1. MaxQueue \in Nat
  BY HubAssumption
<1>2. CASE Takes(c)
  <2>1. queued' = [queued EXCEPT ![c] = queued[c] + 1] /\ queued[c] < MaxQueue /\ c \notin closed
    BY <1>2 DEF Offer, Takes
  <2>2. queued[c] + 1 \in 0..MaxQueue
    BY <1>1, <2>1 DEF HubTypeOK
  <2> QED  BY <2>1, <2>2 DEF HubTypeOK
<1>3. CASE ~Takes(c)
  BY <1>3 DEF Offer, HubTypeOK
<1> QED  BY <1>2, <1>3

LEMMA CloseTypes ==
  ASSUME HubTypeOK, NEW S \in SUBSET Clients, Close(S)
  PROVE  /\ queued' \in [Clients -> 0..MaxQueue] /\ closed' \in SUBSET Clients
         /\ closed' = closed \cup S
         /\ \A c \in Clients : queued'[c] = IF c \in S THEN 0 ELSE queued[c]
  BY HubAssumption DEF HubTypeOK, Close

\* The room of the clients is empty before anybody connects.
LEMMA RoomInit == Init => RoomInv
<1> SUFFICES ASSUME HubInit PROVE RoomInv
  BY DEF Init
<1>1. HubTypeOK
  BY HubAssumption DEF HubInit, HubTypeOK, WsStages
<1>2. RoomSound /\ Nowhere
  BY DEF HubInit, RoomSound, Nowhere
<1> QED  BY <1>1, <1>2 DEF RoomInv

LEMMA ConnectRoom ==
  ASSUME RoomInv, NEW c \in Clients, Connect(c)
  PROVE  RoomInv'
<1>1. /\ wpc[c] = "new" /\ wpc' = [wpc EXCEPT ![c] = "recv"] /\ room' = room \cup {c}
      /\ UNCHANGED <<closed, queued, snap, slow, leaked>>
  BY DEF Connect, At, To
<1>2. HubTypeOK'
  BY <1>1 DEF RoomInv, HubTypeOK, WsStages
<1>3. RoomSound'
  BY <1>1 DEF RoomInv, HubTypeOK, RoomSound, Nowhere
<1>4. Nowhere'
  BY <1>1 DEF RoomInv, HubTypeOK, Nowhere
<1> QED  BY <1>2, <1>3, <1>4 DEF RoomInv

\* A thread goes on to another stage while it serves its client; what it sends
\* to open clients changes nothing else.
LEMMA StageRoom ==
  ASSUME RoomInv, NEW c \in Clients, NEW s \in WsStages \ {"new", "gone"},
         wpc[c] \notin {"new", "gone"}, wpc' \in {wpc, [wpc EXCEPT ![c] = s]},
         UNCHANGED <<room, closed, leaked>>,
         queued' \in [Clients -> 0..MaxQueue], \A x \in closed : queued'[x] = 0,
         snap' \in [Clients -> SUBSET Clients], slow' \in [Clients -> SUBSET Clients],
         \A x \in Clients : snap'[x] \cup slow'[x] \subseteq room \cup snap[x] \cup slow[x]
  PROVE  RoomInv'
<1>1. HubTypeOK'
  BY DEF RoomInv, HubTypeOK
<1>2. \A x \in Clients : (wpc'[x] = "new" <=> wpc[x] = "new")
                         /\ (wpc'[x] = "gone" <=> wpc[x] = "gone")
  BY DEF RoomInv, HubTypeOK
<1>3. RoomSound'
  BY <1>2 DEF RoomInv, RoomSound
<1>4. Nowhere'
  <2> SUFFICES ASSUME NEW x \in Clients, wpc'[x] = "new"
               PROVE  /\ x \notin room' \cup closed'
                      /\ \A y \in Clients : x \notin snap'[y] \cup slow'[y]
    BY DEF Nowhere
  <2>1. x \notin room \cup closed /\ \A y \in Clients : x \notin snap[y] \cup slow[y]
    BY <1>2 DEF RoomInv, Nowhere
  <2> QED  BY <2>1
<1> QED  BY <1>1, <1>3, <1>4 DEF RoomInv

\* What the invariant says of each variable.
LEMMA RoomFacts ==
  ASSUME RoomInv
  PROVE  /\ queued \in [Clients -> 0..MaxQueue] /\ \A x \in closed : queued[x] = 0
         /\ snap \in [Clients -> SUBSET Clients] /\ slow \in [Clients -> SUBSET Clients]
         /\ room \in SUBSET Clients /\ closed \in SUBSET Clients
         /\ wpc \in [Clients -> WsStages]
  BY DEF RoomInv, HubTypeOK, RoomSound

LEMMA FrameRoom ==
  ASSUME RoomInv, NEW c \in Clients, Frame(c)
  PROVE  RoomInv'
<1>1. wpc[c] = "recv" /\ UNCHANGED <<room, closed, snap, slow, leaked>>
  BY DEF Frame, At
<1>2. queued' \in [Clients -> 0..MaxQueue] /\ \A x \in closed : queued'[x] = 0
  <2>1. CASE Offer(c)
    BY <2>1, RoomFacts, OfferTypes DEF RoomInv
  <2>2. CASE UNCHANGED queued
    BY <2>2, RoomFacts
  <2> QED  BY <2>1, <2>2 DEF Frame
<1>3. \E s \in {"flush", "beat", "completed"} : wpc' = [wpc EXCEPT ![c] = s]
  BY DEF Frame, To
<1> QED  BY <1>1, <1>2, <1>3, RoomFacts, StageRoom DEF WsStages

LEMMA SnapshotRoom ==
  ASSUME RoomInv, NEW c \in Clients, Snapshot(c)
  PROVE  RoomInv'
<1>1. /\ wpc[c] = "snapshot" /\ snap' = [snap EXCEPT ![c] = room]
      /\ UNCHANGED <<room, closed, queued, slow, leaked>>
  BY DEF Snapshot, At
<1>2. \E s \in {"flush", "send"} : wpc' = [wpc EXCEPT ![c] = s]
  BY DEF Snapshot, To
<1>3. snap' \in [Clients -> SUBSET Clients]
  BY <1>1, RoomFacts
<1>4. \A x \in Clients : snap'[x] \cup slow'[x] \subseteq room \cup snap[x] \cup slow[x]
  BY <1>1, RoomFacts
<1> QED  BY <1>1, <1>2, <1>3, <1>4, RoomFacts, StageRoom DEF WsStages

LEMMA SendRoom ==
  ASSUME RoomInv, NEW c \in Clients, Send(c)
  PROVE  RoomInv'
<1>1. PICK x \in snap[c] :
        /\ Offer(x)
        /\ slow' = IF Takes(x) THEN slow ELSE [slow EXCEPT ![c] = slow[c] \cup {x}]
        /\ snap' = [snap EXCEPT ![c] = snap[c] \ {x}]
  BY DEF Send
<1>2. wpc[c] = "send" /\ UNCHANGED <<room, closed, leaked>>
  BY DEF Send, At
<1>3. \E s \in {"sweep", "send"} : wpc' = [wpc EXCEPT ![c] = s]
  BY DEF Send, To
<1>4. x \in Clients
  BY RoomFacts
<1>5. queued' \in [Clients -> 0..MaxQueue] /\ \A y \in closed : queued'[y] = 0
  BY <1>1, <1>4, RoomFacts, OfferTypes DEF RoomInv
<1>6. snap' \in [Clients -> SUBSET Clients] /\ slow' \in [Clients -> SUBSET Clients]
  BY <1>1, <1>4, RoomFacts
<1>7. \A y \in Clients : snap'[y] \cup slow'[y] \subseteq room \cup snap[y] \cup slow[y]
  BY <1>1, RoomFacts
<1> QED  BY <1>2, <1>3, <1>5, <1>6, <1>7, StageRoom DEF WsStages

LEMMA FlushedRoom ==
  ASSUME RoomInv, NEW c \in Clients, Flushed(c)
  PROVE  RoomInv'
<1>1. wpc[c] = "flush" /\ UNCHANGED <<room, closed, snap, slow, leaked>>
      /\ wpc' \in {wpc, [wpc EXCEPT ![c] = "recv"]}
  BY DEF Flushed, At, To
<1>2. queued' \in [Clients -> 0..MaxQueue] /\ \A x \in closed : queued'[x] = 0
  <2>1. CASE UNCHANGED queued
    BY <2>1, RoomFacts
  <2>2. CASE queued[c] > 0 /\ queued' = [queued EXCEPT ![c] = queued[c] - 1]
    <3>1. queued[c] - 1 \in 0..MaxQueue /\ c \notin closed
      BY <2>2, RoomFacts, HubAssumption
    <3> QED  BY <2>2, <3>1, RoomFacts
  <2> QED  BY <2>1, <2>2 DEF Flushed
<1> QED  BY <1>1, <1>2, RoomFacts, StageRoom DEF WsStages

\* Clients of S are closed, the rest of the room stays.
LEMMA ClosingRoom ==
  ASSUME RoomInv, NEW S \in SUBSET Clients, Close(S), room' = room \ S,
         \A x \in S : wpc[x] # "new"
  PROVE  /\ room' \in SUBSET Clients /\ closed' \in SUBSET Clients
         /\ queued' \in [Clients -> 0..MaxQueue]
         /\ room' \cap closed' = {} /\ room \cup closed \subseteq room' \cup closed'
         /\ \A x \in closed' : queued'[x] = 0
         /\ \A x \in Clients : wpc[x] = "new" => x \notin room' \cup closed'
         /\ closed \cup S \subseteq closed'
<1>1. /\ closed' = closed \cup S /\ queued' \in [Clients -> 0..MaxQueue]
      /\ \A c \in Clients : queued'[c] = IF c \in S THEN 0 ELSE queued[c]
  BY CloseTypes DEF RoomInv
<1>2. room \cap closed = {}
  BY DEF RoomInv, RoomSound
<1> QED  BY <1>1, <1>2, RoomFacts DEF RoomInv, Nowhere

LEMMA SweepRoom ==
  ASSUME RoomInv, NEW c \in Clients, Sweep(c)
  PROVE  RoomInv'
<1>1. /\ wpc[c] = "sweep" /\ wpc' = [wpc EXCEPT ![c] = "flush"]
      /\ slow' = [slow EXCEPT ![c] = {}] /\ UNCHANGED <<snap, leaked>>
  BY DEF Sweep, At, To
<1>2. slow' \in [Clients -> SUBSET Clients]
      /\ \A x \in Clients : slow'[x] \subseteq slow[x]
  BY <1>1, RoomFacts
<1>3. CASE UNCHANGED <<room, closed, queued>>
  BY <1>1, <1>2, <1>3, RoomFacts, StageRoom DEF WsStages
<1>4. CASE room' = room \ slow[c] /\ Close(slow[c])
  <2>1. slow[c] \in SUBSET Clients /\ \A x \in slow[c] : wpc[x] # "new"
    BY RoomFacts DEF RoomInv, Nowhere
  <2>2. /\ room' \in SUBSET Clients /\ closed' \in SUBSET Clients
        /\ queued' \in [Clients -> 0..MaxQueue]
        /\ room' \cap closed' = {} /\ room \cup closed \subseteq room' \cup closed'
        /\ \A x \in closed' : queued'[x] = 0
        /\ \A x \in Clients : wpc[x] = "new" => x \notin room' \cup closed'
        /\ closed \subseteq closed'
    BY <1>4, <2>1, ClosingRoom
  <2>3. \A x \in Clients : (wpc'[x] = "new" <=> wpc[x] = "new")
                           /\ (wpc'[x] = "gone" <=> wpc[x] = "gone")
    BY <1>1, RoomFacts
  <2>4. HubTypeOK'
    BY <1>1, <1>2, <2>2, RoomFacts DEF RoomInv, HubTypeOK, WsStages
  <2>5. RoomSound'
    BY <1>1, <2>2, <2>3 DEF RoomInv, RoomSound
  <2>6. Nowhere'
    BY <1>1, <1>2, <2>2, <2>3 DEF RoomInv, Nowhere
  <2> QED  BY <2>4, <2>5, <2>6 DEF RoomInv
<1> QED  BY <1>3, <1>4 DEF Sweep

LEMMA LeaveRoom ==
  ASSUME RoomInv, NEW c \in Clients, Leave(c) \/ Oversize(c)
  PROVE  RoomInv'
<1>1. /\ wpc[c] \in {"recv", "flush"} /\ wpc' = [wpc EXCEPT ![c] = "gone"]
      /\ UNCHANGED <<snap, slow>>
  BY DEF Leave, Oversize, At, To
<1>2. \A x \in Clients : wpc'[x] = IF x = c THEN "gone" ELSE wpc[x]
  BY <1>1, RoomFacts
<1>3. c \in room \cup closed
  BY <1>1 DEF RoomInv, RoomSound
<1>4. leaked' \in SUBSET Clients /\ leaked \subseteq leaked'
  BY DEF Leave, Oversize, RoomInv, HubTypeOK
<1>5. CASE UNCHANGED <<room, closed, queued>> /\ (room = {} \/ c \in leaked')
  <2>1. HubTypeOK'
    BY <1>1, <1>4, <1>5 DEF RoomInv, HubTypeOK, WsStages
  <2>2. RoomSound'
    BY <1>2, <1>3, <1>4, <1>5 DEF RoomInv, RoomSound
  <2>3. Nowhere'
    BY <1>1, <1>2, <1>5 DEF RoomInv, Nowhere
  <2> QED  BY <2>1, <2>2, <2>3 DEF RoomInv
<1>6. CASE room' = room \ {c} /\ Close({c})
  <2>1. {c} \in SUBSET Clients /\ \A x \in {c} : wpc[x] # "new"
    BY <1>1
  <2>2. /\ room' \in SUBSET Clients /\ closed' \in SUBSET Clients
        /\ queued' \in [Clients -> 0..MaxQueue]
        /\ room' \cap closed' = {} /\ room \cup closed \subseteq room' \cup closed'
        /\ \A x \in closed' : queued'[x] = 0
        /\ \A x \in Clients : wpc[x] = "new" => x \notin room' \cup closed'
        /\ closed \cup {c} \subseteq closed'
    BY <1>6, <2>1, ClosingRoom
  <2>3. HubTypeOK'
    BY <1>1, <1>4, <2>2, RoomFacts DEF RoomInv, HubTypeOK, WsStages
  <2>4. RoomSound'
    BY <1>2, <1>4, <2>2 DEF RoomInv, RoomSound
  <2>5. Nowhere'
    BY <1>1, <1>2, <2>2 DEF RoomInv, Nowhere
  <2> QED  BY <2>3, <2>4, <2>5 DEF RoomInv
<1> QED  BY <1>5, <1>6 DEF Leave, RemoveClient, Oversize

LEMMA DisconnectRoom ==
  ASSUME Disconnect
  PROVE  RoomInv'
<1>1. HubTypeOK'
  BY HubAssumption DEF Disconnect, HubTypeOK, WsStages
<1>2. RoomSound' /\ Nowhere'
  BY DEF Disconnect, RoomSound, Nowhere
<1> QED  BY <1>1, <1>2 DEF RoomInv

LEMMA RoomNext == RoomInv /\ [Next]_vars => RoomInv'
<1> SUFFICES ASSUME RoomInv, [Next]_vars PROVE RoomInv'
  OBVIOUS
<1>1. CASE \E c \in Clients : HubBeat(c) \/ HubCompleted(c)
  <2>1. PICK c \in Clients : HubBeat(c) \/ HubCompleted(c)
    BY <1>1
  <2>2. /\ wpc[c] \in {"beat", "completed"} /\ wpc' = [wpc EXCEPT ![c] = "snapshot"]
        /\ UNCHANGED <<room, closed, queued, snap, slow, leaked>>
    BY <2>1 DEF HubBeat, HubCompleted, At, To
  <2> QED  BY <2>2, RoomFacts, StageRoom DEF WsStages
<1>2. CASE \E c \in Clients : HubFrame(c)
  BY <1>2, ConnectRoom, FrameRoom, LeaveRoom DEF HubFrame
<1>3. CASE \E c \in Clients : HubWorks(c)
  BY <1>3, SnapshotRoom, SendRoom, SweepRoom, FlushedRoom DEF HubWorks, HubStep
<1>4. CASE ProcessEnds
  BY <1>4, DisconnectRoom DEF ProcessEnds
<1>5. CASE UNCHANGED hubVars
  BY <1>5 DEF hubVars, RoomInv, HubTypeOK, RoomSound, Nowhere
<1>6. PresenceStep \/ HubDisconnected \/ EditPaper \/ UNCHANGED vars
        \/ (\E d \in Devices : Mark(d) \/ StoreMarked(d))
        => UNCHANGED hubVars
  BY DEF PresenceStep, HubDisconnected, EditPaper, Mark, StoreMarked, vars
<1> QED  BY <1>1, <1>2, <1>3, <1>4, <1>5, <1>6 DEF Next

\* hub.cpp and handle_ws: broadcasts, joins, leaves and removals of slow clients
\* overlap in any way, for every number of clients and every max_queue.
THEOREM RoomIsSound == Spec => []RoomSound
<1>1. Spec => []RoomInv
  BY RoomInit, RoomNext, PTL DEF Spec
<1>2. RoomInv => RoomSound
  BY DEF RoomInv
<1> QED  BY <1>1, <1>2, PTL

-----------------------------------------------------------------------------
(***************************************************************************)
(* The limiter.                                                            *)
(***************************************************************************)
LimiterTypeOK ==
  /\ counter \in [Devices -> [n : Nat, ttl : BOOLEAN]]
  /\ pc \in [Threads -> {"idle", "expire", "gate", "insert", "set", "push", "del"}]
  /\ DOMAIN req = Threads
  /\ env \in [Events -> Nat]

\* Whoever is on the way to EXPIRE has a device.
Expiring == \A t \in Threads : pc[t] = "expire" => req[t].dev \in Devices

LimiterInv == LimiterTypeOK /\ Expiring /\ LimiterReleases

Excused == \E k \in {"crash", "write_refused", "reply_lost"} : env[k] > 0

LEMMA FailureFacts ==
  ASSUME NEW k \in Events, env \in [Events -> Nat], Occur(k)
  PROVE  /\ env' \in [Events -> Nat]
         /\ \A e \in Events : env'[e] >= env[e]
         /\ env'[k] > 0
  BY DEF Occur

LEMMA FailureNames ==
  {"redis_down", "reply_lost", "write_refused", "row_failure", "tx_failure",
   "commit_unknown", "crash"} \subseteq Events
  BY DEF Events

\* Failures are only added up, in a step of the handlers, of the flusher, and
\* of anybody else.
LEMMA ServeEnv ==
  ASSUME NEW t \in Threads, Serve(t)
  PROVE  env' = env \/ \E k \in Events : Occur(k)
  BY FailureNames DEF Serve, AccessLog, CompleteExam, Request, Counted, CountedHere, Expire,
     Gate, Insert, SetKey, PushBeat, DeleteKey

LEMMA FlushEnv ==
  ASSUME Flush
  PROVE  env' = env \/ \E k \in Events : Occur(k)
  BY FailureNames DEF Flush, Tick, Pop, Begin, WriteRow, Commit, Requeue, Requeued

LEMMA EnvTypes ==
  ASSUME LimiterTypeOK, env' = env \/ \E k \in Events : Occur(k)
  PROVE  env' \in [Events -> Nat] /\ (Excused => Excused')
<1>1. env' \in [Events -> Nat] /\ \A e \in Events : env'[e] >= env[e] /\ env[e] \in Nat
  BY FailureFacts DEF LimiterTypeOK
<1> QED  BY <1>1, FailureNames DEF Excused

\* A step that neither counts nor sends anybody away from EXPIRE.
LEMMA LimiterStays ==
  ASSUME LimiterInv, counter' = counter, env' = env \/ \E k \in Events : Occur(k),
         pc' \in [Threads -> {"idle", "expire", "gate", "insert", "set", "push", "del"}],
         DOMAIN req' = Threads,
         \A t \in Threads : pc[t] = "expire" => pc'[t] = "expire" /\ req'[t] = req[t],
         \A t \in Threads : pc'[t] = "expire" => pc[t] = "expire"
  PROVE  LimiterInv'
<1>1. env' \in [Events -> Nat] /\ (Excused => Excused')
  BY EnvTypes DEF LimiterInv
<1>2. LimiterTypeOK'
  BY <1>1 DEF LimiterInv, LimiterTypeOK
<1>3. Expiring'
  BY DEF LimiterInv, Expiring
<1>4. LimiterReleases'
  BY <1>1 DEF LimiterInv, LimiterReleases, Excused
<1> QED  BY <1>2, <1>3, <1>4 DEF LimiterInv

LEMMA LimiterInit == Init => LimiterInv
<1> SUFFICES ASSUME PresenceInit PROVE LimiterInv
  BY DEF Init
<1> QED  BY DEF PresenceInit, LimiterInv, LimiterTypeOK, Expiring, LimiterReleases

LEMMA CountedReleases ==
  ASSUME LimiterInv, NEW t \in Threads, NEW d \in Devices, pc[t] = "idle",
         Counted(t, d), UNCHANGED env,
         NEW op, req' = IF pc'[t] = "idle" THEN req
                        ELSE [req EXCEPT ![t] = [op |-> op, dev |-> d]]
  PROVE  LimiterInv'
<1> DEFINE n == counter[d].n + 1
<1>0. LimiterTypeOK /\ n \in Nat \ {0} /\ (n = 1 <=> counter[d].n = 0)
  BY DEF LimiterInv, LimiterTypeOK
<1>1. /\ counter' = [counter EXCEPT ![d] = [@ EXCEPT !.n = n]]
      /\ \/ n = 1 /\ pc' = [pc EXCEPT ![t] = "expire"]
         \/ n # 1 /\ \E s \in {"gate", "idle"} : pc' = [pc EXCEPT ![t] = s]
  BY DEF Counted, NeedsExpiry
<1> HIDE DEF n
<1>2. counter' \in [Devices -> [n : Nat, ttl : BOOLEAN]]
  <2>1. [counter[d] EXCEPT !.n = n] \in [n : Nat, ttl : BOOLEAN]
    BY <1>0 DEF LimiterTypeOK
  <2> QED  BY <1>0, <1>1, <2>1 DEF LimiterTypeOK
<1>3. LimiterTypeOK'
  BY <1>0, <1>1, <1>2 DEF LimiterTypeOK
<1>4. \A u \in Threads : u # t => pc'[u] = pc[u] /\ req'[u] = req[u]
  BY <1>0, <1>1 DEF LimiterTypeOK
<1>5. n = 1 => pc'[t] = "expire" /\ req'[t].dev = d
  BY <1>0, <1>1 DEF LimiterTypeOK
<1>6. n # 1 => pc'[t] # "expire"
  BY <1>0, <1>1 DEF LimiterTypeOK
<1>7. Expiring'
  <2> SUFFICES ASSUME NEW u \in Threads, pc'[u] = "expire" PROVE req'[u].dev \in Devices
    BY DEF Expiring
  <2> QED  BY <1>4, <1>5, <1>6 DEF LimiterInv, Expiring
<1>8. LimiterReleases'
  <2> SUFFICES ASSUME NEW x \in Devices, counter'[x].n > 0, ~counter'[x].ttl, ~Excused'
               PROVE  \E u \in Threads : pc'[u] = "expire" /\ req'[u].dev = x
    BY DEF LimiterReleases, Excused
  <2>1. counter'[x].ttl = counter[x].ttl
        /\ counter'[x].n = IF x = d THEN n ELSE counter[x].n
    BY <1>0, <1>1 DEF LimiterTypeOK
  <2>2. CASE x = d /\ n = 1
    BY <1>5, <2>2
  <2>3. CASE ~(x = d /\ n = 1)
    <3>1. counter[x].n > 0 /\ ~counter[x].ttl /\ ~Excused
      BY <1>0, <2>1, <2>3 DEF Excused, LimiterTypeOK
    <3>2. PICK u \in Threads : pc[u] = "expire" /\ req[u].dev = x
      BY <3>1 DEF LimiterInv, LimiterReleases, Excused
    <3> QED  BY <1>4, <3>2
  <2> QED  BY <2>2, <2>3
<1> QED  BY <1>3, <1>7, <1>8 DEF LimiterInv

LEMMA CountedHereReleases ==
  ASSUME LimiterInv, NEW t \in Threads, NEW d \in Devices, pc[t] = "idle",
         CountedHere(t, d),
         NEW op, req' = IF pc'[t] = "idle" THEN req
                        ELSE [req EXCEPT ![t] = [op |-> op, dev |-> d]]
  PROVE  LimiterInv'
<1>0. LimiterTypeOK
  BY DEF LimiterInv
<1>1. \E s \in {"gate", "idle"} : pc' = [pc EXCEPT ![t] = s]
  BY <1>0 DEF CountedHere, LimiterTypeOK
<1>2. pc' \in [Threads -> {"idle", "expire", "gate", "insert", "set", "push", "del"}]
      /\ DOMAIN req' = Threads
  BY <1>0, <1>1 DEF LimiterTypeOK
<1>3. \A u \in Threads : u # t => pc'[u] = pc[u] /\ req'[u] = req[u]
  BY <1>0, <1>1 DEF LimiterTypeOK
<1>4. pc'[t] # "expire"
  BY <1>0, <1>1 DEF LimiterTypeOK
<1>5. CASE UNCHANGED counter /\ Occur("redis_down")
  <2>1. "redis_down" \in Events
    BY FailureNames
  <2> QED  BY <1>2, <1>3, <1>4, <1>5, <2>1, LimiterStays
<1>6. CASE Occur("reply_lost") /\ counter' = [counter EXCEPT ![d].n = @ + 1]
  <2>1. env' \in [Events -> Nat] /\ env'["reply_lost"] > 0
    BY <1>0, <1>6, FailureFacts, FailureNames DEF LimiterTypeOK
  <2>2. counter' \in [Devices -> [n : Nat, ttl : BOOLEAN]]
    <3>1. [counter[d] EXCEPT !.n = counter[d].n + 1] \in [n : Nat, ttl : BOOLEAN]
      BY <1>0 DEF LimiterTypeOK
    <3>2. counter' = [counter EXCEPT ![d] = [counter[d] EXCEPT !.n = counter[d].n + 1]]
      BY <1>6
    <3> QED  BY <1>0, <3>1, <3>2 DEF LimiterTypeOK
  <2>3. Expiring'
    <3> SUFFICES ASSUME NEW u \in Threads, pc'[u] = "expire" PROVE req'[u].dev \in Devices
      BY DEF Expiring
    <3> QED  BY <1>3, <1>4 DEF LimiterInv, Expiring
  <2> QED  BY <1>2, <2>1, <2>2, <2>3 DEF LimiterInv, LimiterTypeOK, LimiterReleases
<1> QED  BY <1>5, <1>6 DEF CountedHere

LEMMA ExpireReleases ==
  ASSUME LimiterInv, NEW t \in Threads, Expire(t)
  PROVE  LimiterInv'
<1>0. LimiterTypeOK /\ pc[t] = "expire" /\ req[t].dev \in Devices
  BY DEF LimiterInv, Expiring, Expire
<1>1. pc' = [pc EXCEPT ![t] = "gate"] /\ req' = req
  BY DEF Expire, Goto
<1>2. pc' \in [Threads -> {"idle", "expire", "gate", "insert", "set", "push", "del"}]
      /\ DOMAIN req' = Threads
  BY <1>0, <1>1 DEF LimiterTypeOK
<1>3. Expiring'
  BY <1>0, <1>1 DEF LimiterInv, LimiterTypeOK, Expiring
<1>4. CASE Occur("write_refused") /\ UNCHANGED counter
  <2>1. env' \in [Events -> Nat] /\ env'["write_refused"] > 0
    BY <1>0, <1>4, FailureFacts, FailureNames DEF LimiterTypeOK
  <2> QED  BY <1>0, <1>2, <1>3, <1>4, <2>1 DEF LimiterInv, LimiterTypeOK, LimiterReleases
<1>5. CASE counter' = [counter EXCEPT ![req[t].dev].ttl = (counter[req[t].dev].n > 0)]
           /\ UNCHANGED env
  <2> DEFINE d == req[t].dev
             expires == counter[d].n > 0
  <2>1. counter' = [counter EXCEPT ![d] = [counter[d] EXCEPT !.ttl = expires]]
    BY <1>5
  <2>2. expires \in BOOLEAN /\ d \in Devices
    BY <1>0
  <2>3. ~expires => ~(counter[d].n > 0)
    OBVIOUS
  <2> HIDE DEF d, expires
  <2>4. [counter[d] EXCEPT !.ttl = expires] \in [n : Nat, ttl : BOOLEAN]
    BY <1>0, <2>2 DEF LimiterTypeOK
  <2>5. counter' \in [Devices -> [n : Nat, ttl : BOOLEAN]]
    BY <1>0, <2>1, <2>2, <2>4 DEF LimiterTypeOK
  <2>6. LimiterReleases'
    <3> SUFFICES ASSUME NEW x \in Devices, counter'[x].n > 0, ~counter'[x].ttl, ~Excused'
                 PROVE  \E u \in Threads : pc'[u] = "expire" /\ req'[u].dev = x
      BY DEF LimiterReleases, Excused
    <3>1. CASE x = d
      BY <1>0, <2>1, <2>2, <2>3, <3>1 DEF LimiterTypeOK
    <3>2. CASE x # d
      <4>1. counter'[x] = counter[x] /\ ~Excused
        BY <1>0, <1>5, <2>1, <3>2 DEF LimiterTypeOK, Excused
      <4>2. PICK u \in Threads : pc[u] = "expire" /\ req[u].dev = x
        BY <4>1 DEF LimiterInv, LimiterReleases, Excused
      <4>3. u # t
        BY <3>2, <4>2 DEF d
      <4> QED  BY <1>0, <1>1, <4>2, <4>3 DEF LimiterTypeOK
    <3> QED  BY <3>1, <3>2
  <2> QED  BY <1>0, <1>2, <1>3, <1>5, <2>5, <2>6 DEF LimiterInv, LimiterTypeOK
<1> QED  BY <1>4, <1>5 DEF Expire

LEMMA ServeReleases ==
  ASSUME LimiterInv, NEW t \in Threads, Serve(t)
  PROVE  LimiterInv'
<1>0. LimiterTypeOK /\ (env' = env \/ \E k \in Events : Occur(k))
  BY ServeEnv DEF LimiterInv
<1>1. CASE AccessLog(t) \/ CompleteExam(t)
  <2>1. PICK op : Request(t, op)
    BY <1>1 DEF AccessLog, CompleteExam
  <2>2. PICK d \in Devices :
          /\ (Counted(t, d) /\ UNCHANGED env) \/ CountedHere(t, d)
          /\ req' = IF pc'[t] = "idle" THEN req ELSE [req EXCEPT ![t] = [op |-> op, dev |-> d]]
    BY <2>1 DEF Request
  <2>3. pc[t] = "idle"
    BY <2>1 DEF Request
  <2> QED  BY <2>2, <2>3, CountedReleases, CountedHereReleases
<1>2. CASE Expire(t)
  BY <1>2, ExpireReleases
<1>3. CASE Gate(t) \/ Insert(t) \/ SetKey(t) \/ PushBeat(t) \/ DeleteKey(t)
  <2>1. counter' = counter /\ pc[t] # "expire"
    BY <1>3 DEF Gate, Insert, SetKey, PushBeat, DeleteKey, limiter
  <2>2. \E s \in {"idle", "insert", "set", "push", "del"} : Goto(t, s)
    BY <1>3 DEF Gate, NextStage, Insert, SetKey, PushBeat, DeleteKey
  <2>3. PICK s \in {"idle", "insert", "set", "push", "del"} :
          /\ pc' = [pc EXCEPT ![t] = s]
          /\ req' = req \/ req' = [req EXCEPT ![t] = NoReq]
    BY <2>2 DEF Goto
  <2>4. pc' \in [Threads -> {"idle", "expire", "gate", "insert", "set", "push", "del"}]
        /\ DOMAIN req' = Threads
    BY <1>0, <2>3 DEF LimiterTypeOK
  <2>5. \A u \in Threads : u # t => pc'[u] = pc[u] /\ req'[u] = req[u]
    BY <1>0, <2>3 DEF LimiterTypeOK
  <2>6. pc'[t] # "expire"
    BY <1>0, <2>3 DEF LimiterTypeOK
  <2> QED  BY <1>0, <2>1, <2>4, <2>5, <2>6, LimiterStays
<1> QED  BY <1>1, <1>2, <1>3 DEF Serve

LEMMA WindowReleases ==
  ASSUME LimiterInv, NEW d \in Devices, WindowEnds(d)
  PROVE  LimiterInv'
<1>0. LimiterTypeOK /\ UNCHANGED <<pc, req, env>>
  BY DEF LimiterInv, WindowEnds, handlers
<1>1. CASE counter' = [counter EXCEPT ![d] = [n |-> 0, ttl |-> FALSE]]
  <2>1. counter' \in [Devices -> [n : Nat, ttl : BOOLEAN]]
    BY <1>0, <1>1 DEF LimiterTypeOK
  <2>2. \A x \in Devices : counter'[x].n > 0 => counter'[x] = counter[x]
    BY <1>0, <1>1 DEF LimiterTypeOK
  <2> QED  BY <1>0, <2>1, <2>2 DEF LimiterInv, LimiterTypeOK, Expiring, LimiterReleases
<1>2. CASE UNCHANGED counter
  BY <1>0, <1>2 DEF LimiterInv, LimiterTypeOK, Expiring, LimiterReleases
<1> QED  BY <1>1, <1>2 DEF WindowEnds

LEMMA CrashReleases ==
  ASSUME LimiterInv, Crash
  PROVE  LimiterInv'
<1>1. /\ env' \in [Events -> Nat] /\ env'["crash"] > 0 /\ UNCHANGED counter
      /\ pc' = [t \in Threads |-> "idle"] /\ DOMAIN req' = Threads
  BY FailureFacts, FailureNames DEF LimiterInv, LimiterTypeOK, Crash
<1> QED  BY <1>1 DEF LimiterInv, LimiterTypeOK, Expiring, LimiterReleases

LEMMA LimiterNext == LimiterInv /\ [Next]_vars => LimiterInv'
<1> SUFFICES ASSUME LimiterInv, [Next]_vars PROVE LimiterInv'
  OBVIOUS
<1>0. LimiterTypeOK
  BY DEF LimiterInv
<1>1. CASE PresenceStep
  <2>1. CASE \E t \in Threads : Serve(t)
    BY <2>1, ServeReleases
  <2>2. CASE Flush
    <3>1. UNCHANGED <<counter, pc, req>>
      BY <2>2 DEF Flush, Tick, Pop, Begin, WriteRow, Commit, Requeue, Requeued, limiter, handlers
    <3> QED  BY <1>0, <2>2, <3>1, FlushEnv, LimiterStays DEF LimiterTypeOK
  <2>3. CASE (\E d \in Devices : DeleteSubmission(d) \/ KeyExpires(d)) \/ DeleteExam
    <3>1. UNCHANGED <<counter, pc, req, env>>
      BY <2>3 DEF DeleteSubmission, KeyExpires, DeleteExam, limiter, handlers
    <3> QED  BY <1>0, <3>1, LimiterStays DEF LimiterTypeOK
  <2>4. CASE \E d \in Devices : WindowEnds(d)
    BY <2>4, WindowReleases
  <2> QED  BY <1>1, <2>1, <2>2, <2>3, <2>4 DEF PresenceStep
<1>2. CASE ProcessEnds
  BY <1>2, CrashReleases DEF ProcessEnds
<1>3. CASE HubDisconnected
  <2>1. UNCHANGED <<counter, pc, req>> /\ \E k \in Events : Occur(k)
    BY <1>3, FailureNames DEF HubDisconnected, limiter, handlers
  <2> QED  BY <1>0, <2>1, LimiterStays DEF LimiterTypeOK
<1>4. CASE \/ \E c \in Clients : HubBeat(c) \/ HubCompleted(c) \/ HubFrame(c) \/ HubWorks(c)
           \/ \E d \in Devices : Mark(d) \/ StoreMarked(d)
           \/ EditPaper \/ UNCHANGED vars
  <2>1. UNCHANGED <<counter, pc, req, env>>
    BY <1>4 DEF HubBeat, HubCompleted, HubFrame, HubWorks, Mark, StoreMarked, StoreAnswers,
       EditPaper, vars, presenceVars, limiter, handlers
  <2> QED  BY <1>0, <2>1, LimiterStays DEF LimiterTypeOK
<1> QED  BY <1>1, <1>2, <1>3, <1>4 DEF Next

\* rate_limit_allowed: INCR and EXPIRE are two commands, but whoever counts
\* first is the one to set the expiry, for every number of threads.
THEOREM LimiterAlwaysReleases == Spec => []LimiterReleases
<1>1. Spec => []LimiterInv
  BY LimiterInit, LimiterNext, PTL DEF Spec
<1>2. LimiterInv => LimiterReleases
  BY DEF LimiterInv
<1> QED  BY <1>1, <1>2, PTL

-----------------------------------------------------------------------------
(***************************************************************************)
(* The requests that the threads carry.                                    *)
(***************************************************************************)
Requests == [op : {"none", "login", "heartbeat", "logout", "complete"},
             dev : Devices \cup {"none"}]

RequestTypes ==
  /\ fallback \in [Devices -> 0..FallbackLimit]
  /\ req \in [Threads -> Requests]

\* The request that a thread serves is about a device.
Carrying == \A t \in Threads : pc[t] # "idle" => req[t].dev \in Devices

LEMMA RequestsCarried ==
  ASSUME LimiterTypeOK, LimiterTypeOK', RequestTypes, Carrying,
         NEW t \in Threads, NEW op \in {"login", "heartbeat", "logout", "complete"}, Request(t, op)
  PROVE  RequestTypes' /\ Carrying'
<1>1. PICK d \in Devices :
        /\ (Counted(t, d) /\ UNCHANGED env) \/ CountedHere(t, d)
        /\ req' = IF pc'[t] = "idle" THEN req ELSE [req EXCEPT ![t] = [op |-> op, dev |-> d]]
  BY DEF Request
<1>2. FallbackLimit \in Nat
  BY PresenceAssumption
<1>3. \/ fallback' = fallback
      \/ fallback[d] < FallbackLimit /\ fallback' = [fallback EXCEPT ![d] = fallback[d] + 1]
  <2>1. CASE Counted(t, d)
    BY <2>1 DEF Counted
  <2>2. CASE CountedHere(t, d)
    BY <2>2 DEF CountedHere
  <2> QED  BY <1>1, <2>1, <2>2
<1>4. fallback' \in [Devices -> 0..FallbackLimit]
  BY <1>2, <1>3 DEF RequestTypes
<1>5. pc' = pc \/ \E s : pc' = [pc EXCEPT ![t] = s]
  BY <1>1 DEF Counted, CountedHere
<1>6. \A u \in Threads : u # t => pc'[u] = pc[u]
  BY <1>5 DEF LimiterTypeOK
<1>7. [op |-> op, dev |-> d] \in Requests
  BY DEF Requests
<1>8. req' \in [Threads -> Requests]
  BY <1>1, <1>7 DEF RequestTypes
<1>9. Carrying'
  BY <1>1, <1>6 DEF RequestTypes, Carrying
<1> QED  BY <1>4, <1>8, <1>9 DEF RequestTypes

LEMMA CarryingNext ==
  ASSUME LimiterTypeOK, LimiterTypeOK', RequestTypes, Carrying, [Next]_vars
  PROVE  RequestTypes' /\ Carrying'
<1>1. ASSUME NEW t \in Threads, Serve(t) PROVE RequestTypes' /\ Carrying'
  <2>1. CASE AccessLog(t) \/ CompleteExam(t)
    BY <2>1, RequestsCarried DEF AccessLog, CompleteExam
  <2>2. CASE Expire(t) \/ Gate(t) \/ Insert(t) \/ SetKey(t) \/ PushBeat(t) \/ DeleteKey(t)
    <3>1. UNCHANGED fallback /\ pc[t] # "idle" /\ \E s : Goto(t, s)
      BY <2>2 DEF Expire, Gate, Insert, SetKey, PushBeat, DeleteKey, limiter
    <3>2. PICK s : Goto(t, s)
      BY <3>1
    <3>3. pc' = [pc EXCEPT ![t] = s]
          /\ ((s = "idle" /\ req' = [req EXCEPT ![t] = NoReq]) \/ req' = req)
      BY <3>2 DEF Goto
    <3>4. NoReq \in Requests
      BY DEF NoReq, Requests
    <3>5. RequestTypes'
      BY <3>1, <3>3, <3>4 DEF RequestTypes
    <3>6. Carrying'
      BY <3>1, <3>3 DEF LimiterTypeOK, RequestTypes, Carrying
    <3> QED  BY <3>5, <3>6
  <2> QED  BY <1>1, <2>1, <2>2 DEF Serve
<1>2. ASSUME UNCHANGED <<fallback, pc, req>> PROVE RequestTypes' /\ Carrying'
  BY <1>2 DEF RequestTypes, Carrying
<1>3. CASE PresenceStep
  <2>1. CASE Flush
    BY <1>2, <2>1
       DEF Flush, Tick, Pop, Begin, WriteRow, Commit, Requeue, Requeued, limiter, handlers
  <2>2. CASE (\E d \in Devices : DeleteSubmission(d) \/ KeyExpires(d)) \/ DeleteExam
    BY <1>2, <2>2 DEF DeleteSubmission, KeyExpires, DeleteExam, limiter, handlers
  <2>3. ASSUME NEW d \in Devices, WindowEnds(d) PROVE RequestTypes' /\ Carrying'
    <3>1. UNCHANGED <<pc, req>> /\ (fallback' = fallback \/ fallback' = [fallback EXCEPT ![d] = 0])
      BY <2>3 DEF WindowEnds, handlers
    <3> QED  BY <3>1, PresenceAssumption DEF RequestTypes, Carrying
  <2> QED  BY <1>1, <1>3, <2>1, <2>2, <2>3 DEF PresenceStep
<1>4. CASE ProcessEnds
  <2>1. NoReq \in Requests
    BY DEF NoReq, Requests
  <2>2. /\ pc' = [t \in Threads |-> "idle"] /\ req' = [t \in Threads |-> NoReq]
        /\ fallback' = [d \in Devices |-> 0]
    BY <1>4 DEF ProcessEnds, Crash
  <2> QED  BY <2>1, <2>2, PresenceAssumption DEF RequestTypes, Carrying
<1>5. CASE \/ \E c \in Clients : HubBeat(c) \/ HubCompleted(c) \/ HubFrame(c) \/ HubWorks(c)
           \/ \E d \in Devices : Mark(d) \/ StoreMarked(d)
           \/ HubDisconnected \/ EditPaper \/ UNCHANGED vars
  <2>1. UNCHANGED <<fallback, pc, req>>
    BY <1>5 DEF HubBeat, HubCompleted, HubFrame, HubWorks, Mark, StoreMarked, StoreAnswers,
       HubDisconnected, EditPaper, vars, presenceVars, limiter, handlers
  <2> QED  BY <1>2, <2>1
<1> QED  BY <1>3, <1>4, <1>5 DEF Next

-----------------------------------------------------------------------------
(***************************************************************************)
(* The ledger of the heartbeats: who changes it.                           *)
(***************************************************************************)
ledgerVars == <<list, log, row, exam, erased, fpc, hand, tx, batches, dead, sent>>

LedgerQuiet == UNCHANGED ledgerVars /\ (env' = env \/ \E k \in Events : Occur(k))

LEMMA LedgerSteps ==
  ASSUME Carrying, [Next]_vars
  PROVE  \/ LedgerQuiet \/ Flush \/ DeleteExam \/ Crash
         \/ \E d \in Devices :
              /\ Push(d)
              /\ UNCHANGED <<log, row, exam, erased, fpc, hand, tx, batches, dead, env>>
         \/ \E t \in Threads : Insert(t)
         \/ \E d \in Devices : StoreAnswers(d) \/ DeleteSubmission(d)
<1> USE DEF ledgerVars, redis, tables, flusher
<1>1. ASSUME NEW t \in Threads, AccessLog(t) \/ CompleteExam(t) \/ Expire(t) \/ Gate(t)
                                 \/ SetKey(t) \/ DeleteKey(t)
      PROVE  LedgerQuiet
  <2>1. env' = env \/ \E k \in Events : Occur(k)
    BY <1>1, ServeEnv DEF Serve
  <2>2. UNCHANGED <<list, tables, flusher, sent>>
    BY <1>1 DEF AccessLog, CompleteExam, Request, Expire, Gate, SetKey, DeleteKey
  <2> QED  BY <2>1, <2>2 DEF LedgerQuiet
<1>2. ASSUME NEW t \in Threads, PushBeat(t)
      PROVE  LedgerQuiet \/ \E d \in Devices : 
              /\ Push(d)
              /\ UNCHANGED <<log, row, exam, erased, fpc, hand, tx, batches, dead, env>>
  <2>1. req[t].dev \in Devices
    BY <1>2 DEF PushBeat, Carrying
  <2>2. CASE Push(req[t].dev) /\ UNCHANGED env
    BY <1>2, <2>1, <2>2 DEF PushBeat
  <2>3. CASE Occur("write_refused") /\ UNCHANGED <<sent, list>>
    BY <1>2, <2>3, FailureNames DEF PushBeat, LedgerQuiet
  <2> QED  BY <1>2, <2>2, <2>3 DEF PushBeat
<1>3. ASSUME NEW d \in Devices, KeyExpires(d) \/ WindowEnds(d) PROVE LedgerQuiet
  BY <1>3 DEF KeyExpires, WindowEnds, LedgerQuiet
<1>4. ASSUME NEW c \in Clients, HubBeat(c)
      PROVE  LedgerQuiet \/ \E d \in Devices : 
              /\ Push(d)
              /\ UNCHANGED <<log, row, exam, erased, fpc, hand, tx, batches, dead, env>>
  <2>1. UNCHANGED <<log, row, exam, erased, fpc, hand, tx, batches, dead, env>>
    BY <1>4 DEF HubBeat
  <2>2. UNCHANGED <<list, sent>> \/ \E d \in Devices : Push(d)
    BY <1>4 DEF HubBeat
  <2> QED  BY <2>1, <2>2 DEF LedgerQuiet
<1>5. ASSUME NEW c \in Clients, HubCompleted(c) \/ HubFrame(c) \/ HubWorks(c) PROVE LedgerQuiet
  BY <1>5 DEF HubCompleted, HubFrame, HubWorks, presenceVars, LedgerQuiet
<1>6. ASSUME HubDisconnected \/ EditPaper \/ UNCHANGED vars PROVE LedgerQuiet
  BY <1>6, FailureNames DEF HubDisconnected, EditPaper, vars, presenceVars, LedgerQuiet
<1>7. ASSUME NEW d \in Devices, Mark(d) PROVE LedgerQuiet
  BY <1>7 DEF Mark, LedgerQuiet
<1> QED  BY <1>1, <1>2, <1>3, <1>4, <1>5, <1>6, <1>7
         DEF Next, PresenceStep, Serve, StoreMarked, ProcessEnds

-----------------------------------------------------------------------------
\* Sequences of heartbeats, LPUSH, RPOP, and push_back.
LEMMA LpushFacts ==
  ASSUME NEW s \in Seq(Beats), NEW b \in Beats
  PROVE  LET r == <<b>> \o s IN
         /\ r \in Seq(Beats) /\ Len(r) = Len(s) + 1 /\ DOMAIN r = 1..(Len(s) + 1) /\ r[1] = b
         /\ \A i \in DOMAIN s : (i + 1) \in DOMAIN r /\ r[i + 1] = s[i]
         /\ \A i \in DOMAIN r : i = 1 \/ ((i - 1) \in DOMAIN s /\ r[i] = s[i - 1])
<1> DEFINE r == <<b>> \o s
<1>1. /\ r \in Seq(Beats) /\ Len(r) = Len(s) + 1 /\ r[1] = b /\ Len(s) \in Nat
      /\ \A i \in 2..(Len(s) + 1) : r[i] = s[i - 1]
      /\ DOMAIN s = 1..Len(s) /\ DOMAIN r = 1..(Len(s) + 1)
  OBVIOUS
<1> HIDE DEF r
<1>2. ASSUME NEW i \in DOMAIN s PROVE (i + 1) \in DOMAIN r /\ r[i + 1] = s[i]
  BY <1>1
<1>3. ASSUME NEW i \in DOMAIN r PROVE i = 1 \/ ((i - 1) \in DOMAIN s /\ r[i] = s[i - 1])
  BY <1>1
<1> QED  BY <1>1, <1>2, <1>3 DEF r

LEMMA RpopFacts ==
  ASSUME NEW s \in Seq(Beats), s # <<>>
  PROVE  /\ Front(s) \in Seq(Beats) /\ Len(s) \in DOMAIN s
         /\ Last(s) \in Beats /\ Last(s) = s[Len(s)]
         /\ \A i \in DOMAIN Front(s) : i \in DOMAIN s /\ i # Len(s) /\ Front(s)[i] = s[i]
         /\ \A i \in DOMAIN s : i # Len(s) => i \in DOMAIN Front(s)
<1>1. /\ Len(s) \in Nat \ {0} /\ DOMAIN s = 1..Len(s)
      /\ Front(s) \in Seq(Beats) /\ DOMAIN Front(s) = 1..(Len(s) - 1)
      /\ \A i \in 1..(Len(s) - 1) : Front(s)[i] = s[i]
  BY DEF Front
<1>2. Last(s) \in Beats /\ Last(s) = s[Len(s)]
  BY <1>1 DEF Last
<1> QED  BY <1>1, <1>2

LEMMA AppendFacts ==
  ASSUME NEW S, NEW s \in Seq(S), NEW b \in S
  PROVE  LET r == Append(s, b) IN
         /\ r \in Seq(S) /\ Len(r) = Len(s) + 1 /\ DOMAIN r = 1..(Len(s) + 1) /\ r[Len(s) + 1] = b
         /\ (Len(s) + 1) \notin DOMAIN s /\ Len(s) \in Nat /\ DOMAIN s = 1..Len(s)
         /\ \A i \in DOMAIN s : i \in DOMAIN r /\ r[i] = s[i]
         /\ \A i \in DOMAIN r : i = Len(s) + 1 \/ (i \in DOMAIN s /\ r[i] = s[i])
  OBVIOUS

-----------------------------------------------------------------------------
(***************************************************************************)
(* Types and stages of the ledger.                                         *)
(***************************************************************************)
Event == [dev : Devices, pushed : BOOLEAN]

TxTypes == [logged : SUBSET Beats, placed : SUBSET Devices, read : SUBSET Devices, at : Nat]

LedgerTypes ==
  /\ list \in Seq(Beats) /\ log \in [Beats -> Nat] /\ exam \in BOOLEAN
  /\ row \in [Devices -> {"none", "placeholder", "answers"}]
  /\ fpc \in {"wait", "pop", "rows", "requeue"}
  /\ hand \in Seq(Beats) /\ Len(hand) <= BatchSize
  /\ tx \in TxTypes /\ batches \in 0..MaxBatches /\ dead \subseteq {"pg", "redis"}
  /\ sent \in Seq(Event) /\ erased \subseteq Devices

\* Before a batch nothing is in the transaction, and after its failure neither.
FlusherStages ==
  /\ fpc = "wait" => hand = <<>>
  /\ fpc # "wait" => batches < MaxBatches
  /\ fpc \in {"wait", "pop"} => tx = NoTx
  /\ fpc = "requeue" => tx.logged = {} /\ tx.placed = {} /\ tx.read = {}
  /\ tx.at \in 1..(Len(hand) + 1)

\* What is listed, popped or recorded has arrived; what is written has been popped.
Arrived ==
  /\ Len(sent) <= MaxBeats
  /\ \A i \in DOMAIN list : list[i] <= Len(sent)
  /\ \A i \in DOMAIN hand : hand[i] <= Len(sent)
  /\ \A b \in Beats : log[b] > 0 => b <= Len(sent)
  /\ \A b \in tx.logged : \E i \in DOMAIN hand : hand[i] = b

LedgerOK == LedgerTypes /\ FlusherStages /\ Arrived

\* A new event is not anywhere yet.
LEMMA NewBeat ==
  ASSUME LedgerOK, Len(sent) < MaxBeats
  PROVE  LET b == Len(sent) + 1 IN
         /\ b \in Beats /\ log[b] = 0
         /\ \A i \in DOMAIN list : list[i] # b
         /\ \A i \in DOMAIN hand : hand[i] # b
         /\ b \notin tx.logged
<1> DEFINE b == Len(sent) + 1
<1>1. MaxBeats \in Nat /\ Len(sent) \in Nat
  BY PresenceAssumption DEF LedgerOK, LedgerTypes
<1>2. b \in Beats /\ ~(b <= Len(sent))
  BY <1>1 DEF Beats
<1> HIDE DEF b
<1>3. log[b] \in Nat /\ ~(log[b] > 0)
  BY <1>2 DEF LedgerOK, LedgerTypes, Arrived
<1>4. /\ \A i \in DOMAIN list : list[i] # b
      /\ \A i \in DOMAIN hand : hand[i] # b
  BY <1>2 DEF LedgerOK, Arrived
<1>5. b \notin tx.logged
  BY <1>4 DEF LedgerOK, Arrived
<1>6. log[b] = 0
  BY <1>3
<1> QED  BY <1>2, <1>4, <1>5, <1>6 DEF b

\* An event is appended to the history, and listed or recorded.
LEMMA ArrivesOK ==
  ASSUME LedgerOK, Len(sent) < MaxBeats, NEW e \in Event, sent' = Append(sent, e),
         UNCHANGED <<row, exam, erased, fpc, hand, tx, batches, dead>>,
         \/ list' = <<Len(sent) + 1>> \o list /\ log' = log
         \/ list' = list /\ log' = [log EXCEPT ![Len(sent) + 1] = 1]
  PROVE  LedgerOK'
<1> DEFINE b == Len(sent) + 1
<1>0. LedgerTypes /\ FlusherStages /\ Arrived /\ MaxBeats \in Nat /\ Len(sent) \in Nat
  BY PresenceAssumption DEF LedgerOK, LedgerTypes
<1>1. b \in Beats
  BY NewBeat
<1>2. sent' \in Seq(Event) /\ Len(sent') = b
  BY <1>0, AppendFacts DEF LedgerTypes
<1>3. \A x \in Int : x <= Len(sent) => x <= b
  BY <1>0
<1>4. b <= b /\ b <= MaxBeats
  BY <1>0
<1>n. Beats \subseteq Int
  BY DEF Beats
<1>m. (\A i \in DOMAIN list : list[i] \in Int) /\ (\A i \in DOMAIN hand : hand[i] \in Int)
  BY <1>0 DEF LedgerTypes, Beats
<1> HIDE DEF b
<1>5. CASE list' = <<b>> \o list /\ log' = log
  <2>1. /\ list' \in Seq(Beats)
        /\ \A i \in DOMAIN list' : i = 1 \/ ((i - 1) \in DOMAIN list /\ list'[i] = list[i - 1])
        /\ list'[1] = b
    BY <1>0, <1>1, <1>5, LpushFacts DEF LedgerTypes
  <2>2. LedgerTypes' /\ FlusherStages'
    BY <1>0, <1>2, <1>5, <2>1 DEF LedgerTypes, FlusherStages
  <2>4. \A i \in DOMAIN list' : list'[i] <= b
    BY <1>0, <1>3, <1>4, <1>m, <2>1 DEF Arrived
  <2>6. Arrived'
    BY <1>0, <1>2, <1>3, <1>4, <1>5, <1>m, <1>n, <2>4 DEF Arrived
  <2> QED  BY <2>2, <2>6 DEF LedgerOK
<1>6. CASE list' = list /\ log' = [log EXCEPT ![b] = 1]
  <2>1. LedgerTypes' /\ FlusherStages'
    BY <1>0, <1>2, <1>6 DEF LedgerTypes, FlusherStages
  <2>6. \A x \in Beats : log'[x] > 0 => x = b \/ log[x] > 0
    BY <1>0, <1>6 DEF LedgerTypes
  <2>7. Arrived'
    BY <1>0, <1>2, <1>3, <1>4, <1>6, <1>m, <1>n, <2>6 DEF Arrived
  <2> QED  BY <2>1, <2>7 DEF LedgerOK
<1> QED  BY <1>5, <1>6 DEF b

LEMMA InsertOK ==
  ASSUME LedgerOK, Carrying, NEW t \in Threads, Insert(t)
  PROVE  LedgerOK'
<1>1. req[t].dev \in Devices
  BY DEF Insert, Carrying
<1>2. UNCHANGED <<list, row, exam, erased, fpc, hand, tx, batches, dead>>
  BY DEF Insert, redis, flusher
<1>3. CASE UNCHANGED <<sent, log>>
  BY <1>2, <1>3 DEF LedgerOK, LedgerTypes, FlusherStages, Arrived
<1>4. CASE /\ Len(sent) < MaxBeats
           /\ sent' = Append(sent, [dev |-> req[t].dev, pushed |-> FALSE])
           /\ log' = [log EXCEPT ![Len(sent) + 1] = 1]
  <2>1. [dev |-> req[t].dev, pushed |-> FALSE] \in Event
    BY <1>1 DEF Event
  <2> QED  BY <1>2, <1>4, <2>1, ArrivesOK
<1> QED  BY <1>3, <1>4 DEF Insert

LEMMA TickOK ==
  ASSUME LedgerOK, Tick
  PROVE  LedgerOK'
<1>1. /\ fpc = "wait" /\ fpc' = "pop" /\ batches' = 0 /\ dead' = {}
      /\ UNCHANGED <<hand, tx, list, log, row, exam, erased, sent>>
  BY DEF Tick, redis, tables
<1>2. MaxBatches \in Nat \ {0}
  BY PresenceAssumption
<1> QED  BY <1>1, <1>2 DEF LedgerOK, LedgerTypes, FlusherStages, Arrived

LEMMA PopOK ==
  ASSUME LedgerOK, Pop
  PROVE  LedgerOK'
<1>0. LedgerTypes /\ FlusherStages /\ Arrived
  BY DEF LedgerOK
<1>1. /\ fpc = "pop" /\ Len(hand) < BatchSize /\ list # <<>> /\ list' = Front(list)
      /\ UNCHANGED <<tx, batches, log, row, exam, erased, sent>>
  BY DEF Pop, tables
<1>2. /\ list' \in Seq(Beats) /\ Len(list) \in DOMAIN list
      /\ Last(list) \in Beats /\ Last(list) = list[Len(list)]
      /\ \A i \in DOMAIN list' : i \in DOMAIN list /\ list'[i] = list[i]
  BY <1>0, <1>1, RpopFacts DEF LedgerTypes
<1>3. tx = NoTx /\ tx.at = 1 /\ tx.logged = {}
  BY <1>0, <1>1 DEF FlusherStages, NoTx
<1>4. BatchSize \in Nat
  BY PresenceAssumption
<1>5. CASE hand' = Append(hand, Last(list)) /\ UNCHANGED <<fpc, dead>>
  <2> DEFINE b == Last(list)
  <2>1. /\ hand' \in Seq(Beats) /\ Len(hand') = Len(hand) + 1 /\ Len(hand) \in Nat
        /\ \A i \in DOMAIN hand' : hand'[i] = b \/ (i \in DOMAIN hand /\ hand'[i] = hand[i])
    BY <1>0, <1>2, <1>5, AppendFacts DEF LedgerTypes
  <2>2. b <= Len(sent)
    BY <1>0, <1>2 DEF Arrived
  <2> HIDE DEF b
  <2>3. Len(hand') <= BatchSize
    BY <1>1, <1>4, <2>1
  <2>4. 1 \in 1..(Len(hand') + 1)
    BY <2>1
  <2>5. LedgerTypes'
    BY <1>0, <1>1, <1>2, <1>5, <2>1, <2>3 DEF LedgerTypes
  <2>6. FlusherStages'
    BY <1>0, <1>1, <1>3, <1>5, <2>4 DEF FlusherStages
  <2>7. Arrived'
    BY <1>0, <1>1, <1>2, <1>3, <2>1, <2>2 DEF Arrived
  <2> QED  BY <2>5, <2>6, <2>7 DEF LedgerOK
<1>6. CASE /\ dead' = dead \cup {"redis"} /\ UNCHANGED hand
           /\ fpc' = IF hand = <<>> THEN "wait" ELSE "rows"
  <2>5. LedgerTypes'
    BY <1>0, <1>1, <1>2, <1>6 DEF LedgerTypes
  <2>6. FlusherStages'
    BY <1>0, <1>1, <1>3, <1>6 DEF FlusherStages
  <2>7. Arrived'
    BY <1>0, <1>1, <1>2, <1>3, <1>6 DEF Arrived
  <2> QED  BY <2>5, <2>6, <2>7 DEF LedgerOK
<1> QED  BY <1>5, <1>6 DEF Pop

LEMMA BeginOK ==
  ASSUME LedgerOK, Begin
  PROVE  LedgerOK'
<1>1. /\ fpc = "pop" /\ fpc' = IF hand = <<>> THEN "wait" ELSE "rows"
      /\ UNCHANGED <<hand, tx, batches, dead, list, log, row, exam, erased, sent>>
  BY DEF Begin, redis, tables
<1> QED  BY <1>1 DEF LedgerOK, LedgerTypes, FlusherStages, Arrived

LEMMA WriteRowOK ==
  ASSUME LedgerOK, WriteRow
  PROVE  LedgerOK'
<1> DEFINE b == hand[tx.at]
           d == sent[b].dev
<1>0. LedgerTypes /\ FlusherStages /\ Arrived
  BY DEF LedgerOK
<1>1. /\ fpc = "rows" /\ tx.at <= Len(hand)
      /\ UNCHANGED <<fpc, hand, batches, dead, list, log, row, exam, erased, sent>>
  BY DEF WriteRow, redis, tables
<1>2. /\ tx.at \in DOMAIN hand /\ (tx.at + 1) \in 1..(Len(hand) + 1) /\ (tx.at + 1) \in Nat
      /\ Len(sent) \in Nat /\ DOMAIN sent = 1..Len(sent)
  BY <1>0, <1>1 DEF LedgerTypes, FlusherStages
<1>3. b \in Beats /\ b <= Len(sent)
  BY <1>0, <1>2 DEF LedgerTypes, Arrived
<1>4. b \in DOMAIN sent
  BY <1>2, <1>3 DEF Beats
<1>5. d \in Devices
  <2>1. sent \in Seq(Event)
    BY <1>0 DEF LedgerTypes
  <2>2. sent[b] \in Event
    BY <1>4, <2>1
  <2> QED  BY <2>2 DEF Event
<1>6. \/ tx' = [logged |-> tx.logged \cup {b}, read |-> tx.read \cup {d}, at |-> tx.at + 1,
                placed |-> IF NewPlaceholder(d) THEN tx.placed \cup {d} ELSE tx.placed]
      \/ tx' = [tx EXCEPT !.at = tx.at + 1]
  BY DEF WriteRow
<1>7. \/ tx'.logged = tx.logged \cup {b}
      \/ tx'.logged = tx.logged
  BY <1>0, <1>6 DEF LedgerTypes, TxTypes
<1>8. tx'.at = tx.at + 1
  BY <1>0, <1>6 DEF LedgerTypes, TxTypes
<1>9. tx' \in TxTypes
  <2>1. tx \in TxTypes
    BY <1>0 DEF LedgerTypes
  <2>2. (IF NewPlaceholder(d) THEN tx.placed \cup {d} ELSE tx.placed) \in SUBSET Devices
    BY <1>5, <2>1 DEF TxTypes
  <2> HIDE DEF b, d
  <2>3. tx.logged \cup {b} \in SUBSET Beats /\ tx.read \cup {d} \in SUBSET Devices
    BY <1>3, <1>5, <2>1 DEF TxTypes
  <2> QED  BY <1>2, <1>6, <2>1, <2>2, <2>3 DEF TxTypes
<1>10. LedgerTypes'
  BY <1>0, <1>1, <1>9 DEF LedgerTypes
<1>11. FlusherStages'
  BY <1>0, <1>1, <1>2, <1>8 DEF FlusherStages
<1>12. Arrived'
  BY <1>0, <1>1, <1>2, <1>7 DEF Arrived
<1> QED  BY <1>10, <1>11, <1>12 DEF LedgerOK

\* The transaction is applied.
LEMMA AppliedFacts ==
  ASSUME LedgerOK, Applied
  PROVE  /\ log' \in [Beats -> Nat]
         /\ \A b \in Beats : log'[b] = log[b] + (IF b \in tx.logged THEN 1 ELSE 0)
         /\ row' \in [Devices -> {"none", "placeholder", "answers"}]
         /\ \A d \in Devices : row'[d] = IF d \in tx.placed THEN "placeholder" ELSE row[d]
         /\ erased' = erased \ tx.read
  BY DEF LedgerOK, LedgerTypes, Applied

LEMMA NextBatchOK ==
  ASSUME LedgerOK, fpc # "wait", NextBatch(Len(hand))
  PROVE  /\ batches' \in 0..MaxBatches /\ fpc' \in {"wait", "pop"}
         /\ fpc' # "wait" => batches' < MaxBatches
  BY PresenceAssumption DEF LedgerOK, LedgerTypes, FlusherStages, NextBatch

\* A batch is over: nothing of it is left in the memory of the flusher.
LEMMA BatchOverOK ==
  ASSUME LedgerTypes', tx' = NoTx, hand' = <<>>, fpc' \in {"wait", "pop"},
         fpc' # "wait" => batches' < MaxBatches, UNCHANGED <<list, sent>>, Arrived,
         \A b \in Beats : log'[b] > 0 => b <= Len(sent)
  PROVE  LedgerOK'
<1>1. FlusherStages'
  BY DEF FlusherStages, NoTx
<1>2. Arrived'
  BY DEF Arrived, NoTx
<1> QED  BY <1>1, <1>2 DEF LedgerOK

LEMMA CommitOK ==
  ASSUME LedgerOK, Commit
  PROVE  LedgerOK'
<1>0. LedgerTypes /\ FlusherStages /\ Arrived
  BY DEF LedgerOK
<1>1. /\ fpc = "rows" /\ tx' = NoTx /\ UNCHANGED <<list, exam, sent>>
  BY DEF Commit, redis
<1>2. NoTx \in TxTypes
  BY DEF NoTx, TxTypes
<1>3. /\ log' \in [Beats -> Nat] /\ row' \in [Devices -> {"none", "placeholder", "answers"}]
      /\ erased' \subseteq Devices
      /\ \A b \in Beats : log'[b] > 0 => b <= Len(sent)
  <2>1. CASE UNCHANGED <<log, row, erased>>
    BY <1>0, <2>1 DEF LedgerTypes, Arrived
  <2>2. CASE Applied
    <3>1. \A b \in tx.logged : b <= Len(sent)
      BY <1>0 DEF Arrived
    <3>2. \A b \in Beats : log[b] \in Nat /\ (log[b] > 0 => b <= Len(sent))
      BY <1>0 DEF LedgerTypes, Arrived
    <3>3. \A b \in Beats : log'[b] > 0 => b <= Len(sent)
      BY <2>2, <3>1, <3>2, AppliedFacts
    <3>4. erased' \subseteq Devices
      BY <1>0, <2>2, AppliedFacts DEF LedgerTypes
    <3> QED  BY <2>2, <3>3, <3>4, AppliedFacts
  <2> QED  BY <2>1, <2>2 DEF Commit
<1>4. CASE NextBatch(Len(hand)) /\ hand' = <<>> /\ UNCHANGED dead
  <2>1. /\ batches' \in 0..MaxBatches /\ fpc' \in {"wait", "pop"}
        /\ fpc' # "wait" => batches' < MaxBatches
    BY <1>1, <1>4, NextBatchOK
  <2>2. hand' \in Seq(Beats) /\ Len(hand') <= BatchSize
    BY <1>4, PresenceAssumption
  <2>3. LedgerTypes'
    BY <1>0, <1>1, <1>2, <1>3, <1>4, <2>1, <2>2 DEF LedgerTypes
  <2> QED  BY <1>0, <1>1, <1>3, <1>4, <2>1, <2>3, BatchOverOK
<1>5. CASE dead' = dead \cup {"pg"} /\ fpc' = "requeue" /\ batches' = batches /\ hand' = hand
  <2>1. LedgerTypes'
    BY <1>0, <1>1, <1>2, <1>3, <1>5 DEF LedgerTypes
  <2>2. FlusherStages'
    <3>1. 1 \in 1..(Len(hand) + 1)
      BY <1>0 DEF LedgerTypes
    <3> QED  BY <1>0, <1>1, <1>5, <3>1 DEF FlusherStages, NoTx
  <2>3. Arrived'
    BY <1>0, <1>1, <1>3, <1>5 DEF Arrived, NoTx
  <2> QED  BY <2>1, <2>2, <2>3 DEF LedgerOK
<1> QED  BY <1>4, <1>5 DEF Commit

LEMMA RequeueOK ==
  ASSUME LedgerOK, Requeue
  PROVE  LedgerOK'
<1>0. LedgerTypes /\ FlusherStages /\ Arrived
  BY DEF LedgerOK
<1>1. /\ fpc = "requeue" /\ tx.at <= Len(hand) /\ tx' = [tx EXCEPT !.at = tx.at + 1]
      /\ UNCHANGED <<fpc, hand, batches, dead, log, row, exam, erased, sent>>
      /\ list' = list \/ list' = <<hand[tx.at]>> \o list
  BY DEF Requeue, tables
<1>2. /\ tx.at \in DOMAIN hand /\ (tx.at + 1) \in 1..(Len(hand) + 1) /\ (tx.at + 1) \in Nat
  BY <1>0, <1>1 DEF LedgerTypes, FlusherStages
<1>3. hand[tx.at] \in Beats /\ hand[tx.at] <= Len(sent)
  BY <1>0, <1>2 DEF LedgerTypes, Arrived
<1>4. /\ list' \in Seq(Beats)
      /\ \A i \in DOMAIN list' : list'[i] = hand[tx.at] \/ \E k \in DOMAIN list : list'[i] = list[k]
  <2>1. CASE list' = list
    BY <1>0, <2>1 DEF LedgerTypes
  <2>2. CASE list' = <<hand[tx.at]>> \o list
    <3>1. list \in Seq(Beats)
      BY <1>0 DEF LedgerTypes
    <3>2. /\ list' \in Seq(Beats) /\ list'[1] = hand[tx.at]
          /\ \A i \in DOMAIN list' : i = 1 \/ ((i - 1) \in DOMAIN list /\ list'[i] = list[i - 1])
      BY <1>3, <2>2, <3>1, LpushFacts
    <3> QED  BY <3>2
  <2> QED  BY <1>1, <2>1, <2>2
<1>5. tx' \in TxTypes /\ tx'.at = tx.at + 1
      /\ tx'.logged = tx.logged /\ tx'.placed = tx.placed /\ tx'.read = tx.read
  BY <1>0, <1>1, <1>2 DEF LedgerTypes, TxTypes
<1>6. LedgerTypes'
  BY <1>0, <1>1, <1>4, <1>5 DEF LedgerTypes
<1>7. FlusherStages'
  BY <1>0, <1>1, <1>2, <1>5 DEF FlusherStages
<1>8. Arrived'
  BY <1>0, <1>1, <1>3, <1>4, <1>5 DEF Arrived
<1> QED  BY <1>6, <1>7, <1>8 DEF LedgerOK

LEMMA RequeuedOK ==
  ASSUME LedgerOK, Requeued
  PROVE  LedgerOK'
<1>0. LedgerTypes /\ FlusherStages /\ Arrived
  BY DEF LedgerOK
<1>1. /\ fpc = "requeue" /\ NextBatch(Len(hand)) /\ hand' = <<>> /\ tx' = NoTx
      /\ UNCHANGED <<dead, list, log, row, exam, erased, sent>>
  BY DEF Requeued, redis, tables
<1>2. /\ batches' \in 0..MaxBatches /\ fpc' \in {"wait", "pop"}
      /\ fpc' # "wait" => batches' < MaxBatches
  BY <1>1, NextBatchOK
<1>3. hand' \in Seq(Beats) /\ Len(hand') <= BatchSize /\ NoTx \in TxTypes
  BY <1>1, PresenceAssumption DEF NoTx, TxTypes
<1>4. LedgerTypes'
  BY <1>0, <1>1, <1>2, <1>3 DEF LedgerTypes
<1>5. \A b \in Beats : log'[b] > 0 => b <= Len(sent)
  BY <1>0, <1>1 DEF Arrived
<1> QED  BY <1>0, <1>1, <1>2, <1>4, <1>5, BatchOverOK

LEMMA TablesOK ==
  ASSUME LedgerOK,
         (\E d \in Devices : StoreAnswers(d) \/ DeleteSubmission(d)) \/ DeleteExam
  PROVE  LedgerOK'
<1>0. LedgerTypes /\ FlusherStages /\ Arrived
  BY DEF LedgerOK
<1>1. UNCHANGED <<list, log, fpc, hand, batches, dead, sent>>
  BY DEF StoreAnswers, DeleteSubmission, DeleteExam, redis, flusher
<1>2. /\ row' \in [Devices -> {"none", "placeholder", "answers"}]
      /\ exam' \in BOOLEAN /\ erased' \subseteq Devices
  BY <1>0 DEF StoreAnswers, DeleteSubmission, DeleteExam, LedgerTypes
<1>3. tx' = tx \/ \E d \in Devices : tx' = [tx EXCEPT !.read = tx.read \ {d}]
  BY DEF StoreAnswers, DeleteSubmission, DeleteExam, flusher
<1>4. /\ tx' \in TxTypes /\ tx'.at = tx.at /\ tx'.logged = tx.logged
      /\ tx'.placed = tx.placed /\ tx'.read \subseteq tx.read
  BY <1>0, <1>3 DEF LedgerTypes, TxTypes
<1>5. tx = NoTx => tx' = NoTx
  BY <1>3 DEF NoTx
<1>6. LedgerTypes'
  BY <1>0, <1>1, <1>2, <1>4 DEF LedgerTypes
<1>7. FlusherStages'
  BY <1>0, <1>1, <1>4, <1>5 DEF FlusherStages
<1>8. Arrived'
  BY <1>0, <1>1, <1>4 DEF Arrived
<1> QED  BY <1>6, <1>7, <1>8 DEF LedgerOK

LEMMA CrashOK ==
  ASSUME LedgerOK, Crash
  PROVE  LedgerOK'
<1>0. LedgerTypes /\ FlusherStages /\ Arrived
  BY DEF LedgerOK
<1>1. /\ fpc' = "wait" /\ hand' = <<>> /\ tx' = NoTx /\ batches' = 0 /\ dead' = {}
      /\ UNCHANGED <<list, log, row, exam, erased, sent>>
  BY DEF Crash, redis, tables
<1>2. hand' \in Seq(Beats) /\ Len(hand') <= BatchSize /\ NoTx \in TxTypes /\ MaxBatches \in Nat
  BY <1>1, PresenceAssumption DEF NoTx, TxTypes
<1>3. LedgerTypes'
  BY <1>0, <1>1, <1>2 DEF LedgerTypes
<1>4. \A b \in Beats : log'[b] > 0 => b <= Len(sent)
  BY <1>0, <1>1 DEF Arrived
<1> QED  BY <1>0, <1>1, <1>3, <1>4, BatchOverOK

LEMMA LedgerInit == Init => LedgerOK
<1> SUFFICES ASSUME PresenceInit PROVE LedgerOK
  BY DEF Init
<1>1. LedgerTypes
  BY PresenceAssumption DEF PresenceInit, LedgerTypes, NoTx, TxTypes
<1>2. FlusherStages /\ Arrived
  BY PresenceAssumption DEF PresenceInit, FlusherStages, Arrived, NoTx
<1> QED  BY <1>1, <1>2 DEF LedgerOK

LEMMA LedgerNext == LedgerOK /\ Carrying /\ [Next]_vars => LedgerOK'
<1> SUFFICES ASSUME LedgerOK, Carrying, [Next]_vars PROVE LedgerOK'
  OBVIOUS
<1>1. CASE LedgerQuiet
  BY <1>1 DEF LedgerQuiet, ledgerVars, LedgerOK, LedgerTypes, FlusherStages, Arrived
<1>2. CASE Flush
  BY <1>2, TickOK, PopOK, BeginOK, WriteRowOK, CommitOK, RequeueOK, RequeuedOK DEF Flush
<1>3. ASSUME NEW d \in Devices, Push(d),
             UNCHANGED <<log, row, exam, erased, fpc, hand, tx, batches, dead, env>>
      PROVE  LedgerOK'
  <2>1. [dev |-> d, pushed |-> TRUE] \in Event
    BY DEF Event
  <2> QED  BY <1>3, <2>1, ArrivesOK DEF Push
<1> QED  BY <1>1, <1>2, <1>3, InsertOK, TablesOK, CrashOK, LedgerSteps

-----------------------------------------------------------------------------
(***************************************************************************)
(* A heartbeat is in one place.                                            *)
(***************************************************************************)
LEMMA StepEnv == [Next]_vars => env' = env \/ \E k \in Events : Occur(k)
<1> SUFFICES ASSUME [Next]_vars PROVE env' = env \/ \E k \in Events : Occur(k)
  OBVIOUS
<1>1. CASE PresenceStep
  BY <1>1, ServeEnv, FlushEnv DEF PresenceStep, DeleteSubmission, KeyExpires, WindowEnds, DeleteExam
<1>2. CASE HubDisconnected \/ ProcessEnds
  BY <1>2, FailureNames DEF HubDisconnected, ProcessEnds, Crash
<1>3. CASE \/ \E c \in Clients : HubBeat(c) \/ HubCompleted(c) \/ HubFrame(c) \/ HubWorks(c)
           \/ \E d \in Devices : Mark(d) \/ StoreMarked(d)
           \/ EditPaper \/ UNCHANGED vars
  BY <1>3 DEF HubBeat, HubCompleted, HubFrame, HubWorks, Mark, StoreMarked, StoreAnswers,
     EditPaper, vars, presenceVars
<1> QED  BY <1>1, <1>2, <1>3 DEF Next

LEMMA EnvZero ==
  ASSUME LimiterTypeOK, [Next]_vars
  PROVE  \A e \in Events : /\ env[e] \in Nat /\ env'[e] \in Nat
                           /\ env'[e] = 0 => env[e] = 0
                           /\ env[e] > 0 => env'[e] > 0
<1>1. env \in [Events -> Nat]
  BY DEF LimiterTypeOK
<1>2. env' \in [Events -> Nat] /\ \A e \in Events : env'[e] >= env[e]
  BY <1>1, StepEnv, FailureFacts
<1> QED  BY <1>1, <1>2

\* The positions of hand that are to be settled.
Pending(i) == fpc = "requeue" => i >= tx.at

ApartNow ==
  /\ \A i, k \in DOMAIN list : list[i] = list[k] => i = k
  /\ \A i, k \in DOMAIN hand : Pending(i) /\ Pending(k) /\ hand[i] = hand[k] => i = k
  /\ \A i \in DOMAIN list, k \in DOMAIN hand : Pending(k) => list[i] # hand[k]
  /\ \A i \in DOMAIN list : log[list[i]] = 0
  /\ \A k \in DOMAIN hand : Pending(k) => log[hand[k]] = 0
  /\ \A b \in Beats : log[b] <= 1

\* Until the answer to a COMMIT is lost.
Apart == env["commit_unknown"] = 0 => ApartNow

LEMMA ArrivesApart ==
  ASSUME LedgerOK, ApartNow, Len(sent) < MaxBeats, UNCHANGED <<fpc, hand, tx>>,
         \/ list' = <<Len(sent) + 1>> \o list /\ log' = log
         \/ list' = list /\ log' = [log EXCEPT ![Len(sent) + 1] = 1]
  PROVE  ApartNow'
<1> DEFINE b == Len(sent) + 1
<1>0. list \in Seq(Beats) /\ hand \in Seq(Beats) /\ log \in [Beats -> Nat]
  BY DEF LedgerOK, LedgerTypes
<1>1. /\ b \in Beats /\ log[b] = 0
      /\ \A i \in DOMAIN list : list[i] # b
      /\ \A i \in DOMAIN hand : hand[i] # b
  BY NewBeat
<1> HIDE DEF b
<1>2. CASE list' = <<b>> \o list /\ log' = log
  <2>1. /\ list'[1] = b
        /\ \A i \in DOMAIN list' : i = 1 \/ ((i - 1) \in DOMAIN list /\ list'[i] = list[i - 1])
    BY <1>0, <1>1, <1>2, LpushFacts
  <2>2. \A i \in DOMAIN list' : i \in Int
    BY <1>0, <1>1, <1>2, LpushFacts
  <2>3. \A i, k \in DOMAIN list' : list'[i] = list'[k] => i = k
    <3> SUFFICES ASSUME NEW i \in DOMAIN list', NEW k \in DOMAIN list', list'[i] = list'[k]
                 PROVE  i = k
      OBVIOUS
    <3>1. i \in Int /\ k \in Int
      BY <2>2
    <3>2. i = 1 \/ ((i - 1) \in DOMAIN list /\ list'[i] = list[i - 1] /\ list'[i] # b)
      BY <1>1, <2>1
    <3>3. k = 1 \/ ((k - 1) \in DOMAIN list /\ list'[k] = list[k - 1] /\ list'[k] # b)
      BY <1>1, <2>1
    <3>4. CASE i = 1 \/ k = 1
      BY <2>1, <3>2, <3>3, <3>4
    <3>5. CASE i # 1 /\ k # 1
      <4>1. i - 1 = k - 1
        BY <3>2, <3>3, <3>5 DEF ApartNow
      <4> QED  BY <3>1, <4>1
    <3> QED  BY <3>4, <3>5
  <2>4. \A i \in DOMAIN list' : list'[i] = b \/ \E k \in DOMAIN list : list'[i] = list[k]
    BY <2>1
  <2> QED  BY <1>1, <1>2, <2>3, <2>4 DEF ApartNow, Pending
<1>3. CASE list' = list /\ log' = [log EXCEPT ![b] = 1]
  <2>1. \A x \in Beats : log'[x] = IF x = b THEN 1 ELSE log[x]
    BY <1>0, <1>3
  <2>2. (\A i \in DOMAIN list : list[i] \in Beats) /\ (\A i \in DOMAIN hand : hand[i] \in Beats)
    BY <1>0
  <2> QED  BY <1>1, <1>3, <2>1, <2>2 DEF ApartNow, Pending
<1> QED  BY <1>2, <1>3 DEF b

LEMMA PopApart ==
  ASSUME LedgerOK, ApartNow, Pop
  PROVE  ApartNow'
<1>0. list \in Seq(Beats) /\ hand \in Seq(Beats)
  BY DEF LedgerOK, LedgerTypes
<1>1. /\ fpc = "pop" /\ list # <<>> /\ list' = Front(list) /\ UNCHANGED <<log, tx>>
      /\ fpc' \in {"pop", "wait", "rows"}
  BY DEF Pop, tables
<1>2. /\ Len(list) \in DOMAIN list /\ Last(list) = list[Len(list)] /\ Last(list) \in Beats
      /\ \A i \in DOMAIN list' : i \in DOMAIN list /\ i # Len(list) /\ list'[i] = list[i]
  BY <1>0, <1>1, RpopFacts
<1>3. \A i \in DOMAIN list' : list'[i] # Last(list)
  BY <1>2 DEF ApartNow
<1>4. (\A i : Pending(i)) /\ (\A i : Pending(i)')
  BY <1>1 DEF Pending
<1>5. CASE hand' = hand
  BY <1>1, <1>2, <1>4, <1>5 DEF ApartNow
<1>6. CASE hand' = Append(hand, Last(list))
  <2> DEFINE b == Last(list)
  <2>1. \A i \in DOMAIN hand' :
          \/ i = Len(hand) + 1 /\ hand'[i] = b
          \/ i \in DOMAIN hand /\ hand'[i] = hand[i]
    BY <1>0, <1>2, <1>6, AppendFacts
  <2>2. (\A i \in DOMAIN hand : hand[i] # b) /\ log[b] = 0
    BY <1>2, <1>4 DEF ApartNow
  <2> HIDE DEF b
  <2>3. \A i, k \in DOMAIN hand' : hand'[i] = hand'[k] => i = k
    BY <1>4, <2>1, <2>2 DEF ApartNow
  <2>4. \A i \in DOMAIN list', k \in DOMAIN hand' : list'[i] # hand'[k]
    BY <1>2, <1>3, <1>4, <2>1 DEF ApartNow, b
  <2>5. \A k \in DOMAIN hand' : log[hand'[k]] = 0
    BY <1>4, <2>1, <2>2 DEF ApartNow
  <2>6. \A i, k \in DOMAIN list' : list'[i] = list'[k] => i = k
    BY <1>2 DEF ApartNow
  <2>7. \A i \in DOMAIN list' : log[list'[i]] = 0
    BY <1>2 DEF ApartNow
  <2> QED  BY <1>1, <2>3, <2>4, <2>5, <2>6, <2>7 DEF ApartNow
<1> QED  BY <1>5, <1>6 DEF Pop

\* The flusher has nothing in hand.
LEMMA EmptyApart ==
  ASSUME ApartNow, UNCHANGED list, hand' = <<>>, \A b \in Beats : log'[b] <= 1,
         \A i \in DOMAIN list : log'[list[i]] = 0
  PROVE  ApartNow'
  BY DEF ApartNow

LEMMA CommitApart ==
  ASSUME LedgerOK, LimiterTypeOK, ApartNow, Commit, env'["commit_unknown"] = 0
  PROVE  ApartNow'
<1>0. /\ list \in Seq(Beats) /\ hand \in Seq(Beats) /\ log \in [Beats -> Nat]
      /\ \A b \in tx.logged : \E i \in DOMAIN hand : hand[i] = b
  BY DEF LedgerOK, LedgerTypes, Arrived
<1>1. fpc = "rows" /\ tx' = NoTx /\ UNCHANGED list
  BY DEF Commit, redis
<1>2. \A i : Pending(i)
  BY <1>1 DEF Pending
<1>3. ~Occur("commit_unknown")
  <2> SUFFICES ASSUME Occur("commit_unknown") PROVE FALSE
    OBVIOUS
  <2>1. env'["commit_unknown"] > 0
    BY FailureFacts, FailureNames DEF LimiterTypeOK
  <2> QED  BY <2>1
<1>4. CASE Applied /\ hand' = <<>>
  <2>1. \A b \in tx.logged : log[b] = 0
    BY <1>0, <1>2 DEF ApartNow
  <2>2. \A b \in Beats : log'[b] = IF b \in tx.logged THEN log[b] + 1 ELSE log[b]
    BY <1>0, <1>4, AppliedFacts
  <2>3. \A b \in Beats : log'[b] <= 1
    BY <2>1, <2>2 DEF ApartNow
  <2>4. \A i \in DOMAIN list : list[i] \notin tx.logged /\ list[i] \in Beats
    BY <1>0, <1>2 DEF ApartNow
  <2>5. \A i \in DOMAIN list : log'[list[i]] = 0
    BY <2>2, <2>4 DEF ApartNow
  <2> QED  BY <1>1, <1>4, <2>3, <2>5, EmptyApart
<1>5. CASE UNCHANGED log /\ hand' = hand /\ fpc' = "requeue"
  BY <1>1, <1>2, <1>5 DEF ApartNow
<1> QED  BY <1>3, <1>4, <1>5 DEF Commit

LEMMA RequeueApart ==
  ASSUME LedgerOK, ApartNow, Requeue
  PROVE  ApartNow'
<1>0. /\ list \in Seq(Beats) /\ hand \in Seq(Beats) /\ tx \in TxTypes
      /\ tx.at \in DOMAIN hand
  BY DEF LedgerOK, LedgerTypes, FlusherStages, Requeue
<1>1. /\ fpc = "requeue" /\ tx' = [tx EXCEPT !.at = tx.at + 1]
      /\ UNCHANGED <<fpc, hand, log>>
      /\ list' = list \/ list' = <<hand[tx.at]>> \o list
  BY DEF Requeue, tables
<1>2. tx'.at = tx.at + 1 /\ tx.at \in Nat
  BY <1>0, <1>1 DEF TxTypes
<1>3. \A i \in DOMAIN hand : Pending(i)' => Pending(i) /\ i # tx.at
  BY <1>0, <1>1, <1>2 DEF Pending
<1>4. Pending(tx.at)
  BY <1>2 DEF Pending
<1>5. CASE list' = list
  BY <1>1, <1>3, <1>5 DEF ApartNow
<1>6. CASE list' = <<hand[tx.at]>> \o list
  <2> DEFINE b == hand[tx.at]
  <2>1. /\ b \in Beats /\ log[b] = 0
        /\ \A i \in DOMAIN list : list[i] # b
        /\ \A i \in DOMAIN hand : Pending(i)' => hand[i] # b
    BY <1>0, <1>3, <1>4 DEF ApartNow
  <2>2. /\ list'[1] = b
        /\ \A i \in DOMAIN list' : i = 1 \/ ((i - 1) \in DOMAIN list /\ list'[i] = list[i - 1])
        /\ \A i \in DOMAIN list' : i \in Int
    BY <1>0, <1>6, <2>1, LpushFacts
  <2> HIDE DEF b
  <2>3. \A i, k \in DOMAIN list' : list'[i] = list'[k] => i = k
    <3> SUFFICES ASSUME NEW i \in DOMAIN list', NEW k \in DOMAIN list', list'[i] = list'[k]
                 PROVE  i = k
      OBVIOUS
    <3>1. i \in Int /\ k \in Int
      BY <2>2
    <3>2. i = 1 \/ ((i - 1) \in DOMAIN list /\ list'[i] = list[i - 1] /\ list'[i] # b)
      BY <2>1, <2>2
    <3>3. k = 1 \/ ((k - 1) \in DOMAIN list /\ list'[k] = list[k - 1] /\ list'[k] # b)
      BY <2>1, <2>2
    <3>4. CASE i = 1 \/ k = 1
      BY <2>2, <3>2, <3>3, <3>4
    <3>5. CASE i # 1 /\ k # 1
      <4>1. i - 1 = k - 1
        BY <3>2, <3>3, <3>5 DEF ApartNow
      <4> QED  BY <3>1, <4>1
    <3> QED  BY <3>4, <3>5
  <2>4. \A i \in DOMAIN list' : list'[i] = b \/ \E k \in DOMAIN list : list'[i] = list[k]
    BY <2>2
  <2>5. /\ \A i \in DOMAIN list', k \in DOMAIN hand' : Pending(k)' => list'[i] # hand'[k]
        /\ \A i \in DOMAIN list' : log'[list'[i]] = 0
    BY <1>1, <1>3, <2>1, <2>4 DEF ApartNow
  <2>6. /\ \A i, k \in DOMAIN hand' : Pending(i)' /\ Pending(k)' /\ hand'[i] = hand'[k] => i = k
        /\ \A k \in DOMAIN hand' : Pending(k)' => log'[hand'[k]] = 0
        /\ \A x \in Beats : log'[x] <= 1
    BY <1>1, <1>3 DEF ApartNow
  <2> QED  BY <2>3, <2>5, <2>6 DEF ApartNow
<1> QED  BY <1>1, <1>5, <1>6

LEMMA ApartNext ==
  ASSUME LimiterTypeOK, LedgerOK, Carrying, Apart, [Next]_vars
  PROVE  Apart'
<1> SUFFICES ASSUME env'["commit_unknown"] = 0 PROVE ApartNow'
  BY DEF Apart
<1>0. ApartNow
  BY EnvZero, FailureNames DEF Apart
<1>1. CASE LedgerQuiet
  BY <1>0, <1>1 DEF LedgerQuiet, ledgerVars, ApartNow, Pending
<1>2. ASSUME NEW d \in Devices, Push(d), UNCHANGED <<log, fpc, hand, tx>>
      PROVE  ApartNow'
  BY <1>0, <1>2, ArrivesApart DEF Push
<1>3. ASSUME NEW t \in Threads, Insert(t) PROVE ApartNow'
  <2>1. UNCHANGED <<list, fpc, hand, tx>>
    BY <1>3 DEF Insert, redis, flusher
  <2>2. CASE UNCHANGED log
    BY <1>0, <2>1, <2>2 DEF ApartNow, Pending
  <2>3. CASE Len(sent) < MaxBeats /\ log' = [log EXCEPT ![Len(sent) + 1] = 1]
    BY <1>0, <2>1, <2>3, ArrivesApart
  <2> QED  BY <1>3, <2>2, <2>3 DEF Insert
<1>4. CASE Tick \/ Begin \/ WriteRow
  <2>1. UNCHANGED <<list, log, hand>> /\ (fpc = "requeue" <=> fpc' = "requeue")
        /\ fpc # "requeue"
    BY <1>4 DEF Tick, Begin, WriteRow, redis, tables
  <2> QED  BY <1>0, <2>1 DEF ApartNow, Pending
<1>5. CASE Pop
  BY <1>0, <1>5, PopApart
<1>6. CASE Commit
  BY <1>0, <1>6, CommitApart
<1>7. CASE Requeue
  BY <1>0, <1>7, RequeueApart
<1>8. CASE Requeued \/ Crash
  <2>1. UNCHANGED <<list, log>> /\ hand' = <<>>
    BY <1>8 DEF Requeued, Crash, redis, tables
  <2> QED  BY <1>0, <2>1, EmptyApart DEF ApartNow
<1>9. ASSUME NEW d \in Devices, StoreAnswers(d) \/ DeleteSubmission(d) PROVE ApartNow'
  <2>1. UNCHANGED <<list, log, hand, fpc>> /\ (tx' = tx \/ tx' = [tx EXCEPT !.read = tx.read \ {d}])
    BY <1>9 DEF StoreAnswers, DeleteSubmission, redis, flusher
  <2>2. tx'.at = tx.at
    BY <2>1 DEF LedgerOK, LedgerTypes, TxTypes
  <2> QED  BY <1>0, <2>1, <2>2 DEF ApartNow, Pending
<1>10. CASE DeleteExam
  <2>1. UNCHANGED <<list, log, hand, fpc, tx>>
    BY <1>10 DEF DeleteExam, redis, flusher
  <2> QED  BY <1>0, <2>1 DEF ApartNow, Pending
<1> QED  BY <1>1, <1>2, <1>3, <1>4, <1>5, <1>6, <1>7, <1>8, <1>9, <1>10, LedgerSteps DEF Flush

\* Nobody in two places: the sum of RecordedOnce.
LEMMA ApartOnce ==
  ASSUME LedgerOK, Apart
  PROVE  RecordedOnce
<1> SUFFICES ASSUME ApartNow, NEW b \in Beats
             PROVE  log[b] + Cardinality(Listed(b)) + (IF InHand(b) THEN 1 ELSE 0) <= 1
  BY DEF Apart, RecordedOnce
<1> DEFINE n == Cardinality(Listed(b))
<1>1. log[b] \in {0, 1}
  BY DEF LedgerOK, LedgerTypes, ApartNow
<1>2. InHand(b) => log[b] = 0 /\ Listed(b) = {}
  BY DEF InHand, Listed, ApartNow, Pending
<1>3. Listed(b) # {} => log[b] = 0
  BY DEF Listed, ApartNow
<1>4. Listed(b) = {} => n = 0
  BY FS_EmptySet
<1>5. Listed(b) # {} => n = 1
  <2> SUFFICES ASSUME NEW i \in Listed(b) PROVE n = 1
    OBVIOUS
  <2>1. Listed(b) = {i}
    BY DEF Listed, ApartNow
  <2> QED  BY <2>1, FS_Singleton
<1> HIDE DEF n
<1> QED  BY <1>1, <1>2, <1>3, <1>4, <1>5 DEF n

-----------------------------------------------------------------------------
(***************************************************************************)
(* None is lost.                                                           *)
(***************************************************************************)
Spared == \A k \in {"crash", "write_refused", "reply_lost", "row_failure"} : env[k] = 0

\* Where b is while it is not lost.
Somewhere(b) ==
  \/ log[b] > 0
  \/ \E i \in DOMAIN list : list[i] = b
  \/ \E i \in DOMAIN hand : hand[i] = b /\ Pending(i)

\* What the transaction has gone past is written, and Redis was not given up.
Kept ==
  exam /\ Spared =>
    /\ "redis" \notin dead
    /\ fpc = "rows" => \A i \in DOMAIN hand : i < tx.at => hand[i] \in tx.logged
    /\ \A b \in DOMAIN sent : Somewhere(b)

LEMMA KeptIsNoBeatLost == Kept => NoBeatLost
<1> SUFFICES ASSUME Kept, exam, Spared, NEW b \in DOMAIN sent
             PROVE  log[b] > 0 \/ Listed(b) # {} \/ InHand(b)
  BY DEF NoBeatLost, Spared
<1>1. Somewhere(b)
  BY DEF Kept
<1> QED  BY <1>1 DEF Somewhere, Listed, InHand, Pending

\* Steps that leave everything where it is, while nothing was lost.
LEMMA StaysKept ==
  ASSUME Kept, exam, Spared, UNCHANGED <<list, log, hand, sent>>,
         dead' \subseteq dead,
         fpc = "requeue" <=> fpc' = "requeue",
         tx'.at = tx.at \/ (fpc # "requeue" /\ fpc' # "rows"),
         fpc' = "rows" => fpc = "rows" /\ tx.logged \subseteq tx'.logged
  PROVE  Kept'
  BY DEF Kept, Somewhere, Pending

LEMMA KeptNext ==
  ASSUME LimiterTypeOK, LedgerOK, Carrying, Kept, [Next]_vars
  PROVE  Kept'
<1> SUFFICES ASSUME exam', Spared' PROVE Kept'
  BY DEF Kept
<1>0. /\ Spared /\ LedgerTypes /\ FlusherStages /\ Arrived
      /\ ~Occur("crash") /\ ~Occur("write_refused") /\ ~Occur("reply_lost") /\ ~Occur("row_failure")
  <2>1. LedgerTypes /\ FlusherStages /\ Arrived
    BY DEF LedgerOK
  <2>2. {"crash", "write_refused", "reply_lost", "row_failure"} \subseteq Events
    BY FailureNames
  <2>3. Spared
    BY <2>2, EnvZero DEF Spared
  <2>4. \A k \in {"crash", "write_refused", "reply_lost", "row_failure"} : Occur(k) => FALSE
    <3> SUFFICES ASSUME NEW k \in {"crash", "write_refused", "reply_lost", "row_failure"}, Occur(k)
                 PROVE  FALSE
      OBVIOUS
    <3>1. env'[k] > 0
      BY <2>2, FailureFacts DEF LimiterTypeOK
    <3>2. env'[k] = 0
      BY DEF Spared
    <3> QED  BY <3>1, <3>2
  <2> QED  BY <2>1, <2>3, <2>4
<1>1. CASE LedgerQuiet
  <2>1. exam /\ UNCHANGED <<list, log, hand, sent, dead, fpc, tx>>
    BY <1>1 DEF LedgerQuiet, ledgerVars
  <2> QED  BY <1>0, <2>1 DEF Kept, Somewhere, Pending
<1>2. ASSUME Len(sent) < MaxBeats, NEW e \in Event, sent' = Append(sent, e),
             UNCHANGED <<exam, fpc, hand, tx, dead>>,
             \/ list' = <<Len(sent) + 1>> \o list /\ log' = log
             \/ list' = list /\ log' = [log EXCEPT ![Len(sent) + 1] = 1]
      PROVE  Kept'
  <2>b. PICK b \in Beats : b = Len(sent) + 1
    BY <1>2, NewBeat
  <2>1. /\ b \in Beats /\ \A x \in DOMAIN sent' : x = b \/ x \in DOMAIN sent
    BY <1>0, <1>2, <2>b, AppendFacts DEF LedgerTypes
  <2>2. \/ /\ list' = <<b>> \o list /\ log' = log
        \/ /\ list' = list /\ log' = [log EXCEPT ![b] = 1]
    BY <1>2, <2>b
  <2>3. Somewhere(b)' /\ \A x \in DOMAIN sent : Somewhere(x) => Somewhere(x)'
    <3>1. CASE list' = <<b>> \o list /\ log' = log
      <4>1. /\ list'[1] = b /\ 1 \in DOMAIN list'
            /\ \A i \in DOMAIN list : (i + 1) \in DOMAIN list' /\ list'[i + 1] = list[i]
        BY <1>0, <2>1, <3>1, LpushFacts DEF LedgerTypes
      <4> QED  BY <1>2, <3>1, <4>1 DEF Somewhere, Pending
    <3>2. CASE list' = list /\ log' = [log EXCEPT ![b] = 1]
      <4>1. log'[b] = 1 /\ \A x : log[x] > 0 => log'[x] > 0
        BY <1>0, <2>1, <3>2 DEF LedgerTypes
      <4> QED  BY <1>2, <3>2, <4>1 DEF Somewhere, Pending
    <3> QED  BY <2>2, <3>1, <3>2
  <2> QED  BY <1>0, <1>2, <2>1, <2>3 DEF Kept
<1>3. ASSUME NEW d \in Devices, Push(d),
             UNCHANGED <<log, row, exam, erased, fpc, hand, tx, batches, dead, env>>
      PROVE  Kept'
  <2>1. [dev |-> d, pushed |-> TRUE] \in Event
    BY DEF Event
  <2> QED  BY <1>2, <1>3, <2>1 DEF Push
<1>4. ASSUME NEW t \in Threads, Insert(t) PROVE Kept'
  <2>1. [dev |-> req[t].dev, pushed |-> FALSE] \in Event
    BY <1>4 DEF Event, Insert, Carrying
  <2> QED  BY <1>0, <1>2, <1>4, <2>1 DEF Insert, redis, flusher
<1>5. CASE Tick
  <2>1. /\ exam /\ fpc = "wait" /\ fpc' = "pop" /\ dead' = {}
        /\ UNCHANGED <<list, log, hand, sent, tx>>
    BY <1>5 DEF Tick, redis, tables
  <2> QED  BY <1>0, <2>1, StaysKept
<1>6. CASE Pop
  <2>1. /\ fpc = "pop" /\ list # <<>> /\ list' = Front(list) /\ hand' = Append(hand, Last(list))
        /\ UNCHANGED <<fpc, dead, tx, log, exam, sent>>
    BY <1>0, <1>6 DEF Pop, tables
  <2>2. /\ Last(list) \in Beats /\ Last(list) = list[Len(list)]
        /\ \A i \in DOMAIN list : i # Len(list) => i \in DOMAIN list' /\ list'[i] = list[i]
    BY <1>0, <2>1, RpopFacts DEF LedgerTypes
  <2>3. /\ (Len(hand) + 1) \in DOMAIN hand' /\ hand'[Len(hand) + 1] = Last(list)
        /\ \A i \in DOMAIN hand : i \in DOMAIN hand' /\ hand'[i] = hand[i]
    BY <1>0, <2>1, <2>2, AppendFacts DEF LedgerTypes
  <2>4. \A b \in DOMAIN sent : Somewhere(b) => Somewhere(b)'
    BY <2>1, <2>2, <2>3 DEF Somewhere, Pending
  <2> QED  BY <1>0, <2>1, <2>4 DEF Kept
<1>7. CASE Begin
  <2>1. /\ exam /\ fpc = "pop" /\ fpc' = IF hand = <<>> THEN "wait" ELSE "rows"
        /\ UNCHANGED <<list, log, hand, sent, dead, tx>>
    BY <1>7 DEF Begin, redis, tables
  <2>2. tx.at = 1
    BY <1>0, <2>1 DEF FlusherStages, NoTx
  <2>3. \A i \in DOMAIN hand : ~(i < tx.at)
    BY <1>0, <2>2 DEF LedgerTypes
  <2>4. \A b : Somewhere(b) => Somewhere(b)'
    BY <2>1 DEF Somewhere, Pending
  <2> QED  BY <1>0, <2>1, <2>3, <2>4 DEF Kept
<1>8. CASE WriteRow
  <2>1. /\ exam /\ fpc = "rows" /\ UNCHANGED <<list, log, hand, sent, dead, fpc>>
    BY <1>8 DEF WriteRow, redis, tables
  <2>2. tx'.at = tx.at + 1 /\ tx'.logged = tx.logged \cup {hand[tx.at]}
    BY <1>0, <1>8, <2>1 DEF WriteRow
  <2>3. tx.at \in Nat /\ \A i \in DOMAIN hand : i \in Nat
    BY <1>0 DEF LedgerTypes, TxTypes
  <2>4. \A i \in DOMAIN hand : i < tx'.at => i < tx.at \/ i = tx.at
    BY <2>2, <2>3
  <2>5. \A b : Somewhere(b) => Somewhere(b)'
    BY <2>1 DEF Somewhere, Pending
  <2> QED  BY <1>0, <2>1, <2>2, <2>4, <2>5 DEF Kept
<1>9. CASE Commit
  <2>1. /\ exam /\ fpc = "rows" /\ tx' = NoTx /\ tx.at > Len(hand) /\ UNCHANGED <<list, sent>>
    BY <1>9 DEF Commit, redis
  <2>2. \A i \in DOMAIN hand : i < tx.at
    BY <1>0, <2>1 DEF LedgerTypes, TxTypes
  <2>3. \A i \in DOMAIN hand : hand[i] \in tx.logged
    BY <1>0, <2>1, <2>2 DEF Kept
  <2>4. CASE Applied /\ hand' = <<>> /\ fpc' # "rows" /\ UNCHANGED dead
    <3>1. \A b \in Beats : log[b] \in Nat
      BY <1>0 DEF LedgerTypes
    <3>2. \A b \in Beats : log[b] > 0 \/ b \in tx.logged => log'[b] > 0
      BY <2>4, <3>1, AppliedFacts
    <3>3. /\ Len(sent) <= MaxBeats /\ \A b \in DOMAIN sent : b \in Beats
      BY <1>0, PresenceAssumption DEF LedgerTypes, Arrived, Beats
    <3>4. \A b \in DOMAIN sent : Somewhere(b) => Somewhere(b)'
      BY <2>1, <2>3, <3>2, <3>3 DEF Somewhere
    <3> QED  BY <1>0, <2>1, <2>4, <3>4 DEF Kept
  <2>5. CASE hand' = hand /\ fpc' = "requeue" /\ dead' = dead \cup {"pg"}
             /\ (UNCHANGED log \/ Applied)
    <3>1. \A b \in Beats : log[b] \in Nat
      BY <1>0 DEF LedgerTypes
    <3>2. \A b \in Beats : log[b] > 0 => log'[b] > 0
      BY <2>5, <3>1, AppliedFacts
    <3>3. /\ Len(sent) <= MaxBeats /\ \A b \in DOMAIN sent : b \in Beats
      BY <1>0, PresenceAssumption DEF LedgerTypes, Arrived, Beats
    <3>4. \A i \in DOMAIN hand : i >= tx'.at
      BY <1>0, <2>1 DEF LedgerTypes, NoTx
    <3>5. \A b \in DOMAIN sent : Somewhere(b) => Somewhere(b)'
      BY <2>1, <2>5, <3>2, <3>3, <3>4 DEF Somewhere, Pending
    <3> QED  BY <1>0, <2>1, <2>5, <3>5 DEF Kept
  <2>6. NextBatch(Len(hand)) => fpc' # "rows"
    BY DEF NextBatch
  <2> QED  BY <1>9, <2>4, <2>5, <2>6 DEF Commit
<1>10. CASE Requeue
  <2>1. /\ exam /\ fpc = "requeue" /\ tx' = [tx EXCEPT !.at = tx.at + 1]
        /\ UNCHANGED <<log, hand, sent, dead, fpc>>
    BY <1>10 DEF Requeue, tables
  <2>2. "redis" \notin dead
    BY <1>0, <2>1 DEF Kept
  <2>3. list' = <<hand[tx.at]>> \o list
    BY <1>0, <1>10, <2>2 DEF Requeue
  <2>4. tx'.at = tx.at + 1 /\ tx.at \in DOMAIN hand /\ hand[tx.at] \in Beats
    BY <1>0, <1>10, <2>1 DEF LedgerTypes, TxTypes, FlusherStages, Requeue
  <2>5. /\ list'[1] = hand[tx.at] /\ 1 \in DOMAIN list'
        /\ \A i \in DOMAIN list : (i + 1) \in DOMAIN list' /\ list'[i + 1] = list[i]
    <3>1. PICK b \in Beats : b = hand[tx.at]
      BY <2>4
    <3>2. list' = <<b>> \o list /\ list \in Seq(Beats) /\ Len(list) \in Nat
      BY <1>0, <2>3, <3>1 DEF LedgerTypes
    <3> QED  BY <3>1, <3>2, LpushFacts
  <2>6. tx.at \in Nat /\ \A i \in DOMAIN hand : i \in Nat
    BY <1>0 DEF LedgerTypes, TxTypes
  <2>7. \A i \in DOMAIN hand : i >= tx.at => i = tx.at \/ i >= tx'.at
    BY <2>4, <2>6
  <2>8. \A b : Somewhere(b) => Somewhere(b)'
    BY <2>1, <2>5, <2>7 DEF Somewhere, Pending
  <2> QED  BY <1>0, <2>1, <2>8 DEF Kept
<1>11. CASE Requeued
  <2>1. /\ exam /\ fpc = "requeue" /\ tx.at > Len(hand) /\ fpc' # "rows"
        /\ UNCHANGED <<list, log, sent, dead>>
    BY <1>11 DEF Requeued, NextBatch, redis, tables
  <2>2. \A i \in DOMAIN hand : ~(i >= tx.at)
    BY <1>0, <2>1 DEF LedgerTypes, TxTypes
  <2>3. \A b : Somewhere(b) => Somewhere(b)'
    BY <2>1, <2>2 DEF Somewhere, Pending
  <2> QED  BY <1>0, <2>1, <2>3 DEF Kept
<1>12. ASSUME NEW d \in Devices, StoreAnswers(d) \/ DeleteSubmission(d) PROVE Kept'
  <2>1. /\ exam /\ UNCHANGED <<list, log, hand, sent, dead, fpc>>
        /\ tx' = tx \/ tx' = [tx EXCEPT !.read = tx.read \ {d}]
    BY <1>12 DEF StoreAnswers, DeleteSubmission, redis, flusher
  <2>2. tx'.at = tx.at /\ tx'.logged = tx.logged
    BY <1>0, <2>1 DEF LedgerTypes, TxTypes
  <2> QED  BY <1>0, <2>1, <2>2, StaysKept
<1>13. ~DeleteExam /\ ~Crash
  BY <1>0 DEF DeleteExam, Crash
<1> QED  BY <1>1, <1>3, <1>4, <1>5, <1>6, <1>7, <1>8, <1>9, <1>10, <1>11, <1>12, <1>13,
            LedgerSteps DEF Flush

-----------------------------------------------------------------------------
(***************************************************************************)
(* Who was recorded is shown.                                              *)
(***************************************************************************)
\* Who was read has a row, in the table or in the transaction; who is written was
\* read, or deleted since.
Shown ==
  exam =>
    /\ \A d \in tx.read : row[d] # "none" \/ d \in tx.placed
    /\ \A b \in tx.logged : sent[b].dev \in tx.read \cup erased
    /\ \A b \in DOMAIN sent :
         sent[b].pushed /\ log[b] > 0 => row[sent[b].dev] # "none" \/ sent[b].dev \in erased

LEMMA ShownIsRecordedIsShown == Shown => RecordedIsShown
  BY DEF Shown, RecordedIsShown

\* Beats of the transaction are events, of devices.
LEMMA LoggedFacts ==
  ASSUME LedgerOK
  PROVE  /\ tx.logged \subseteq DOMAIN sent
         /\ \A b \in DOMAIN sent : b \in Beats /\ sent[b].dev \in Devices
<1>0. LedgerTypes /\ Arrived /\ MaxBeats \in Nat
  BY PresenceAssumption DEF LedgerOK
<1>1. DOMAIN sent = 1..Len(sent) /\ Len(sent) \in Nat /\ Len(sent) <= MaxBeats
  BY <1>0 DEF LedgerTypes, Arrived
<1>2. \A b \in DOMAIN sent : b \in Beats
  BY <1>0, <1>1 DEF Beats
<1>3. \A b \in DOMAIN sent : sent[b] \in Event
  BY <1>0 DEF LedgerTypes
<1>4. \A b \in tx.logged : b \in Beats /\ b <= Len(sent)
  BY <1>0 DEF LedgerTypes, TxTypes, Arrived
<1>5. tx.logged \subseteq DOMAIN sent
  BY <1>1, <1>4 DEF Beats
<1> QED  BY <1>2, <1>3, <1>5 DEF Event

LEMMA ShownNext ==
  ASSUME LedgerOK, Carrying, Shown, [Next]_vars
  PROVE  Shown'
<1> SUFFICES ASSUME exam' PROVE Shown'
  BY DEF Shown
<1>0. LedgerTypes /\ FlusherStages /\ Arrived
  BY DEF LedgerOK
<1>1. CASE LedgerQuiet
  BY <1>1 DEF LedgerQuiet, ledgerVars, Shown
<1>2. ASSUME exam, UNCHANGED <<row, erased>>, tx' = tx \/ tx' = NoTx,
             UNCHANGED sent, UNCHANGED log
      PROVE  Shown'
  BY <1>2 DEF Shown, NoTx
<1>3. ASSUME Len(sent) < MaxBeats, NEW e \in Event, sent' = Append(sent, e),
             UNCHANGED <<exam, row, erased, tx>>,
             \/ log' = log
             \/ ~e.pushed /\ log' = [log EXCEPT ![Len(sent) + 1] = 1]
      PROVE  Shown'
  <2>b. PICK b \in Beats : b = Len(sent) + 1
    BY <1>3, NewBeat
  <2>1. /\ sent'[b] = e /\ b \notin DOMAIN sent
        /\ \A x \in DOMAIN sent : sent'[x] = sent[x]
        /\ \A x \in DOMAIN sent' : x = b \/ x \in DOMAIN sent
    BY <1>0, <1>3, <2>b, AppendFacts DEF LedgerTypes
  <2>2. log[b] = 0 /\ ~(log[b] > 0)
    BY <1>3, <2>b, NewBeat
  <2>3. \A x \in DOMAIN sent : x # b /\ log'[x] = log[x]
    BY <1>0, <1>3, <2>b, <2>1, LoggedFacts DEF LedgerTypes
  <2>4. e.pushed => ~(log'[b] > 0)
    BY <1>3, <2>2
  <2>5. \A x \in tx'.logged : sent'[x] = sent[x]
    BY <1>3, <2>1, LoggedFacts
  <2>6. /\ \A x \in tx'.read : row'[x] # "none" \/ x \in tx'.placed
        /\ \A x \in tx'.logged : sent'[x].dev \in tx'.read \cup erased'
    BY <1>3, <2>5 DEF Shown
  <2>7. ASSUME NEW x \in DOMAIN sent', sent'[x].pushed, log'[x] > 0
        PROVE  row'[sent'[x].dev] # "none" \/ sent'[x].dev \in erased'
    <3>1. x \in DOMAIN sent
      BY <2>1, <2>4, <2>7
    <3> QED  BY <1>3, <2>1, <2>3, <2>7, <3>1 DEF Shown
  <2> QED  BY <2>6, <2>7 DEF Shown
<1>4. ASSUME NEW d \in Devices, Push(d),
             UNCHANGED <<log, row, exam, erased, fpc, hand, tx, batches, dead, env>>
      PROVE  Shown'
  <2>1. [dev |-> d, pushed |-> TRUE] \in Event
    BY DEF Event
  <2> QED  BY <1>3, <1>4, <2>1 DEF Push
<1>5. ASSUME NEW t \in Threads, Insert(t) PROVE Shown'
  <2>1. [dev |-> req[t].dev, pushed |-> FALSE] \in Event
    BY <1>5 DEF Event, Insert, Carrying
  <2>2. exam /\ UNCHANGED <<exam, row, erased, tx>>
    BY <1>5 DEF Insert, redis, flusher
  <2> QED  BY <1>2, <1>3, <1>5, <2>1, <2>2 DEF Insert
<1>6. CASE Tick \/ Pop \/ Begin \/ Requeued \/ Crash
  <2>1. exam /\ UNCHANGED <<log, row, erased, sent>> /\ (tx' = tx \/ tx' = NoTx)
    BY <1>6 DEF Tick, Pop, Begin, Requeued, Crash, redis, tables
  <2> QED  BY <1>2, <2>1
<1>7. CASE WriteRow
  <2> DEFINE b == hand[tx.at]
             d == sent[b].dev
  <2>1. exam /\ UNCHANGED <<log, row, erased, sent>>
    BY <1>7 DEF WriteRow, redis, tables
  <2>2. \/ /\ tx'.logged = tx.logged \cup {b} /\ tx'.read = tx.read \cup {d}
           /\ tx'.placed = IF NewPlaceholder(d) THEN tx.placed \cup {d} ELSE tx.placed
        \/ /\ tx'.logged = tx.logged /\ tx'.read = tx.read /\ tx'.placed = tx.placed
    <3>1. \/ tx' = [logged |-> tx.logged \cup {b}, read |-> tx.read \cup {d}, at |-> tx.at + 1,
                   placed |-> IF NewPlaceholder(d) THEN tx.placed \cup {d} ELSE tx.placed]
          \/ tx' = [tx EXCEPT !.at = tx.at + 1]
      BY <1>7 DEF WriteRow
    <3>2. tx \in TxTypes
      BY <1>0 DEF LedgerTypes
    <3> DEFINE p == IF NewPlaceholder(d) THEN tx.placed \cup {d} ELSE tx.placed
    <3> HIDE DEF b, d, p
    <3>3. CASE tx' = [logged |-> tx.logged \cup {b}, read |-> tx.read \cup {d}, at |-> tx.at + 1,
                      placed |-> p]
      <4>1. tx'.logged = tx.logged \cup {b} /\ tx'.read = tx.read \cup {d} /\ tx'.placed = p
        BY <3>3
      <4> QED  BY <4>1 DEF p
    <3>4. CASE tx' = [tx EXCEPT !.at = tx.at + 1]
      BY <3>2, <3>4 DEF TxTypes
    <3> QED  BY <3>1, <3>3, <3>4 DEF p
  <2> HIDE DEF b
  <2>3. CASE tx'.logged = tx.logged /\ tx'.read = tx.read /\ tx'.placed = tx.placed
    BY <2>1, <2>3 DEF Shown
  <2>4. CASE /\ tx'.logged = tx.logged \cup {b} /\ tx'.read = tx.read \cup {d}
             /\ tx'.placed = IF NewPlaceholder(d) THEN tx.placed \cup {d} ELSE tx.placed
    <3>1. row[d] # "none" \/ d \in tx'.placed
      BY <2>4 DEF NewPlaceholder
    <3>2. \A x \in tx'.logged : sent[x].dev \in tx'.read \cup erased
      BY <2>1, <2>4 DEF Shown
    <3>3. \A x \in tx'.read : row[x] # "none" \/ x \in tx'.placed
      BY <2>1, <2>4, <3>1 DEF Shown
    <3> QED  BY <2>1, <3>2, <3>3 DEF Shown
  <2> QED  BY <2>2, <2>3, <2>4
<1>8. CASE Commit
  <2>1. exam /\ tx' = NoTx /\ UNCHANGED sent
    BY <1>8 DEF Commit, redis
  <2>2. CASE UNCHANGED <<log, row, erased>>
    BY <1>2, <2>1, <2>2
  <2>3. CASE Applied
    <3> SUFFICES ASSUME NEW b \in DOMAIN sent, sent[b].pushed, log'[b] > 0
                 PROVE  row'[sent[b].dev] # "none" \/ sent[b].dev \in erased'
      BY <2>1 DEF Shown, NoTx
    <3>1. b \in Beats /\ sent[b].dev \in Devices /\ log[b] \in Nat
      BY <1>0, LoggedFacts DEF LedgerTypes
    <3>2. b \in tx.logged \/ log[b] > 0
      BY <2>3, <3>1, AppliedFacts
    <3>3. sent[b].dev \in tx.read \/ row[sent[b].dev] # "none" \/ sent[b].dev \in erased
      BY <2>1, <3>2 DEF Shown
    <3>4. sent[b].dev \in tx.read => row[sent[b].dev] # "none" \/ sent[b].dev \in tx.placed
      BY <2>1 DEF Shown
    <3> QED  BY <2>3, <3>1, <3>3, <3>4, AppliedFacts
  <2> QED  BY <1>8, <2>2, <2>3 DEF Commit
<1>9. CASE Requeue
  <2>1. exam /\ UNCHANGED <<log, row, erased, sent>> /\ tx' = [tx EXCEPT !.at = tx.at + 1]
    BY <1>9 DEF Requeue, tables
  <2>2. tx'.logged = tx.logged /\ tx'.read = tx.read /\ tx'.placed = tx.placed
    BY <1>0, <2>1 DEF LedgerTypes, TxTypes
  <2> QED  BY <2>1, <2>2 DEF Shown
<1>10. ASSUME NEW d \in Devices, StoreAnswers(d) PROVE Shown'
  <2>1. exam /\ UNCHANGED <<log, erased, sent, tx>> /\ row' = [row EXCEPT ![d] = "answers"]
    BY <1>10 DEF StoreAnswers, redis, flusher
  <2>2. \A x : row[x] # "none" /\ x \in Devices => row'[x] # "none"
    BY <1>0, <2>1 DEF LedgerTypes
  <2>3. tx.read \subseteq Devices
    BY <1>0 DEF LedgerTypes, TxTypes
  <2> QED  BY <2>1, <2>2, <2>3, LoggedFacts DEF Shown
<1>11. ASSUME NEW d \in Devices, DeleteSubmission(d) PROVE Shown'
  <2>1. /\ exam /\ UNCHANGED <<log, sent>> /\ row' = [row EXCEPT ![d] = "none"]
        /\ erased' = erased \cup {d} /\ tx' = [tx EXCEPT !.read = tx.read \ {d}]
    BY <1>11 DEF DeleteSubmission, redis
  <2>2. tx'.logged = tx.logged /\ tx'.read = tx.read \ {d} /\ tx'.placed = tx.placed
    BY <1>0, <2>1 DEF LedgerTypes, TxTypes
  <2>3. \A x \in Devices : x # d => row'[x] = row[x]
    BY <1>0, <2>1 DEF LedgerTypes
  <2>4. tx.read \subseteq Devices
    BY <1>0 DEF LedgerTypes, TxTypes
  <2> QED  BY <2>1, <2>2, <2>3, <2>4, LoggedFacts DEF Shown
<1>12. ~DeleteExam
  BY DEF DeleteExam
<1> QED  BY <1>1, <1>4, <1>5, <1>6, <1>7, <1>8, <1>9, <1>10, <1>11, <1>12, LedgerSteps DEF Flush

-----------------------------------------------------------------------------
HeartbeatInv ==
  LimiterInv /\ RequestTypes /\ Carrying /\ LedgerOK /\ Apart /\ Kept /\ Shown

LEMMA HeartbeatInit == Init => HeartbeatInv
<1> SUFFICES ASSUME Init PROVE HeartbeatInv
  OBVIOUS
<1>0. LimiterInv /\ LedgerOK /\ PresenceInit
  BY LimiterInit, LedgerInit DEF Init
<1>1. RequestTypes /\ Carrying
  BY <1>0, PresenceAssumption DEF PresenceInit, RequestTypes, Carrying, Requests, NoReq
<1>2. Apart
  BY <1>0 DEF PresenceInit, Apart, ApartNow
<1>3. Kept /\ Shown
  BY <1>0 DEF PresenceInit, Kept, Shown, NoTx
<1> QED  BY <1>0, <1>1, <1>2, <1>3 DEF HeartbeatInv

LEMMA HeartbeatNext == HeartbeatInv /\ [Next]_vars => HeartbeatInv'
<1> SUFFICES ASSUME HeartbeatInv, [Next]_vars PROVE HeartbeatInv'
  OBVIOUS
<1>1. LimiterInv' /\ LimiterTypeOK /\ LimiterTypeOK'
  BY LimiterNext DEF HeartbeatInv, LimiterInv
<1>2. RequestTypes' /\ Carrying'
  BY <1>1, CarryingNext DEF HeartbeatInv
<1>3. LedgerOK'
  BY LedgerNext DEF HeartbeatInv
<1>4. Apart' /\ Kept' /\ Shown'
  BY <1>1, ApartNext, KeptNext, ShownNext DEF HeartbeatInv
<1> QED  BY <1>1, <1>2, <1>3, <1>4 DEF HeartbeatInv

LEMMA HeartbeatInvariant == Spec => []HeartbeatInv
  BY HeartbeatInit, HeartbeatNext, PTL DEF Spec

\* drain_heartbeat_batch: a heartbeat is in one place and recorded once unless the
\* answer to a COMMIT is lost, none is lost without one of the named failures,
\* and whoever was recorded has a row unless it was deleted since; for every
\* number of devices, threads, events and batches.
THEOREM LedgerOfHeartbeats == Spec => []HeartbeatLedger
<1>1. HeartbeatInv => HeartbeatLedger
  BY ApartOnce, KeptIsNoBeatLost, ShownIsRecordedIsShown DEF HeartbeatInv, HeartbeatLedger
<1> QED  BY HeartbeatInvariant, <1>1, PTL

-----------------------------------------------------------------------------
(***************************************************************************)
(* The types of the day of an exam.                                        *)
(***************************************************************************)
\* The presence keys and what is left of the workload.
KeysOK == present \subseteq Devices /\ left \in [Kinds -> Nat]

LEMMA KeysNext ==
  ASSUME Carrying, KeysOK, [Next]_vars
  PROVE  KeysOK'
<1>1. ASSUME NEW k \in Kinds, Spend(k) PROVE left' \in [Kinds -> Nat]
  <2>1. left[k] - 1 \in Nat /\ left' = [left EXCEPT ![k] = left[k] - 1]
    BY <1>1 DEF Spend, KeysOK
  <2> QED  BY <2>1 DEF KeysOK
<1>2. {"request", "tick", "answers", "delete", "edit", "frame", "time"} \subseteq Kinds
  BY DEF Kinds
<1>3. left' = left \/ \E k \in Kinds : Spend(k)
  <2>1. ASSUME NEW t \in Threads, Serve(t) PROVE left' = left \/ Spend("request")
    BY <2>1 DEF Serve, AccessLog, CompleteExam, Request, Expire, Gate, Insert, SetKey, PushBeat,
       DeleteKey
  <2>2. CASE Flush
    BY <1>2, <2>2 DEF Flush, Tick, Pop, Begin, WriteRow, Commit, Requeue, Requeued
  <2>3. CASE \/ \E d \in Devices : DeleteSubmission(d) \/ KeyExpires(d) \/ WindowEnds(d)
             \/ DeleteExam
    BY <1>2, <2>3 DEF DeleteSubmission, KeyExpires, WindowEnds, DeleteExam
  <2>4. CASE \/ \E c \in Clients : HubBeat(c) \/ HubCompleted(c) \/ HubFrame(c) \/ HubWorks(c)
             \/ HubDisconnected \/ EditPaper \/ ProcessEnds \/ UNCHANGED vars
    BY <1>2, <2>4 DEF HubBeat, HubCompleted, HubFrame, HubWorks, HubDisconnected, EditPaper,
       ProcessEnds, Crash, vars, presenceVars
  <2>5. CASE \E d \in Devices : Mark(d) \/ StoreMarked(d)
    BY <1>2, <2>5 DEF Mark, StoreMarked, StoreAnswers
  <2> QED  BY <1>2, <2>1, <2>2, <2>3, <2>4, <2>5 DEF Next, PresenceStep
<1>4. present' \subseteq present \/ \E d \in Devices : present' = present \cup {d}
  <2>1. ASSUME NEW t \in Threads, Serve(t)
        PROVE  present' \subseteq present \/ \E d \in Devices : present' = present \cup {d}
    <3>1. CASE SetKey(t)
      BY <3>1 DEF SetKey, Carrying
    <3>2. CASE ~SetKey(t)
      BY <2>1, <3>2 DEF Serve, AccessLog, CompleteExam, Request, Expire, Gate, Insert, PushBeat,
         DeleteKey, redis
    <3> QED  BY <3>1, <3>2
  <2>2. CASE Flush
    BY <2>2 DEF Flush, Tick, Pop, Begin, WriteRow, Commit, Requeue, Requeued, redis
  <2>3. CASE \/ \E d \in Devices : DeleteSubmission(d) \/ KeyExpires(d) \/ WindowEnds(d)
             \/ DeleteExam
    BY <2>3 DEF DeleteSubmission, KeyExpires, WindowEnds, DeleteExam, redis
  <2>4. CASE \/ HubDisconnected \/ EditPaper \/ ProcessEnds \/ UNCHANGED vars
             \/ \E d \in Devices : Mark(d) \/ StoreMarked(d)
    BY <2>4 DEF HubDisconnected, EditPaper, ProcessEnds, Crash, Mark, StoreMarked, StoreAnswers,
       vars, presenceVars, redis
  <2>5. ASSUME NEW c \in Clients, HubBeat(c)
        PROVE  present' \subseteq present \/ \E d \in Devices : present' = present \cup {d}
    BY <2>5 DEF HubBeat, redis
  <2>6. ASSUME NEW c \in Clients, HubCompleted(c) \/ HubFrame(c) \/ HubWorks(c)
        PROVE  present' \subseteq present
    BY <2>6 DEF HubCompleted, HubFrame, HubWorks, presenceVars, redis
  <2> QED  BY <2>1, <2>2, <2>3, <2>4, <2>5, <2>6 DEF Next, PresenceStep
<1> QED  BY <1>1, <1>3, <1>4 DEF KeysOK

\* A row without answers shows no score.
SheetsOK ==
  /\ paper \in Papers /\ hub \in BOOLEAN
  /\ DOMAIN stored = Devices
  /\ \A d \in Devices : row[d] # "answers" => stored[d] = NoSheet

LEMMA SheetsNext ==
  ASSUME LedgerTypes, SheetsOK, [Next]_vars
  PROVE  SheetsOK'
<1>1. paper' \in Papers /\ hub' \in BOOLEAN
  BY DEF SheetsOK, Next, PresenceStep, HubBeat, HubCompleted, HubFrame, HubWorks, HubDisconnected,
     Mark, StoreMarked, EditPaper, ProcessEnds, resultVars, vars
<1>2. CASE PresenceStep
  BY <1>1, <1>2 DEF PresenceStep, SheetsOK
<1>3. ASSUME NEW d \in Devices, StoreMarked(d) PROVE SheetsOK'
  <2>1. row' = [row EXCEPT ![d] = "answers"] /\ \E m : stored' = [stored EXCEPT ![d] = m]
    BY <1>3 DEF StoreMarked, StoreAnswers
  <2>2. \A x \in Devices : row'[x] # "answers" => x # d /\ row'[x] = row[x] /\ stored'[x] = stored[x]
    BY <2>1 DEF LedgerTypes, SheetsOK
  <2> QED  BY <1>1, <2>1, <2>2 DEF SheetsOK
<1>4. CASE \/ \E c \in Clients : HubBeat(c) \/ HubCompleted(c) \/ HubFrame(c) \/ HubWorks(c)
           \/ \E d \in Devices : Mark(d)
           \/ HubDisconnected \/ EditPaper \/ ProcessEnds \/ UNCHANGED vars
  <2>1. UNCHANGED <<row, stored>>
    BY <1>4 DEF HubBeat, HubCompleted, HubFrame, HubWorks, HubDisconnected, Mark, EditPaper,
       ProcessEnds, Crash, resultVars, vars, presenceVars, tables
  <2> QED  BY <1>1, <2>1 DEF SheetsOK
<1> QED  BY <1>2, <1>3, <1>4 DEF Next

\* The types of heartbeats, hub and scores together, for every value of the
\* constants; and a device without answers has no score.
THEOREM ExamDayTypes == Spec => []ExamDayTypeOK
<1>1. Init => KeysOK /\ SheetsOK
  <2> SUFFICES ASSUME Init PROVE KeysOK /\ SheetsOK
    OBVIOUS
  <2>1. present = {} /\ left \in [Kinds -> Nat]
    BY PresenceAssumption DEF Init, PresenceInit
  <2>2. SheetsOK
    BY DEF Init, SheetsOK
  <2> QED  BY <2>1, <2>2 DEF KeysOK
<1>2. HeartbeatInv /\ KeysOK /\ SheetsOK /\ [Next]_vars => KeysOK' /\ SheetsOK'
  BY KeysNext, SheetsNext DEF HeartbeatInv, LedgerOK
<1>3. RoomInv /\ HeartbeatInv /\ KeysOK /\ SheetsOK => ExamDayTypeOK
  BY DEF RoomInv, HeartbeatInv, LimiterInv, LimiterTypeOK, RequestTypes, Requests, LedgerOK,
     LedgerTypes, TxTypes, Event, KeysOK, SheetsOK, ExamDayTypeOK, PresenceTypeOK
<1> QED  BY HeartbeatInvariant, RoomInit, RoomNext, <1>1, <1>2, <1>3, PTL DEF Spec
------------------------------------------------------------------------------
(***************************************************************************)
(* Sums.  SumFunction folds over the subsets of a domain; what it returns  *)
(* is shown by descent: a subset without the property, and with the        *)
(* fewest elements, does not exist.                                        *)
(***************************************************************************)
Pick(s) == CHOOSE x \in s : TRUE

SumStep(f, g) ==
  [s \in SUBSET DOMAIN f |-> IF s = {} THEN 0 ELSE f[Pick(s)] + g[s \ {Pick(s)}]]

SumOver(f) == CHOOSE g : g = SumStep(f, g)

LEMMA SumFolds ==
  ASSUME NEW f
  PROVE  SumFunction(f) = SumOver(f)[DOMAIN f]
  BY Zenon DEF SumFunction, SumFunctionOnSet, FoldFunctionOnSet, MapThenFoldSet, SumOver, SumStep,
               Pick

LEMMA LeastNumber ==
  ASSUME NEW T, T \subseteq Nat, T # {}
  PROVE  \E m \in T : \A n \in T : m <= n
<1>1. PICK m \in T : \A n \in T : ~ (<<n, m>> \in OpToRel(<, Nat))
  BY NatLessThanWellFounded, WFMin
<1>2. ASSUME NEW n \in T PROVE m <= n
  <2>1. ~ (n < m)
    BY <1>1, <1>2 DEF OpToRel
  <2> QED  BY <2>1
<1> QED  BY <1>2

\* A subset less its picked element.
LEMMA PickFacts ==
  ASSUME NEW D, IsFiniteSet(D), NEW s \in SUBSET D
  PROVE  /\ Cardinality(s) \in Nat
         /\ s # {} => /\ Pick(s) \in s /\ Pick(s) \in D
                      /\ s \ {Pick(s)} \in SUBSET D
                      /\ Cardinality(s \ {Pick(s)}) = Cardinality(s) - 1
<1>1. IsFiniteSet(s) /\ Cardinality(s) \in Nat
  BY FS_Subset, FS_CardinalityType
<1>2. ASSUME s # {} PROVE Pick(s) \in s
  BY <1>2 DEF Pick
<1>3. ASSUME s # {} PROVE Cardinality(s \ {Pick(s)}) = Cardinality(s) - 1
  BY <1>1, <1>2, <1>3, FS_RemoveElement
<1> QED  BY <1>1, <1>2, <1>3

LEMMA SubsetDescent ==
  ASSUME NEW D, IsFiniteSet(D), NEW W,
         \A s \in SUBSET D : s = {} \/ s \ {Pick(s)} \in W => s \in W
  PROVE  SUBSET D \subseteq W
<1> DEFINE T == {Cardinality(s) : s \in {s \in SUBSET D : s \notin W}}
<1>1. SUFFICES ASSUME T # {} PROVE FALSE
  OBVIOUS
<1>2. T \subseteq Nat
  <2>1. \A s \in SUBSET D : Cardinality(s) \in Nat
    BY PickFacts
  <2> QED  BY <2>1
<1>3. PICK m \in T : \A n \in T : m <= n
  <2> HIDE DEF T
  <2> QED  BY <1>1, <1>2, LeastNumber
<1>4. PICK s \in SUBSET D : s \notin W /\ Cardinality(s) = m
  BY <1>3
<1>5. s # {} /\ s \ {Pick(s)} \notin W
  BY <1>4
<1>6. /\ Cardinality(s) \in Nat /\ s \ {Pick(s)} \in SUBSET D
      /\ Cardinality(s \ {Pick(s)}) = m - 1
  BY <1>4, <1>5, PickFacts
<1>7. m - 1 \in T
  BY <1>5, <1>6
<1> QED  BY <1>3, <1>4, <1>6, <1>7

\* The recursion has a solution: a function that solves it up to n elements
\* gives one that solves it up to n + 1.
LEMMA SumExists ==
  ASSUME NEW D, IsFiniteSet(D), NEW f \in [D -> Int]
  PROVE  \E g \in [SUBSET D -> Int] : g = SumStep(f, g)
<1> DEFINE Solves(g, n) == \A s \in SUBSET D : Cardinality(s) <= n => g[s] = SumStep(f, g)[s]
           T == {n \in Nat : \A g \in [SUBSET D -> Int] : ~ Solves(g, n)}
<1>1. ASSUME NEW g \in [SUBSET D -> Int]
      PROVE  /\ SumStep(f, g) \in [SUBSET D -> Int]
             /\ SumStep(f, g)[{}] = 0
             /\ \A s \in SUBSET D : s # {} => SumStep(f, g)[s] = f[Pick(s)] + g[s \ {Pick(s)}]
  <2>1. DOMAIN f = D
    OBVIOUS
  <2>2. \A s \in SUBSET D : s # {} => Pick(s) \in D /\ s \ {Pick(s)} \in SUBSET D
    BY PickFacts
  <2> QED  BY <2>1, <2>2 DEF SumStep
<1>2. T = {}
  <2> SUFFICES ASSUME T # {} PROVE FALSE
    OBVIOUS
  <2>1. PICK m \in T : \A n \in T : m <= n
    <3>1. T \subseteq Nat
      OBVIOUS
    <3> HIDE DEF T
    <3> QED  BY <3>1, LeastNumber
  <2>2. PICK g \in [SUBSET D -> Int] : m = 0 \/ Solves(g, m - 1)
    <3>1. CASE m = 0
      <4>1. [s \in SUBSET D |-> 0] \in [SUBSET D -> Int]
        OBVIOUS
      <4> QED  BY <3>1, <4>1
    <3>2. CASE m # 0
      <4>1. m \in Nat
        OBVIOUS
      <4>2. m - 1 \in Nat /\ m - 1 \notin T
        <5> HIDE DEF T
        <5> QED  BY <2>1, <3>2, <4>1
      <4> QED  BY <4>2
    <3> QED  BY <3>1, <3>2
  <2> DEFINE h == SumStep(f, g)
  <2>3. h \in [SUBSET D -> Int]
    BY <1>1
  <2>4. ASSUME NEW s \in SUBSET D, Cardinality(s) <= m PROVE h[s] = SumStep(f, h)[s]
    <3>1. CASE s = {}
      BY <1>1, <2>3, <3>1
    <3>2. CASE s # {}
      <4>0. s \ {Pick(s)} \in SUBSET D /\ Cardinality(s \ {Pick(s)}) = Cardinality(s) - 1
        BY <3>2, PickFacts
      <4>1. /\ s \ {Pick(s)} \in SUBSET D /\ Cardinality(s \ {Pick(s)}) = Cardinality(s) - 1
            /\ Cardinality(s) \in Nat /\ Cardinality(s \ {Pick(s)}) \in Nat
        <5>1. \A r \in SUBSET D : Cardinality(r) \in Nat
          BY PickFacts
        <5> QED  BY <4>0, <5>1
      <4>2. m # 0 /\ Cardinality(s \ {Pick(s)}) <= m - 1
        BY <2>1, <2>4, <4>1
      <4>3. g[s \ {Pick(s)}] = h[s \ {Pick(s)}]
        BY <2>2, <4>1, <4>2
      <4>4. /\ h[s] = f[Pick(s)] + g[s \ {Pick(s)}]
            /\ SumStep(f, h)[s] = f[Pick(s)] + h[s \ {Pick(s)}]
        <5> HIDE DEF h
        <5>1. SumStep(f, h)[s] = f[Pick(s)] + h[s \ {Pick(s)}]
          BY <1>1, <2>3, <3>2
        <5>2. SumStep(f, g)[s] = f[Pick(s)] + g[s \ {Pick(s)}]
          BY <1>1, <3>2
        <5> QED  BY <5>1, <5>2 DEF h
      <4> QED  BY <4>3, <4>4
    <3> QED  BY <3>1, <3>2
  <2>5. Solves(h, m)
    BY <2>4
  <2> QED  BY <2>1, <2>3, <2>5
<1>3. Cardinality(D) \in Nat /\ \A s \in SUBSET D : Cardinality(s) <= Cardinality(D)
  BY FS_Subset, FS_CardinalityType
<1>4. PICK g \in [SUBSET D -> Int] : Solves(g, Cardinality(D))
  BY <1>2, <1>3
<1>5. \A s \in SUBSET D : g[s] = SumStep(f, g)[s]
  BY <1>3, <1>4
<1>6. SumStep(f, g) \in [SUBSET D -> Int]
  BY <1>1
<1>7. g = SumStep(f, g)
  BY <1>5, <1>6
<1> QED  BY <1>7

LEMMA SumFacts ==
  ASSUME NEW D, IsFiniteSet(D), NEW f \in [D -> Int]
  PROVE  /\ SumFunction(f) = SumOver(f)[D]
         /\ SumOver(f)[{}] = 0
         /\ \A s \in SUBSET D : s # {} =>
              SumOver(f)[s] = f[Pick(s)] + SumOver(f)[s \ {Pick(s)}]
<1>1. DOMAIN f = D
  OBVIOUS
<1>2. SumOver(f) = SumStep(f, SumOver(f))
  <2>1. \E g : g = SumStep(f, g)
    BY SumExists
  <2> QED  BY <2>1, Zenon DEF SumOver
<1>3. {} \in SUBSET D /\ \A s \in SUBSET D : SumOver(f)[s] =
        IF s = {} THEN 0 ELSE f[Pick(s)] + SumOver(f)[s \ {Pick(s)}]
  <2> DEFINE g == SumOver(f)
  <2>1. g = [s \in SUBSET D |-> IF s = {} THEN 0 ELSE f[Pick(s)] + g[s \ {Pick(s)}]]
    BY <1>1, <1>2, Zenon DEF SumStep
  <2> HIDE DEF g
  <2>2. \A s \in SUBSET D : g[s] = IF s = {} THEN 0 ELSE f[Pick(s)] + g[s \ {Pick(s)}]
    BY <2>1
  <2> QED  BY <2>2 DEF g
<1> QED  BY <1>1, <1>3, SumFolds

\* Of numbers that are at most c times others, so is the sum.
LEMMA SumBound ==
  ASSUME NEW D, IsFiniteSet(D), NEW f \in [D -> Nat], NEW h \in [D -> Nat], NEW c \in Nat,
         \A i \in D : f[i] <= h[i] * c
  PROVE  /\ SumFunction(f) \in Nat /\ SumFunction(h) \in Nat
         /\ SumFunction(f) <= SumFunction(h) * c
<1> DEFINE a == SumOver(f)
           b == SumOver(h)
           W == {s \in SUBSET D : a[s] \in Nat /\ b[s] \in Nat /\ a[s] <= b[s] * c}
<1>0. f \in [D -> Int] /\ h \in [D -> Int]
  OBVIOUS
<1>1. /\ SumFunction(f) = a[D] /\ SumFunction(h) = b[D] /\ a[{}] = 0 /\ b[{}] = 0
      /\ \A s \in SUBSET D : s # {} => /\ a[s] = f[Pick(s)] + a[s \ {Pick(s)}]
                                       /\ b[s] = h[Pick(s)] + b[s \ {Pick(s)}]
  <2>1. /\ SumFunction(f) = a[D] /\ a[{}] = 0
        /\ \A s \in SUBSET D : s # {} => a[s] = f[Pick(s)] + a[s \ {Pick(s)}]
    BY <1>0, SumFacts
  <2>2. /\ SumFunction(h) = b[D] /\ b[{}] = 0
        /\ \A s \in SUBSET D : s # {} => b[s] = h[Pick(s)] + b[s \ {Pick(s)}]
    BY <1>0, SumFacts
  <2> HIDE DEF a, b
  <2> QED  BY <2>1, <2>2
<1> HIDE DEF a, b
<1>2. ASSUME NEW s \in SUBSET D, s = {} \/ s \ {Pick(s)} \in W PROVE s \in W
  <2>1. CASE s = {}
    BY <1>1, <2>1
  <2>2. CASE s # {}
    <3>1. Pick(s) \in D /\ s \ {Pick(s)} \in W
      BY <1>2, <2>2, PickFacts
    <3>2. PICK x \in Nat, y \in Nat, u \in Nat, v \in Nat :
            /\ x = f[Pick(s)] /\ y = h[Pick(s)] /\ x <= y * c
            /\ u = a[s \ {Pick(s)}] /\ v = b[s \ {Pick(s)}] /\ u <= v * c
      BY <3>1
    <3>3. a[s] = x + u /\ b[s] = y + v
      BY <1>1, <2>2, <3>2
    <3>4. x + u <= (y + v) * c
      <4>1. (y + v) * c = y * c + v * c /\ y * c \in Nat /\ v * c \in Nat
        BY SMTT(30)
      <4> QED  BY <3>2, <4>1
    <3> QED  BY <3>3, <3>4
  <2> QED  BY <2>1, <2>2
<1>3. SUBSET D \subseteq W
  <2> HIDE DEF W
  <2> QED  BY <1>2, SubsetDescent
<1>4. D \in W
  BY <1>3
<1> QED  BY <1>1, <1>4

LEMMA SumPositive ==
  ASSUME NEW D, IsFiniteSet(D), D # {}, NEW f \in [D -> Nat], \A i \in D : f[i] > 0
  PROVE  SumFunction(f) > 0
<1> DEFINE a == SumOver(f)
           W == {s \in SUBSET D : a[s] \in Nat /\ (s # {} => a[s] > 0)}
<1>0. f \in [D -> Int]
  OBVIOUS
<1>1. /\ SumFunction(f) = a[D] /\ a[{}] = 0
      /\ \A s \in SUBSET D : s # {} => a[s] = f[Pick(s)] + a[s \ {Pick(s)}]
  BY <1>0, SumFacts
<1> HIDE DEF a
<1>2. ASSUME NEW s \in SUBSET D, s = {} \/ s \ {Pick(s)} \in W PROVE s \in W
  <2>1. CASE s = {}
    BY <1>1, <2>1
  <2>2. CASE s # {}
    <3>1. Pick(s) \in D /\ s \ {Pick(s)} \in W
      BY <1>2, <2>2, PickFacts
    <3>2. a[s] = f[Pick(s)] + a[s \ {Pick(s)}] /\ f[Pick(s)] \in Nat /\ f[Pick(s)] > 0
      BY <1>1, <2>2, <3>1
    <3> QED  BY <3>1, <3>2
  <2> QED  BY <2>1, <2>2
<1>3. SUBSET D \subseteq W
  <2> HIDE DEF W
  <2> QED  BY <1>2, SubsetDescent
<1>4. D \in W
  BY <1>3
<1> QED  BY <1>1, <1>4

------------------------------------------------------------------------------
(***************************************************************************)
(* The points of one answer, whatever the length of the key and the sheet. *)
(***************************************************************************)
LEMMA TokenListFacts ==
  ASSUME NEW s \in TokenLists
  PROVE  Len(s) \in Nat /\ DOMAIN s = 1..Len(s) /\ \A i \in DOMAIN s : s[i] \in Token
  BY DEF TokenLists

\* The answered tokens that are in the key are no more than the key has.
LEMMA HitsBound ==
  ASSUME NEW s \in TokenLists, NEW r \in TokenLists
  PROVE  /\ Hits(s, r) \in Nat /\ Hits(s, r) <= Len(s)
         /\ Distinct(s) => Hits(s, r) <= Len(r)
<1> DEFINE S == {i \in DOMAIN s : Has(r, s[i])}
           f == [i \in S |-> CHOOSE j \in DOMAIN r : r[j] = s[i]]
<1>1. /\ IsFiniteSet(DOMAIN s) /\ Cardinality(DOMAIN s) = Len(s)
      /\ IsFiniteSet(DOMAIN r) /\ Cardinality(DOMAIN r) = Len(r)
  <2>1. ASSUME NEW n \in Nat PROVE IsFiniteSet(1..n) /\ Cardinality(1..n) = n
    <3>1. /\ IsFiniteSet(1..n) /\ 1 \in Int /\ n \in Int
          /\ Cardinality(1..n) = IF 1 > n THEN 0 ELSE n - 1 + 1
      BY FS_Interval
    <3> QED  BY <3>1
  <2> QED  BY <2>1, TokenListFacts
<1>2. IsFiniteSet(S) /\ Cardinality(S) \in Nat /\ Cardinality(S) <= Len(s)
  <2>1. S \in SUBSET DOMAIN s
    OBVIOUS
  <2> QED  BY <1>1, <2>1, FS_Subset, FS_CardinalityType
<1>3. ASSUME Distinct(s)  PROVE Cardinality(S) <= Len(r)
  <2>1. \A i \in S : f[i] \in DOMAIN r /\ r[f[i]] = s[i]
    BY DEF Has
  <2>2. f \in Injection(S, DOMAIN r)
    <3>1. f \in [S -> DOMAIN r]
      BY <2>1
    <3>2. \A i, k \in S : f[i] = f[k] => i = k
      BY <1>3, <2>1 DEF Distinct
    <3> QED  BY <3>1, <3>2 DEF Injection, IsInjective
  <2> HIDE DEF S, f
  <2> QED  BY <1>1, <2>2, FS_Injection
<1> QED  BY <1>2, <1>3 DEF Hits

LEMMA PortionOf ==
  ASSUME NEW n \in Nat, NEW d \in Nat, d > 0, NEW h \in Nat
  PROVE  (n * h) \div d \in Nat /\ (h <= d => (n * h) \div d <= n)
<1> DEFINE x == n * h
           k == x \div d
<1>1. x \in Nat /\ (h <= d => x <= n * d)
  BY SMTT(30)
<1>2. k \in Int /\ d * k <= x /\ x < d * (k + 1)
  <2> HIDE DEF x
  <2> QED  BY <1>1, SMTT(30)
<1> HIDE DEF x, k
<1>3. k >= 0
  <2>1. SUFFICES ASSUME k + 1 <= 0 PROVE FALSE
    BY <1>2
  <2>2. d * (k + 1) <= 0
    BY <1>2, <2>1, SMTT(30)
  <2> QED  BY <1>1, <1>2, <2>2
<1>4. ASSUME h <= d PROVE k <= n
  <2>1. SUFFICES ASSUME k >= n + 1 PROVE FALSE
    BY <1>2
  <2>2. d * k >= d * (n + 1) /\ d * (n + 1) = d * n + d /\ n * d = d * n
    BY <1>2, <2>1, SMTT(30)
  <2> QED  BY <1>1, <1>2, <1>4, <2>2
<1> QED  BY <1>2, <1>3, <1>4 DEF x, k

LEMMA PortionInRange ==
  ASSUME NEW q \in Question, NEW a \in TokenLists
  PROVE  Portion(q, a) \in Nat /\ (Distinct(a) => Portion(q, a) <= Scale)
<1>1. q.key \in TokenLists /\ Scale \in Nat
  BY ScoringAssumption DEF Question
<1>2. CASE q.key = <<>>
  BY <1>1, <1>2 DEF Portion
<1>3. CASE q.key # <<>>
  <2>1. Len(q.key) \in Nat /\ Len(q.key) > 0
    <3>1. q.key \in Seq(Token)
      BY <1>1 DEF TokenLists
    <3> QED  BY <1>3, <3>1
  <2>2. CASE q.type = "matching"
    <3>1. Hits(q.key, a) \in Nat /\ Hits(q.key, a) <= Len(q.key)
      BY <1>1, HitsBound
    <3> QED  BY <1>1, <1>3, <2>1, <2>2, <3>1, PortionOf DEF Portion
  <2>3. CASE q.type # "matching"
    <3> DEFINE net == Hits(a, q.key) - Misses(a, q.key)
    <3>1. net \in Int /\ (Distinct(a) => net <= Len(q.key))
      BY <1>1, <2>1, HitsBound, TokenListFacts DEF Misses
    <3>2. Portion(q, a) = IF net < 0 THEN 0 ELSE (Scale * net) \div Len(q.key)
      BY <1>3, <2>3 DEF Portion
    <3> HIDE DEF net
    <3>3. CASE net < 0
      BY <1>1, <3>2, <3>3
    <3>4. CASE net >= 0
      <4>1. net \in Nat
        BY <3>1, <3>4
      <4>2. /\ (Scale * net) \div Len(q.key) \in Nat
            /\ Distinct(a) => (Scale * net) \div Len(q.key) <= Scale
        BY <1>1, <2>1, <3>1, <4>1, PortionOf
      <4>3. Portion(q, a) = (Scale * net) \div Len(q.key)
        BY <3>1, <3>2, <3>4
      <4> QED  BY <4>2, <4>3
    <3> QED  BY <3>1, <3>3, <3>4
  <2> QED  BY <2>2, <2>3
<1> QED  BY <1>2, <1>3

\* No token in bare quotation marks: what a JSON string can hold.
Plain(s) == \A i \in DOMAIN s : s[i].depth # 1

\* Escaping and unescaping keep the length of an answer and each of its texts.
LEMMA EscapedFacts ==
  ASSUME NEW s \in TokenLists
  PROVE  /\ Escaped(s) \in TokenLists /\ Plain(Escaped(s)) /\ DOMAIN Escaped(s) = DOMAIN s
         /\ Unescaped(Escaped(s)) = s
<1> DEFINE y(x) == [x EXCEPT !.depth = IF @ = 0 THEN 0 ELSE @ + 1]
           z(x) == [x EXCEPT !.depth = IF @ > 1 THEN @ - 1 ELSE @]
<1>1. Len(s) \in Nat /\ DOMAIN s = 1..Len(s) /\ s \in Seq(Token) /\ Len(s) <= MaxTokens
  BY TokenListFacts DEF TokenLists
<1>2. ASSUME NEW x \in Token PROVE y(x) \in Token /\ y(x).depth # 1 /\ z(y(x)) = x
  <2>1. PICK t \in Texts, n \in Nat : x = [text |-> t, depth |-> n]
    BY DEF Token
  <2>2. y(x) = [text |-> t, depth |-> IF n = 0 THEN 0 ELSE n + 1]
    BY <2>1
  <2>3. y(x) \in Token /\ y(x).depth # 1
    BY <2>2 DEF Token
  <2>4. z(y(x)) = [text |-> t, depth |-> n]
    <3>1. CASE n = 0
      <4>1. y(x) = [text |-> t, depth |-> 0]
        BY <2>2, <3>1
      <4> HIDE DEF y
      <4> QED  BY <3>1, <4>1
    <3>2. CASE n # 0
      <4>1. y(x) = [text |-> t, depth |-> n + 1] /\ n + 1 > 1 /\ n + 1 - 1 = n
        BY <2>2, <3>2
      <4> HIDE DEF y
      <4> QED  BY <4>1
    <3> QED  BY <3>1, <3>2
  <2> QED  BY <2>1, <2>3, <2>4
<1>3. DOMAIN Escaped(s) = DOMAIN s /\ \A i \in DOMAIN s : Escaped(s)[i] = y(s[i])
  BY DEF Escaped
<1>4. Unescaped(Escaped(s)) = [i \in DOMAIN s |-> z(y(s[i]))]
  BY <1>3 DEF Unescaped
<1> HIDE DEF y, z
<1>5. \A i \in DOMAIN s : s[i] \in Token
  BY TokenListFacts
<1>6. Escaped(s) \in Seq(Token) /\ Len(Escaped(s)) = Len(s)
  <2>1. Escaped(s) = [i \in 1..Len(s) |-> y(s[i])]
    BY <1>1 DEF Escaped, y
  <2>2. \A i \in 1..Len(s) : y(s[i]) \in Token
    BY <1>1, <1>2, <1>5
  <2> QED  BY <1>1, <2>1, <2>2
<1>7. Unescaped(Escaped(s)) = [i \in DOMAIN s |-> s[i]]
  BY <1>2, <1>4, <1>5
<1>8. s = [i \in DOMAIN s |-> s[i]]
  BY <1>1
<1>9. Plain(Escaped(s))
  BY <1>2, <1>3, <1>5 DEF Plain
<1> QED  BY <1>1, <1>3, <1>6, <1>7, <1>8, <1>9 DEF TokenLists

\* The tokeniser finds nothing to take off.
LEMMA ReadPlain ==
  ASSUME NEW s \in TokenLists, Plain(s)
  PROVE  Read(s) = s
<1>1. s \in Seq(Token) /\ \A i \in DOMAIN s : s[i] \in Token /\ s[i].depth # 1
  BY TokenListFacts DEF TokenLists, Plain
<1>2. \A i \in DOMAIN s : [s[i] EXCEPT !.depth = IF @ = 1 THEN 0 ELSE @] = s[i]
  BY <1>1 DEF Token
<1>3. Read(s) = [i \in DOMAIN s |-> s[i]]
  BY <1>2 DEF Read
<1> QED  BY <1>1, <1>3

\* Nothing that has a backslash is a token of a key, on either side.
LEMMA EscapedMatches ==
  ASSUME NEW s \in TokenLists, Plain(s), NEW i \in DOMAIN s, NEW k \in Token, k.depth = 0
  PROVE  Escaped(s)[i] = k <=> s[i] = k
<1>1. s[i] \in Token /\ s[i].depth \in Nat /\ s[i].depth # 1
  BY TokenListFacts DEF Plain, Token
<1>2. Escaped(s)[i] = [s[i] EXCEPT !.depth = IF @ = 0 THEN 0 ELSE @ + 1]
  BY DEF Escaped
<1>3. CASE s[i].depth = 0
  BY <1>1, <1>2, <1>3 DEF Token
<1>4. CASE s[i].depth # 0
  <2>1. Escaped(s)[i].depth = s[i].depth + 1
    BY <1>1, <1>2, <1>4 DEF Token
  <2> QED  BY <1>1, <1>4, <2>1
<1> QED  BY <1>3, <1>4

LEMMA EscapedHits ==
  ASSUME NEW q \in Question, NEW s \in TokenLists, Plain(s)
  PROVE  Hits(q.key, Escaped(s)) = Hits(q.key, s) /\ Hits(Escaped(s), q.key) = Hits(s, q.key)
<1>1. \A j \in DOMAIN q.key : q.key[j] \in Token /\ q.key[j].depth = 0
  BY TokenListFacts DEF Question
<1>2. DOMAIN Escaped(s) = DOMAIN s
  BY EscapedFacts
<1>3. ASSUME NEW j \in DOMAIN q.key PROVE Has(Escaped(s), q.key[j]) <=> Has(s, q.key[j])
  BY <1>1, <1>2, EscapedMatches DEF Has
<1>4. ASSUME NEW i \in DOMAIN s PROVE Has(q.key, Escaped(s)[i]) <=> Has(q.key, s[i])
  BY <1>1, EscapedMatches DEF Has
<1>5. {j \in DOMAIN q.key : Has(Escaped(s), q.key[j])} = {j \in DOMAIN q.key : Has(s, q.key[j])}
  BY <1>3
<1>6. {i \in DOMAIN Escaped(s) : Has(q.key, Escaped(s)[i])} = {i \in DOMAIN s : Has(q.key, s[i])}
  BY <1>2, <1>4
<1> QED  BY <1>5, <1>6 DEF Hits

\* With a backslash somewhere, an answer is not the key.
LEMMA QuotedIsWrong ==
  ASSUME NEW q \in Question, NEW s \in TokenLists, NEW i \in DOMAIN s, s[i].depth # 0
  PROVE  ~SameBag(s, q.key) /\ ~(q.key # <<>> /\ s = <<q.key[1]>>)
<1>1. \A j \in DOMAIN q.key : q.key[j].depth = 0
  BY DEF Question
<1>2. q.key \in Seq(Token) /\ DOMAIN s = 1..Len(s) /\ Len(s) \in Nat
  BY TokenListFacts DEF Question, TokenLists
<1>3. ASSUME SameBag(s, q.key) PROVE FALSE
  <2> DEFINE here  == {n \in DOMAIN s : s[n] = s[i]}
             there == {n \in DOMAIN q.key : q.key[n] = s[i]}
  <2>1. Cardinality(here) = Cardinality(there)
    BY <1>3 DEF SameBag, Range
  <2>2. there = {}
    BY <1>1
  <2>3. IsFiniteSet(here) /\ i \in here
    <3>1. 1 \in Int /\ Len(s) \in Int
      BY <1>2
    <3>2. IsFiniteSet(DOMAIN s)
      BY <1>2, <3>1, FS_Interval
    <3>3. here \in SUBSET DOMAIN s
      OBVIOUS
    <3> QED  BY <3>2, <3>3, FS_Subset
  <2> QED  BY <2>1, <2>2, <2>3, FS_EmptySet
<1>4. ASSUME q.key # <<>>, s = <<q.key[1]>> PROVE FALSE
  <2>1. 1 \in DOMAIN q.key
    BY <1>2, <1>4
  <2> QED  BY <1>1, <1>4, <2>1
<1> QED  BY <1>3, <1>4

(***************************************************************************)
(* An answer earns as much with the backslashes that answers_json adds     *)
(* (submission_queue.cpp, map_to_json) and the page does not take off      *)
(* (hasil.cpp, parse_answers) as it does without, for every type of        *)
(* question, key and weight.  It needs an answer without bare quotation    *)
(* marks: the worker would read what is in them, and the page would not.   *)
(***************************************************************************)
THEOREM EscapedEarnsTheSame ==
  ASSUME NEW q \in Question, NEW s \in TokenLists, Plain(s)
  PROVE  Earned(q, Escaped(s)) = Earned(q, s)
<1> DEFINE e == Escaped(s)
<1>1. e \in TokenLists /\ Plain(e) /\ DOMAIN e = DOMAIN s
  BY EscapedFacts
<1>2. Read(e) = e /\ Read(s) = s
  BY <1>1, ReadPlain
<1>3. Len(e) = Len(s) /\ (e = <<>> <=> s = <<>>)
  <2>1. e \in Seq(Token) /\ s \in Seq(Token)
    BY <1>1 DEF TokenLists
  <2> QED  BY <1>1, <2>1
<1>4. Hits(q.key, e) = Hits(q.key, s) /\ Hits(e, q.key) = Hits(s, q.key)
  BY EscapedHits
<1>5. CASE \A i \in DOMAIN s : s[i].depth = 0
  <2>1. \A i \in DOMAIN s : s[i] \in Token
    BY TokenListFacts
  <2>2. \A i \in DOMAIN s : e[i] = s[i]
    BY <1>5, <2>1, EscapedMatches
  <2>3. e = s
    <3>1. e = [i \in DOMAIN s |-> e[i]] /\ s = [i \in DOMAIN s |-> s[i]]
      BY <1>1 DEF Escaped, TokenLists
    <3> QED  BY <2>2, <3>1
  <2> QED  BY <2>3
<1>6. ASSUME NEW i \in DOMAIN s, s[i].depth # 0 PROVE Earned(q, e) = Earned(q, s)
  <2>1. e[i].depth # 0
    <3>1. s[i] \in Token /\ s[i].depth \in Nat
      BY TokenListFacts DEF Token
    <3>2. e[i].depth = s[i].depth + 1
      BY <1>6, <3>1 DEF Escaped, Token
    <3> QED  BY <3>1, <3>2
  <2> HIDE DEF e
  <2>2. /\ ~SameBag(s, q.key) /\ ~(q.key # <<>> /\ s = <<q.key[1]>>)
        /\ ~SameBag(e, q.key) /\ ~(q.key # <<>> /\ e = <<q.key[1]>>)
    BY <1>1, <1>6, <2>1, QuotedIsWrong
  <2>3. Correct(q, e) <=> Correct(q, s)
    <3>1. q.type \in {"set", "matching", "single"}
      BY DEF Question
    <3> QED  BY <1>3, <1>4, <2>2, <3>1 DEF Correct, SamePairs
  <2>4. Portion(q, e) = Portion(q, s)
    BY <1>3, <1>4 DEF Portion, Misses
  <2> QED  BY <1>2, <1>3, <2>3, <2>4 DEF Earned
<1> QED  BY <1>5, <1>6

(***************************************************************************)
(* A question without negative weight earns nothing or more and, unless    *)
(* the answer gives a token twice, at most its weight (scoring.cpp,        *)
(* evaluate_question_detail), for every key.  An answer that repeats a     *)
(* token can earn more: its hits are counted for each occurrence.          *)
(***************************************************************************)
THEOREM AnswerInRange ==
  ASSUME NEW q \in Question, q.weight >= 0, NEW a \in TokenLists, Plain(a)
  PROVE  Earned(q, a) \in Nat /\ (Distinct(a) => Earned(q, a) <= q.weight * Scale)
<1>1. q.weight \in Nat /\ Scale \in Nat /\ q.weight * Scale \in Nat
  BY ScoringAssumption, SMTT(30) DEF Question
<1>2. /\ Portion(q, a) \in Nat /\ (Distinct(a) => Portion(q, a) <= Scale)
  BY PortionInRange
<1>3. /\ q.weight * Portion(q, a) \in Nat
      /\ Distinct(a) => q.weight * Portion(q, a) <= q.weight * Scale
  BY <1>1, <1>2, SMTT(30)
<1> QED  BY <1>1, <1>3, ReadPlain DEF Earned

------------------------------------------------------------------------------
(***************************************************************************)
(* The scores of the sheets that are marked or stored.                     *)
(***************************************************************************)
\* The answers that the worker takes from the queue, and that answers_json has.
Taken(s)  == [i \in DOMAIN s |-> Queued(s[i])]
AsJson(s) == [i \in DOMAIN s |-> Escaped(Queued(s[i]))]

\* What the worker makes of a sheet, with the questions that it has read.
Scored == {[answers |-> AsJson(s), score |-> Score(p, Taken(s)), paper |-> p] : p \in Papers, s \in Sheets}

ScoredOK ==
  /\ DOMAIN stored = Devices /\ DOMAIN marked = Devices
  /\ \A d \in Devices : stored[d] \in Scored \cup {NoSheet} /\ marked[d] \subseteq Scored

\* The queue gives back what was put in: a string of JSON, or nothing.
LEMMA QueuedFacts ==
  ASSUME NEW a \in Answer
  PROVE  Queued(a) \in TokenLists /\ Plain(Queued(a))
<1>1. Parsed(a) \in TokenLists /\ Plain(Parsed(a))
  <2>1. CASE a.array
    <3>1. <<>> \in TokenLists
      BY ScoringAssumption DEF TokenLists
    <3> QED  BY <2>1, <3>1 DEF Parsed, Plain
  <2>2. CASE ~a.array
    BY <2>2 DEF Parsed, Answer, Plain
  <2> QED  BY <2>1, <2>2
<1> QED  BY <1>1, EscapedFacts DEF Queued

LEMMA PaperFacts ==
  ASSUME NEW p \in Papers, NEW s \in Sheets
  PROVE  /\ DOMAIN p = DOMAIN s /\ IsFiniteSet(DOMAIN p)
         /\ \A i \in DOMAIN p : /\ p[i] \in Question /\ p[i].weight \in Int
                                /\ Taken(s)[i] \in TokenLists /\ Plain(Taken(s)[i])
                                /\ AsJson(s)[i] = Escaped(Taken(s)[i])
<1>1. p \in Seq(Question) /\ DOMAIN p = DOMAIN s /\ \A i \in DOMAIN s : s[i] \in Answer
  BY ExamDayAssumption
<1>2. DOMAIN p = 1..Len(p) /\ Len(p) \in Nat
  BY <1>1
<1>3. IsFiniteSet(DOMAIN p)
  BY <1>2, FS_Interval
<1>4. ASSUME NEW i \in DOMAIN p PROVE p[i] \in Question
  BY <1>1
<1>5. \A q \in Question : q.weight \in Int
  BY DEF Question
<1>6. ASSUME NEW i \in DOMAIN p
      PROVE  /\ Taken(s)[i] \in TokenLists /\ Plain(Taken(s)[i])
             /\ AsJson(s)[i] = Escaped(Taken(s)[i])
  BY <1>1, QueuedFacts DEF Taken, AsJson
<1> QED  BY <1>1, <1>3, <1>4, <1>5, <1>6

\* What the page evaluates earns what the worker counted.
LEMMA DetailsAddUp ==
  ASSUME NEW p \in Papers, NEW s \in Sheets
  PROVE  SumFunction(Evaluated(p, AsJson(s))) = Points(p, Taken(s))
<1>1. ASSUME NEW i \in DOMAIN p PROVE Earned(p[i], AsJson(s)[i]) = Earned(p[i], Taken(s)[i])
  <2>1. p[i] \in Question /\ Taken(s)[i] \in TokenLists /\ Plain(Taken(s)[i])
        /\ AsJson(s)[i] = Escaped(Taken(s)[i])
    BY PaperFacts
  <2> QED  BY <2>1, EscapedEarnsTheSame
<1>2. Evaluated(p, AsJson(s)) = [i \in DOMAIN p |-> Earned(p[i], Taken(s)[i])]
  BY <1>1 DEF Evaluated
<1> QED  BY <1>2 DEF Points

LEMMA PointsAreNat ==
  ASSUME NEW p \in Papers, NEW s \in Sheets, \A i \in DOMAIN p : p[i].weight >= 0
  PROVE  Points(p, Taken(s)) \in Nat
<1> DEFINE e == [i \in DOMAIN p |-> Earned(p[i], Taken(s)[i])]
<1>1. ASSUME NEW i \in DOMAIN p PROVE Earned(p[i], Taken(s)[i]) \in Nat
  BY PaperFacts, AnswerInRange
<1>2. e \in [DOMAIN p -> Nat] /\ IsFiniteSet(DOMAIN p) /\ 1 \in Nat
  BY <1>1, PaperFacts
<1> HIDE DEF e
<1>3. \A i \in DOMAIN p : e[i] <= e[i] * 1
  BY <1>2
<1>4. SumFunction(e) \in Nat
  BY <1>2, <1>3, SumBound
<1> QED  BY <1>4 DEF Points, e

\* No sheet in which no token is given twice scores less than nothing or more
\* than all, if no weight is negative.
LEMMA SheetInRange ==
  ASSUME NEW p \in Papers, NEW s \in Sheets, \A i \in DOMAIN p : p[i].weight >= 0,
         \A i \in DOMAIN AsJson(s) : Distinct(AsJson(s)[i])
  PROVE  0 <= Score(p, Taken(s)).got /\ Score(p, Taken(s)).got <= Score(p, Taken(s)).total
<1> DEFINE w == [i \in DOMAIN p |-> p[i].weight]
           e == [i \in DOMAIN p |-> Earned(p[i], Taken(s)[i])]
<1>1. Scale \in Nat /\ IsFiniteSet(DOMAIN p) /\ DOMAIN p = DOMAIN s /\ DOMAIN AsJson(s) = DOMAIN s
  BY ScoringAssumption, PaperFacts DEF AsJson
<1>2. ASSUME NEW i \in DOMAIN p
      PROVE  /\ p[i].weight \in Nat /\ Earned(p[i], Taken(s)[i]) \in Nat
             /\ Earned(p[i], Taken(s)[i]) <= p[i].weight * Scale
  <2>1. /\ p[i] \in Question /\ p[i].weight \in Nat
        /\ Taken(s)[i] \in TokenLists /\ Plain(Taken(s)[i])
        /\ AsJson(s)[i] = Escaped(Taken(s)[i])
    BY PaperFacts
  <2>2. Distinct(Escaped(Taken(s)[i]))
    BY <1>1, <2>1
  <2>3. Distinct(Taken(s)[i])
    BY <2>2 DEF Distinct, Escaped
  <2> QED  BY <2>1, <2>3, AnswerInRange
<1>3. /\ w \in [DOMAIN p -> Nat] /\ e \in [DOMAIN p -> Nat]
      /\ \A i \in DOMAIN p : e[i] <= w[i] * Scale
  BY <1>2
<1>4. Points(p, Taken(s)) = SumFunction(e) /\ Total(p) = SumFunction(w)
  BY DEF Points, Total
<1> HIDE DEF w, e
<1>5. /\ Points(p, Taken(s)) \in Nat /\ Total(p) \in Nat
      /\ Points(p, Taken(s)) <= Total(p) * Scale
  BY <1>1, <1>3, <1>4, SumBound
<1>6. Total(p) * Scale = Scale * Total(p)
  BY <1>1, <1>5, SMTT(30)
<1>7. CASE Total(p) = 0
  BY <1>7 DEF Score
<1>8. CASE Total(p) # 0
  BY <1>5, <1>6, <1>8 DEF Score
<1> QED  BY <1>7, <1>8

\* With a weight for every question, the maximum of the page is the total that
\* the worker divided by, and neither is 0.
LEMMA MaximumIsTotal ==
  ASSUME NEW p \in Papers, NEW s \in Sheets, DOMAIN p # {}, \A i \in DOMAIN p : p[i].weight > 0
  PROVE  MaxScore(p) = Total(p) /\ Total(p) \in Nat \ {0}
<1> DEFINE w == [i \in DOMAIN p |-> p[i].weight]
<1>1. w = [i \in DOMAIN p |-> IF p[i].weight > 0 THEN p[i].weight ELSE Unit]
  OBVIOUS
<1>2. w \in [DOMAIN p -> Nat] /\ IsFiniteSet(DOMAIN p) /\ \A i \in DOMAIN p : w[i] > 0
  BY PaperFacts
<1>3. MaxScore(p) = SumFunction(w) /\ Total(p) = SumFunction(w)
  BY <1>1 DEF MaxScore, Total
<1> HIDE DEF w
<1>4. SumFunction(w) > 0
  BY <1>2, SumPositive
<1>5. 1 \in Nat /\ \A i \in DOMAIN p : w[i] <= w[i] * 1
  BY <1>2
<1>6. SumFunction(w) \in Nat
  BY <1>2, <1>5, SumBound
<1> QED  BY <1>3, <1>4, <1>6

LEMMA ScoredAgrees ==
  ASSUME ScoredOK
  PROVE  ScoresAgree
<1>1. ScoreInRange
  <2> SUFFICES ASSUME NEW d \in Devices,
                      \A i \in DOMAIN stored[d].paper : stored[d].paper[i].weight >= 0,
                      \A i \in DOMAIN stored[d].answers : Distinct(stored[d].answers[i])
               PROVE  0 <= stored[d].score.got /\ stored[d].score.got <= stored[d].score.total
    BY DEF ScoreInRange
  <2>1. CASE stored[d] = NoSheet
    BY <2>1 DEF NoSheet
  <2>2. CASE stored[d] \in Scored
    <3>1. PICK p \in Papers, s \in Sheets :
            stored[d] = [answers |-> AsJson(s), score |-> Score(p, Taken(s)), paper |-> p]
      BY <2>2 DEF Scored
    <3>2. /\ stored[d].answers = AsJson(s) /\ stored[d].score = Score(p, Taken(s))
          /\ stored[d].paper = p
      BY <3>1
    <3> QED  BY <3>2, SheetInRange
  <2> QED  BY <2>1, <2>2 DEF ScoredOK
<1>2. ScoreShown
  <2> SUFFICES ASSUME NEW read \in Papers, NEW logged \in BOOLEAN, NEW public \in BOOLEAN,
                      NEW show \in BOOLEAN,
                      NEW d \in DOMAIN Results(read, logged, public, show),
                      stored[d].paper = read,
                      Results(read, logged, public, show)[d].details # <<>>,
                      \A i \in DOMAIN read : read[i].weight > 0
               PROVE  LET r == Results(read, logged, public, show)[d] IN
                      r.score.got * Scale * r.max_score = r.score.total * SumFunction(r.details)
    BY DEF ScoreShown
  <2> DEFINE r == Results(read, logged, public, show)[d]
  <2>1. /\ d \in Devices /\ r.score = stored[d].score /\ r.max_score = MaxScore(read)
        /\ r.details = Evaluated(read, stored[d].answers)
    BY DEF Results
  <2>2. read \in Seq(Question) /\ DOMAIN read # {} /\ \A i \in DOMAIN read : read[i].weight >= 0
    <3>1. read \in Seq(Question) /\ \A q \in Question : q.weight \in Int
      BY ExamDayAssumption DEF Question
    <3>2. Evaluated(read, stored[d].answers) # <<>>
      BY <2>1
    <3>3. ASSUME DOMAIN read = {} PROVE FALSE
      <4>1. Evaluated(read, stored[d].answers) = <<>>
        BY <3>3 DEF Evaluated
      <4> QED  BY <3>2, <4>1
    <3>4. \A i \in DOMAIN read : read[i] \in Question
      BY <3>1
    <3> QED  BY <3>1, <3>3, <3>4
  <2>3. stored[d] # NoSheet
    <3>1. ASSUME stored[d] = NoSheet PROVE FALSE
      <4>1. read = <<>>
        BY <3>1 DEF NoSheet
      <4> QED  BY <2>2, <4>1
    <3> QED  BY <3>1
  <2>4. PICK s \in Sheets :
          stored[d] = [answers |-> AsJson(s), score |-> Score(read, Taken(s)), paper |-> read]
    BY <2>1, <2>3 DEF ScoredOK, Scored
  <2>5. MaxScore(read) = Total(read) /\ Total(read) \in Nat \ {0}
    BY <2>2, <2>4, MaximumIsTotal
  <2>6. r.details = Evaluated(read, AsJson(s))
    BY <2>1, <2>4
  <2>7. SumFunction(r.details) = Points(read, Taken(s))
    BY <2>6, DetailsAddUp
  <2>8. r.score.got = Points(read, Taken(s)) /\ r.score.total = Scale * Total(read)
    BY <2>1, <2>4, <2>5 DEF Score
  <2>9. Points(read, Taken(s)) \in Nat /\ Scale \in Nat
    BY <2>2, PointsAreNat, ScoringAssumption
  <2>10. \A x, y, z \in Nat : x * y * z = (y * z) * x
    BY SMTT(30)
  <2>11. Points(read, Taken(s)) * Scale * Total(read) = (Scale * Total(read)) * Points(read, Taken(s))
    BY <2>5, <2>9, <2>10
  <2>12. r.max_score = Total(read)
    BY <2>1, <2>5
  <2> HIDE DEF r
  <2>13. r.score.got * Scale * r.max_score = r.score.total * SumFunction(r.details)
    BY <2>7, <2>8, <2>11, <2>12
  <2> QED  BY <2>13 DEF r
<1> QED  BY <1>1, <1>2 DEF ScoresAgree

LEMMA ScoredNext ==
  ASSUME SheetsOK, ScoredOK, [Next]_vars
  PROVE  ScoredOK'
<1>1. CASE PresenceStep
  BY <1>1 DEF PresenceStep, ScoredOK
<1>2. ASSUME NEW d \in Devices, Mark(d) PROVE ScoredOK'
  <2>1. PICK s \in Sheets : marked' = [marked EXCEPT ![d] = @ \cup {Worked(s)}]
    BY <1>2 DEF Mark
  <2>2. Worked(s) \in Scored /\ stored' = stored
    <3>1. DOMAIN Taken(s) = DOMAIN s /\ \A i \in DOMAIN s : Taken(s)[i] = Queued(s[i])
      BY DEF Taken
    <3>2. Worked(s) = [answers |-> AsJson(s), score |-> Score(paper, Taken(s)), paper |-> paper]
      BY <3>1 DEF Worked, Taken, AsJson
    <3> QED  BY <1>2, <3>2 DEF Mark, SheetsOK, Scored
  <2>3. ASSUME NEW x \in Devices PROVE marked'[x] \subseteq Scored
    BY <2>1, <2>2 DEF ScoredOK
  <2> QED  BY <2>1, <2>2, <2>3 DEF ScoredOK
<1>3. ASSUME NEW d \in Devices, StoreMarked(d) PROVE ScoredOK'
  <2>1. PICK m \in marked[d] : /\ marked' = [marked EXCEPT ![d] = @ \ {m}]
                               /\ stored' = [stored EXCEPT ![d] = m]
    BY <1>3 DEF StoreMarked
  <2>2. m \in Scored
    BY <2>1 DEF ScoredOK
  <2> QED  BY <2>1, <2>2 DEF ScoredOK
<1>4. CASE ProcessEnds
  BY <1>4 DEF ProcessEnds, ScoredOK
<1>5. CASE \/ \E c \in Clients : HubBeat(c) \/ HubCompleted(c) \/ HubFrame(c) \/ HubWorks(c)
           \/ HubDisconnected \/ EditPaper \/ UNCHANGED vars
  <2>1. UNCHANGED <<marked, stored>>
    BY <1>5 DEF HubBeat, HubCompleted, HubFrame, HubWorks, HubDisconnected, EditPaper, resultVars, vars
  <2> QED  BY <2>1 DEF ScoredOK
<1> QED  BY <1>1, <1>2, <1>3, <1>4, <1>5 DEF Next

(***************************************************************************)
(* ScoresAgree (scoring.cpp, score_submission, submission_queue.cpp,       *)
(* map_to_json, and hasil.cpp, cek_hasil_api): whatever the questions and  *)
(* sheets are, a score is in its range if no weight is negative and no     *)
(* token given twice; and the one that was stored, for the answers as the  *)
(* queue gave them, is the one that the page adds up from the answers with *)
(* their further backslashes, unless the questions were edited between or  *)
(* one of them has no positive weight.                                     *)
(***************************************************************************)
THEOREM ScoresAgreeAlways == Spec => []ScoresAgree
<1>1. Init => SheetsOK /\ ScoredOK
  BY DEF Init, SheetsOK, ScoredOK
<1>2. HeartbeatInv /\ SheetsOK /\ ScoredOK /\ [Next]_vars => SheetsOK' /\ ScoredOK'
  BY SheetsNext, ScoredNext DEF HeartbeatInv, LedgerOK
<1> QED  BY HeartbeatInvariant, ScoredAgrees, <1>1, <1>2, PTL DEF Spec
===============================================================================
