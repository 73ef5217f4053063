---------------------------------- MODULE Hub ----------------------------------
(***************************************************************************)
(* The WebSocket clients of one room (websocket/hub.cpp) and the threads   *)
(* that serve them (handle_ws of server.cpp).  Rooms share nothing but the *)
(* mutex mu_; a section under mu_ or under the mutex of a client is one    *)
(* step.                                                                   *)
(***************************************************************************)
EXTENDS Integers, FiniteSets

CONSTANTS
  Clients,    \* connections, each with a thread of its own
  Privileged, \* those with the session of a teacher
  MaxQueue    \* max_queue

ASSUME HubAssumption == Privileged \subseteq Clients /\ MaxQueue \in Nat \ {0}

VARIABLES
  room,    \* rooms_[exam]; an empty room is not in the map
  closed,  \* clients that are closed
  queued,  \* queued[c]: the length of send_queue
  wpc,     \* wpc[c]: the stage of c's thread
  snap,    \* snap[c]: the clients that c's thread has yet to send to
  slow,    \* slow[c]: to_remove of c's thread
  leaked   \* history: clients whose thread left without remove_client

hubVars == <<room, closed, queued, wpc, snap, slow, leaked>>

WsStages == {"new", "recv", "beat", "completed", "snapshot", "send", "sweep", "flush", "gone"}

At(c, s) == wpc[c] = s
To(c, s) == wpc' = [wpc EXCEPT ![c] = s]

\* Client::try_send.
TakesClosed(c) == queued[c] < MaxQueue  \* mutant: closed is not looked at
TakesMore(c) == c \notin closed          \* mutant: without a limit
Takes(c) == c \notin closed /\ queued[c] < MaxQueue

Offer(c) == queued' = IF Takes(c) THEN [queued EXCEPT ![c] = @ + 1] ELSE queued

\* Client::close of the clients in S.
Close(S) ==
  /\ closed' = closed \cup S
  /\ queued' = [c \in Clients |-> IF c \in S THEN 0 ELSE queued[c]]

\* remove_client: nothing when the room is gone, and else also for a client that
\* is not in it.
RemoveClient(c) ==
  IF room = {} THEN UNCHANGED <<room, closed, queued>>
  ELSE room' = room \ {c} /\ Close({c})

-----------------------------------------------------------------------------
Connect(c) ==
  /\ At(c, "new") /\ To(c, "recv")
  /\ room' = room \cup {c}
  /\ UNCHANGED <<closed, queued, snap, slow, leaked>>

\* handle_message: ping is answered; heartbeat and exam_completed are those of
\* privileged clients only; anything else is ignored.
Frame(c) ==
  /\ At(c, "recv")
  /\ \/ Offer(c) /\ To(c, "flush")
     \/ To(c, "flush") /\ UNCHANGED queued
     \/ /\ c \in Privileged /\ UNCHANGED queued
        /\ To(c, "beat") \/ To(c, "completed")
  /\ UNCHANGED <<room, closed, snap, slow, leaked>>

\* broadcast_to_room: who is in the room now ...
Snapshot(c) ==
  /\ At(c, "snapshot")
  /\ To(c, IF room = {} THEN "flush" ELSE "send")
  /\ snap' = [snap EXCEPT ![c] = room]
  /\ UNCHANGED <<room, closed, queued, slow, leaked>>

\* ... gets the message, one after the other ...
Send(c) ==
  /\ At(c, "send")
  /\ \E x \in snap[c] :
       /\ Offer(x)
       /\ slow' = IF Takes(x) THEN slow ELSE [slow EXCEPT ![c] = @ \cup {x}]
       /\ snap' = [snap EXCEPT ![c] = @ \ {x}]
  /\ To(c, IF Cardinality(snap[c]) = 1 THEN "sweep" ELSE "send")
  /\ UNCHANGED <<room, closed, leaked>>

\* ... and those that could not take it are removed and closed.
Sweep(c) ==
  /\ At(c, "sweep") /\ To(c, "flush")
  /\ IF slow[c] = {} \/ room = {} THEN UNCHANGED <<room, closed, queued>>
     ELSE room' = room \ slow[c] /\ Close(slow[c])
  /\ slow' = [slow EXCEPT ![c] = {}]
  /\ UNCHANGED <<snap, leaked>>

\* flush_queue, after every frame of the client itself.  It looks without the
\* lock whether the queue is empty, and may miss what was just put there.
Flushed(c) ==
  /\ At(c, "flush")
  /\ \/ To(c, "recv") /\ UNCHANGED queued
     \/ queued[c] > 0 /\ queued' = [queued EXCEPT ![c] = @ - 1] /\ UNCHANGED wpc
  /\ UNCHANGED <<room, closed, snap, slow, leaked>>

\* recv or send fails, or a close frame.
Leave(c) ==
  /\ wpc[c] \in {"recv", "flush"} /\ To(c, "gone")
  /\ RemoveClient(c)
  /\ UNCHANGED <<snap, slow, leaked>>

\* A frame or its fragments exceed 5 MB: the socket is closed and the thread
\* returns.
Oversize(c) ==
  /\ At(c, "recv") /\ To(c, "gone")
  /\ leaked' = leaked \cup {c}
  /\ UNCHANGED <<room, closed, queued, snap, slow>>

\* The process ends, and all connections with it.
Disconnect ==
  /\ room' = {} /\ closed' = {} /\ queued' = [c \in Clients |-> 0]
  /\ wpc' = [c \in Clients |-> "new"]
  /\ snap' = [c \in Clients |-> {}] /\ slow' = [c \in Clients |-> {}]
  /\ leaked' = {}

HubInit ==
  /\ room = {} /\ closed = {} /\ queued = [c \in Clients |-> 0]
  /\ wpc = [c \in Clients |-> "new"]
  /\ snap = [c \in Clients |-> {}] /\ slow = [c \in Clients |-> {}]
  /\ leaked = {}

\* What the hub does by itself; for "beat" and "completed" see ExamDay.
HubStep(c) == Snapshot(c) \/ Send(c) \/ Sweep(c) \/ Flushed(c)

-----------------------------------------------------------------------------
HubTypeOK ==
  /\ room \subseteq Clients /\ closed \subseteq Clients /\ leaked \subseteq Clients
  /\ queued \in [Clients -> 0..MaxQueue]
  /\ wpc \in [Clients -> WsStages]
  /\ snap \in [Clients -> SUBSET Clients] /\ slow \in [Clients -> SUBSET Clients]

\* Broadcasts of several threads, joins and leaves overlap.  Whoever is served
\* is in the room, until he is closed; the room holds nobody who is closed, and
\* of those whose connection is gone only the leaked, whom the first broadcast
\* that finds their queue full removes; what is closed keeps no messages.
RoomSound ==
  /\ room \cap closed = {}
  /\ \A c \in Clients :
       /\ wpc[c] \notin {"new", "gone"} => c \in room \cup closed
       /\ wpc[c] = "gone" => c \in closed \cup leaked
       /\ c \in closed => queued[c] = 0
===============================================================================
