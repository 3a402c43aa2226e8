---------------------------- MODULE SharedSession ----------------------------
(***************************************************************************)
(* A ROSEClient is shared: the server's loop fills and drains its packet   *)
(* queue, and the application, which got a shared_ptr to it from           *)
(* onNewROSEClient, may drain the queue and send from threads of its own.  *)
(* The NetworkClient behind it is not shared: the loop deletes it while a  *)
(* thread may still hold the ROSEClient, whose networkInterface then       *)
(* points to freed memory or to the next client's object.                  *)
(*                                                                         *)
(* Every access to packetQueue holds packetQueueMutex for that access      *)
(* alone, so each is one step; between two of them others may run.  That   *)
(* the loop finds the session of a client is NetworkServer's SessionsMatch,*)
(* and what makes a packet of a fragment is ClientConnection.              *)
(***************************************************************************)
EXTENDS Naturals, Sequences

CONSTANTS
  Sessions,    \* ROSEClients, one for each connection there will be
  Addresses,   \* heap addresses of NetworkClient objects
  Sockets,     \* handles
  Workers,     \* threads of the application
  Loop,        \* the server's thread
  None,        \* no session, socket, address or thread
  MaxPackets   \* bound on the packets of a session, for TLC

ASSUME SharingAssumption ==
  /\ None \notin Sessions \cup Addresses \cup Sockets \cup Workers \cup {Loop}
  /\ Loop \notin Workers
  /\ MaxPackets \in Nat

VARIABLES
  stage,             \* "new", "open", "notified" or "gone"
  networkInterface,  \* ROSEClient::networkInterface
  occupant,          \* whose NetworkClient lives at an address
  socketOf,          \* NetworkClient::socket of the object there
  owner,             \* the session whose peer is behind an open socket
  packetQueue,       \* ROSEClient::packetQueue
  received,          \* number of packets made for a session
  taken,             \* packets that left its queue, oldest first
  lastTaker,         \* the thread that took the last of them
  pc,                \* where a thread is
  at,                \* the session it works on
  batch,             \* the packetQueue of ROSEServer::onDataReceived
  handle             \* the socket a thread has read for its call of ::send

lifeVars == <<stage, networkInterface, occupant, socketOf, owner>>
queueVars == <<packetQueue, received, taken, lastTaker>>
vars == <<stage, networkInterface, occupant, socketOf, owner, packetQueue,
          received, taken, lastTaker, pc, at, batch, handle>>

Threads == Workers \cup {Loop}

Init ==
  /\ stage = [c \in Sessions |-> "new"]
  /\ networkInterface = [c \in Sessions |-> None]
  /\ occupant = [a \in Addresses |-> None]
  /\ socketOf = [a \in Addresses |-> None]
  /\ owner = [s \in Sockets |-> None]
  /\ packetQueue = [c \in Sessions |-> <<>>]
  /\ received = [c \in Sessions |-> 0]
  /\ taken = [c \in Sessions |-> <<>>]
  /\ lastTaker = [c \in Sessions |-> None]
  /\ pc = [t \in Threads |-> "idle"]
  /\ at = [t \in Threads |-> None]
  /\ batch = <<>>
  /\ handle = [t \in Threads |-> None]

\* Thread t goes on at q with session c.
Goto(t, q, c) ==
  /\ pc' = [pc EXCEPT ![t] = q]
  /\ at' = [at EXCEPT ![t] = c]

\* getQueuedPackets, called by t: the queue is swapped with an empty one.
\* Mutant: it is copied.
DrainByCopy(t, c) ==
  /\ taken' = [taken EXCEPT ![c] = @ \o packetQueue[c]]
  /\ lastTaker' = [lastTaker EXCEPT ![c] = IF packetQueue[c] = <<>> THEN @ ELSE t]
  /\ UNCHANGED <<packetQueue, received>>
Drain(t, c) ==
  /\ taken' = [taken EXCEPT ![c] = @ \o packetQueue[c]]
  /\ lastTaker' = [lastTaker EXCEPT ![c] = IF packetQueue[c] = <<>> THEN @ ELSE t]
  /\ packetQueue' = [packetQueue EXCEPT ![c] = <<>>]
  /\ UNCHANGED received

-----------------------------------------------------------------------------
(***************************************************************************)
(* The server's loop.                                                      *)
(***************************************************************************)

\* addNewClient and onNewClient: a NetworkClient at a free address for a socket
\* accept returned, and a session that points to it.
Connect(c, a, s) ==
  /\ pc[Loop] = "idle" /\ stage[c] = "new"
  /\ occupant[a] = None /\ owner[s] = None
  /\ stage' = [stage EXCEPT ![c] = "open"]
  /\ networkInterface' = [networkInterface EXCEPT ![c] = a]
  /\ occupant' = [occupant EXCEPT ![a] = c]
  /\ socketOf' = [socketOf EXCEPT ![a] = s]
  /\ owner' = [owner EXCEPT ![s] = c]
  /\ UNCHANGED <<queueVars, pc, at, batch, handle>>

\* threadSafeAppendingOfPacketToQueue
Enqueue(c) ==
  /\ received' = [received EXCEPT ![c] = @ + 1]
  /\ packetQueue' = [packetQueue EXCEPT ![c] = Append(@, received[c] + 1)]
  /\ UNCHANGED <<taken, lastTaker>>

\* onDataReceived of a fragment that completes a message; one of which no packet
\* is made changes nothing here.  Mutant: the queue is left for a later visit.
PacketLeft(c) ==
  /\ pc[Loop] = "idle" /\ stage[c] = "open" /\ received[c] < MaxPackets
  /\ Enqueue(c)
  /\ UNCHANGED <<lifeVars, pc, at, batch, handle>>
PacketArrives(c) ==
  /\ pc[Loop] = "idle" /\ stage[c] = "open" /\ received[c] < MaxPackets
  /\ Enqueue(c)
  /\ Goto(Loop, "check", c)
  /\ UNCHANGED <<lifeVars, batch, handle>>

\* onDataReceived of a fragment that leaves its message unfinished.
PartArrives(c) ==
  /\ pc[Loop] = "idle" /\ stage[c] = "open"
  /\ Goto(Loop, "check", c)
  /\ UNCHANGED <<lifeVars, queueVars, batch, handle>>

\* isPacketQueueFilled.  Mutant: what it returns is not looked at.
CheckIgnored ==
  /\ pc[Loop] = "check"
  /\ Goto(Loop, "take", at[Loop])
  /\ UNCHANGED <<lifeVars, queueVars, batch, handle>>
CheckFilled ==
  /\ pc[Loop] = "check"
  /\ IF packetQueue[at[Loop]] # <<>>
     THEN Goto(Loop, "take", at[Loop])
     ELSE Goto(Loop, "idle", None)
  /\ UNCHANGED <<lifeVars, queueVars, batch, handle>>

\* getQueuedPackets; what is left in the queue by now goes to onPacketsReady.
LoopTakes ==
  /\ pc[Loop] = "take"
  /\ batch' = packetQueue[at[Loop]]
  /\ Drain(Loop, at[Loop])
  /\ Goto(Loop, "handle", at[Loop])
  /\ UNCHANGED <<lifeVars, handle>>

\* onPacketsReady returns, and onDataReceived.
LoopHandled ==
  /\ pc[Loop] = "handle"
  /\ batch' = <<>>
  /\ Goto(Loop, "idle", None)
  /\ UNCHANGED <<lifeVars, queueVars, handle>>

\* disconnectClient up to onROSEClientDisconnecting and the erasures: from here
\* on the application knows.  Mutant: the NetworkClient is deleted before.
NotifyDeleted(c) ==
  /\ pc[Loop] = "idle" /\ stage[c] = "open"
  /\ stage' = [stage EXCEPT ![c] = "notified"]
  /\ owner' = [owner EXCEPT ![socketOf[networkInterface[c]]] = None]
  /\ Goto(Loop, "delete", c)
  /\ UNCHANGED <<networkInterface, occupant, socketOf, queueVars, batch, handle>>
Notify(c) ==
  /\ pc[Loop] = "idle" /\ stage[c] = "open"
  /\ stage' = [stage EXCEPT ![c] = "notified"]
  /\ Goto(Loop, "delete", c)
  /\ UNCHANGED <<networkInterface, occupant, socketOf, owner, queueVars, batch,
                 handle>>

\* delete nc: the socket is closed, handle and address are free.
Delete ==
  /\ pc[Loop] = "delete"
  /\ LET a == networkInterface[at[Loop]] IN
       /\ owner' = [owner EXCEPT ![socketOf[a]] = None]
       /\ occupant' = [occupant EXCEPT ![a] = None]
       /\ socketOf' = [socketOf EXCEPT ![a] = None]
  /\ stage' = [stage EXCEPT ![at[Loop]] = "gone"]
  /\ Goto(Loop, "idle", None)
  /\ UNCHANGED <<networkInterface, queueVars, batch, handle>>

-----------------------------------------------------------------------------
(***************************************************************************)
(* Threads of the application.                                             *)
(***************************************************************************)

\* The thread copies the shared_ptr of a session that is not reported gone.
Hold(w, c) ==
  /\ pc[w] = "idle" /\ stage[c] = "open"
  /\ Goto(w, "holding", c)
  /\ UNCHANGED <<lifeVars, queueVars, batch, handle>>

Release(w) ==
  /\ pc[w] = "holding"
  /\ Goto(w, "idle", None)
  /\ UNCHANGED <<lifeVars, queueVars, batch, handle>>

WorkerTakes(w) ==
  /\ pc[w] = "holding"
  /\ Drain(w, at[w])
  /\ UNCHANGED <<lifeVars, pc, at, batch, handle>>

\* sendData up to getSocket: the NetworkClient is read through networkInterface.
\* Freed memory holds anything.
SocketsSeen(c) ==
  LET a == networkInterface[c]
  IN  IF occupant[a] = None THEN Sockets \cup {None} ELSE {socketOf[a]}

ReadSocket(w) ==
  /\ pc[w] = "holding"
  /\ \E s \in SocketsSeen(at[w]) : handle' = [handle EXCEPT ![w] = s]
  /\ Goto(w, "sending", at[w])
  /\ UNCHANGED <<lifeVars, queueVars, batch>>

\* ::send: the frame goes to whoever is behind the handle now.
SendReturns(w) ==
  /\ pc[w] = "sending"
  /\ handle' = [handle EXCEPT ![w] = None]
  /\ Goto(w, "holding", at[w])
  /\ UNCHANGED <<lifeVars, queueVars, batch>>

LoopStep ==
  \/ \E c \in Sessions : \/ PacketArrives(c)
                         \/ PartArrives(c)
                         \/ Notify(c)
                         \/ \E a \in Addresses, s \in Sockets : Connect(c, a, s)
  \/ CheckFilled
  \/ LoopTakes
  \/ LoopHandled
  \/ Delete

WorkerStep(w) ==
  \/ \E c \in Sessions : Hold(w, c)
  \/ Release(w)
  \/ WorkerTakes(w)
  \/ ReadSocket(w)
  \/ SendReturns(w)

Next == LoopStep \/ \E w \in Workers : WorkerStep(w)

Spec == Init /\ [][Next]_vars
-----------------------------------------------------------------------------
\* Every variable has a value of its range; no queue holds more than a packet.
TypeOK ==
  /\ stage \in [Sessions -> {"new", "open", "notified", "gone"}]
  /\ networkInterface \in [Sessions -> Addresses \cup {None}]
  /\ occupant \in [Addresses -> Sessions \cup {None}]
  /\ socketOf \in [Addresses -> Sockets \cup {None}]
  /\ owner \in [Sockets -> Sessions \cup {None}]
  /\ packetQueue \in [Sessions -> Seq(Nat)]
  /\ \A c \in Sessions : Len(packetQueue[c]) <= 1
  /\ received \in [Sessions -> Nat]
  /\ taken \in [Sessions -> Seq(Nat)]
  /\ lastTaker \in [Sessions -> Threads \cup {None}]
  /\ pc \in [Threads -> {"idle", "check", "take", "handle", "delete", "holding",
                         "sending"}]
  /\ at \in [Threads -> Sessions \cup {None}]
  /\ batch \in Seq(Nat) /\ Len(batch) <= 1
  /\ handle \in [Threads -> Sockets \cup {None}]

\* Whatever threads drain the queue, and however their calls fall between the
\* loop's push, its look and its swap, the packets leave it as the contract of
\* the receive path says: each once, in order, and none after the application
\* was told that the session disconnects.
Contract(c) == INSTANCE PacketDelivery WITH
  posted <- received[c],
  handed <- taken[c],
  open <- stage[c] \in {"new", "open"},
  stuck <- FALSE
KeepsContract ==
  /\ \A c \in Sessions : Contract(c)!Init
  /\ [][\A c \in Sessions :
          Contract(c)!Next \/ UNCHANGED Contract(c)!vars]_vars

\* A packet waits in the queue only while the loop is in onDataReceived for this
\* very session: none is left behind for a visit that may never come, nor in a
\* session that is deleted.
NothingLeftBehind ==
  \A c \in Sessions :
    packetQueue[c] # <<>> => at[Loop] = c /\ pc[Loop] \in {"check", "take"}

\* isPacketQueueFilled and getQueuedPackets lock separately, so that
\* onPacketsReady may get an empty queue: only if a thread of the application
\* took the session's last packet.
EmptyBatchExplained ==
  pc[Loop] = "handle" /\ batch = <<>> => lastTaker[at[Loop]] \in Workers

\* Until the NetworkClient is deleted, and so throughout onPacketsReady and
\* onROSEClientDisconnecting, networkInterface leads to the session's own peer;
\* what a thread sends reaches another peer, or nobody, only when its session
\* was deleted after the thread got hold of it.
SendsReachPeer ==
  /\ \A c \in Sessions :
       stage[c] \in {"open", "notified"} =>
         LET a == networkInterface[c]
         IN  a # None /\ occupant[a] = c /\ socketOf[a] # None
               /\ owner[socketOf[a]] = c
  /\ \A w \in Workers :
       pc[w] = "sending" /\ stage[at[w]] # "gone" =>
         handle[w] # None /\ owner[handle[w]] = at[w]
=============================================================================
