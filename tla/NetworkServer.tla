---------------------------- MODULE NetworkServer ----------------------------
(***************************************************************************)
(* The server's loop, NetworkServer::startAcceptingClients, with the part  *)
(* of ROSEServer it calls back: which clients there are, which of them are *)
(* polled, read and deleted, and which session goes with which client.     *)
(*                                                                         *)
(* The loop is one thread: prepareForIncomingData, select, accept, one     *)
(* step per client of handleConnectedClients, and its final deletions.     *)
(* Peers connect, send and leave between any two of these steps.  What a   *)
(* session does with the bytes is ClientConnection's subject; here one     *)
(* recv takes one unit of data and the session's verdict is arbitrary.     *)
(*                                                                         *)
(* A NetworkClient object is known by its heap address: clientList and the *)
(* map of sessions are keyed by it, clientList is iterated in its order,   *)
(* and the allocator hands a freed address out again.                      *)
(***************************************************************************)
EXTENDS Naturals, FiniteSets, Sequences

CONSTANTS
  Peers,       \* the peers that may connect, each once
  Addresses,   \* heap addresses of NetworkClient objects
  Sockets,     \* handles accept may return
  Listener,    \* the handle of the listening socket
  None,        \* no socket, no peer
  FdSetSize,   \* FD_SETSIZE of winsock: further FD_SETs are ignored
  Endings,     \* ways a peer may leave: "closed", "reset"
  MaxUnread    \* bound on the data a peer may have in flight, for TLC

ASSUME ServerAssumption ==
  /\ Addresses \subseteq Nat
  /\ IsFiniteSet(Addresses)
  /\ FdSetSize \in Nat \ {0}
  /\ MaxUnread \in Nat
  /\ Endings \subseteq {"closed", "reset"}
  /\ Listener \notin Sockets
  /\ None \notin Sockets \cup Peers

\* Handles and memory do not run out before FD_SETSIZE clients are connected.
ASSUME ResourcesAssumption ==
  /\ IsFiniteSet(Sockets)
  /\ FdSetSize <= Cardinality(Sockets)
  /\ FdSetSize <= Cardinality(Addresses)

VARIABLES
  \* the peers and the operating system
  stage,       \* "away", "waiting" in the backlog, "accepted" or "done"
  link,        \* how the peer's end of the connection is
  unread,      \* data the peer sent and the server has not read
  backlog,     \* connections waiting for accept, oldest first
  owner,       \* the peer at the other end of an open socket
  \* NetworkServer
  pc,          \* where the loop is
  clientList,  \* NetworkServer::clientList
  socketOf,    \* NetworkClient::socket
  activeFlag,  \* NetworkClient::activeFlag
  fds,         \* the fd_set: polled sockets, after select the readable ones
  todo,        \* clients for_each has not visited yet
  leaving,     \* clientsToDisconnect
  \* ROSEServer
  sessions     \* ROSEServer::clientList: whose ROSEClient a client has

osVars == <<stage, link, unread, backlog, owner>>
clientVars == <<clientList, socketOf, activeFlag, sessions>>
vars == <<stage, link, unread, backlog, owner, pc, clientList, socketOf,
          activeFlag, fds, todo, leaving, sessions>>

-----------------------------------------------------------------------------

PeerOf(a) == owner[socketOf[a]]

HasInput(p) == unread[p] > 0 \/ link[p] # "open"

Readable(s) ==
  IF s = Listener THEN backlog # <<>> ELSE HasInput(owner[s])

Active == {a \in clientList : activeFlag[a]}

Init ==
  /\ stage = [p \in Peers |-> "away"]
  /\ link = [p \in Peers |-> "open"]
  /\ unread = [p \in Peers |-> 0]
  /\ backlog = <<>>
  /\ owner = [s \in Sockets |-> None]
  /\ pc = "start"
  /\ clientList = {}
  /\ socketOf = [a \in Addresses |-> None]
  /\ activeFlag = [a \in Addresses |-> FALSE]
  /\ fds = {} /\ todo = {} /\ leaving = {}
  /\ sessions = [a \in Addresses |-> None]

(***************************************************************************)
(* Peers.  A peer can connect as soon as the server listens.               *)
(***************************************************************************)
Connect(p) ==
  /\ pc # "start" /\ stage[p] = "away"
  /\ stage' = [stage EXCEPT ![p] = "waiting"]
  /\ backlog' = Append(backlog, p)
  /\ UNCHANGED <<link, unread, owner, pc, clientVars, fds, todo, leaving>>

Send(p) ==
  /\ stage[p] \in {"waiting", "accepted"} /\ link[p] = "open"
  /\ unread[p] < MaxUnread
  /\ unread' = [unread EXCEPT ![p] = @ + 1]
  /\ UNCHANGED <<stage, link, backlog, owner, pc, clientVars, fds, todo,
                 leaving>>

Leave(p, how) ==
  /\ stage[p] \in {"waiting", "accepted"} /\ link[p] = "open"
  /\ link' = [link EXCEPT ![p] = how]
  /\ UNCHANGED <<stage, unread, backlog, owner, pc, clientVars, fds, todo,
                 leaving>>

(***************************************************************************)
(* disconnectClient for every client of D: onClientDisconnecting takes the *)
(* session out of ROSEServer's map, then the client is erased and deleted, *)
(* which closes its socket.  Mutants: the session stays in the map; the    *)
(* socket stays open.                                                      *)
(***************************************************************************)
DisconnectKeepsSession(D) ==
  /\ clientList' = clientList \ D
  /\ socketOf' = [a \in Addresses |-> IF a \in D THEN None ELSE socketOf[a]]
  /\ owner' = [s \in Sockets |->
                 IF \E a \in D : socketOf[a] = s THEN None ELSE owner[s]]
  /\ stage' = [p \in Peers |->
                 IF \E a \in D : PeerOf(a) = p THEN "done" ELSE stage[p]]
  /\ UNCHANGED sessions
DisconnectLeaksSocket(D) ==
  /\ sessions' = [a \in Addresses |-> IF a \in D THEN None ELSE sessions[a]]
  /\ clientList' = clientList \ D
  /\ socketOf' = [a \in Addresses |-> IF a \in D THEN None ELSE socketOf[a]]
  /\ UNCHANGED <<owner, stage>>
Disconnect(D) ==
  /\ sessions' = [a \in Addresses |-> IF a \in D THEN None ELSE sessions[a]]
  /\ clientList' = clientList \ D
  /\ socketOf' = [a \in Addresses |-> IF a \in D THEN None ELSE socketOf[a]]
  /\ owner' = [s \in Sockets |->
                 IF \E a \in D : socketOf[a] = s THEN None ELSE owner[s]]
  /\ stage' = [p \in Peers |->
                 IF \E a \in D : PeerOf(a) = p THEN "done" ELSE stage[p]]

(***************************************************************************)
(* The loop.                                                               *)
(***************************************************************************)

\* startServerConnection; what it returns is not looked at.  A server that
\* could not listen has no peers and is left out.
Startup ==
  /\ pc = "start"
  /\ pc' = "prepare"
  /\ UNCHANGED <<osVars, clientVars, fds, todo, leaving>>

\* The sockets FD_SET takes in: those of the active clients in the order of
\* their addresses and the listening socket after them, as long as there is
\* room.  Mutants: inactive clients are polled too; the listening socket comes
\* first; the last place in the set is not used.
PolledWithInactive ==
  {socketOf[a] : a \in clientList} \cup {Listener}
PolledListenerFirst ==
  LET rank(a) == Cardinality({b \in Active : b < a})
  IN  {socketOf[a] : a \in {b \in Active : rank(b) < FdSetSize - 1}}
        \cup {Listener}
PolledOneShort ==
  {socketOf[a] : a \in Active}
    \cup (IF Cardinality(Active) + 1 < FdSetSize THEN {Listener} ELSE {})
Polled ==
  LET rank(a) == Cardinality({b \in Active : b < a})
  IN  {socketOf[a] : a \in {b \in Active : rank(b) < FdSetSize}}
        \cup (IF Cardinality(Active) < FdSetSize THEN {Listener} ELSE {})

\* prepareForIncomingData.  Mutants: inactive clients are kept; all clients but
\* the active ones with data are deleted.
PrepareKeepsInactive ==
  /\ pc = "prepare"
  /\ fds' = Polled
  /\ pc' = "select"
  /\ UNCHANGED <<osVars, clientVars, todo, leaving>>
PrepareDropsIdle ==
  /\ pc = "prepare"
  /\ fds' = Polled
  /\ Disconnect({a \in clientList : ~(activeFlag[a] /\ HasInput(PeerOf(a)))})
  /\ pc' = "select"
  /\ UNCHANGED <<link, unread, backlog, activeFlag, todo, leaving>>
Prepare ==
  /\ pc = "prepare"
  /\ fds' = Polled
  /\ Disconnect(clientList \ Active)
  /\ pc' = "select"
  /\ UNCHANGED <<link, unread, backlog, activeFlag, todo, leaving>>

\* select leaves the readable sockets in the set, none when its millisecond is
\* over.  Mutant: its result and the set are taken for readable as they are.
SelectUnfiltered ==
  /\ pc = "select"
  /\ pc' = "accept"
  /\ UNCHANGED <<osVars, clientVars, fds, todo, leaving>>
Select ==
  /\ pc = "select"
  /\ fds' = {s \in fds : Readable(s)}
  /\ pc' = "accept"
  /\ UNCHANGED <<osVars, clientVars, todo, leaving>>

\* handleConnectedClients starts on the clients there are by now.
StartHandling(clients) ==
  /\ pc' = "handle"
  /\ todo' = clients

\* acceptAndAddNewClient, addNewClient and onNewClient.  The map of sessions
\* keeps an entry that is already there.
Accept(a, s) ==
  /\ pc = "accept" /\ Listener \in fds
  /\ backlog # <<>>
  /\ a \notin clientList /\ owner[s] = None
  /\ LET p == Head(backlog) IN
       /\ owner' = [owner EXCEPT ![s] = p]
       /\ stage' = [stage EXCEPT ![p] = "accepted"]
       /\ sessions' = [sessions EXCEPT ![a] = IF @ = None THEN p ELSE @]
  /\ backlog' = Tail(backlog)
  /\ clientList' = clientList \cup {a}
  /\ socketOf' = [socketOf EXCEPT ![a] = s]
  /\ activeFlag' = [activeFlag EXCEPT ![a] = TRUE]
  /\ StartHandling(clientList \cup {a})
  /\ UNCHANGED <<link, unread, fds, leaving>>

\* accept returns INVALID_SOCKET for a connection that was reset meanwhile.
AcceptAborted ==
  /\ pc = "accept" /\ Listener \in fds
  /\ backlog # <<>> /\ link[Head(backlog)] = "reset"
  /\ stage' = [stage EXCEPT ![Head(backlog)] = "done"]
  /\ backlog' = Tail(backlog)
  /\ StartHandling(clientList)
  /\ UNCHANGED <<link, unread, owner, clientVars, fds, leaving>>

NobodyWaits ==
  /\ pc = "accept" /\ Listener \notin fds
  /\ StartHandling(clientList)
  /\ UNCHANGED <<osVars, clientVars, fds, leaving>>

\* for_each visits the clients in the order of their addresses.
Visit(a) ==
  /\ pc = "handle" /\ a \in todo /\ \A b \in todo : a <= b
  /\ todo' = todo \ {a}
  /\ UNCHANGED <<pc, stage, link, backlog, owner, clientList, socketOf,
                 sessions, fds>>

Polls(a) == activeFlag[a] /\ socketOf[a] \in fds

SkipClient(a) ==
  /\ Visit(a)
  /\ ~Polls(a)
  /\ UNCHANGED <<unread, activeFlag, leaving>>

\* recv returns data; the session says whether the client stays active.  A
\* client without a session stays active whatever it sent.
ReadClient(a) ==
  /\ Visit(a)
  /\ Polls(a)
  /\ unread[PeerOf(a)] > 0
  /\ unread' = [unread EXCEPT ![PeerOf(a)] = @ - 1]
  /\ \E verdict \in IF sessions[a] = None THEN {TRUE} ELSE BOOLEAN :
       activeFlag' = [activeFlag EXCEPT ![a] = verdict]
  /\ UNCHANGED leaving

\* recv returns 0 or -1.  Mutant: the end is seen before what was sent is read.
EndOfDataEarly(a) == link[PeerOf(a)] # "open"
EndOfData(a) ==
  \/ link[PeerOf(a)] = "closed" /\ unread[PeerOf(a)] = 0
  \/ link[PeerOf(a)] = "reset"

EndClient(a) ==
  /\ Visit(a)
  /\ Polls(a)
  /\ EndOfData(a)
  /\ activeFlag' = [activeFlag EXCEPT ![a] = FALSE]
  /\ leaving' = leaving \cup {a}
  /\ UNCHANGED unread

\* The clients that ended in this round are deleted.  Mutant: the set of them
\* outlives the round.
FinishRoundKeepsLeaving ==
  /\ pc = "handle" /\ todo = {}
  /\ Disconnect(leaving)
  /\ pc' = "prepare"
  /\ UNCHANGED <<link, unread, backlog, activeFlag, fds, todo, leaving>>
FinishRound ==
  /\ pc = "handle" /\ todo = {}
  /\ Disconnect(leaving)
  /\ leaving' = {}
  /\ pc' = "prepare"
  /\ UNCHANGED <<link, unread, backlog, activeFlag, fds, todo>>

HandleClient(a) == SkipClient(a) \/ ReadClient(a) \/ EndClient(a)

AcceptStep ==
  \/ \E a \in Addresses, s \in Sockets : Accept(a, s)
  \/ AcceptAborted
  \/ NobodyWaits

PeerStep ==
  \E p \in Peers :
    Connect(p) \/ Send(p) \/ (\E how \in Endings : Leave(p, how))

ServerStep ==
  \/ Startup
  \/ Prepare
  \/ Select
  \/ AcceptStep
  \/ \E a \in Addresses : HandleClient(a)
  \/ FinishRound

Next == PeerStep \/ ServerStep

\* The loop never stops; peers owe nothing.
Fairness == WF_vars(ServerStep)

Spec == Init /\ [][Next]_vars /\ Fairness
-----------------------------------------------------------------------------
TypeOK ==
  /\ stage \in [Peers -> {"away", "waiting", "accepted", "done"}]
  /\ link \in [Peers -> {"open", "closed", "reset"}]
  /\ unread \in [Peers -> 0..MaxUnread]
  /\ backlog \in Seq(Peers)
  /\ owner \in [Sockets -> Peers \cup {None}]
  /\ pc \in {"start", "prepare", "select", "accept", "handle"}
  /\ clientList \subseteq Addresses
  /\ socketOf \in [Addresses -> Sockets \cup {None}]
  /\ activeFlag \in [Addresses -> BOOLEAN]
  /\ fds \subseteq Sockets \cup {Listener}
  /\ todo \subseteq clientList /\ leaving \subseteq clientList
  /\ sessions \in [Addresses -> Peers \cup {None}]

\* NetworkServer's set and ROSEServer's map are in step although they are kept
\* by two classes: every client has the session made for the peer at the other
\* end of its socket, also at an address that another client had before, and
\* no session stays behind.
SessionsMatch ==
  /\ \A a \in clientList :
       socketOf[a] # None /\ PeerOf(a) # None /\ sessions[a] = PeerOf(a)
  /\ \A a \in Addresses \ clientList : sessions[a] = None

\* No two clients share a socket, and no socket stays open without a client
\* that will close it.
OneClientPerSocket ==
  /\ \A a, b \in clientList : socketOf[a] = socketOf[b] => a = b
  /\ \A s \in Sockets :
       owner[s] # None => \E a \in clientList : socketOf[a] = s

\* While select's result is used, every socket in the set is that of a client
\* which is active until it is visited: the client accepted in between is not
\* taken for readable, and no closed socket is looked at.
PolledAreClients ==
  pc \in {"select", "accept", "handle"} =>
    \A s \in fds \ {Listener} : \E a \in clientList :
      /\ socketOf[a] = s
      /\ (pc # "handle" \/ a \in todo) => activeFlag[a]

\* The sockets are in blocking mode: recv is called only where there is input
\* or the end of the stream, accept only when a connection waits.
NeverBlocks ==
  /\ \A a \in todo : (pc = "handle" /\ Polls(a)) => HasInput(PeerOf(a))
  /\ (pc = "accept" /\ Listener \in fds) => backlog # <<>>

\* There are never more clients than the set has room for, so none of them is
\* left out of it: the listening socket is put in last and is what is left out.
WithinFdSet == Cardinality(clientList) <= FdSetSize

\* A client disappears from the list only when it is inactive, and only in the
\* two places that delete clients, never while the list is iterated.
OnlyInactiveDeleted ==
  [][\A a \in clientList \ clientList' :
       /\ ~activeFlag[a]
       /\ pc = "prepare" \/ (pc = "handle" /\ todo = {})]_vars

\* The loop serves every peer as though it were alone: no peer's connection,
\* data or end is taken for another's, at whatever address and handle.
Served(p) == \E a \in Active : PeerOf(a) = p

Service(p) == INSTANCE PeerService WITH
  stage  <- stage[p],
  link   <- link[p],
  unread <- unread[p],
  served <- Served(p)

ServesEachAlone ==
  /\ \A p \in Peers : Service(p)!Init
  /\ [][\A p \in Peers : [Service(p)!Next]_(Service(p)!vars)]_vars

\* A peer that has left after its connection was accepted is noticed in the end,
\* and its client is deleted, whether or not all it sent has been read.
PeerGoneNoticed ==
  \A p \in Peers :
    (stage[p] = "accepted" /\ link[p] # "open") ~> (stage[p] = "done")

\* A peer that waits for its data to be read does not wait for ever, whatever
\* the other peers do.
DataRead ==
  \A p \in Peers :
    (stage[p] = "accepted" /\ unread[p] = MaxUnread)
      ~> (stage[p] = "done" \/ unread[p] < MaxUnread)

\* A waiting connection is accepted if the set has room for the listening
\* socket again and again.
WaitingAccepted ==
  []<>(pc = "prepare" /\ Cardinality(Active) < FdSetSize)
    => \A p \in Peers : (stage[p] = "waiting") ~> (stage[p] # "waiting")
=============================================================================
