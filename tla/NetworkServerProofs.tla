------------------------- MODULE NetworkServerProofs -------------------------
(***************************************************************************)
(* Theorems about NetworkServer for every value of its constants.          *)
(*                                                                         *)
(* The inductive invariant adds to the properties what they rest on: which *)
(* peers the backlog and the sockets belong to, so that reading one client *)
(* cannot take another's input away; that the deletions planned for the    *)
(* end of a round concern inactive clients already visited; and that the   *)
(* listening socket is in the set only when there is room for one more     *)
(* client.                                                                 *)
(***************************************************************************)
EXTENDS NetworkServer, FiniteSetTheorems, SequenceTheorems,
        WellFoundedInduction, TLAPS

\* A peer is in the backlog at most once and not yet accepted; an accepted peer
\* has one socket.
PeersApart ==
  /\ \A i \in 1..Len(backlog) : stage[backlog[i]] = "waiting"
  /\ \A i, j \in 1..Len(backlog) : backlog[i] = backlog[j] => i = j
  /\ \A s \in Sockets : owner[s] # None => stage[owner[s]] = "accepted"
  /\ \A s, t \in Sockets : owner[s] # None /\ owner[s] = owner[t] => s = t

\* clientsToDisconnect holds clients already visited and inactive.
LeavingVisited ==
  /\ \A a \in leaving : ~activeFlag[a] /\ a \notin todo
  /\ pc # "handle" => todo = {} /\ leaving = {}

\* The listening socket is polled only when another client fits.
RoomForNext ==
  pc \in {"select", "accept"} /\ Listener \in fds
    => Cardinality(clientList) < FdSetSize

\* What select reported stays true until it is acted on.
ResultsHold ==
  /\ pc = "accept" => \A s \in fds : Readable(s)
  /\ pc = "handle" => \A a \in todo : Polls(a) => HasInput(PeerOf(a))

ListInv ==
  /\ TypeOK
  /\ SessionsMatch
  /\ OneClientPerSocket
  /\ PeersApart

ServerInv ==
  /\ ListInv
  /\ LeavingVisited
  /\ PolledAreClients
  /\ RoomForNext
  /\ WithinFdSet
  /\ ResultsHold

LEMMA ServerInit == Init => ServerInv
<1> SUFFICES ASSUME Init PROVE ServerInv
  OBVIOUS
<1> USE ServerAssumption
<1>1. TypeOK
  BY DEF Init, TypeOK
<1>2. SessionsMatch /\ OneClientPerSocket /\ PeersApart
  BY DEF Init, SessionsMatch, OneClientPerSocket, PeersApart
<1>3. LeavingVisited /\ PolledAreClients /\ RoomForNext /\ ResultsHold
  BY DEF Init, LeavingVisited, PolledAreClients, RoomForNext, ResultsHold
<1>4. WithinFdSet
  BY FS_EmptySet DEF Init, WithinFdSet
<1> QED
  BY <1>1, <1>2, <1>3, <1>4 DEF ServerInv, ListInv

\* The list of clients is finite, and so is every part of it.
LEMMA ListFinite ==
  ASSUME TypeOK
  PROVE  /\ IsFiniteSet(clientList) /\ Cardinality(clientList) \in Nat
         /\ \A S \in SUBSET clientList :
              /\ IsFiniteSet(S) /\ Cardinality(S) \in Nat
              /\ Cardinality(S) <= Cardinality(clientList)
<1>1. IsFiniteSet(clientList)
  BY ServerAssumption, FS_Subset DEF TypeOK
<1>2. Cardinality(clientList) \in Nat
  BY <1>1, FS_CardinalityType
<1>3. ASSUME NEW S \in SUBSET clientList
      PROVE  /\ IsFiniteSet(S) /\ Cardinality(S) \in Nat
             /\ Cardinality(S) <= Cardinality(clientList)
  BY <1>1, <1>3, FS_Subset, FS_CardinalityType
<1> QED
  BY <1>1, <1>2, <1>3

(***************************************************************************)
(* disconnectClient: what is left of the lists fits together as before.    *)
(***************************************************************************)
LEMMA DisconnectKeepsLists ==
  ASSUME ListInv, NEW D \in SUBSET clientList, Disconnect(D), UNCHANGED backlog
  PROVE  /\ stage' \in [Peers -> {"away", "waiting", "accepted", "done"}]
         /\ owner' \in [Sockets -> Peers \cup {None}]
         /\ clientList' = clientList \ D
         /\ socketOf' \in [Addresses -> Sockets \cup {None}]
         /\ sessions' \in [Addresses -> Peers \cup {None}]
         /\ SessionsMatch' /\ OneClientPerSocket' /\ PeersApart'
         /\ \A a \in clientList' : socketOf'[a] = socketOf[a] /\ PeerOf(a)' = PeerOf(a)
<1> USE ServerAssumption
<1>1. /\ stage \in [Peers -> {"away", "waiting", "accepted", "done"}]
      /\ owner \in [Sockets -> Peers \cup {None}]
      /\ clientList \subseteq Addresses
      /\ socketOf \in [Addresses -> Sockets \cup {None}]
      /\ sessions \in [Addresses -> Peers \cup {None}]
      /\ backlog \in Seq(Peers)
  BY DEF ListInv, TypeOK
<1>2. /\ sessions' = [a \in Addresses |-> IF a \in D THEN None ELSE sessions[a]]
      /\ clientList' = clientList \ D
      /\ socketOf' = [a \in Addresses |-> IF a \in D THEN None ELSE socketOf[a]]
      /\ owner' = [s \in Sockets |->
                     IF \E a \in D : socketOf[a] = s THEN None ELSE owner[s]]
      /\ stage' = [p \in Peers |->
                     IF \E a \in D : PeerOf(a) = p THEN "done" ELSE stage[p]]
  BY DEF Disconnect
<1>3. /\ stage' \in [Peers -> {"away", "waiting", "accepted", "done"}]
      /\ owner' \in [Sockets -> Peers \cup {None}]
      /\ socketOf' \in [Addresses -> Sockets \cup {None}]
      /\ sessions' \in [Addresses -> Peers \cup {None}]
  BY <1>1, <1>2
<1>4. \A a \in clientList : socketOf[a] \in Sockets /\ PeerOf(a) \in Peers
  BY <1>1 DEF ListInv, SessionsMatch, PeerOf
<1>5. ASSUME NEW a \in clientList'
      PROVE  /\ socketOf'[a] = socketOf[a] /\ socketOf[a] \in Sockets
             /\ owner'[socketOf[a]] = owner[socketOf[a]]
             /\ sessions'[a] = sessions[a]
  <2>1. a \in clientList /\ a \in Addresses /\ a \notin D
    BY <1>1, <1>2, <1>5
  <2>2. \A b \in D : socketOf[b] # socketOf[a]
    BY <2>1 DEF ListInv, OneClientPerSocket
  <2> QED
    BY <1>2, <1>4, <2>1, <2>2
<1>6. \A a \in clientList' : socketOf'[a] = socketOf[a] /\ PeerOf(a)' = PeerOf(a)
  BY <1>5 DEF PeerOf
<1>7. SessionsMatch'
  <2>1. \A a \in clientList' :
          socketOf'[a] # None /\ PeerOf(a)' # None /\ sessions'[a] = PeerOf(a)'
    <3> SUFFICES ASSUME NEW a \in clientList'
        PROVE  socketOf'[a] # None /\ PeerOf(a)' # None /\ sessions'[a] = PeerOf(a)'
      OBVIOUS
    <3>1. a \in clientList
      BY <1>2
    <3>2. socketOf[a] # None /\ PeerOf(a) # None /\ sessions[a] = PeerOf(a)
      BY <3>1 DEF ListInv, SessionsMatch
    <3> QED
      BY <1>5, <1>6, <3>2
  <2>2. \A a \in Addresses \ clientList' : sessions'[a] = None
    BY <1>2 DEF ListInv, SessionsMatch
  <2> QED
    BY <2>1, <2>2 DEF SessionsMatch
<1>8. OneClientPerSocket'
  <2>1. \A a, b \in clientList' : socketOf'[a] = socketOf'[b] => a = b
    BY <1>1, <1>2, <1>5 DEF ListInv, OneClientPerSocket
  <2>2. ASSUME NEW s \in Sockets, owner'[s] # None
        PROVE  \E a \in clientList' : socketOf'[a] = s
    <3>1. owner[s] # None /\ ~\E a \in D : socketOf[a] = s
      BY <1>2, <2>2
    <3>2. PICK a \in clientList : socketOf[a] = s
      BY <3>1 DEF ListInv, OneClientPerSocket
    <3>3. a \in clientList'
      BY <1>2, <3>1, <3>2
    <3> QED
      BY <1>5, <3>2, <3>3
  <2> QED
    BY <2>1, <2>2 DEF OneClientPerSocket
<1>9. PeersApart'
  <2>1. ASSUME NEW i \in 1..Len(backlog) PROVE stage'[backlog[i]] = "waiting"
    <3>1. backlog[i] \in Peers /\ stage[backlog[i]] = "waiting"
      BY <1>1 DEF ListInv, PeersApart
    <3>2. \A a \in D : PeerOf(a) # backlog[i]
      BY <1>4, <3>1 DEF ListInv, PeersApart, PeerOf
    <3> QED
      BY <1>2, <3>1, <3>2
  <2>2. ASSUME NEW s \in Sockets, owner'[s] # None
        PROVE  owner'[s] = owner[s] /\ stage'[owner'[s]] = "accepted"
    <3>1. owner'[s] = owner[s] /\ owner[s] # None /\ ~\E a \in D : socketOf[a] = s
      BY <1>2, <2>2
    <3>2. \A a \in D : PeerOf(a) # owner[s]
      BY <1>4, <3>1 DEF ListInv, PeersApart, PeerOf
    <3>3. owner[s] \in Peers /\ stage[owner[s]] = "accepted"
      BY <1>1, <3>1 DEF ListInv, PeersApart
    <3> QED
      BY <1>2, <3>1, <3>2, <3>3
  <2>3. \A s, t \in Sockets : owner'[s] # None /\ owner'[s] = owner'[t] => s = t
    BY <2>2 DEF ListInv, PeersApart
  <2> QED
    BY <2>1, <2>2, <2>3 DEF ListInv, PeersApart
<1> QED
  BY <1>2, <1>3, <1>6, <1>7, <1>8, <1>9

(***************************************************************************)
(* The steps of the peers.                                                 *)
(***************************************************************************)

\* Input does not go away by what peers do.
LEMMA ConnectKeeps ==
  ASSUME ServerInv, NEW p \in Peers, Connect(p)
  PROVE  ServerInv'
<1> USE ServerAssumption DEF Connect, clientVars
<1>1. /\ TypeOK /\ SessionsMatch /\ OneClientPerSocket /\ PeersApart
      /\ LeavingVisited /\ PolledAreClients /\ RoomForNext /\ WithinFdSet
      /\ ResultsHold
  BY DEF ServerInv, ListInv
<1>2. backlog \in Seq(Peers) /\ backlog' = Append(backlog, p)
  BY <1>1 DEF TypeOK
<1>3. backlog' \in Seq(Peers) /\ backlog' # <<>>
  BY <1>2
<1>4. TypeOK'
  BY <1>1, <1>3 DEF TypeOK
<1>5. SessionsMatch' /\ OneClientPerSocket'
  BY <1>1 DEF SessionsMatch, OneClientPerSocket, PeerOf
<1>6. PeersApart'
  <2>1. PICK N \in Nat : N = Len(backlog)
    BY <1>2
  <2>2. /\ Len(backlog') = N + 1 /\ backlog'[N + 1] = p
        /\ \A i \in 1..N : backlog'[i] = backlog[i] /\ backlog[i] \in Peers
    BY <1>2, <2>1
  <2>3. stage[p] = "away" /\ stage'[p] = "waiting"
    BY <1>1 DEF TypeOK
  <2>4. \A q \in Peers : q # p => stage'[q] = stage[q]
    BY <1>1 DEF TypeOK
  <2>5. \A i \in 1..N : stage[backlog[i]] = "waiting" /\ backlog[i] # p
    BY <1>1, <2>1, <2>3 DEF PeersApart
  <2>6. \A i \in 1..(N + 1) : stage'[backlog'[i]] = "waiting"
    BY <2>2, <2>3, <2>4, <2>5
  <2>7. \A i, j \in 1..(N + 1) : backlog'[i] = backlog'[j] => i = j
    BY <1>1, <2>1, <2>2, <2>5 DEF PeersApart
  <2>8. \A s \in Sockets : owner[s] # None =>
          owner[s] \in Peers /\ stage[owner[s]] = "accepted" /\ owner[s] # p
    BY <1>1, <2>3 DEF TypeOK, PeersApart
  <2>9. \A s \in Sockets : owner'[s] # None => stage'[owner'[s]] = "accepted"
    BY <2>4, <2>8
  <2>10. \A s, t \in Sockets : owner'[s] # None /\ owner'[s] = owner'[t] => s = t
    BY <1>1 DEF PeersApart
  <2> QED
    BY <2>2, <2>6, <2>7, <2>9, <2>10 DEF PeersApart
<1>7. LeavingVisited' /\ RoomForNext' /\ WithinFdSet'
  BY <1>1 DEF LeavingVisited, RoomForNext, WithinFdSet
<1>8. PolledAreClients'
  BY <1>1 DEF PolledAreClients
<1>9. ResultsHold'
  BY <1>1, <1>3 DEF ResultsHold, Readable, Polls, HasInput, PeerOf
<1> QED
  BY <1>4, <1>5, <1>6, <1>7, <1>8, <1>9 DEF ServerInv, ListInv

\* Sending and leaving change nothing but the peer's own input, and only add
\* to it.
LEMMA InputKeeps ==
  ASSUME ServerInv,
         link' \in [Peers -> {"open", "closed", "reset"}],
         unread' \in [Peers -> 0..MaxUnread],
         \A p \in Peers : HasInput(p) => HasInput(p)',
         UNCHANGED <<stage, backlog, owner, pc, clientVars, fds, todo, leaving>>
  PROVE  ServerInv'
<1> USE DEF clientVars
<1>1. /\ TypeOK /\ SessionsMatch /\ OneClientPerSocket /\ PeersApart
      /\ LeavingVisited /\ PolledAreClients /\ RoomForNext /\ WithinFdSet
      /\ ResultsHold
  BY DEF ServerInv, ListInv
<1>2. TypeOK'
  BY <1>1 DEF TypeOK
<1>3. SessionsMatch' /\ OneClientPerSocket' /\ PeersApart'
  BY <1>1 DEF SessionsMatch, OneClientPerSocket, PeersApart, PeerOf
<1>4. LeavingVisited' /\ RoomForNext' /\ WithinFdSet'
  BY <1>1 DEF LeavingVisited, RoomForNext, WithinFdSet
<1>5. PolledAreClients'
  BY <1>1 DEF PolledAreClients
<1>6. ResultsHold'
  <2>1. ASSUME pc = "accept", NEW s \in fds PROVE Readable(s)'
    <3>1. Readable(s)
      BY <1>1, <2>1 DEF ResultsHold
    <3>2. CASE s = Listener
      BY <3>1, <3>2 DEF Readable
    <3>3. CASE s # Listener
      <4>1. PICK a \in clientList : socketOf[a] = s
        BY <1>1, <2>1, <3>3 DEF PolledAreClients
      <4>2. s \in Sockets /\ owner[s] \in Peers
        BY <1>1, <4>1 DEF TypeOK, SessionsMatch, PeerOf
      <4>3. HasInput(owner[s])
        BY <3>1, <3>3 DEF Readable
      <4>4. HasInput(owner[s])' /\ owner'[s] = owner[s]
        BY <4>2, <4>3 DEF HasInput
      <4> QED
        BY <3>3, <4>4 DEF Readable, HasInput
    <3> QED
      BY <3>2, <3>3
  <2>2. ASSUME pc = "handle", NEW a \in todo, Polls(a)
        PROVE  HasInput(PeerOf(a))'
    <3>1. HasInput(PeerOf(a))
      BY <1>1, <2>2 DEF ResultsHold
    <3>2. PeerOf(a) \in Peers
      BY <1>1, <2>2 DEF TypeOK, SessionsMatch, PeerOf
    <3> QED
      BY <3>1, <3>2 DEF HasInput, PeerOf
  <2> QED
    BY <2>1, <2>2 DEF ResultsHold, Polls
<1> QED
  BY <1>2, <1>3, <1>4, <1>5, <1>6 DEF ServerInv, ListInv

LEMMA PeerKeeps == ServerInv /\ PeerStep => ServerInv'
<1> SUFFICES ASSUME ServerInv, PeerStep PROVE ServerInv'
  OBVIOUS
<1> USE ServerAssumption
<1>1. TypeOK
  BY DEF ServerInv, ListInv
<1>2. PICK p \in Peers : Connect(p) \/ Send(p) \/ \E how \in Endings : Leave(p, how)
  BY DEF PeerStep
<1>3. CASE Connect(p)
  BY <1>3, ConnectKeeps
<1>4. CASE Send(p)
  <2>1. unread[p] \in 0..MaxUnread /\ unread' = [unread EXCEPT ![p] = unread[p] + 1]
    BY <1>1, <1>4 DEF TypeOK, Send
  <2>2. unread' \in [Peers -> 0..MaxUnread]
    BY <1>1, <1>4, <2>1 DEF TypeOK, Send
  <2>3. link' = link /\ link' \in [Peers -> {"open", "closed", "reset"}]
    BY <1>1, <1>4 DEF TypeOK, Send
  <2>4. \A q \in Peers : HasInput(q) => HasInput(q)'
    BY <1>1, <2>1, <2>3 DEF TypeOK, HasInput
  <2>5. UNCHANGED <<stage, backlog, owner, pc, clientVars, fds, todo, leaving>>
    BY <1>4 DEF Send
  <2> QED
    BY <2>2, <2>3, <2>4, <2>5, InputKeeps
<1>5. ASSUME NEW how \in Endings, Leave(p, how) PROVE ServerInv'
  <2>1. link' = [link EXCEPT ![p] = how] /\ unread' = unread
    BY <1>5 DEF Leave
  <2>2. how \in {"closed", "reset"}
    BY <1>5
  <2>3. /\ link' \in [Peers -> {"open", "closed", "reset"}]
        /\ unread' \in [Peers -> 0..MaxUnread]
    BY <1>1, <2>1, <2>2 DEF TypeOK
  <2>4. \A q \in Peers : HasInput(q) => HasInput(q)'
    BY <1>1, <2>1, <2>2 DEF TypeOK, HasInput
  <2>5. UNCHANGED <<stage, backlog, owner, pc, clientVars, fds, todo, leaving>>
    BY <1>5 DEF Leave
  <2> QED
    BY <2>3, <2>4, <2>5, InputKeeps
<1> QED
  BY <1>2, <1>3, <1>4, <1>5

(***************************************************************************)
(* The two places that delete clients.                                     *)
(***************************************************************************)

LEMMA PrepareKeeps == ServerInv /\ Prepare => ServerInv'
<1> SUFFICES ASSUME ServerInv, Prepare PROVE ServerInv'
  OBVIOUS
<1> USE ServerAssumption
<1>1. /\ ListInv /\ TypeOK /\ SessionsMatch /\ OneClientPerSocket /\ PeersApart
      /\ LeavingVisited /\ WithinFdSet
  BY DEF ServerInv, ListInv
<1>2. /\ pc = "prepare" /\ pc' = "select" /\ fds' = Polled
      /\ Disconnect(clientList \ Active)
      /\ UNCHANGED <<link, unread, backlog, activeFlag, todo, leaving>>
  BY DEF Prepare
<1>3. todo = {} /\ leaving = {}
  BY <1>1, <1>2 DEF LeavingVisited
<1> DEFINE D == clientList \ Active
<1>4. D \in SUBSET clientList
  OBVIOUS
<1>5. /\ stage' \in [Peers -> {"away", "waiting", "accepted", "done"}]
      /\ owner' \in [Sockets -> Peers \cup {None}]
      /\ clientList' = clientList \ D
      /\ socketOf' \in [Addresses -> Sockets \cup {None}]
      /\ sessions' \in [Addresses -> Peers \cup {None}]
      /\ SessionsMatch' /\ OneClientPerSocket' /\ PeersApart'
      /\ \A a \in clientList' : socketOf'[a] = socketOf[a]
  BY <1>1, <1>2, <1>4, DisconnectKeepsLists
<1>6. clientList' = Active /\ Active \subseteq clientList
  BY <1>5 DEF Active
<1>7. \A a \in Active : socketOf[a] \in Sockets /\ activeFlag[a]
  BY <1>1 DEF Active, TypeOK, SessionsMatch
<1>8. fds' \subseteq {socketOf[a] : a \in Active} \cup {Listener}
  BY <1>2 DEF Polled
<1>9. TypeOK'
  <2>1. fds' \subseteq Sockets \cup {Listener}
    BY <1>7, <1>8
  <2>2. clientList' \subseteq Addresses
    BY <1>1, <1>6 DEF TypeOK
  <2> QED
    BY <1>1, <1>2, <1>3, <1>5, <2>1, <2>2 DEF TypeOK
<1>10. LeavingVisited' /\ ResultsHold'
  BY <1>2, <1>3 DEF LeavingVisited, ResultsHold
<1>11. PolledAreClients'
  <2> SUFFICES ASSUME NEW s \in fds' \ {Listener}
               PROVE  \E a \in clientList' : socketOf'[a] = s /\ activeFlag'[a]
    BY DEF PolledAreClients
  <2>1. PICK a \in Active : socketOf[a] = s
    BY <1>8
  <2> QED
    BY <1>2, <1>5, <1>6, <1>7, <2>1
<1>12. RoomForNext'
  <2>1. ASSUME Listener \in fds' PROVE Cardinality(Active) < FdSetSize
    BY <1>2, <1>7, <2>1 DEF Polled
  <2> QED
    BY <1>6, <2>1 DEF RoomForNext
<1>13. WithinFdSet'
  <2>1. /\ Cardinality(Active) <= Cardinality(clientList)
        /\ Cardinality(Active) \in Nat /\ Cardinality(clientList) \in Nat
    BY <1>1, <1>6, ListFinite
  <2> QED
    BY <1>1, <1>6, <2>1 DEF WithinFdSet
<1> QED
  BY <1>5, <1>9, <1>10, <1>11, <1>12, <1>13 DEF ServerInv, ListInv

LEMMA FinishRoundKeeps == ServerInv /\ FinishRound => ServerInv'
<1> SUFFICES ASSUME ServerInv, FinishRound PROVE ServerInv'
  OBVIOUS
<1> USE ServerAssumption
<1>1. ListInv /\ TypeOK /\ LeavingVisited /\ WithinFdSet
  BY DEF ServerInv, ListInv
<1>2. /\ pc = "handle" /\ todo = {} /\ pc' = "prepare" /\ leaving' = {}
      /\ Disconnect(leaving)
      /\ UNCHANGED <<link, unread, backlog, activeFlag, fds, todo>>
  BY DEF FinishRound
<1>3. leaving \in SUBSET clientList
  BY <1>1 DEF TypeOK
<1>4. /\ stage' \in [Peers -> {"away", "waiting", "accepted", "done"}]
      /\ owner' \in [Sockets -> Peers \cup {None}]
      /\ clientList' = clientList \ leaving
      /\ socketOf' \in [Addresses -> Sockets \cup {None}]
      /\ sessions' \in [Addresses -> Peers \cup {None}]
      /\ SessionsMatch' /\ OneClientPerSocket' /\ PeersApart'
  BY <1>1, <1>2, <1>3, DisconnectKeepsLists
<1>5. TypeOK'
  BY <1>1, <1>2, <1>4 DEF TypeOK
<1>6. LeavingVisited' /\ PolledAreClients' /\ RoomForNext' /\ ResultsHold'
  BY <1>2 DEF LeavingVisited, PolledAreClients, RoomForNext, ResultsHold
<1>7. WithinFdSet'
  <2>1. clientList' \in SUBSET clientList
    BY <1>4
  <2>2. /\ Cardinality(clientList') <= Cardinality(clientList)
        /\ Cardinality(clientList') \in Nat /\ Cardinality(clientList) \in Nat
    BY <1>1, <2>1, ListFinite
  <2> QED
    BY <1>1, <2>2 DEF WithinFdSet
<1> QED
  BY <1>4, <1>5, <1>6, <1>7 DEF ServerInv, ListInv

(***************************************************************************)
(* The steps that look at the set of sockets.                              *)
(***************************************************************************)
LEMMA StartupKeeps == ServerInv /\ Startup => ServerInv'
<1> SUFFICES ASSUME ServerInv, Startup PROVE ServerInv'
  OBVIOUS
<1> USE DEF Startup, osVars, clientVars
<1>1. /\ TypeOK /\ SessionsMatch /\ OneClientPerSocket /\ PeersApart
      /\ LeavingVisited /\ WithinFdSet
  BY DEF ServerInv, ListInv
<1>2. TypeOK'
  BY <1>1 DEF TypeOK
<1>3. SessionsMatch' /\ OneClientPerSocket' /\ PeersApart'
  BY <1>1 DEF SessionsMatch, OneClientPerSocket, PeersApart, PeerOf
<1>4. LeavingVisited' /\ WithinFdSet'
  BY <1>1 DEF LeavingVisited, WithinFdSet
<1>5. PolledAreClients' /\ RoomForNext' /\ ResultsHold'
  BY DEF PolledAreClients, RoomForNext, ResultsHold
<1> QED
  BY <1>2, <1>3, <1>4, <1>5 DEF ServerInv, ListInv

LEMMA SelectKeeps == ServerInv /\ Select => ServerInv'
<1> SUFFICES ASSUME ServerInv, Select PROVE ServerInv'
  OBVIOUS
<1> USE DEF Select, osVars, clientVars
<1>1. /\ TypeOK /\ SessionsMatch /\ OneClientPerSocket /\ PeersApart
      /\ LeavingVisited /\ WithinFdSet /\ PolledAreClients /\ RoomForNext
  BY DEF ServerInv, ListInv
<1>2. TypeOK'
  BY <1>1 DEF TypeOK
<1>3. SessionsMatch' /\ OneClientPerSocket' /\ PeersApart'
  BY <1>1 DEF SessionsMatch, OneClientPerSocket, PeersApart, PeerOf
<1>4. LeavingVisited' /\ WithinFdSet' /\ RoomForNext'
  BY <1>1 DEF LeavingVisited, WithinFdSet, RoomForNext
<1>5. PolledAreClients'
  BY <1>1 DEF PolledAreClients
<1>6. ResultsHold'
  BY DEF ResultsHold, Readable, HasInput
<1> QED
  BY <1>2, <1>3, <1>4, <1>5, <1>6 DEF ServerInv, ListInv

LEMMA NobodyWaitsKeeps == ServerInv /\ NobodyWaits => ServerInv'
<1> SUFFICES ASSUME ServerInv, NobodyWaits PROVE ServerInv'
  OBVIOUS
<1> USE ServerAssumption DEF NobodyWaits, StartHandling, osVars, clientVars
<1>1. /\ TypeOK /\ SessionsMatch /\ OneClientPerSocket /\ PeersApart
      /\ LeavingVisited /\ WithinFdSet /\ PolledAreClients /\ ResultsHold
  BY DEF ServerInv, ListInv
<1>2. TypeOK'
  BY <1>1 DEF TypeOK
<1>3. SessionsMatch' /\ OneClientPerSocket' /\ PeersApart'
  BY <1>1 DEF SessionsMatch, OneClientPerSocket, PeersApart, PeerOf
<1>4. LeavingVisited' /\ WithinFdSet' /\ RoomForNext'
  BY <1>1 DEF LeavingVisited, WithinFdSet, RoomForNext
<1>5. PolledAreClients'
  BY <1>1 DEF PolledAreClients
<1>6. ResultsHold'
  <2>1. ASSUME NEW a \in clientList, socketOf[a] \in fds
        PROVE  HasInput(PeerOf(a))
    BY <1>1, <2>1 DEF ResultsHold, Readable, PeerOf, SessionsMatch, TypeOK
  <2> QED
    BY <2>1 DEF ResultsHold, Polls, HasInput, PeerOf
<1> QED
  BY <1>2, <1>3, <1>4, <1>5, <1>6 DEF ServerInv, ListInv

\* What is left of the backlog after accept.
LEMMA BacklogTail ==
  ASSUME TypeOK, PeersApart, backlog # <<>>, backlog' = Tail(backlog)
  PROVE  /\ Head(backlog) \in Peers /\ stage[Head(backlog)] = "waiting"
         /\ backlog' \in Seq(Peers)
         /\ \A i \in 1..Len(backlog') :
              /\ backlog'[i] \in Peers /\ backlog'[i] # Head(backlog)
              /\ stage[backlog'[i]] = "waiting"
         /\ \A i, j \in 1..Len(backlog') : backlog'[i] = backlog'[j] => i = j
<1>1. backlog \in Seq(Peers)
  BY DEF TypeOK
<1>2. PICK N \in Nat : Len(backlog) = N + 1
  BY <1>1
<1>3. \A i \in 1..(N + 1) : backlog[i] \in Peers /\ stage[backlog[i]] = "waiting"
  BY <1>1, <1>2 DEF PeersApart
<1>4. \A i, j \in 1..(N + 1) : backlog[i] = backlog[j] => i = j
  BY <1>2 DEF PeersApart
<1>5. Head(backlog) = backlog[1]
  BY <1>1
<1>6. /\ backlog' \in Seq(Peers) /\ Len(backlog') = N
      /\ \A i \in 1..N : backlog'[i] = backlog[i + 1]
  BY <1>1, <1>2
<1>7. ASSUME NEW i \in 1..N
      PROVE  /\ backlog'[i] \in Peers /\ backlog'[i] # Head(backlog)
             /\ stage[backlog'[i]] = "waiting"
  <2>1. i + 1 \in 1..(N + 1) /\ 1 \in 1..(N + 1) /\ i + 1 # 1
    OBVIOUS
  <2> QED
    BY <1>3, <1>4, <1>5, <1>6, <2>1
<1>8. ASSUME NEW i \in 1..N, NEW j \in 1..N, backlog'[i] = backlog'[j]
      PROVE  i = j
  <2>1. i + 1 \in 1..(N + 1) /\ j + 1 \in 1..(N + 1)
    OBVIOUS
  <2>2. i + 1 = j + 1
    BY <1>4, <1>6, <1>8, <2>1
  <2> QED
    BY <2>2
<1> QED
  BY <1>2, <1>3, <1>5, <1>6, <1>7, <1>8

LEMMA AcceptKeeps ==
  ASSUME ServerInv, NEW a \in Addresses, NEW s \in Sockets, Accept(a, s)
  PROVE  ServerInv'
<1> USE ServerAssumption
<1>1. /\ TypeOK /\ SessionsMatch /\ OneClientPerSocket /\ PeersApart
      /\ LeavingVisited /\ WithinFdSet /\ PolledAreClients /\ RoomForNext
      /\ ResultsHold
  BY DEF ServerInv, ListInv
<1> DEFINE p == Head(backlog)
<1>2. /\ pc = "accept" /\ Listener \in fds /\ backlog # <<>>
      /\ a \notin clientList /\ owner[s] = None
      /\ owner' = [owner EXCEPT ![s] = p]
      /\ stage' = [stage EXCEPT ![p] = "accepted"]
      /\ sessions' = [sessions EXCEPT ![a] = IF sessions[a] = None THEN p ELSE sessions[a]]
      /\ backlog' = Tail(backlog)
      /\ clientList' = clientList \cup {a}
      /\ socketOf' = [socketOf EXCEPT ![a] = s]
      /\ activeFlag' = [activeFlag EXCEPT ![a] = TRUE]
      /\ pc' = "handle" /\ todo' = clientList \cup {a}
      /\ UNCHANGED <<link, unread, fds, leaving>>
  BY DEF Accept, StartHandling
<1>3. /\ p \in Peers /\ stage[p] = "waiting" /\ backlog' \in Seq(Peers)
      /\ \A i \in 1..Len(backlog') :
           backlog'[i] \in Peers /\ backlog'[i] # p /\ stage[backlog'[i]] = "waiting"
      /\ \A i, j \in 1..Len(backlog') : backlog'[i] = backlog'[j] => i = j
  BY <1>1, <1>2, BacklogTail
<1> HIDE DEF p
<1>4. sessions[a] = None /\ p # None
  BY <1>1, <1>2, <1>3 DEF SessionsMatch
<1>5. \A b \in clientList : /\ b # a /\ b \in Addresses
                            /\ socketOf[b] \in Sockets /\ socketOf[b] # s
                            /\ PeerOf(b) \in Peers
  BY <1>1, <1>2 DEF TypeOK, SessionsMatch, PeerOf
<1>6. /\ owner' \in [Sockets -> Peers \cup {None}]
      /\ owner'[s] = p /\ \A t \in Sockets : t # s => owner'[t] = owner[t]
  BY <1>1, <1>2, <1>3 DEF TypeOK
<1>7. /\ socketOf' \in [Addresses -> Sockets \cup {None}]
      /\ socketOf'[a] = s
      /\ \A b \in clientList : socketOf'[b] = socketOf[b]
  BY <1>1, <1>2, <1>5 DEF TypeOK
<1>8. /\ sessions' \in [Addresses -> Peers \cup {None}]
      /\ sessions'[a] = p /\ \A b \in Addresses : b # a => sessions'[b] = sessions[b]
  BY <1>1, <1>2, <1>3, <1>4 DEF TypeOK
<1>9. /\ activeFlag' \in [Addresses -> BOOLEAN]
      /\ activeFlag'[a] /\ \A b \in Addresses : b # a => activeFlag'[b] = activeFlag[b]
  BY <1>1, <1>2 DEF TypeOK
<1>10. /\ stage' \in [Peers -> {"away", "waiting", "accepted", "done"}]
       /\ stage'[p] = "accepted" /\ \A q \in Peers : q # p => stage'[q] = stage[q]
  BY <1>1, <1>2, <1>3 DEF TypeOK
<1>11. leaving = {}
  BY <1>1, <1>2 DEF LeavingVisited
<1>12. TypeOK'
  BY <1>1, <1>2, <1>3, <1>6, <1>7, <1>8, <1>9, <1>10, <1>11 DEF TypeOK
<1>13. /\ PeerOf(a)' = p
       /\ \A b \in clientList : PeerOf(b)' = PeerOf(b)
  BY <1>5, <1>6, <1>7 DEF PeerOf
<1>14. SessionsMatch'
  <2>1. ASSUME NEW b \in clientList'
        PROVE  socketOf'[b] # None /\ PeerOf(b)' # None /\ sessions'[b] = PeerOf(b)'
    <3>1. CASE b = a
      BY <1>4, <1>7, <1>8, <1>13, <3>1
    <3>2. CASE b \in clientList
      BY <1>1, <1>5, <1>7, <1>8, <1>13, <3>2 DEF SessionsMatch
    <3> QED
      BY <1>2, <3>1, <3>2
  <2>2. \A b \in Addresses \ clientList' : sessions'[b] = None
    BY <1>1, <1>2, <1>8 DEF SessionsMatch
  <2> QED
    BY <2>1, <2>2 DEF SessionsMatch
<1>15. OneClientPerSocket'
  <2>1. \A b, c \in clientList' : socketOf'[b] = socketOf'[c] => b = c
    BY <1>1, <1>2, <1>5, <1>7 DEF OneClientPerSocket
  <2>2. ASSUME NEW t \in Sockets, owner'[t] # None
        PROVE  \E b \in clientList' : socketOf'[b] = t
    <3>1. CASE t = s
      BY <1>2, <1>7, <3>1
    <3>2. CASE t # s
      <4>1. PICK b \in clientList : socketOf[b] = t
        BY <1>1, <1>6, <2>2, <3>2 DEF OneClientPerSocket
      <4> QED
        BY <1>2, <1>7, <4>1
    <3> QED
      BY <3>1, <3>2
  <2> QED
    BY <2>1, <2>2 DEF OneClientPerSocket
<1>16. PeersApart'
  <2>1. \A i \in 1..Len(backlog') : stage'[backlog'[i]] = "waiting"
    BY <1>3, <1>10
  <2>2. \A t \in Sockets : owner[t] # None =>
          owner[t] \in Peers /\ stage[owner[t]] = "accepted" /\ owner[t] # p
    BY <1>1, <1>3 DEF TypeOK, PeersApart
  <2>3. \A t \in Sockets : owner'[t] # None => stage'[owner'[t]] = "accepted"
    BY <1>6, <1>10, <2>2
  <2>4. \A t, u \in Sockets : owner'[t] # None /\ owner'[t] = owner'[u] => t = u
    BY <1>1, <1>4, <1>6, <2>2 DEF PeersApart
  <2> QED
    BY <1>3, <2>1, <2>3, <2>4 DEF PeersApart
<1>17. LeavingVisited' /\ RoomForNext'
  BY <1>2, <1>11 DEF LeavingVisited, RoomForNext
<1>18. PolledAreClients'
  <2> SUFFICES ASSUME NEW t \in fds \ {Listener}
               PROVE  \E b \in clientList' : socketOf'[b] = t /\ activeFlag'[b]
    BY <1>2 DEF PolledAreClients
  <2>1. PICK b \in clientList : socketOf[b] = t /\ activeFlag[b]
    BY <1>1, <1>2 DEF PolledAreClients
  <2>2. b \in clientList' /\ socketOf'[b] = t /\ activeFlag'[b]
    BY <1>2, <1>5, <1>7, <1>9, <2>1
  <2> QED
    BY <2>2
<1>19. WithinFdSet'
  <2>1. IsFiniteSet(clientList) /\ Cardinality(clientList) \in Nat
    BY <1>1, ListFinite
  <2>2. Cardinality(clientList') = Cardinality(clientList) + 1
    BY <1>2, <2>1, FS_AddElement
  <2>3. Cardinality(clientList) < FdSetSize
    BY <1>1, <1>2 DEF RoomForNext
  <2> QED
    BY <2>1, <2>2, <2>3 DEF WithinFdSet
<1>20. ResultsHold'
  <2>1. s \notin fds
    <3>1. ASSUME s \in fds PROVE FALSE
      <4>1. PICK b \in clientList : socketOf[b] = s
        BY <1>1, <1>2, <3>1 DEF PolledAreClients
      <4> QED
        BY <1>5, <4>1
    <3> QED
      BY <3>1
  <2>2. ASSUME NEW b \in clientList', socketOf'[b] \in fds
        PROVE  HasInput(PeerOf(b))'
    <3>1. b \in clientList
      BY <1>2, <1>7, <2>1, <2>2
    <3>2. socketOf[b] \in fds /\ socketOf[b] \in Sockets
      BY <1>5, <1>7, <2>2, <3>1
    <3>3. HasInput(PeerOf(b))
      BY <1>1, <1>2, <3>2 DEF ResultsHold, Readable, PeerOf
    <3> QED
      BY <1>2, <1>13, <3>1, <3>3 DEF HasInput
  <2> QED
    BY <1>2, <2>2 DEF ResultsHold, Polls
<1> QED
  BY <1>12, <1>14, <1>15, <1>16, <1>17, <1>18, <1>19, <1>20
  DEF ServerInv, ListInv

LEMMA AcceptAbortedKeeps == ServerInv /\ AcceptAborted => ServerInv'
<1> SUFFICES ASSUME ServerInv, AcceptAborted PROVE ServerInv'
  OBVIOUS
<1> USE ServerAssumption
<1>1. /\ TypeOK /\ SessionsMatch /\ OneClientPerSocket /\ PeersApart
      /\ LeavingVisited /\ WithinFdSet /\ PolledAreClients /\ ResultsHold
  BY DEF ServerInv, ListInv
<1> DEFINE p == Head(backlog)
<1>2. /\ pc = "accept" /\ backlog # <<>>
      /\ stage' = [stage EXCEPT ![p] = "done"]
      /\ backlog' = Tail(backlog)
      /\ pc' = "handle" /\ todo' = clientList
      /\ UNCHANGED <<link, unread, owner, clientList, socketOf, activeFlag,
                     sessions, fds, leaving>>
  BY DEF AcceptAborted, StartHandling, clientVars
<1>3. /\ p \in Peers /\ stage[p] = "waiting" /\ backlog' \in Seq(Peers)
      /\ \A i \in 1..Len(backlog') :
           backlog'[i] \in Peers /\ backlog'[i] # p /\ stage[backlog'[i]] = "waiting"
      /\ \A i, j \in 1..Len(backlog') : backlog'[i] = backlog'[j] => i = j
  BY <1>1, <1>2, BacklogTail
<1> HIDE DEF p
<1>4. /\ stage' \in [Peers -> {"away", "waiting", "accepted", "done"}]
      /\ \A q \in Peers : q # p => stage'[q] = stage[q]
  BY <1>1, <1>2, <1>3 DEF TypeOK
<1>5. leaving = {}
  BY <1>1, <1>2 DEF LeavingVisited
<1>6. TypeOK'
  BY <1>1, <1>2, <1>3, <1>4, <1>5 DEF TypeOK
<1>7. SessionsMatch' /\ OneClientPerSocket'
  BY <1>1, <1>2 DEF SessionsMatch, OneClientPerSocket, PeerOf
<1>8. PeersApart'
  <2>1. \A t \in Sockets : owner[t] # None =>
          owner[t] \in Peers /\ stage[owner[t]] = "accepted" /\ owner[t] # p
    BY <1>1, <1>3 DEF TypeOK, PeersApart
  <2> QED
    BY <1>1, <1>2, <1>3, <1>4, <2>1 DEF PeersApart
<1>9. LeavingVisited' /\ RoomForNext' /\ WithinFdSet'
  BY <1>1, <1>2, <1>5 DEF LeavingVisited, RoomForNext, WithinFdSet
<1>10. PolledAreClients'
  BY <1>1, <1>2 DEF PolledAreClients
<1>11. ResultsHold'
  <2>1. ASSUME NEW b \in clientList, socketOf[b] \in fds
        PROVE  HasInput(PeerOf(b))
    BY <1>1, <1>2, <2>1 DEF ResultsHold, Readable, PeerOf, SessionsMatch, TypeOK
  <2> QED
    BY <1>2, <2>1 DEF ResultsHold, Polls, HasInput, PeerOf
<1> QED
  BY <1>6, <1>7, <1>8, <1>9, <1>10, <1>11 DEF ServerInv, ListInv

(***************************************************************************)
(* The visit of one client.  What it changes: the client's own flag, its   *)
(* peer's input, and the set of clients to delete.                         *)
(***************************************************************************)
LEMMA VisitKeeps ==
  ASSUME ServerInv, NEW a \in Addresses, Visit(a),
         link' = link, leaving' \subseteq leaving \cup {a},
         unread' \in [Peers -> 0..MaxUnread],
         activeFlag' \in [Addresses -> BOOLEAN],
         a \in leaving' => ~activeFlag'[a],
         \A q \in Peers : q # PeerOf(a) => unread'[q] = unread[q],
         \A b \in Addresses : b # a => activeFlag'[b] = activeFlag[b]
  PROVE  ServerInv'
<1> USE ServerAssumption
<1>1. /\ TypeOK /\ SessionsMatch /\ OneClientPerSocket /\ PeersApart
      /\ LeavingVisited /\ WithinFdSet /\ PolledAreClients /\ ResultsHold
  BY DEF ServerInv, ListInv
<1>2. /\ pc = "handle" /\ a \in todo /\ todo' = todo \ {a}
      /\ UNCHANGED <<pc, stage, link, backlog, owner, clientList, socketOf,
                     sessions, fds>>
  BY DEF Visit
<1>3. a \in clientList
  BY <1>1, <1>2 DEF TypeOK
<1>4. TypeOK'
  BY <1>1, <1>2, <1>3 DEF TypeOK
<1>5. SessionsMatch' /\ OneClientPerSocket' /\ PeersApart'
  BY <1>1, <1>2 DEF SessionsMatch, OneClientPerSocket, PeersApart, PeerOf
<1>6. RoomForNext' /\ WithinFdSet'
  BY <1>1, <1>2 DEF RoomForNext, WithinFdSet
<1>7. LeavingVisited'
  <2>1. leaving \subseteq Addresses
    BY <1>1 DEF TypeOK
  <2>2. ASSUME NEW b \in leaving' PROVE ~activeFlag'[b] /\ b \notin todo'
    <3>1. CASE b = a
      BY <1>2, <2>2, <3>1
    <3>2. CASE b # a
      <4>1. b \in leaving /\ b \in Addresses
        BY <2>1, <2>2, <3>2
      <4> QED
        BY <1>1, <1>2, <3>2, <4>1 DEF LeavingVisited
    <3> QED
      BY <3>1, <3>2
  <2> QED
    BY <1>2, <2>2 DEF LeavingVisited
<1>8. PolledAreClients'
  <2> SUFFICES ASSUME NEW s \in fds \ {Listener}
               PROVE  \E b \in clientList :
                        socketOf[b] = s /\ (b \in todo' => activeFlag'[b])
    BY <1>2 DEF PolledAreClients
  <2>1. PICK b \in clientList : socketOf[b] = s /\ (b \in todo => activeFlag[b])
    BY <1>1, <1>2 DEF PolledAreClients
  <2>2. b \in Addresses
    BY <1>1 DEF TypeOK
  <2>3. b \in todo' => activeFlag'[b]
    BY <1>2, <2>1, <2>2
  <2> QED
    BY <2>1, <2>3
<1>9. ResultsHold'
  <2> SUFFICES ASSUME NEW b \in todo', Polls(b)' PROVE HasInput(PeerOf(b))'
    BY <1>2 DEF ResultsHold
  <2>1. b \in todo /\ b # a /\ b \in clientList /\ b \in Addresses
    BY <1>1, <1>2 DEF TypeOK
  <2>2. Polls(b)
    BY <1>2, <2>1 DEF Polls
  <2>3. HasInput(PeerOf(b))
    BY <1>1, <1>2, <2>1, <2>2 DEF ResultsHold
  <2>4. /\ socketOf[a] \in Sockets /\ socketOf[b] \in Sockets
        /\ socketOf[a] # socketOf[b]
        /\ PeerOf(a) # None /\ PeerOf(b) \in Peers
    BY <1>1, <1>3, <2>1 DEF TypeOK, SessionsMatch, OneClientPerSocket, PeerOf
  <2>5. PeerOf(a) # PeerOf(b)
    BY <1>1, <2>4 DEF PeersApart, PeerOf
  <2>6. unread'[PeerOf(b)] = unread[PeerOf(b)] /\ PeerOf(b)' = PeerOf(b)
    BY <1>2, <2>4, <2>5 DEF PeerOf
  <2> QED
    BY <2>3, <2>6 DEF HasInput
<1> QED
  BY <1>4, <1>5, <1>6, <1>7, <1>8, <1>9 DEF ServerInv, ListInv

LEMMA HandleKeeps ==
  ASSUME ServerInv, NEW a \in Addresses, HandleClient(a)
  PROVE  ServerInv'
<1> USE ServerAssumption
<1>1. TypeOK /\ LeavingVisited /\ SessionsMatch
  BY DEF ServerInv, ListInv
<1>2. Visit(a) /\ link' = link
  BY DEF HandleClient, SkipClient, ReadClient, EndClient, Visit
<1>3. a \in clientList /\ a \notin leaving
  BY <1>1, <1>2 DEF TypeOK, LeavingVisited, Visit
<1>4. PeerOf(a) \in Peers
  BY <1>1, <1>3 DEF TypeOK, SessionsMatch, PeerOf
<1>5. CASE SkipClient(a)
  <2>1. unread' = unread /\ activeFlag' = activeFlag /\ leaving' = leaving
    BY <1>5 DEF SkipClient
  <2> QED
    BY <1>1, <1>2, <1>3, <2>1, VisitKeeps DEF TypeOK
<1>6. CASE ReadClient(a)
  <2>1. /\ unread[PeerOf(a)] > 0
        /\ unread' = [unread EXCEPT ![PeerOf(a)] = unread[PeerOf(a)] - 1]
        /\ leaving' = leaving
    BY <1>6 DEF ReadClient
  <2>2. PICK verdict \in BOOLEAN : activeFlag' = [activeFlag EXCEPT ![a] = verdict]
    BY <1>6 DEF ReadClient
  <2>3. /\ unread' \in [Peers -> 0..MaxUnread]
        /\ \A q \in Peers : q # PeerOf(a) => unread'[q] = unread[q]
    BY <1>1, <1>4, <2>1 DEF TypeOK
  <2>4. /\ activeFlag' \in [Addresses -> BOOLEAN]
        /\ \A b \in Addresses : b # a => activeFlag'[b] = activeFlag[b]
    BY <1>1, <2>2 DEF TypeOK
  <2> QED
    BY <1>2, <1>3, <2>1, <2>3, <2>4, VisitKeeps
<1>7. CASE EndClient(a)
  <2>1. /\ unread' = unread /\ leaving' = leaving \cup {a}
        /\ activeFlag' = [activeFlag EXCEPT ![a] = FALSE]
    BY <1>7 DEF EndClient
  <2>2. /\ activeFlag' \in [Addresses -> BOOLEAN] /\ ~activeFlag'[a]
        /\ \A b \in Addresses : b # a => activeFlag'[b] = activeFlag[b]
    BY <1>1, <2>1 DEF TypeOK
  <2>3. unread' \in [Peers -> 0..MaxUnread]
    BY <1>1, <2>1 DEF TypeOK
  <2> QED
    BY <1>2, <2>1, <2>2, <2>3, VisitKeeps
<1> QED
  BY <1>5, <1>6, <1>7 DEF HandleClient

(***************************************************************************)
(* The theorems.                                                           *)
(***************************************************************************)
LEMMA ServerStepKeeps == ServerInv /\ [Next]_vars => ServerInv'
<1> SUFFICES ASSUME ServerInv, [Next]_vars PROVE ServerInv'
  OBVIOUS
<1>1. CASE PeerStep
  BY <1>1, PeerKeeps
<1>2. CASE ServerStep
  BY <1>2, StartupKeeps, PrepareKeeps, SelectKeeps, AcceptKeeps,
     AcceptAbortedKeeps, NobodyWaitsKeeps, HandleKeeps, FinishRoundKeeps
  DEF ServerStep, AcceptStep
<1>3. CASE UNCHANGED vars
  <2>1. UNCHANGED <<stage, link, unread, backlog, owner, pc, clientVars, fds,
                    todo, leaving>>
    BY <1>3 DEF vars, clientVars
  <2>2. TypeOK
    BY DEF ServerInv, ListInv
  <2>3. /\ link' \in [Peers -> {"open", "closed", "reset"}]
        /\ unread' \in [Peers -> 0..MaxUnread]
        /\ \A p \in Peers : HasInput(p) => HasInput(p)'
    BY <2>1, <2>2 DEF TypeOK, HasInput
  <2> QED
    BY <2>1, <2>3, InputKeeps
<1> QED
  BY <1>1, <1>2, <1>3 DEF Next

LEMMA ServerAlways == Spec => []ServerInv
<1>1. Init => ServerInv
  BY ServerInit
<1>2. ServerInv /\ [Next]_vars => ServerInv'
  BY ServerStepKeeps
<1> QED
  BY <1>1, <1>2, PTL DEF Spec

\* NetworkServer's clients, ROSEServer's sessions and the open sockets match
\* one to one at all times, for any number of peers, addresses and sockets:
\* onNewClient and onClientDisconnecting miss no client.
THEOREM ListsMatch == Spec => [](TypeOK /\ SessionsMatch /\ OneClientPerSocket)
<1>1. ServerInv => TypeOK /\ SessionsMatch /\ OneClientPerSocket
  BY DEF ServerInv, ListInv
<1> QED
  BY <1>1, ServerAlways, PTL

\* Each variable keeps its type.
THEOREM ServerTypes == Spec => []TypeOK
  BY ListsMatch, PTL

\* No two clients share a socket.
THEOREM SocketsApart == Spec => []OneClientPerSocket
  BY ListsMatch, PTL

\* The set of sockets never overflows with clients, and it holds only sockets
\* of clients that are in the list.
THEOREM SetHoldsClients == Spec => [](WithinFdSet /\ PolledAreClients)
<1>1. ServerInv => WithinFdSet /\ PolledAreClients
  BY DEF ServerInv
<1> QED
  BY <1>1, ServerAlways, PTL

\* A handle in the set is that of a client in the list.
THEOREM SetIsOfClients == Spec => []PolledAreClients
  BY SetHoldsClients, PTL

\* The loop, whose sockets block, calls accept and recv only when they return
\* at once.
THEOREM LoopNeverBlocks == Spec => []NeverBlocks
<1>1. ServerInv => NeverBlocks
  <2> SUFFICES ASSUME ServerInv PROVE NeverBlocks
    OBVIOUS
  <2>1. ResultsHold
    BY DEF ServerInv
  <2>2. \A a \in todo : pc = "handle" /\ Polls(a) => HasInput(PeerOf(a))
    BY <2>1 DEF ResultsHold
  <2>3. pc = "accept" /\ Listener \in fds => backlog # <<>>
    BY <2>1 DEF ResultsHold, Readable
  <2> QED
    BY <2>2, <2>3 DEF NeverBlocks
<1> QED
  BY <1>1, ServerAlways, PTL

\* Only the two clean-ups delete clients, and only inactive ones: for_each never
\* runs over a list that loses an element.
THEOREM DeletionsAreSafe == Spec => OnlyInactiveDeleted
<1> DEFINE Safe == \A a \in clientList \ clientList' :
                     /\ ~activeFlag[a]
                     /\ pc = "prepare" \/ (pc = "handle" /\ todo = {})
<1>1. ServerInv /\ [Next]_vars => [Safe]_vars
  <2> SUFFICES ASSUME ServerInv, Next PROVE Safe
    OBVIOUS
  <2>1. CASE Prepare
    BY <2>1 DEF Prepare, Disconnect, Active
  <2>2. CASE FinishRound
    BY <2>2 DEF FinishRound, Disconnect, ServerInv, LeavingVisited
  <2>3. CASE \E a \in Addresses, s \in Sockets : Accept(a, s)
    BY <2>3 DEF Accept
  <2>4. CASE PeerStep \/ Startup \/ Select \/ AcceptAborted \/ NobodyWaits
               \/ \E a \in Addresses : HandleClient(a)
    BY <2>4 DEF PeerStep, Connect, Send, Leave, Startup, Select,
       AcceptAborted, NobodyWaits, HandleClient, SkipClient, ReadClient,
       EndClient, Visit, clientVars
  <2> QED
    BY <2>1, <2>2, <2>3, <2>4 DEF Next, ServerStep, AcceptStep
<1>2. [][Safe]_vars => OnlyInactiveDeleted
  BY DEF OnlyInactiveDeleted
<1> QED
  BY <1>1, <1>2, ServerAlways, PTL DEF Spec

(***************************************************************************)
(* The loop serves every peer as though it were alone.                     *)
(***************************************************************************)

\* A client tells its peer from all others, and a peer that is served has been
\* accepted.
LEMMA ClientOfPeer ==
  ASSUME ServerInv
  PROVE  /\ clientList \subseteq Addresses /\ Active \subseteq clientList
         /\ \A a \in clientList :
              /\ socketOf[a] \in Sockets /\ PeerOf(a) \in Peers
              /\ stage[PeerOf(a)] = "accepted"
         /\ \A a, b \in clientList : PeerOf(a) = PeerOf(b) => a = b
<1> USE ServerAssumption
<1>1. TypeOK /\ SessionsMatch /\ OneClientPerSocket /\ PeersApart
  BY DEF ServerInv, ListInv
<1>2. clientList \subseteq Addresses /\ Active \subseteq clientList
  BY <1>1 DEF TypeOK, Active
<1>3. \A a \in clientList : socketOf[a] \in Sockets /\ PeerOf(a) \in Peers
  BY <1>1, <1>2 DEF TypeOK, SessionsMatch, PeerOf
<1>4. \A a \in clientList : stage[PeerOf(a)] = "accepted"
  BY <1>1, <1>3 DEF PeersApart, PeerOf
<1>5. \A a, b \in clientList : PeerOf(a) = PeerOf(b) => a = b
  BY <1>1, <1>3 DEF PeersApart, OneClientPerSocket, PeerOf
<1> QED
  BY <1>2, <1>3, <1>4, <1>5

LEMMA SameServed ==
  ASSUME UNCHANGED <<clientList, socketOf, activeFlag, owner>>, NEW p \in Peers
  PROVE  Served(p)' = Served(p)
BY DEF Served, Active, PeerOf

LEMMA PeerStepsAlone ==
  ASSUME ServerInv, PeerStep, NEW p \in Peers
  PROVE  Service(p)!Next \/ UNCHANGED Service(p)!vars
<1> USE DEF Service!Next, Service!vars
<1>1. /\ stage \in [Peers -> {"away", "waiting", "accepted", "done"}]
      /\ link \in [Peers -> {"open", "closed", "reset"}]
      /\ unread \in [Peers -> 0..MaxUnread]
  BY DEF ServerInv, ListInv, TypeOK
<1>2. PICK q \in Peers : Connect(q) \/ Send(q) \/ \E how \in Endings : Leave(q, how)
  BY DEF PeerStep
<1>3. Served(p)' = Served(p)
  BY <1>2, SameServed DEF Connect, Send, Leave, clientVars
<1>4. CASE Connect(q)
  BY <1>1, <1>3, <1>4 DEF Connect, Service!Connect
<1>5. CASE Send(q)
  BY <1>1, <1>3, <1>5 DEF Send, Service!Send, Service!Here
<1>6. CASE \E how \in Endings : Leave(q, how)
  BY <1>1, <1>3, <1>6, ServerAssumption DEF Leave, Service!Leave, Service!Here
<1> QED
  BY <1>2, <1>4, <1>5, <1>6

LEMMA DisconnectAlone ==
  ASSUME ServerInv, NEW D \in SUBSET clientList, Disconnect(D),
         \A a \in D : ~activeFlag[a],
         UNCHANGED <<link, unread, backlog, activeFlag>>,
         NEW p \in Peers
  PROVE  Service(p)!Next \/ UNCHANGED Service(p)!vars
<1> USE DEF Service!Next, Service!vars
<1>1. /\ clientList' = clientList \ D
      /\ \A a \in clientList' : PeerOf(a)' = PeerOf(a)
  BY DisconnectKeepsLists DEF ServerInv
<1>2. stage' = [q \in Peers |->
                  IF \E a \in D : PeerOf(a) = q THEN "done" ELSE stage[q]]
  BY DEF Disconnect
<1>3. Active' = Active
  BY <1>1 DEF Active
<1>4. Served(p)' = Served(p)
  <2>1. \A a \in Active : PeerOf(a)' = PeerOf(a)
    BY <1>1, <1>3 DEF Active
  <2> QED
    BY <1>3, <2>1 DEF Served
<1>5. ASSUME NEW a \in D, PeerOf(a) = p PROVE Service(p)!Close
  <2>1. stage[p] = "accepted" /\ \A b \in clientList : PeerOf(b) = p => b = a
    BY <1>5, ClientOfPeer
  <2>2. ~Served(p)
    BY <2>1 DEF Served, Active
  <2>3. stage'[p] = "done"
    BY <1>2, <1>5
  <2> QED
    BY <1>4, <2>1, <2>2, <2>3 DEF Service!Close
<1>6. CASE ~\E a \in D : PeerOf(a) = p
  BY <1>2, <1>4, <1>6
<1> QED
  BY <1>5, <1>6

LEMMA AcceptAlone ==
  ASSUME ServerInv, NEW a \in Addresses, NEW s \in Sockets, Accept(a, s),
         NEW p \in Peers
  PROVE  Service(p)!Next \/ UNCHANGED Service(p)!vars
<1> USE DEF Service!Next, Service!vars
<1> DEFINE h == Head(backlog)
<1>1. /\ stage \in [Peers -> {"away", "waiting", "accepted", "done"}]
      /\ owner \in [Sockets -> Peers \cup {None}]
      /\ socketOf \in [Addresses -> Sockets \cup {None}]
      /\ activeFlag \in [Addresses -> BOOLEAN]
      /\ backlog \in Seq(Peers)
  BY DEF ServerInv, ListInv, TypeOK
<1>2. /\ a \notin clientList /\ owner[s] = None /\ backlog # <<>>
      /\ clientList' = clientList \cup {a}
      /\ owner' = [owner EXCEPT ![s] = h]
      /\ stage' = [stage EXCEPT ![h] = "accepted"]
      /\ socketOf' = [socketOf EXCEPT ![a] = s]
      /\ activeFlag' = [activeFlag EXCEPT ![a] = TRUE]
      /\ UNCHANGED <<link, unread>>
  BY DEF Accept
<1>3. h \in Peers /\ stage[h] = "waiting"
  <2>1. 1 \in 1..Len(backlog) /\ h = backlog[1] /\ h \in Peers
    BY <1>1, <1>2, HeadTailProperties
  <2> QED
    BY <2>1 DEF ServerInv, ListInv, PeersApart
<1> HIDE DEF h
<1>4. PeerOf(a)' = h /\ a \in Active'
  BY <1>1, <1>2 DEF PeerOf, Active
<1>5. \A b \in clientList :
        b # a /\ activeFlag'[b] = activeFlag[b] /\ PeerOf(b)' = PeerOf(b)
  <2> SUFFICES ASSUME NEW b \in clientList
               PROVE  b # a /\ activeFlag'[b] = activeFlag[b] /\ PeerOf(b)' = PeerOf(b)
    OBVIOUS
  <2>1. b \in Addresses /\ socketOf[b] \in Sockets /\ PeerOf(b) \in Peers
    BY ClientOfPeer
  <2>2. socketOf[b] # s
    BY <1>2, <2>1, ServerAssumption DEF PeerOf
  <2> QED
    BY <1>1, <1>2, <2>1, <2>2 DEF PeerOf
<1>6. CASE h = p
  <2>1. Served(p)' = TRUE
    BY <1>4, <1>6 DEF Served
  <2> QED
    BY <1>1, <1>2, <1>3, <1>6, <2>1 DEF Service!Accept
<1>7. CASE h # p
  <2>1. \A b \in Active : b \in Active' /\ PeerOf(b)' = PeerOf(b)
    BY <1>2, <1>5 DEF Active
  <2>2. \A b \in Active' : b = a \/ (b \in Active /\ PeerOf(b)' = PeerOf(b))
    BY <1>2, <1>5 DEF Active
  <2>3. Served(p)' = Served(p)
    BY <1>4, <1>7, <2>1, <2>2 DEF Served
  <2> QED
    BY <1>1, <1>2, <1>7, <2>3
<1> QED
  BY <1>6, <1>7

LEMMA HandleAlone ==
  ASSUME ServerInv, NEW a \in Addresses, HandleClient(a), NEW p \in Peers
  PROVE  Service(p)!Next \/ UNCHANGED Service(p)!vars
<1> USE DEF Service!Next, Service!vars
<1>1. /\ unread \in [Peers -> 0..MaxUnread]
      /\ activeFlag \in [Addresses -> BOOLEAN]
  BY DEF ServerInv, ListInv, TypeOK
<1>2. /\ a \in clientList
      /\ UNCHANGED <<stage, link, owner, clientList, socketOf>>
  BY DEF HandleClient, SkipClient, ReadClient, EndClient, Visit, ServerInv,
    ListInv, TypeOK
<1>3. \A b : PeerOf(b)' = PeerOf(b)
  BY <1>2 DEF PeerOf
<1>4. CASE SkipClient(a)
  BY <1>2, <1>4, SameServed DEF SkipClient
<1>5. CASE ReadClient(a) \/ EndClient(a)
  <2>1. /\ activeFlag[a] /\ \E v \in BOOLEAN : activeFlag' = [activeFlag EXCEPT ![a] = v]
        /\ \A q \in Peers : q # PeerOf(a) => unread'[q] = unread[q]
    BY <1>1, <1>5 DEF ReadClient, EndClient, Polls
  <2>2. a \in Active /\ PeerOf(a) \in Peers
    BY <1>2, <2>1, ClientOfPeer DEF Active
  <2>3. \A b \in clientList : b # a => (b \in Active' <=> b \in Active)
    BY <1>1, <1>2, <2>1, ClientOfPeer DEF Active
  <2>4. CASE PeerOf(a) # p
    <3>1. Served(p)' = Served(p)
      BY <1>2, <1>3, <2>3, <2>4 DEF Served, Active
    <3> QED
      BY <1>2, <2>1, <2>4, <3>1
  <2>5. CASE PeerOf(a) = p
    <3>1. Served(p)
      BY <2>2, <2>5 DEF Served
    <3>2. CASE ReadClient(a)
      <4>1. unread[p] > 0 /\ unread'[p] = unread[p] - 1
        BY <1>1, <2>2, <2>5, <3>2 DEF ReadClient
      <4>2. Served(p)' \in BOOLEAN
        BY DEF Served
      <4> QED
        BY <1>2, <3>1, <4>1, <4>2 DEF Service!Read
    <3>3. CASE EndClient(a)
      <4>1. unread' = unread /\ activeFlag' = [activeFlag EXCEPT ![a] = FALSE]
        BY <3>3 DEF EndClient
      <4>2. link[p] = "reset" \/ (link[p] = "closed" /\ unread[p] = 0)
        BY <2>5, <3>3 DEF EndClient, EndOfData
      <4>3. ~Served(p)'
        <5>1. a \notin Active'
          BY <1>1, <4>1 DEF Active
        <5>2. \A b \in clientList : PeerOf(b) = p => b = a
          BY <1>2, <2>5, ClientOfPeer
        <5> QED
          BY <1>2, <1>3, <5>1, <5>2 DEF Served, Active
      <4>4. Served(p)' = FALSE
        BY <4>3 DEF Served
      <4>5. UNCHANGED <<stage[p], link[p], unread[p]>>
        BY <1>2, <3>3, <4>1 DEF EndClient, Visit
      <4> QED
        BY <3>1, <4>2, <4>4, <4>5 DEF Service!NoticeEnd
    <3> QED
      BY <1>5, <3>2, <3>3
  <2> QED
    BY <2>4, <2>5
<1> QED
  BY <1>4, <1>5 DEF HandleClient

LEMMA StepAlone ==
  ASSUME ServerInv, Next, NEW p \in Peers
  PROVE  Service(p)!Next \/ UNCHANGED Service(p)!vars
<1>1. CASE PeerStep
  BY <1>1, PeerStepsAlone
<1>2. CASE Prepare
  <2>1. /\ clientList \ Active \in SUBSET clientList
        /\ \A a \in clientList \ Active : ~activeFlag[a]
    BY DEF Active
  <2> QED
    BY <1>2, <2>1, DisconnectAlone DEF Prepare
<1>3. CASE FinishRound
  <2>1. leaving \in SUBSET clientList /\ \A a \in leaving : ~activeFlag[a]
    BY DEF ServerInv, ListInv, TypeOK, LeavingVisited
  <2> QED
    BY <1>3, <2>1, DisconnectAlone DEF FinishRound
<1>4. CASE \E a \in Addresses, s \in Sockets : Accept(a, s)
  BY <1>4, AcceptAlone
<1>5. CASE AcceptAborted
  <2>1. /\ stage \in [Peers -> {"away", "waiting", "accepted", "done"}]
        /\ backlog \in Seq(Peers) /\ backlog # <<>>
    BY <1>5 DEF ServerInv, ListInv, TypeOK, AcceptAborted
  <2>2. Head(backlog) \in Peers /\ stage[Head(backlog)] = "waiting"
    <3>1. 1 \in 1..Len(backlog) /\ Head(backlog) = backlog[1] /\ Head(backlog) \in Peers
      BY <2>1, HeadTailProperties
    <3> QED
      BY <3>1 DEF ServerInv, ListInv, PeersApart
  <2>3. /\ stage' = [stage EXCEPT ![Head(backlog)] = "done"]
        /\ link[Head(backlog)] = "reset"
        /\ UNCHANGED <<link, unread>>
    BY <1>5 DEF AcceptAborted
  <2>4. Served(p)' = Served(p)
    BY <1>5, SameServed DEF AcceptAborted, clientVars
  <2> QED
    BY <2>1, <2>2, <2>3, <2>4 DEF Service!Next, Service!vars, Service!Abort
<1>6. CASE Startup \/ Select \/ NobodyWaits
  <2>1. UNCHANGED <<stage, link, unread, clientList, socketOf, activeFlag, owner>>
    BY <1>6 DEF Startup, Select, NobodyWaits, osVars, clientVars
  <2> QED
    BY <2>1, SameServed DEF Service!vars
<1>7. CASE \E a \in Addresses : HandleClient(a)
  BY <1>7, HandleAlone
<1> QED
  BY <1>1, <1>2, <1>3, <1>4, <1>5, <1>6, <1>7 DEF Next, ServerStep, AcceptStep

\* However many peers there are, whatever addresses and handles they get and
\* however their steps mix, the loop serves each as though it were alone: it
\* reads what that peer sent, to the end if the peer closed, and gives it up for
\* its own session's verdict or its own end only.
THEOREM PeersServedAlone == Spec => ServesEachAlone
<1>1. Init => \A p \in Peers : Service(p)!Init
  BY DEF Init, Service!Init, Served, Active
<1>2. ServerInv /\ [Next]_vars =>
        [\A p \in Peers : [Service(p)!Next]_(Service(p)!vars)]_vars
  BY StepAlone
<1> QED
  BY <1>1, <1>2, ServerAlways, PTL DEF Spec, ServesEachAlone

\* What a peer sent is read only through an active client, and handed to the
\* session made for that very peer.
OwnSessionReads ==
  [][\A p \in Peers : unread'[p] < unread[p] =>
       \E a \in Active : PeerOf(a) = p /\ sessions[a] = p]_vars

\* No peer's data reaches the session of another, also when addresses and
\* handles are used again.
THEOREM DataToOwnSession == Spec => OwnSessionReads
<1> DEFINE Own == \A p \in Peers : unread'[p] < unread[p] =>
                    \E a \in Active : PeerOf(a) = p /\ sessions[a] = p
<1>1. ServerInv /\ [Next]_vars => [Own]_vars
  <2> SUFFICES ASSUME ServerInv, Next, NEW p \in Peers, unread'[p] < unread[p]
               PROVE  \E a \in Active : PeerOf(a) = p /\ sessions[a] = p
    OBVIOUS
  <2>1. unread \in [Peers -> 0..MaxUnread] /\ unread[p] \in Nat
    BY ServerAssumption DEF ServerInv, ListInv, TypeOK
  <2>2. unread' # unread
    BY <2>1
  <2>3. ASSUME NEW q \in Peers, Send(q) PROVE FALSE
    <3>1. unread' = [unread EXCEPT ![q] = unread[q] + 1]
      BY <2>3 DEF Send
    <3> QED
      BY <2>1, <3>1
  <2>4. PICK a \in Addresses : ReadClient(a)
    BY <2>2, <2>3 DEF Next, PeerStep, ServerStep, Connect, Leave, Startup,
      Prepare, Select, AcceptStep, Accept, AcceptAborted, NobodyWaits,
      HandleClient, SkipClient, EndClient, FinishRound, osVars
  <2>5. /\ a \in Active /\ unread' = [unread EXCEPT ![PeerOf(a)] = unread[PeerOf(a)] - 1]
        /\ a \in clientList
    BY <2>4 DEF ReadClient, Visit, Polls, Active, ServerInv, ListInv, TypeOK
  <2>6. PeerOf(a) = p
    BY <2>1, <2>5
  <2>7. sessions[a] = p
    BY <2>5, <2>6 DEF ServerInv, ListInv, SessionsMatch
  <2> QED
    BY <2>5, <2>6, <2>7
<1>2. [][Own]_vars => OwnSessionReads
  BY DEF OwnSessionReads
<1> QED
  BY <1>1, <1>2, ServerAlways, PTL DEF Spec

(***************************************************************************)
(* The loop never comes to a stop of itself.                               *)
(***************************************************************************)

\* Where the loop is about to accept, a connection waits and there is a handle
\* and memory for it; while clients are left to visit, the first of them is
\* skipped, read or ended.  Its other steps have no condition.
LoopGoesOn ==
  /\ pc = "accept" /\ Listener \in fds =>
       /\ backlog # <<>>
       /\ \E a \in Addresses : a \notin clientList
       /\ \E s \in Sockets : owner[s] = None
  /\ pc = "handle" /\ todo # {} =>
       \E a \in todo :
         /\ \A b \in todo : a <= b
         /\ Polls(a) => unread[PeerOf(a)] > 0 \/ EndOfData(a)

\* The place left for the listening socket in the set is what keeps a handle and
\* an address free.
LEMMA PlaceIsFree ==
  ASSUME ServerInv, Cardinality(clientList) < FdSetSize
  PROVE  /\ \E a \in Addresses : a \notin clientList
         /\ \E s \in Sockets : owner[s] = None
<1>1. TypeOK /\ OneClientPerSocket
  BY DEF ServerInv, ListInv
<1>2. /\ IsFiniteSet(clientList) /\ Cardinality(clientList) \in Nat
      /\ Cardinality(Sockets) \in Nat /\ Cardinality(Addresses) \in Nat
      /\ Cardinality(clientList) < Cardinality(Sockets)
      /\ Cardinality(clientList) < Cardinality(Addresses)
      /\ clientList \subseteq Addresses
  <2>1. IsFiniteSet(clientList) /\ Cardinality(clientList) \in Nat
    BY <1>1, ListFinite
  <2>2. Cardinality(Sockets) \in Nat /\ Cardinality(Addresses) \in Nat
    BY ServerAssumption, ResourcesAssumption, FS_CardinalityType
  <2> QED
    BY <1>1, <2>1, <2>2, ServerAssumption, ResourcesAssumption DEF TypeOK
<1>3. \E a \in Addresses : a \notin clientList
  <2> SUFFICES ASSUME Addresses \subseteq clientList PROVE FALSE
    OBVIOUS
  <2>1. Addresses = clientList
    BY <1>2
  <2> QED
    BY <1>2, <2>1
<1>4. \E s \in Sockets : owner[s] = None
  <2> SUFFICES ASSUME \A s \in Sockets : owner[s] # None PROVE FALSE
    OBVIOUS
  <2> DEFINE user == [s \in Sockets |-> CHOOSE a \in clientList : socketOf[a] = s]
  <2>1. \A s \in Sockets : user[s] \in clientList /\ socketOf[user[s]] = s
    BY <1>1 DEF OneClientPerSocket
  <2>2. user \in [Sockets -> clientList]
    BY <2>1
  <2> HIDE DEF user
  <2>3. PICK r \in Sockets, s \in Sockets : r # s /\ user[r] = user[s]
    BY <1>2, <2>2, ResourcesAssumption, FS_PigeonHole
  <2> QED
    BY <2>1, <2>3
<1> QED
  BY <1>3, <1>4

\* The client for_each visits next.
LEMMA FirstOfThem ==
  ASSUME NEW T \in SUBSET Nat, T # {}
  PROVE  \E a \in T : \A b \in T : a <= b
<1> DEFINE Below == OpToRel(<, Nat)
<1>1. IsWellFoundedOn(Below, Nat) /\ T \subseteq Nat
  BY NatLessThanWellFounded
<1>2. \A a, b \in Nat : b < a => <<b, a>> \in Below
  BY DEF OpToRel
<1> HIDE DEF Below
<1>3. PICK a \in T : \A b \in T : ~(<<b, a>> \in Below)
  BY <1>1, WFMin
<1>4. \A b \in T : ~(b < a)
  BY <1>1, <1>2, <1>3
<1>5. \A b \in T : a <= b
  BY <1>1, <1>4
<1> QED
  BY <1>5

\* With as many handles and addresses as the set takes clients, the loop can
\* always take its next step, whatever the peers do: no accept without a handle,
\* no recv without input, no client nobody visits.
THEOREM LoopNeverStuck == Spec => []LoopGoesOn
<1>1. ServerInv => LoopGoesOn
  <2> SUFFICES ASSUME ServerInv PROVE LoopGoesOn
    OBVIOUS
  <2>1. TypeOK /\ SessionsMatch /\ RoomForNext /\ ResultsHold
    BY DEF ServerInv, ListInv
  <2>2. ASSUME pc = "accept", Listener \in fds
        PROVE  /\ backlog # <<>>
               /\ \E a \in Addresses : a \notin clientList
               /\ \E s \in Sockets : owner[s] = None
    <3>1. backlog # <<>>
      BY <2>1, <2>2 DEF ResultsHold, Readable
    <3>2. Cardinality(clientList) < FdSetSize
      BY <2>1, <2>2 DEF RoomForNext
    <3> QED
      BY <3>1, <3>2, PlaceIsFree
  <2>3. ASSUME pc = "handle", todo # {}
        PROVE  \E a \in todo :
                 /\ \A b \in todo : a <= b
                 /\ Polls(a) => unread[PeerOf(a)] > 0 \/ EndOfData(a)
    <3>1. todo \in SUBSET Nat /\ todo \subseteq clientList
      BY <2>1, ServerAssumption DEF TypeOK
    <3>2. PICK a \in todo : \A b \in todo : a <= b
      BY <2>3, <3>1, FirstOfThem
    <3>3. ASSUME Polls(a) PROVE unread[PeerOf(a)] > 0 \/ EndOfData(a)
      <4>1. HasInput(PeerOf(a))
        BY <2>1, <2>3, <3>3 DEF ResultsHold
      <4>2. PeerOf(a) \in Peers
        BY <3>1, ClientOfPeer
      <4>3. link[PeerOf(a)] \in {"open", "closed", "reset"} /\ unread[PeerOf(a)] \in Nat
        BY <2>1, <4>2, ServerAssumption DEF TypeOK
      <4> QED
        BY <4>1, <4>3 DEF HasInput, EndOfData
    <3> QED
      BY <3>2, <3>3
  <2> QED
    BY <2>2, <2>3 DEF LoopGoesOn
<1> QED
  BY <1>1, ServerAlways, PTL
=============================================================================
