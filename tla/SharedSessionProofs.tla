------------------------- MODULE SharedSessionProofs -------------------------
(***************************************************************************)
(* Theorems about SharedSession for every value of its constants.          *)
(*                                                                         *)
(* The invariant adds to the properties where the threads can be and with  *)
(* sessions in which stage, that a queue holds nothing or the packet made  *)
(* last, and that the loop, once it has found a packet, finds it again     *)
(* unless a thread of the application took it.                             *)
(***************************************************************************)
EXTENDS SharedSession, SequenceTheorems, TLAPS

Places ==
  /\ pc[Loop] \in {"idle", "check", "take", "handle", "delete"}
  /\ pc[Loop] # "idle" => at[Loop] \in Sessions
  /\ pc[Loop] \in {"check", "take", "handle"} => stage[at[Loop]] = "open"
  /\ \A c \in Sessions :
       stage[c] = "notified" <=> pc[Loop] = "delete" /\ at[Loop] = c
  /\ \A w \in Workers :
       /\ pc[w] \in {"idle", "holding", "sending"}
       /\ pc[w] # "idle" => at[w] \in Sessions /\ stage[at[w]] # "new"
  /\ \A c \in Sessions : stage[c] # "new" => networkInterface[c] \in Addresses

QueueShape ==
  \A c \in Sessions :
    \/ packetQueue[c] = <<>> /\ received[c] = Len(taken[c])
    \/ packetQueue[c] = <<received[c]>> /\ received[c] = Len(taken[c]) + 1

TakeExplained ==
  pc[Loop] = "take" =>
    packetQueue[at[Loop]] # <<>> \/ lastTaker[at[Loop]] \in Workers

Inv ==
  /\ TypeOK
  /\ Places
  /\ QueueShape
  /\ NothingLeftBehind
  /\ TakeExplained
  /\ EmptyBatchExplained
  /\ SendsReachPeer

LEMMA SharingInit == Init => Inv
<1> SUFFICES ASSUME Init PROVE Inv
  OBVIOUS
<1> USE SharingAssumption DEF Threads
<1>1. TypeOK
  BY DEF Init, TypeOK
<1>2. Places /\ QueueShape
  BY DEF Init, Places, QueueShape
<1>3. NothingLeftBehind /\ TakeExplained /\ EmptyBatchExplained
  BY DEF Init, NothingLeftBehind, TakeExplained, EmptyBatchExplained
<1>4. SendsReachPeer
  BY DEF Init, SendsReachPeer
<1> QED
  BY <1>1, <1>2, <1>3, <1>4 DEF Inv

\* What getQueuedPackets does to the queue and to the record of what left it.
LEMMA DrainEffect ==
  ASSUME Inv, NEW t \in Threads, NEW c \in Sessions, Drain(t, c)
  PROVE  /\ taken' \in [Sessions -> Seq(Nat)]
         /\ packetQueue' \in [Sessions -> Seq(Nat)]
         /\ lastTaker' \in [Sessions -> Threads \cup {None}]
         /\ received' = received
         /\ packetQueue'[c] = <<>> /\ Len(taken'[c]) = received[c]
         /\ \A d \in Sessions \ {c} :
              packetQueue'[d] = packetQueue[d] /\ taken'[d] = taken[d]
                /\ lastTaker'[d] = lastTaker[d]
         /\ packetQueue[c] = <<>> =>
              taken'[c] = taken[c] /\ lastTaker'[c] = lastTaker[c]
         /\ packetQueue[c] # <<>> =>
              /\ lastTaker'[c] = t
              /\ taken'[c] = Append(taken[c], Len(taken[c]) + 1)
              /\ received[c] = Len(taken[c]) + 1
<1>1. /\ taken \in [Sessions -> Seq(Nat)] /\ packetQueue \in [Sessions -> Seq(Nat)]
      /\ received \in [Sessions -> Nat]
      /\ lastTaker \in [Sessions -> Threads \cup {None}]
  BY DEF Inv, TypeOK
<1>2. taken[c] \in Seq(Nat) /\ packetQueue[c] \in Seq(Nat) /\ received[c] \in Nat
  BY <1>1
<1>3. /\ taken[c] \o packetQueue[c] \in Seq(Nat)
      /\ Len(taken[c] \o packetQueue[c]) = Len(taken[c]) + Len(packetQueue[c])
  BY <1>2, ConcatProperties
<1>4. taken' = [taken EXCEPT ![c] = taken[c] \o packetQueue[c]]
  BY DEF Drain
<1>5. taken'[c] = taken[c] \o packetQueue[c] /\ taken' \in [Sessions -> Seq(Nat)]
  BY <1>1, <1>3, <1>4
<1>6. packetQueue' = [packetQueue EXCEPT ![c] = <<>>] /\ <<>> \in Seq(Nat)
  BY DEF Drain
<1>7. packetQueue'[c] = <<>> /\ packetQueue' \in [Sessions -> Seq(Nat)]
  BY <1>1, <1>6
<1>8. CASE packetQueue[c] = <<>>
  <2>1. taken[c] \o packetQueue[c] = taken[c]
    BY <1>2, <1>8, ConcatEmptySeq
  <2>2. received[c] = Len(taken[c])
    <3>1. <<received[c]>> # <<>>
      BY <1>2
    <3> QED
      BY <1>8, <3>1 DEF Inv, QueueShape
  <2> QED
    BY <1>1, <1>4, <1>5, <1>6, <1>7, <1>8, <2>1, <2>2 DEF Drain
<1>9. CASE packetQueue[c] # <<>>
  <2>1. packetQueue[c] = <<received[c]>> /\ received[c] = Len(taken[c]) + 1
    BY <1>9 DEF Inv, QueueShape
  <2>2. taken[c] \o <<received[c]>> = Append(taken[c], received[c])
    BY <1>2, AppendIsConcat
  <2>3. Len(taken[c] \o packetQueue[c]) = received[c]
    BY <1>2, <1>3, <2>1
  <2> QED
    BY <1>1, <1>4, <1>5, <1>6, <1>7, <1>9, <2>1, <2>2, <2>3 DEF Drain
<1> QED
  BY <1>8, <1>9

LEMMA ConnectKeeps ==
  ASSUME Inv, NEW c \in Sessions, NEW a \in Addresses, NEW s \in Sockets,
         Connect(c, a, s)
  PROVE  Inv'
<1> USE SharingAssumption DEF Inv, Threads
<1>1. TypeOK'
  BY DEF TypeOK, QueueShape, Connect, queueVars
<1>2. Places'
  BY DEF TypeOK, Places, Connect, queueVars
<1>3. QueueShape'
  BY DEF TypeOK, QueueShape, Connect, queueVars
<1>4. NothingLeftBehind' /\ TakeExplained' /\ EmptyBatchExplained'
  BY DEF TypeOK, Places, NothingLeftBehind, TakeExplained, EmptyBatchExplained, Connect, queueVars
<1>5. SendsReachPeer'
  BY DEF TypeOK, Places, SendsReachPeer, Connect, queueVars
<1> QED
  BY <1>1, <1>2, <1>3, <1>4, <1>5

LEMMA ArrivalKeeps ==
  ASSUME Inv, NEW c \in Sessions, PacketArrives(c)
  PROVE  Inv'
<1> USE SharingAssumption DEF Inv, Threads
<1>1. packetQueue[c] = <<>> /\ received[c] = Len(taken[c])
  <2>1. packetQueue[c] = <<>>
    BY DEF NothingLeftBehind, PacketArrives
  <2>2. received[c] \in Nat /\ <<received[c]>> # <<>>
    BY DEF TypeOK
  <2> QED
    BY <2>1, <2>2 DEF QueueShape
<1>2. received' = [received EXCEPT ![c] = received[c] + 1] /\ received[c] + 1 \in Nat
  BY DEF PacketArrives, Enqueue, TypeOK
<1>3. packetQueue' = [packetQueue EXCEPT ![c] = <<received[c] + 1>>]
  <2>1. Append(<<>>, received[c] + 1) = <<received[c] + 1>>
    BY <1>2
  <2> QED
    BY <1>1, <2>1 DEF PacketArrives, Enqueue
<1>4. <<received[c] + 1>> \in Seq(Nat) /\ Len(<<received[c] + 1>>) = 1
  BY <1>2
<1>5. /\ packetQueue' \in [Sessions -> Seq(Nat)]
      /\ \A d \in Sessions : Len(packetQueue'[d]) <= 1
  BY <1>3, <1>4 DEF TypeOK
<1>6. TypeOK'
  BY <1>2, <1>5 DEF TypeOK, PacketArrives, Enqueue, Goto, lifeVars
<1>7. Places'
  BY DEF TypeOK, Places, PacketArrives, Enqueue, Goto, lifeVars
<1>8. QueueShape'
  <2>1. received'[c] = received[c] + 1 /\ packetQueue'[c] = <<received'[c]>>
    BY <1>2, <1>3 DEF TypeOK
  <2>2. taken' = taken
    BY DEF PacketArrives, Enqueue
  <2>3. \A d \in Sessions \ {c} :
          received'[d] = received[d] /\ packetQueue'[d] = packetQueue[d]
    BY <1>2, <1>3 DEF TypeOK
  <2> QED
    BY <1>1, <2>1, <2>2, <2>3 DEF QueueShape
<1>9. NothingLeftBehind' /\ TakeExplained' /\ EmptyBatchExplained'
  BY DEF TypeOK, Places, NothingLeftBehind, TakeExplained, EmptyBatchExplained,
    PacketArrives, Enqueue, Goto, lifeVars
<1>10. SendsReachPeer'
  BY DEF TypeOK, Places, SendsReachPeer, PacketArrives, Enqueue, Goto, lifeVars
<1> QED
  BY <1>6, <1>7, <1>8, <1>9, <1>10

LEMMA PartKeeps ==
  ASSUME Inv, NEW c \in Sessions, PartArrives(c)
  PROVE  Inv'
<1> USE SharingAssumption DEF Inv, Threads
<1>1. TypeOK'
  BY DEF TypeOK, QueueShape, PartArrives, Goto, lifeVars, queueVars
<1>2. Places'
  BY DEF TypeOK, Places, PartArrives, Goto, lifeVars, queueVars
<1>3. QueueShape'
  BY DEF TypeOK, QueueShape, PartArrives, Goto, lifeVars, queueVars
<1>4. NothingLeftBehind' /\ TakeExplained' /\ EmptyBatchExplained'
  BY DEF TypeOK, Places, NothingLeftBehind, TakeExplained, EmptyBatchExplained, PartArrives, Goto, lifeVars, queueVars
<1>5. SendsReachPeer'
  BY DEF TypeOK, Places, SendsReachPeer, PartArrives, Goto, lifeVars, queueVars
<1> QED
  BY <1>1, <1>2, <1>3, <1>4, <1>5

LEMMA CheckKeeps ==
  ASSUME Inv, CheckFilled
  PROVE  Inv'
<1> USE SharingAssumption DEF Inv, Threads
<1>1. TypeOK'
  BY DEF TypeOK, QueueShape, CheckFilled, Goto, lifeVars, queueVars
<1>2. Places'
  BY DEF TypeOK, Places, CheckFilled, Goto, lifeVars, queueVars
<1>3. QueueShape'
  BY DEF TypeOK, QueueShape, CheckFilled, Goto, lifeVars, queueVars
<1>4. NothingLeftBehind' /\ TakeExplained' /\ EmptyBatchExplained'
  BY DEF TypeOK, Places, NothingLeftBehind, TakeExplained, EmptyBatchExplained, CheckFilled, Goto, lifeVars, queueVars
<1>5. SendsReachPeer'
  <2>1. UNCHANGED lifeVars /\ handle' = handle
    BY DEF CheckFilled
  <2>2. \A w \in Workers : pc'[w] = pc[w] /\ at'[w] = at[w]
    BY DEF TypeOK, CheckFilled, Goto
  <2> QED
    BY <2>1, <2>2 DEF SendsReachPeer, lifeVars
<1> QED
  BY <1>1, <1>2, <1>3, <1>4, <1>5

LEMMA LoopTakesKeeps ==
  ASSUME Inv, LoopTakes
  PROVE  Inv'
<1> USE SharingAssumption DEF Inv, Threads
<1>1. at[Loop] \in Sessions /\ Drain(Loop, at[Loop])
  BY DEF Places, LoopTakes
<1>2. /\ taken' \in [Sessions -> Seq(Nat)]
      /\ packetQueue' \in [Sessions -> Seq(Nat)]
      /\ lastTaker' \in [Sessions -> Threads \cup {None}]
      /\ received' = received
      /\ packetQueue'[at[Loop]] = <<>> /\ Len(taken'[at[Loop]]) = received[at[Loop]]
      /\ \A d \in Sessions \ {at[Loop]} :
           packetQueue'[d] = packetQueue[d] /\ taken'[d] = taken[d]
             /\ lastTaker'[d] = lastTaker[d]
      /\ packetQueue[at[Loop]] = <<>> => lastTaker'[at[Loop]] = lastTaker[at[Loop]]
      /\ packetQueue[at[Loop]] # <<>> => lastTaker'[at[Loop]] = Loop
  BY <1>1, DrainEffect
<1>3. TypeOK'
  <2>1. \A d \in Sessions : Len(packetQueue'[d]) <= 1
    <3>1. Len(packetQueue'[at[Loop]]) = 0
      BY <1>2
    <3>2. \A d \in Sessions \ {at[Loop]} : packetQueue'[d] = packetQueue[d]
      BY <1>2
    <3> QED
      BY <3>1, <3>2 DEF TypeOK
  <2>2. batch' \in Seq(Nat) /\ Len(batch') <= 1
    BY <1>1 DEF TypeOK, LoopTakes
  <2>3. /\ pc' = [pc EXCEPT ![Loop] = "handle"] /\ at' = [at EXCEPT ![Loop] = at[Loop]]
        /\ UNCHANGED <<lifeVars, handle>>
    BY DEF LoopTakes, Goto
  <2> QED
    BY <1>1, <1>2, <2>1, <2>2, <2>3 DEF TypeOK, lifeVars
<1>4. Places'
  BY <1>1, <1>2 DEF TypeOK, Places, LoopTakes, Goto, lifeVars
<1>5. QueueShape'
  BY <1>1, <1>2 DEF TypeOK, QueueShape, LoopTakes, Goto, lifeVars
<1>6. NothingLeftBehind' /\ TakeExplained' /\ EmptyBatchExplained'
  BY <1>1, <1>2 DEF TypeOK, Places, NothingLeftBehind, TakeExplained, EmptyBatchExplained, LoopTakes, Goto, lifeVars
<1>7. SendsReachPeer'
  BY <1>1, <1>2 DEF TypeOK, Places, SendsReachPeer, LoopTakes, Goto, lifeVars
<1> QED
  BY <1>3, <1>4, <1>5, <1>6, <1>7

LEMMA HandledKeeps ==
  ASSUME Inv, LoopHandled
  PROVE  Inv'
<1> USE SharingAssumption DEF Inv, Threads
<1>1. TypeOK'
  BY DEF TypeOK, QueueShape, LoopHandled, Goto, lifeVars, queueVars
<1>2. Places'
  BY DEF TypeOK, Places, LoopHandled, Goto, lifeVars, queueVars
<1>3. QueueShape'
  BY DEF TypeOK, QueueShape, LoopHandled, Goto, lifeVars, queueVars
<1>4. NothingLeftBehind' /\ TakeExplained' /\ EmptyBatchExplained'
  BY DEF TypeOK, Places, NothingLeftBehind, TakeExplained, EmptyBatchExplained, LoopHandled, Goto, lifeVars, queueVars
<1>5. SendsReachPeer'
  BY DEF TypeOK, Places, SendsReachPeer, LoopHandled, Goto, lifeVars, queueVars
<1> QED
  BY <1>1, <1>2, <1>3, <1>4, <1>5

LEMMA NotifyKeeps ==
  ASSUME Inv, NEW c \in Sessions, Notify(c)
  PROVE  Inv'
<1> USE SharingAssumption DEF Inv, Threads
<1>1. TypeOK'
  BY DEF TypeOK, QueueShape, Notify, Goto, queueVars
<1>2. Places'
  BY DEF TypeOK, Places, Notify, Goto, queueVars
<1>3. QueueShape'
  BY DEF TypeOK, QueueShape, Notify, Goto, queueVars
<1>4. NothingLeftBehind' /\ TakeExplained' /\ EmptyBatchExplained'
  BY DEF TypeOK, Places, NothingLeftBehind, TakeExplained, EmptyBatchExplained, Notify, Goto, queueVars
<1>5. SendsReachPeer'
  BY DEF TypeOK, Places, SendsReachPeer, Notify, Goto, queueVars
<1> QED
  BY <1>1, <1>2, <1>3, <1>4, <1>5

LEMMA DeleteKeeps ==
  ASSUME Inv, Delete
  PROVE  Inv'
<1> USE SharingAssumption DEF Inv, Threads
<1>1. TypeOK'
  BY DEF TypeOK, QueueShape, Delete, Goto, queueVars
<1>2. Places'
  BY DEF TypeOK, Places, Delete, Goto, queueVars
<1>3. QueueShape'
  BY DEF TypeOK, QueueShape, Delete, Goto, queueVars
<1>4. NothingLeftBehind' /\ TakeExplained' /\ EmptyBatchExplained'
  BY DEF TypeOK, Places, NothingLeftBehind, TakeExplained, EmptyBatchExplained, Delete, Goto, queueVars
<1>5. SendsReachPeer'
  BY DEF TypeOK, Places, SendsReachPeer, Delete, Goto, queueVars
<1> QED
  BY <1>1, <1>2, <1>3, <1>4, <1>5

LEMMA HoldKeeps ==
  ASSUME Inv, NEW w \in Workers, NEW c \in Sessions, Hold(w, c)
  PROVE  Inv'
<1> USE SharingAssumption DEF Inv, Threads
<1>1. TypeOK'
  BY DEF TypeOK, QueueShape, Hold, Goto, lifeVars, queueVars
<1>2. Places'
  BY DEF TypeOK, Places, Hold, Goto, lifeVars, queueVars
<1>3. QueueShape'
  BY DEF TypeOK, QueueShape, Hold, Goto, lifeVars, queueVars
<1>4. NothingLeftBehind' /\ TakeExplained' /\ EmptyBatchExplained'
  BY DEF TypeOK, Places, NothingLeftBehind, TakeExplained, EmptyBatchExplained, Hold, Goto, lifeVars, queueVars
<1>5. SendsReachPeer'
  BY DEF TypeOK, Places, SendsReachPeer, Hold, Goto, lifeVars, queueVars
<1> QED
  BY <1>1, <1>2, <1>3, <1>4, <1>5

LEMMA ReleaseKeeps ==
  ASSUME Inv, NEW w \in Workers, Release(w)
  PROVE  Inv'
<1> USE SharingAssumption DEF Inv, Threads
<1>1. TypeOK'
  BY DEF TypeOK, QueueShape, Release, Goto, lifeVars, queueVars
<1>2. Places'
  BY DEF TypeOK, Places, Release, Goto, lifeVars, queueVars
<1>3. QueueShape'
  BY DEF TypeOK, QueueShape, Release, Goto, lifeVars, queueVars
<1>4. NothingLeftBehind' /\ TakeExplained' /\ EmptyBatchExplained'
  BY DEF TypeOK, Places, NothingLeftBehind, TakeExplained, EmptyBatchExplained, Release, Goto, lifeVars, queueVars
<1>5. SendsReachPeer'
  BY DEF TypeOK, Places, SendsReachPeer, Release, Goto, lifeVars, queueVars
<1> QED
  BY <1>1, <1>2, <1>3, <1>4, <1>5

LEMMA WorkerTakesKeeps ==
  ASSUME Inv, NEW w \in Workers, WorkerTakes(w)
  PROVE  Inv'
<1> USE SharingAssumption DEF Inv, Threads
<1>1. at[w] \in Sessions /\ Drain(w, at[w])
  BY DEF Places, WorkerTakes
<1>2. /\ taken' \in [Sessions -> Seq(Nat)]
      /\ packetQueue' \in [Sessions -> Seq(Nat)]
      /\ lastTaker' \in [Sessions -> Threads \cup {None}]
      /\ received' = received
      /\ packetQueue'[at[w]] = <<>> /\ Len(taken'[at[w]]) = received[at[w]]
      /\ \A d \in Sessions \ {at[w]} :
           packetQueue'[d] = packetQueue[d] /\ taken'[d] = taken[d]
             /\ lastTaker'[d] = lastTaker[d]
      /\ packetQueue[at[w]] = <<>> => lastTaker'[at[w]] = lastTaker[at[w]]
      /\ packetQueue[at[w]] # <<>> => lastTaker'[at[w]] = w
  BY <1>1, DrainEffect
<1>3. TypeOK'
  BY <1>1, <1>2 DEF TypeOK, QueueShape, WorkerTakes, lifeVars
<1>4. Places'
  BY <1>1, <1>2 DEF TypeOK, Places, WorkerTakes, lifeVars
<1>5. QueueShape'
  BY <1>1, <1>2 DEF TypeOK, QueueShape, WorkerTakes, lifeVars
<1>6. NothingLeftBehind' /\ TakeExplained' /\ EmptyBatchExplained'
  BY <1>1, <1>2 DEF TypeOK, Places, NothingLeftBehind, TakeExplained, EmptyBatchExplained, WorkerTakes, lifeVars
<1>7. SendsReachPeer'
  BY <1>1, <1>2 DEF TypeOK, Places, SendsReachPeer, WorkerTakes, lifeVars
<1> QED
  BY <1>3, <1>4, <1>5, <1>6, <1>7

LEMMA ReadKeeps ==
  ASSUME Inv, NEW w \in Workers, ReadSocket(w)
  PROVE  Inv'
<1> USE SharingAssumption DEF Inv, Threads
<1> DEFINE a == networkInterface[at[w]]
<1>1. PICK s \in SocketsSeen(at[w]) : handle' = [handle EXCEPT ![w] = s]
  BY DEF ReadSocket
<1>2. /\ at[w] \in Sessions /\ pc[w] = "holding" /\ a \in Addresses
      /\ pc' = [pc EXCEPT ![w] = "sending"] /\ at' = [at EXCEPT ![w] = at[w]]
      /\ UNCHANGED <<lifeVars, queueVars, batch>>
  BY DEF Places, ReadSocket, Goto
<1>3. IF occupant[a] = None THEN s \in Sockets \cup {None} ELSE s = socketOf[a]
  BY <1>1 DEF SocketsSeen
<1>4. s \in Sockets \cup {None}
  BY <1>2, <1>3 DEF TypeOK
<1>5. TypeOK'
  BY <1>1, <1>2, <1>4 DEF TypeOK, lifeVars, queueVars
<1>6. Places' /\ QueueShape'
  BY <1>2 DEF TypeOK, Places, QueueShape, lifeVars, queueVars
<1>7. NothingLeftBehind' /\ TakeExplained' /\ EmptyBatchExplained'
  BY <1>2 DEF TypeOK, NothingLeftBehind, TakeExplained, EmptyBatchExplained,
    lifeVars, queueVars
<1>8. SendsReachPeer'
  <2>1. UNCHANGED lifeVars
    BY <1>2
  <2>2. \A v \in Workers \ {w} :
          pc'[v] = pc[v] /\ at'[v] = at[v] /\ handle'[v] = handle[v]
    BY <1>1, <1>2 DEF TypeOK
  <2>3. at'[w] = at[w] /\ handle'[w] = s
    BY <1>1, <1>2 DEF TypeOK
  <2>4. stage[at[w]] # "gone" => s # None /\ owner[s] = at[w]
    <3>1. stage[at[w]] # "gone" => stage[at[w]] \in {"open", "notified"}
      BY <1>2 DEF TypeOK, Places
    <3> QED
      BY <1>2, <1>3, <3>1 DEF SendsReachPeer
  <2> QED
    BY <2>1, <2>2, <2>3, <2>4 DEF SendsReachPeer, lifeVars
<1> QED
  BY <1>5, <1>6, <1>7, <1>8

LEMMA SentKeeps ==
  ASSUME Inv, NEW w \in Workers, SendReturns(w)
  PROVE  Inv'
<1> USE SharingAssumption DEF Inv, Threads
<1>1. TypeOK'
  BY DEF TypeOK, QueueShape, SendReturns, Goto, lifeVars, queueVars
<1>2. Places'
  BY DEF TypeOK, Places, SendReturns, Goto, lifeVars, queueVars
<1>3. QueueShape'
  BY DEF TypeOK, QueueShape, SendReturns, Goto, lifeVars, queueVars
<1>4. NothingLeftBehind' /\ TakeExplained' /\ EmptyBatchExplained'
  BY DEF TypeOK, Places, NothingLeftBehind, TakeExplained, EmptyBatchExplained, SendReturns, Goto, lifeVars, queueVars
<1>5. SendsReachPeer'
  BY DEF TypeOK, Places, SendsReachPeer, SendReturns, Goto, lifeVars, queueVars
<1> QED
  BY <1>1, <1>2, <1>3, <1>4, <1>5

LEMMA SharingStep == Inv /\ [Next]_vars => Inv'
<1> SUFFICES ASSUME Inv, [Next]_vars PROVE Inv'
  OBVIOUS
<1>1. CASE LoopStep
  BY <1>1, ConnectKeeps, ArrivalKeeps, PartKeeps, CheckKeeps, LoopTakesKeeps,
     HandledKeeps, NotifyKeeps, DeleteKeeps
  DEF LoopStep
<1>2. ASSUME NEW w \in Workers, WorkerStep(w) PROVE Inv'
  BY <1>2, HoldKeeps, ReleaseKeeps, WorkerTakesKeeps, ReadKeeps, SentKeeps
  DEF WorkerStep
<1>3. CASE UNCHANGED vars
  BY <1>3 DEF vars, Inv, TypeOK, Places, QueueShape, NothingLeftBehind,
    TakeExplained, EmptyBatchExplained, SendsReachPeer
<1> QED
  BY <1>1, <1>2, <1>3 DEF Next

LEMMA SharingInv == Spec => []Inv
BY SharingInit, SharingStep, PTL DEF Spec

\* A packet leaves the queue of a session the application knows to be connected.
LEMMA ContractStep ==
  ASSUME Inv, [Next]_vars, NEW c \in Sessions
  PROVE  Contract(c)!Next \/ UNCHANGED Contract(c)!vars
<1> USE SharingAssumption DEF Threads, Contract!Next, Contract!vars
<1> DEFINE Open == stage[c] \in {"new", "open"}
<1>1. ASSUME UNCHANGED <<received, taken, stage>>
      PROVE  UNCHANGED Contract(c)!vars
  BY <1>1
<1>2. ASSUME NEW t \in Threads, NEW d \in Sessions, Drain(t, d),
             UNCHANGED stage
      PROVE  Contract(c)!Next \/ UNCHANGED Contract(c)!vars
  <2>1. received' = received
    BY <1>2 DEF Drain
  <2>2. CASE d # c \/ packetQueue[d] = <<>>
    <3>1. taken'[c] = taken[c]
      BY <1>2, <2>2, DrainEffect
    <3> QED
      BY <1>2, <2>1, <3>1
  <2>3. CASE d = c /\ packetQueue[c] # <<>>
    <3>1. /\ taken'[c] = Append(taken[c], Len(taken[c]) + 1)
          /\ received[c] = Len(taken[c]) + 1
      BY <1>2, <2>3, DrainEffect
    <3>2. stage[c] = "open"
      BY <2>3 DEF Inv, NothingLeftBehind, Places
    <3>3. Len(taken[c]) < received[c]
      BY <3>1 DEF Inv, TypeOK
    <3> QED
      BY <1>2, <2>1, <3>1, <3>2, <3>3 DEF Contract!Hand
  <2> QED
    BY <2>2, <2>3
<1>3. ASSUME NEW d \in Sessions, PacketArrives(d)
      PROVE  Contract(c)!Next \/ UNCHANGED Contract(c)!vars
  <2>1. taken' = taken /\ stage' = stage
        /\ received' = [received EXCEPT ![d] = received[d] + 1]
    BY <1>3 DEF PacketArrives, Enqueue, lifeVars
  <2> QED
    BY <2>1 DEF Contract!Post, Inv, TypeOK
<1>4. ASSUME NEW d \in Sessions, Notify(d)
      PROVE  Contract(c)!Next \/ UNCHANGED Contract(c)!vars
  BY <1>4 DEF Notify, queueVars, Contract!Close, Inv, TypeOK
<1>5. ASSUME NEW d \in Sessions, NEW a \in Addresses, NEW s \in Sockets,
             Connect(d, a, s)
      PROVE  UNCHANGED Contract(c)!vars
  BY <1>5 DEF Connect, queueVars, Inv, TypeOK
<1>6. ASSUME Delete PROVE UNCHANGED Contract(c)!vars
  BY <1>6 DEF Delete, queueVars, Inv, TypeOK, Places
<1>7. ASSUME LoopTakes
      PROVE  Contract(c)!Next \/ UNCHANGED Contract(c)!vars
  <2>1. at[Loop] \in Sessions /\ Drain(Loop, at[Loop]) /\ UNCHANGED stage
    BY <1>7 DEF LoopTakes, lifeVars, Inv, Places
  <2> QED
    BY <1>2, <2>1
<1>8. ASSUME NEW w \in Workers, WorkerTakes(w)
      PROVE  Contract(c)!Next \/ UNCHANGED Contract(c)!vars
  <2>1. at[w] \in Sessions /\ Drain(w, at[w]) /\ UNCHANGED stage
    BY <1>8 DEF WorkerTakes, lifeVars, Inv, Places
  <2> QED
    BY <1>2, <2>1
<1>9. ASSUME \/ \E d \in Sessions : PartArrives(d)
             \/ CheckFilled
             \/ LoopHandled
             \/ \E w \in Workers : \/ \E d \in Sessions : Hold(w, d)
                                   \/ Release(w)
                                   \/ ReadSocket(w)
                                   \/ SendReturns(w)
             \/ UNCHANGED vars
      PROVE  UNCHANGED <<received, taken, stage>>
  BY <1>9 DEF PartArrives, CheckFilled, LoopHandled, Hold, Release, ReadSocket,
    SendReturns, lifeVars, queueVars, vars
<1> QED
  BY <1>1, <1>3, <1>4, <1>5, <1>6, <1>7, <1>8, <1>9
  DEF Next, LoopStep, WorkerStep

\* However the threads of the application and the loop share the queue, packets
\* leave it each once, in order and while the session is connected.
THEOREM SharingKeepsContract == Spec => KeepsContract
<1>1. Init => \A c \in Sessions : Contract(c)!Init
  BY DEF Init, Contract!Init
<1>2. Inv /\ [Next]_vars =>
        [\A c \in Sessions :
           Contract(c)!Next \/ UNCHANGED Contract(c)!vars]_vars
  BY ContractStep
<1> QED
  BY <1>1, <1>2, SharingInv, PTL DEF Spec, KeepsContract

\* Each variable keeps its type, and no queue holds more than one packet.
THEOREM SharingTypes == Spec => []TypeOK
BY SharingInv, PTL DEF Inv

\* No packet stays in a queue the loop has turned away from.
THEOREM QueueIsDrained == Spec => []NothingLeftBehind
BY SharingInv, PTL DEF Inv

\* An empty queue is handed to onPacketsReady only after another thread's take.
THEOREM EmptyBatchHasTaker == Spec => []EmptyBatchExplained
BY SharingInv, PTL DEF Inv

\* networkInterface leads to the session's peer until the deletion.
THEOREM PointerGoodUntilDeleted == Spec => []SendsReachPeer
BY SharingInv, PTL DEF Inv

\* What left the queue of a session is what was made for it, from the first
\* packet on, and all of it when the application is told of the end.
AllTakenAtTheEnd ==
  \A c \in Sessions :
    /\ \A i \in 1..Len(taken[c]) : taken[c][i] = i
    /\ stage[c] \in {"notified", "gone"} => Len(taken[c]) = received[c]

TakenInOrder ==
  \A c \in Sessions : \A i \in 1..Len(taken[c]) : taken[c][i] = i

LEMMA TakenStep == Inv /\ TakenInOrder /\ [Next]_vars => TakenInOrder'
<1> SUFFICES ASSUME Inv, TakenInOrder, [Next]_vars, NEW c \in Sessions
             PROVE  \A i \in 1..Len(taken'[c]) : taken'[c][i] = i
  BY DEF TakenInOrder
<1>1. taken[c] \in Seq(Nat) /\ Len(taken[c]) \in Nat
  BY DEF Inv, TypeOK
<1>2. ASSUME NEW t \in Threads, NEW d \in Sessions, Drain(t, d)
      PROVE  \A i \in 1..Len(taken'[c]) : taken'[c][i] = i
  <2>1. CASE d # c \/ packetQueue[d] = <<>>
    <3>1. taken'[c] = taken[c]
      BY <1>2, <2>1, DrainEffect
    <3> QED
      BY <3>1 DEF TakenInOrder
  <2>2. CASE d = c /\ packetQueue[c] # <<>>
    <3>1. taken'[c] = Append(taken[c], Len(taken[c]) + 1)
      BY <1>2, <2>2, DrainEffect
    <3>2. /\ Len(taken'[c]) = Len(taken[c]) + 1
          /\ \A i \in 1..Len(taken[c]) : taken'[c][i] = taken[c][i]
          /\ taken'[c][Len(taken[c]) + 1] = Len(taken[c]) + 1
      BY <1>1, <3>1, AppendProperties
    <3>3. \A i \in 1..Len(taken'[c]) : i \in 1..Len(taken[c]) \/ i = Len(taken[c]) + 1
      BY <1>1, <3>2
    <3> QED
      BY <3>2, <3>3 DEF TakenInOrder
  <2> QED
    BY <2>1, <2>2
<1>3. CASE LoopTakes
  <2>1. at[Loop] \in Sessions /\ Drain(Loop, at[Loop]) /\ Loop \in Threads
    BY <1>3 DEF LoopTakes, Inv, Places, Threads
  <2> QED
    BY <1>2, <2>1
<1>4. ASSUME NEW w \in Workers, WorkerTakes(w)
      PROVE  \A i \in 1..Len(taken'[c]) : taken'[c][i] = i
  <2>1. at[w] \in Sessions /\ Drain(w, at[w]) /\ w \in Threads
    BY <1>4, SharingAssumption DEF WorkerTakes, Inv, Places, Threads
  <2> QED
    BY <1>2, <2>1
<1>5. CASE taken' = taken
  BY <1>5 DEF TakenInOrder
<1> QED
  BY <1>3, <1>4, <1>5
  DEF Next, LoopStep, WorkerStep, Connect, PacketArrives, Enqueue, PartArrives,
    CheckFilled, LoopHandled, Notify, Delete, Hold, Release, ReadSocket,
    SendReturns, lifeVars, queueVars, vars

\* When a session disconnects, each packet made for it has been handed out once
\* and in order, to the loop or to a thread of the application: none is deleted
\* with it.
THEOREM NoPacketDeleted == Spec => []AllTakenAtTheEnd
<1>1. Init => TakenInOrder
  BY DEF Init, TakenInOrder
<1>2. Inv /\ TakenInOrder => AllTakenAtTheEnd
  <2> SUFFICES ASSUME Inv, TakenInOrder, NEW c \in Sessions,
                      stage[c] \in {"notified", "gone"}
               PROVE  Len(taken[c]) = received[c]
    BY DEF AllTakenAtTheEnd, TakenInOrder
  <2>1. packetQueue[c] = <<>>
    BY DEF Inv, NothingLeftBehind, Places
  <2> QED
    BY <2>1 DEF Inv, QueueShape
<1> QED
  BY <1>1, <1>2, TakenStep, SharingInv, PTL DEF Spec
=============================================================================
