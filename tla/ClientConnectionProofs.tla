----------------------- MODULE ClientConnectionProofs -----------------------
(***************************************************************************)
(* Theorems about ClientConnection for every value of its constants.       *)
(***************************************************************************)
EXTENDS ClientConnection, SequenceTheorems, TLAPS

(***************************************************************************)
(* Part 1: the counts of the handler, whatever its flag starts with.       *)
(***************************************************************************)
\* The two halves of TypeOK: the provers treat numbers and flags separately.
NumbersOK ==
  /\ frames \in Seq(Frame)
  /\ sent \in Nat /\ received \in 0..sent /\ base \in 0..received
  /\ peer \in {"open", "closed", "reset"}
  /\ total \in {0} \cup HeaderSize..BufferSize
  /\ expectedAmountOfBytes \in 0..(Word - 1)
  /\ delivered \in Seq(PacketEntry)

FlagsOK ==
  /\ headerReceived \in BOOLEAN /\ handlingFinished \in BOOLEAN
  /\ activeFlag \in BOOLEAN /\ alive \in BOOLEAN
  /\ overrun \in BOOLEAN /\ overread \in BOOLEAN

CountInv ==
  /\ TypeOK
  /\ CountsAddUp
  /\ RecvAsksForData
  /\ HeaderOnce
  /\ OverrunOnlyAfterRejection

\* The buffer starts with one of the frames or with none.
LEMMA OriginType ==
  ASSUME NEW k \in Origin
  PROVE  k = 0 \/ (k \in DOMAIN frames /\ frames[k].start = base)
BY DEF Origin, FrameHere

\* decryptHeader returns 0 or a size that fits the buffer.
LEMMA DecryptHeaderRange ==
  ASSUME TypeOK, NEW k \in Origin
  PROVE  DecryptHeader(k) \subseteq {0} \cup HeaderSize..BufferSize
<1>1. CASE k = 0
  BY <1>1 DEF DecryptHeader
<1>2. CASE k # 0
  <2>1. k \in DOMAIN frames
    BY <1>2, OriginType
  <2>2. frames[k] \in Frame
    BY <2>1 DEF TypeOK
  <2>3. frames[k].len \in HeaderSize..BufferSize
    BY <2>2, InputsAssumption DEF Frame
  <2> QED
    BY <1>2, <2>3 DEF DecryptHeader
<1> QED
  BY <1>1, <1>2

(***************************************************************************)
(* What one fragment does to the counts, up to the comparison of           *)
(* expectedAmountOfBytes with 0 in accept.                                 *)
(***************************************************************************)
LEMMA FragmentCounts ==
  ASSUME CountInv, NEW n \in Nat \ {0}, FragmentArrives(n), n <= sent - received,
         Used + n <= BufferSize,
         NEW k \in Origin, NEW t \in TotalAfter(n, k)
  PROVE  /\ t \in {0} \cup HeaderSize..BufferSize
         /\ Remaining(n, t) \in 0..(Word - 1)
         /\ Used + n + Remaining(n, t) = IF t = 0 THEN Word ELSE t
         /\ ~headerReceived /\ ~HeaderCompletes(n) => t = HeaderSize /\ Used + n < HeaderSize
         /\ headerReceived \/ HeaderCompletes(n) => Used + n >= HeaderSize
<1> USE SizesAssumption
<1>1. /\ Used \in Nat /\ Used <= BufferSize
      /\ expectedAmountOfBytes \in 0..(Word - 1) /\ n <= expectedAmountOfBytes
      /\ ~headerReceived => total = HeaderSize
      /\ Used + expectedAmountOfBytes = IF total = 0 THEN Word ELSE total
      /\ total \in {0} \cup HeaderSize..BufferSize
      /\ IF headerReceived THEN Used >= HeaderSize ELSE Used < HeaderSize
  BY DEF CountInv, TypeOK, CountsAddUp, HeaderOnce, FragmentArrives, Served, Defined, Used
<1>2. CASE HeaderCompletes(n)
  <2>1. t \in {0} \cup HeaderSize..BufferSize
    BY <1>2, DecryptHeaderRange DEF TotalAfter, CountInv
  <2>2. Used + n = HeaderSize
    BY <1>2 DEF HeaderCompletes
  <2>3. Remaining(n, t) = IF t = 0 THEN Word - HeaderSize ELSE t - HeaderSize
    BY <1>2, <2>1 DEF Remaining, U16
  <2> QED
    BY <1>1, <1>2, <2>1, <2>2, <2>3
<1>3. CASE ~HeaderCompletes(n)
  <2>1. t = total
    BY <1>3 DEF TotalAfter
  <2>2. Remaining(n, t) = expectedAmountOfBytes - n
    BY <1>1, <1>3 DEF Remaining, U16
  <2>3. ~headerReceived => Used + n < HeaderSize
    BY <1>1, <1>3 DEF HeaderCompletes
  <2> QED
    BY <1>1, <1>3, <2>1, <2>2, <2>3
<1> QED
  BY <1>2, <1>3

LEMMA CountInit == Init => CountInv
<1> SUFFICES ASSUME Init PROVE CountInv
  OBVIOUS
<1> USE SizesAssumption DEF Defined
<1>1. handlingFinished \in BOOLEAN
  BY InputsAssumption DEF Init
<1>2. TypeOK
  <2>1. NumbersOK
    BY DEF Init, NumbersOK
  <2>2. FlagsOK
    BY <1>1 DEF Init, FlagsOK
  <2> QED
    BY <2>1, <2>2 DEF TypeOK, NumbersOK, FlagsOK
<1>3. Used = 0
  BY DEF Init, Used
<1>4. CountsAddUp /\ HeaderOnce
  BY <1>3 DEF Init, CountsAddUp, HeaderOnce
<1> QED
  BY <1>2, <1>4 DEF Init, CountInv, RecvAsksForData, OverrunOnlyAfterRejection, HeaderRejected

LEMMA CountStep == CountInv /\ [Next]_vars => CountInv'
<1> SUFFICES ASSUME CountInv, [Next]_vars PROVE CountInv'
  OBVIOUS
<1> USE SizesAssumption, InputsAssumption DEF Defined
<1>1. ASSUME NEW kind \in Kinds, NEW len \in Lengths, PeerSend(kind, len)
      PROVE  CountInv'
  <2>1. TypeOK'
    BY <1>1 DEF PeerSend, CountInv, TypeOK, Frame, handlerVars, serverVars
  <2> QED
    BY <1>1, <2>1 DEF PeerSend, CountInv, CountsAddUp, RecvAsksForData,
      HeaderOnce, OverrunOnlyAfterRejection, HeaderRejected, Used, handlerVars, serverVars
<1>2. ASSUME PeerLeave PROVE CountInv'
  <2>1. TypeOK'
    BY <1>2 DEF PeerLeave, CountInv, TypeOK, handlerVars, serverVars
  <2> QED
    BY <1>2, <2>1 DEF PeerLeave, CountInv, CountsAddUp, RecvAsksForData,
      HeaderOnce, OverrunOnlyAfterRejection, HeaderRejected, Used, handlerVars, serverVars
<1>3. ASSUME NEW n \in 1..(sent - received), AwaitMore(n) PROVE CountInv'
  <2>1. PICK k \in Origin : \E t \in TotalAfter(n, k) :
          Remaining(n, t) > 0 /\ HandlerAfter(n, t)
    BY <1>3 DEF AwaitMore
  <2>2. PICK t \in TotalAfter(n, k) : Remaining(n, t) > 0 /\ HandlerAfter(n, t)
    BY <2>1
  <2>3. n \in Nat \ {0} /\ n <= sent - received
    BY DEF CountInv, TypeOK
  <2>4. FragmentArrives(n) /\ Used + n <= BufferSize
    BY <1>3 DEF AwaitMore
  <2>5. /\ t \in {0} \cup HeaderSize..BufferSize
        /\ Remaining(n, t) \in 0..(Word - 1)
        /\ Used + n + Remaining(n, t) = IF t = 0 THEN Word ELSE t
        /\ ~headerReceived /\ ~HeaderCompletes(n) => t = HeaderSize /\ Used + n < HeaderSize
        /\ headerReceived \/ HeaderCompletes(n) => Used + n >= HeaderSize
    BY <2>3, <2>4, FragmentCounts
  <2>6. TypeOK'
    BY <1>3, <2>2, <2>3, <2>4, <2>5 DEF AwaitMore, FragmentArrives, HandlerAfter,
      CountInv, TypeOK, peerVars, Served, HeaderCompletes
  <2>7. Used' = Used + n
    BY <1>3, <2>4 DEF AwaitMore, FragmentArrives, Used, CountInv, TypeOK
  <2> QED
    BY <1>3, <2>2, <2>4, <2>5, <2>6, <2>7 DEF AwaitMore, FragmentArrives,
      HandlerAfter, CountInv, CountsAddUp, RecvAsksForData, HeaderOnce,
      OverrunOnlyAfterRejection, HeaderRejected, Served
<1>4. ASSUME NEW n \in 1..(sent - received), PacketQueued(n) PROVE CountInv'
  <2>1. PICK k \in Origin : \E t \in TotalAfter(n, k), ok \in DecryptBuffer(k) :
          delivered' = Append(delivered,
            [frame |-> k, complete |-> Remaining(n, t) = 0,
             verified |-> Remaining(n, t) = 0 /\ ok])
    BY <1>4 DEF PacketQueued
  <2>2. PICK t \in TotalAfter(n, k), ok \in DecryptBuffer(k) :
          delivered' = Append(delivered,
            [frame |-> k, complete |-> Remaining(n, t) = 0,
             verified |-> Remaining(n, t) = 0 /\ ok])
    BY <2>1
  <2>3. k \in Nat
    <3>1. frames \in Seq(Frame)
      BY DEF CountInv, TypeOK
    <3>2. DOMAIN frames \subseteq Nat
      BY <3>1
    <3> QED
      BY <3>2, OriginType
  <2>4. delivered' \in Seq(PacketEntry)
    BY <2>2, <2>3 DEF CountInv, TypeOK, PacketEntry
  <2>5. TypeOK'
    <3>1. NumbersOK'
      BY <1>4, <2>4 DEF PacketQueued, FragmentArrives, HandlerReset, CountInv,
        TypeOK, NumbersOK, peerVars
    <3>2. FlagsOK'
      BY <1>4, InputsAssumption DEF PacketQueued, FragmentArrives,
        HandlerReset, CountInv, TypeOK, FlagsOK
    <3> QED
      BY <3>1, <3>2 DEF TypeOK, NumbersOK, FlagsOK
  <2> QED
    BY <1>4, <2>5 DEF PacketQueued, FragmentArrives, HandlerReset, CountInv,
      TypeOK, CountsAddUp, RecvAsksForData, HeaderOnce,
      OverrunOnlyAfterRejection, HeaderRejected, Served, Used
<1>5. ASSUME NEW n \in 1..(sent - received), PacketRefused(n) PROVE CountInv'
  <2>1. PICK k \in Origin : \E t \in TotalAfter(n, k) : HandlerAfter(n, t)
    BY <1>5 DEF PacketRefused
  <2>2. PICK t \in TotalAfter(n, k) : HandlerAfter(n, t)
    BY <2>1
  <2>3. n \in Nat \ {0} /\ n <= sent - received
    BY DEF CountInv, TypeOK
  <2>4. FragmentArrives(n) /\ Used + n <= BufferSize
    BY <1>5 DEF PacketRefused
  <2>5. /\ t \in {0} \cup HeaderSize..BufferSize
        /\ Remaining(n, t) \in 0..(Word - 1)
        /\ Used + n + Remaining(n, t) = IF t = 0 THEN Word ELSE t
        /\ ~headerReceived /\ ~HeaderCompletes(n) => t = HeaderSize /\ Used + n < HeaderSize
        /\ headerReceived \/ HeaderCompletes(n) => Used + n >= HeaderSize
    BY <2>3, <2>4, FragmentCounts
  <2>6. headerReceived' \in BOOLEAN
    BY <2>2 DEF HandlerAfter, HeaderCompletes, CountInv, TypeOK
  <2>8. TypeOK'
    <3>1. NumbersOK'
      BY <1>5, <2>2, <2>3, <2>4, <2>5 DEF PacketRefused, FragmentArrives,
        HandlerAfter, CountInv, TypeOK, NumbersOK, peerVars
    <3>2. FlagsOK'
      BY <1>5, <2>4, <2>6 DEF PacketRefused, FragmentArrives, CountInv, TypeOK,
        FlagsOK
    <3> QED
      BY <3>1, <3>2 DEF TypeOK, NumbersOK, FlagsOK
  <2>7. Used' = Used + n
    BY <1>5, <2>4 DEF PacketRefused, FragmentArrives, Used, CountInv, TypeOK
  <2> QED
    BY <1>5, <2>2, <2>4, <2>5, <2>7, <2>8 DEF PacketRefused, FragmentArrives,
      HandlerAfter, CountInv, CountsAddUp, RecvAsksForData, HeaderOnce,
      OverrunOnlyAfterRejection, HeaderRejected, Served
<1>6. ASSUME NEW n \in 1..(sent - received), BufferOverrun(n) PROVE CountInv'
  <2>1. TypeOK'
    BY <1>6 DEF BufferOverrun, FragmentArrives, CountInv, TypeOK, peerVars,
      handlerVars
  <2>2. headerReceived /\ total = 0
    BY <1>6 DEF BufferOverrun, FragmentArrives, CountInv, TypeOK, CountsAddUp,
      Served, Used
  <2> QED
    BY <1>6, <2>1, <2>2 DEF BufferOverrun, CountInv, CountsAddUp,
      RecvAsksForData, HeaderOnce, OverrunOnlyAfterRejection, HeaderRejected, handlerVars
<1>10. ASSUME NEW n \in 1..(sent - received), PacketOverread(n) PROVE CountInv'
  <2>1. TypeOK'
    BY <1>10 DEF PacketOverread, FragmentArrives, CountInv, TypeOK, peerVars,
      handlerVars
  <2> QED
    BY <1>10, <2>1 DEF PacketOverread, FragmentArrives, Served, CountInv,
      CountsAddUp, RecvAsksForData, HeaderOnce, OverrunOnlyAfterRejection,
      HeaderRejected, handlerVars
<1>7. ASSUME ReceiveNothing PROVE CountInv'
  BY <1>7 DEF ReceiveNothing, CountInv, TypeOK, CountsAddUp, RecvAsksForData,
    HeaderOnce, OverrunOnlyAfterRejection, HeaderRejected, Used, peerVars, handlerVars
<1>8. ASSUME DropInactive PROVE CountInv'
  BY <1>8 DEF DropInactive, CountInv, TypeOK, CountsAddUp, RecvAsksForData,
    HeaderOnce, OverrunOnlyAfterRejection, HeaderRejected, Used, peerVars, handlerVars
<1>9. ASSUME UNCHANGED vars PROVE CountInv'
  BY <1>9 DEF vars, CountInv, TypeOK, CountsAddUp, RecvAsksForData, HeaderOnce,
    OverrunOnlyAfterRejection, HeaderRejected, Used
<1> QED
  BY <1>1, <1>2, <1>3, <1>4, <1>5, <1>6, <1>7, <1>8, <1>9, <1>10
  DEF Next, PeerStep, ServerStep, ReceiveSome

LEMMA CountAlways == Spec => []CountInv
<1>1. CountInv /\ [Next]_vars => CountInv'
  BY CountStep
<1> QED
  BY <1>1, CountInit, PTL DEF Spec

\* The counts of the handler are right in every reachable state: what has
\* arrived and what recv is asked for make up one message, the header is
\* decrypted when it is complete, and a fragment exceeds the buffer only
\* after a header was rejected.
THEOREM CountsCorrect ==
  Spec => [](TypeOK /\ CountsAddUp /\ HeaderOnce /\ OverrunOnlyAfterRejection)
<1>1. CountInv => TypeOK /\ CountsAddUp /\ HeaderOnce /\ OverrunOnlyAfterRejection
  BY DEF CountInv
<1> QED
  BY <1>1, CountAlways, PTL

\* Each variable keeps its type.
THEOREM PathTypes == Spec => []TypeOK
  BY CountsCorrect, PTL

\* A header is decrypted when it is complete, and not again.
THEOREM HeaderDecryptedOnce == Spec => []HeaderOnce
  BY CountsCorrect, PTL

\* A legal header keeps its message within the buffer.
THEOREM BufferKept == Spec => []OverrunOnlyAfterRejection
  BY CountsCorrect, PTL

\* A client that is served is never asked for nothing, so that recv returns 0
\* only at the end of its stream.
THEOREM ServedIsAsked == Spec => []RecvAsksForData
<1>1. CountInv => RecvAsksForData
  BY DEF CountInv
<1> QED
  BY <1>1, CountAlways, PTL

(***************************************************************************)
(* Part 2: a handler whose flag starts FALSE keeps step with the frames.   *)
(* The strengthening says where the frames lie in the stream, that the     *)
(* length of the message in hand is that of the next frame, and that a     *)
(* finished handler belongs to a client no longer served.                  *)
(***************************************************************************)

\* The frames lie one after the other, and the peer has put a prefix of them on
\* the wire.
FramesAdjacent == \A i \in 1..Len(frames) : frames[i].start = StartOf(i)
FramesApart ==
  \A i, j \in 1..Len(frames) : i < j => EndOf(i) <= frames[j].start
SentFrames ==
  LET posted == StartOf(Len(frames) + 1)
  IN  sent <= posted /\ (peer = "open" => sent = posted)

\* The header in hand is that of the next frame to deliver.
HeaderOfFrame ==
  headerReceived /\ total # 0 =>
    /\ Len(delivered) < Len(frames)
    /\ total = frames[Len(delivered) + 1].len
    /\ frames[Len(delivered) + 1].kind # "missized"

FlagStopsServing == handlingFinished => ~activeFlag

StepInv ==
  /\ CountInv
  /\ FramesAdjacent
  /\ FramesApart
  /\ SentFrames
  /\ Len(delivered) <= Len(frames)
  /\ InStep
  /\ HeaderOfFrame
  /\ FlagStopsServing
  /\ DeliveredInOrder

LEMMA StepInit == ASSUME FreshFlag = {FALSE} PROVE Init => StepInv
<1> SUFFICES ASSUME Init PROVE StepInv
  OBVIOUS
<1>1. CountInv
  BY CountInit
<1>2. Len(frames) = 0 /\ Len(delivered) = 0
  BY DEF Init
<1>3. FramesAdjacent /\ FramesApart /\ DeliveredInOrder
  BY <1>2 DEF Init, FramesAdjacent, FramesApart, DeliveredInOrder
<1>4. SentFrames /\ InStep
  BY <1>2 DEF Init, SentFrames, InStep, StartOf
<1>5. HeaderOfFrame /\ FlagStopsServing
  BY DEF Init, HeaderOfFrame, FlagStopsServing
<1> QED
  BY <1>1, <1>2, <1>3, <1>4, <1>5 DEF StepInv

LEMMA FrameNumbers ==
  ASSUME frames \in Seq(Frame), NEW i \in 1..Len(frames)
  PROVE  /\ frames[i].start \in Nat
         /\ frames[i].len \in HeaderSize..BufferSize
         /\ frames[i].len \in Nat /\ frames[i].len > 0
<1>1. frames[i] \in Frame
  OBVIOUS
<1>2. frames[i].start \in Nat /\ frames[i].len \in Lengths
  BY <1>1 DEF Frame
<1>3. frames[i].len \in HeaderSize..BufferSize
  BY <1>2, InputsAssumption
<1> QED
  BY <1>2, <1>3, SizesAssumption

\* When bytes arrive there is a frame they belong to, and it is the only one
\* that starts where the buffer does.
LEMMA NextFrameHere ==
  ASSUME StepInv, received < sent
  PROVE  /\ Len(delivered) + 1 \in 1..Len(frames)
         /\ Origin = {Len(delivered) + 1}
<1> DEFINE d == Len(delivered) + 1
<1>1. /\ frames \in Seq(Frame) /\ delivered \in Seq(PacketEntry)
      /\ sent \in Nat /\ received \in Nat /\ base \in Nat /\ base <= received
  BY DEF StepInv, CountInv, TypeOK
<1>2. Len(frames) \in Nat /\ Len(delivered) \in Nat
  BY <1>1
<1>3. \A i \in 1..Len(frames) :
        frames[i].start \in Nat /\ frames[i].len \in Nat /\ frames[i].len > 0
  BY <1>1, FrameNumbers
<1>4. d \in 1..Len(frames)
  <2>1. CASE Len(delivered) = Len(frames)
    <3>1. base = StartOf(Len(frames) + 1) /\ sent <= StartOf(Len(frames) + 1)
      BY <2>1 DEF StepInv, InStep, SentFrames
    <3> QED
      BY <3>1, <1>1
  <2>2. CASE Len(delivered) < Len(frames)
    BY <1>2, <2>2
  <2> QED
    BY <1>2, <2>1, <2>2 DEF StepInv
<1>5. frames[d].start = base
  BY <1>4 DEF StepInv, FramesAdjacent, InStep
<1>6. ASSUME NEW i \in 1..Len(frames), i # d PROVE frames[i].start # base
  <2>1. CASE i < d
    <3>1. EndOf(i) <= frames[d].start
      BY <1>4, <2>1 DEF StepInv, FramesApart
    <3> QED
      BY <1>3, <1>4, <1>5, <3>1 DEF EndOf
  <2>2. CASE d < i
    <3>1. EndOf(d) <= frames[i].start
      BY <1>4, <2>2 DEF StepInv, FramesApart
    <3> QED
      BY <1>3, <1>4, <1>5, <3>1 DEF EndOf
  <2> QED
    BY <1>2, <1>6, <2>1, <2>2
<1>7. FrameHere = {d}
  BY <1>1, <1>4, <1>5, <1>6 DEF FrameHere
<1> QED
  BY <1>4, <1>7 DEF Origin

\* The frames stay where they are: what the invariant says of them needs a look
\* only when the peer sends.
LEMMA SendKeepsStep ==
  ASSUME StepInv, CountInv', NEW kind \in Kinds, NEW len \in Lengths,
         PeerSend(kind, len)
  PROVE  StepInv'
<1> DEFINE new == [kind |-> kind, len |-> len, start |-> sent]
<1>0. PICK N \in Nat : N = Len(frames)
  BY DEF StepInv, CountInv, TypeOK
<1>1. /\ frames \in Seq(Frame) /\ delivered \in Seq(PacketEntry) /\ sent \in Nat
      /\ N = Len(frames) /\ Len(delivered) \in Nat /\ Len(delivered) <= N
      /\ len \in Nat
  BY <1>0, SizesAssumption, InputsAssumption DEF StepInv, CountInv, TypeOK
<1>2. \A i \in 1..N : frames[i].start \in Nat /\ frames[i].len \in Nat /\ frames[i].len > 0
  BY <1>1, FrameNumbers
<1>3. /\ frames' = Append(frames, new) /\ sent' = sent + len
      /\ UNCHANGED <<peer, received, base, total, expectedAmountOfBytes,
                     headerReceived, handlingFinished, delivered, activeFlag>>
      /\ peer = "open"
  BY DEF PeerSend, handlerVars, serverVars
<1>4. /\ Len(frames') = N + 1
      /\ \A i \in 1..N : frames'[i] = frames[i]
      /\ frames'[N + 1] = new
  <2>1. new \in Frame
    BY <1>1 DEF Frame
  <2> QED
    BY <1>1, <1>3, <2>1, AppendProperties
<1>5. /\ \A i \in 1..N : EndOf(i)' = EndOf(i)
      /\ EndOf(N + 1)' = sent + len
  BY <1>4 DEF EndOf
<1>6. \A i \in 1..(N + 1) : StartOf(i)' = StartOf(i)
  BY <1>1, <1>5 DEF StartOf
<1>7. sent = StartOf(N + 1)
  BY <1>1, <1>3 DEF StepInv, SentFrames
<1>8. FramesAdjacent'
  <2>1. \A i \in 1..N : frames'[i].start = StartOf(i)'
    BY <1>1, <1>4, <1>6 DEF StepInv, FramesAdjacent
  <2>2. frames'[N + 1].start = StartOf(N + 1)'
    BY <1>1, <1>4, <1>6, <1>7
  <2> QED
    BY <1>1, <1>4, <2>1, <2>2 DEF FramesAdjacent
<1>9. FramesApart'
  <2>1. \A i \in 1..N : EndOf(i) <= sent
    <3>1. CASE N = 0
      BY <3>1
    <3>2. CASE N > 0
      <4>1. sent = EndOf(N)
        BY <1>1, <1>7, <3>2 DEF StartOf
      <4>2. \A i \in 1..N : i < N => EndOf(i) <= frames[N].start
        BY <1>1, <3>2 DEF StepInv, FramesApart
      <4>3. frames[N].start <= sent
        BY <1>2, <3>2, <4>1 DEF EndOf
      <4>4. ASSUME NEW i \in 1..N PROVE EndOf(i) <= sent
        <5>1. CASE i = N
          BY <1>1, <4>1, <5>1
        <5>2. CASE i < N
          <6>1. EndOf(i) <= frames[N].start /\ EndOf(i) \in Nat
            BY <1>2, <4>2, <5>2 DEF EndOf
          <6> QED
            BY <1>1, <1>2, <3>2, <4>3, <6>1
        <5> QED
          BY <5>1, <5>2
      <4> QED
        BY <4>4
    <3> QED
      BY <1>1, <3>1, <3>2
  <2>2. \A i, j \in 1..N : i < j => EndOf(i)' <= frames'[j].start
    BY <1>1, <1>4, <1>5 DEF StepInv, FramesApart
  <2>3. \A i \in 1..N : EndOf(i)' <= frames'[N + 1].start
    BY <1>4, <1>5, <2>1
  <2>4. ASSUME NEW i \in 1..(N + 1), NEW j \in 1..(N + 1), i < j
        PROVE  EndOf(i)' <= frames'[j].start
    <3>1. CASE j \in 1..N
      BY <2>2, <2>4, <3>1
    <3>2. CASE j = N + 1
      BY <2>3, <2>4, <3>2
    <3> QED
      BY <3>1, <3>2
  <2> QED
    BY <1>4, <2>4 DEF FramesApart
<1>10. SentFrames'
  <2>1. StartOf(N + 2)' = sent + len
    BY <1>1, <1>5 DEF StartOf
  <2>2. StartOf(Len(frames) + 1)' = sent'
    BY <1>1, <1>3, <1>4, <2>1
  <2>3. sent' \in Nat
    BY DEF CountInv, TypeOK
  <2> QED
    BY <2>2, <2>3 DEF SentFrames
<1>11. InStep'
  <2>1. InStep /\ Len(delivered) + 1 \in 1..(N + 1)
    BY <1>1 DEF StepInv
  <2>2. StartOf(Len(delivered) + 1)' = StartOf(Len(delivered) + 1)
    BY <1>3, <1>6, <2>1
  <2> QED
    BY <1>3, <2>1, <2>2 DEF InStep
<1>12. HeaderOfFrame'
  BY <1>1, <1>3, <1>4 DEF StepInv, HeaderOfFrame
<1>13. FlagStopsServing' /\ DeliveredInOrder' /\ Len(delivered') <= Len(frames')
  BY <1>1, <1>3, <1>4 DEF StepInv, FlagStopsServing, DeliveredInOrder
<1> QED
  BY <1>8, <1>9, <1>10, <1>11, <1>12, <1>13 DEF StepInv

\* A step that leaves the frames and the packets alone keeps what relates them.
LEMMA SameFrames ==
  ASSUME StepInv, UNCHANGED <<frames, delivered, base>>,
         sent' = sent \/ sent' \in received..sent,
         peer' = peer \/ peer' # "open", sent' # sent => peer' # "open"
  PROVE  /\ FramesAdjacent' /\ FramesApart' /\ SentFrames'
         /\ Len(delivered') <= Len(frames') /\ InStep' /\ DeliveredInOrder'
<1>1. \A i : EndOf(i)' = EndOf(i)
  BY DEF EndOf
<1>2. \A i : StartOf(i)' = StartOf(i)
  BY <1>1 DEF StartOf
<1>3. FramesAdjacent' /\ FramesApart' /\ Len(delivered') <= Len(frames')
  BY <1>1, <1>2 DEF StepInv, FramesAdjacent, FramesApart
<1>4. InStep' /\ DeliveredInOrder'
  BY <1>2 DEF StepInv, InStep, DeliveredInOrder
<1>5. SentFrames'
  <2>1. /\ sent \in Nat /\ received \in Nat
        /\ StartOf(Len(frames) + 1)' = StartOf(Len(frames) + 1)
        /\ SentFrames
    BY <1>2 DEF StepInv, CountInv, TypeOK
  <2>2. StartOf(Len(frames) + 1) \in Nat
    <3>1. frames \in Seq(Frame) /\ Len(frames) \in Nat
      BY DEF StepInv, CountInv, TypeOK
    <3>2. \A i \in 1..Len(frames) : EndOf(i) \in Nat
      BY <3>1, FrameNumbers DEF EndOf
    <3> QED
      BY <3>1, <3>2 DEF StartOf
  <2> QED
    BY <2>1, <2>2 DEF SentFrames
<1> QED
  BY <1>3, <1>4, <1>5

\* A fragment that arrives is one of the next frame's, and the length the header
\* gave, if it is known and was not rejected, is that frame's and a legal one.
LEMMA FragmentOfFrame ==
  ASSUME StepInv, NEW n \in 1..(sent - received), FragmentArrives(n),
         NEW k \in Origin, NEW t \in TotalAfter(n, k)
  PROVE  /\ Len(delivered) + 1 \in 1..Len(frames) /\ k = Len(delivered) + 1
         /\ n \in Nat \ {0} /\ n <= sent - received
         /\ ~handlingFinished
         /\ (headerReceived \/ HeaderCompletes(n)) /\ t # 0 =>
              t = frames[k].len /\ frames[k].kind # "missized"
<1>1. n \in Nat \ {0} /\ n <= sent - received /\ received < sent
  BY DEF StepInv, CountInv, TypeOK
<1>2. Len(delivered) + 1 \in 1..Len(frames) /\ k = Len(delivered) + 1
  BY <1>1, NextFrameHere
<1>3. ~handlingFinished
  BY DEF StepInv, FlagStopsServing, FragmentArrives, Served
<1>4. ASSUME HeaderCompletes(n), t # 0
      PROVE  t = frames[k].len /\ frames[k].kind # "missized"
  <2>1. t \in DecryptHeader(k) /\ k # 0
    BY <1>2, <1>4 DEF TotalAfter
  <2> QED
    BY <1>4, <2>1 DEF DecryptHeader
<1>5. ASSUME headerReceived, ~HeaderCompletes(n), t # 0
      PROVE  t = frames[k].len /\ frames[k].kind # "missized"
  BY <1>2, <1>5 DEF TotalAfter, StepInv, HeaderOfFrame
<1> QED
  BY <1>1, <1>2, <1>3, <1>4, <1>5

LEMMA AwaitKeepsStep ==
  ASSUME StepInv, CountInv', NEW n \in 1..(sent - received), AwaitMore(n)
  PROVE  StepInv'
<1>1. PICK k \in Origin : \E t \in TotalAfter(n, k) : HandlerAfter(n, t)
  BY DEF AwaitMore
<1>2. PICK t \in TotalAfter(n, k) : HandlerAfter(n, t)
  BY <1>1
<1>3. /\ FragmentArrives(n)
      /\ UNCHANGED <<frames, sent, peer, delivered, base, handlingFinished>>
  BY DEF AwaitMore, FragmentArrives, peerVars
<1>4. /\ FramesAdjacent' /\ FramesApart' /\ SentFrames'
      /\ Len(delivered') <= Len(frames') /\ InStep' /\ DeliveredInOrder'
  BY <1>3, SameFrames
<1>5. HeaderOfFrame'
  BY <1>2, <1>3, FragmentOfFrame DEF HeaderOfFrame, HandlerAfter, StepInv,
    CountInv, TypeOK
<1>6. FlagStopsServing'
  BY <1>1, <1>2, <1>3, FragmentOfFrame DEF FlagStopsServing
<1> QED
  BY <1>4, <1>5, <1>6 DEF StepInv

LEMMA RefuseKeepsStep ==
  ASSUME StepInv, CountInv', NEW n \in 1..(sent - received), PacketRefused(n)
  PROVE  StepInv'
<1>1. PICK k \in Origin : \E t \in TotalAfter(n, k) : HandlerAfter(n, t)
  BY DEF PacketRefused
<1>2. PICK t \in TotalAfter(n, k) : HandlerAfter(n, t)
  BY <1>1
<1>3. FragmentArrives(n) /\ UNCHANGED <<frames, sent, peer, delivered, base>>
  BY DEF PacketRefused, FragmentArrives, peerVars
<1>4. /\ FramesAdjacent' /\ FramesApart' /\ SentFrames'
      /\ Len(delivered') <= Len(frames') /\ InStep' /\ DeliveredInOrder'
  BY <1>3, SameFrames
<1>5. HeaderOfFrame'
  BY <1>2, <1>3, FragmentOfFrame DEF HeaderOfFrame, HandlerAfter, StepInv,
    CountInv, TypeOK
<1>6. FlagStopsServing'
  BY DEF FlagStopsServing, PacketRefused
<1> QED
  BY <1>4, <1>5, <1>6 DEF StepInv

\* A packet is made of one whole frame, the next one, and the buffer is then at
\* the frame after it.
LEMMA QueuedIsNextFrame ==
  ASSUME StepInv, NEW n \in 1..(sent - received), PacketQueued(n)
  PROVE  /\ Len(delivered) + 1 \in 1..Len(frames)
         /\ base' = EndOf(Len(delivered) + 1)
         /\ ~HeaderRejected
         /\ \E ok \in BOOLEAN :
              delivered' = Append(delivered, [frame |-> Len(delivered) + 1,
                                              complete |-> TRUE, verified |-> ok])
<1>1. PICK k \in Origin : \E t \in TotalAfter(n, k), ok \in DecryptBuffer(k) :
        /\ Remaining(n, t) = 0 \/ handlingFinished
        /\ delivered' = Append(delivered,
            [frame |-> k, complete |-> Remaining(n, t) = 0,
             verified |-> Remaining(n, t) = 0 /\ ok])
  BY DEF PacketQueued
<1>2. PICK t \in TotalAfter(n, k), ok \in DecryptBuffer(k) :
        /\ Remaining(n, t) = 0 \/ handlingFinished
        /\ delivered' = Append(delivered,
            [frame |-> k, complete |-> Remaining(n, t) = 0,
             verified |-> Remaining(n, t) = 0 /\ ok])
  BY <1>1
<1>3. FragmentArrives(n) /\ Used + n <= BufferSize /\ base' = received + n
  BY DEF PacketQueued, HandlerReset
<1>4. /\ Len(delivered) + 1 \in 1..Len(frames) /\ k = Len(delivered) + 1
      /\ n \in Nat \ {0} /\ n <= sent - received
      /\ ~handlingFinished
      /\ (headerReceived \/ HeaderCompletes(n)) /\ t # 0 => t = frames[k].len
  BY <1>3, FragmentOfFrame
<1>5. Remaining(n, t) = 0
  BY <1>2, <1>4
<1>6. /\ t \in {0} \cup HeaderSize..BufferSize
      /\ Used + n + Remaining(n, t) = IF t = 0 THEN Word ELSE t
      /\ ~headerReceived /\ ~HeaderCompletes(n) => t = HeaderSize /\ Used + n < HeaderSize
  BY <1>3, <1>4, FragmentCounts DEF StepInv
<1>7. received \in Nat /\ base \in Nat
  BY DEF StepInv, CountInv, TypeOK
<1>8. Used + n = t /\ t # 0
  BY <1>3, <1>4, <1>5, <1>6, <1>7, SizesAssumption DEF Used
<1>9. t = frames[k].len
  BY <1>4, <1>6, <1>8, SizesAssumption
<1>10. base = frames[k].start
  BY <1>4 DEF StepInv, InStep, FramesAdjacent
<1>11. base' = EndOf(k)
  BY <1>3, <1>4, <1>7, <1>8, <1>9, <1>10 DEF EndOf, Used
<1>12. (Remaining(n, t) = 0 /\ ok) \in BOOLEAN
  OBVIOUS
<1>13. delivered' = Append(delivered, [frame |-> k, complete |-> TRUE,
                                       verified |-> Remaining(n, t) = 0 /\ ok])
  BY <1>2, <1>5
<1>14. ~HeaderRejected
  BY <1>8 DEF HeaderRejected, TotalAfter, HeaderCompletes
<1> QED
  BY <1>4, <1>11, <1>12, <1>13, <1>14

LEMMA QueueKeepsStep ==
  ASSUME StepInv, CountInv', NEW n \in 1..(sent - received), PacketQueued(n)
  PROVE  StepInv'
<1>0. PICK d \in Nat : d = Len(delivered)
  BY DEF StepInv, CountInv, TypeOK
<1>1. /\ d + 1 \in 1..Len(frames)
      /\ base' = EndOf(d + 1)
      /\ \E ok \in BOOLEAN :
           delivered' = Append(delivered, [frame |-> d + 1,
                                           complete |-> TRUE, verified |-> ok])
  BY <1>0, QueuedIsNextFrame
<1>2. PICK ok \in BOOLEAN :
        delivered' = Append(delivered, [frame |-> d + 1,
                                        complete |-> TRUE, verified |-> ok])
  BY <1>1
<1>3. delivered \in Seq(PacketEntry) /\ frames \in Seq(Frame)
  BY DEF StepInv, CountInv, TypeOK
<1>4. /\ Len(delivered') = d + 1
      /\ \A i \in 1..d : delivered'[i] = delivered[i]
      /\ delivered'[d + 1] = [frame |-> d + 1, complete |-> TRUE, verified |-> ok]
  <2>1. [frame |-> d + 1, complete |-> TRUE, verified |-> ok] \in PacketEntry
    BY <1>0 DEF PacketEntry
  <2> QED
    BY <1>0, <1>2, <1>3, <2>1, AppendProperties
<1>5. /\ UNCHANGED <<frames, sent, peer>>
      /\ headerReceived' = FALSE /\ handlingFinished' = FALSE
  BY DEF PacketQueued, FragmentArrives, HandlerReset, peerVars
<1>6. /\ \A i : EndOf(i)' = EndOf(i)
      /\ \A i : StartOf(i)' = StartOf(i)
  BY <1>5 DEF EndOf, StartOf
<1>7. FramesAdjacent' /\ FramesApart' /\ SentFrames'
  <2>1. StartOf(Len(frames) + 1)' = StartOf(Len(frames) + 1)
    BY <1>5, <1>6
  <2> QED
    BY <1>5, <1>6, <2>1 DEF StepInv, FramesAdjacent, FramesApart, SentFrames
<1>8. InStep'
  <2>1. StartOf(Len(delivered) + 1)' = StartOf(d + 2)
    BY <1>4, <1>5, <1>6
  <2>2. StartOf(d + 2) = EndOf(d + 1)
    BY DEF StartOf
  <2> QED
    BY <1>1, <2>1, <2>2 DEF InStep
<1>9. DeliveredInOrder'
  <2>1. DOMAIN delivered' = 1..(d + 1) /\ DOMAIN delivered = 1..d
    <3>1. delivered' \in Seq(PacketEntry)
      BY DEF CountInv, TypeOK
    <3> QED
      BY <1>0, <1>3, <1>4, <3>1
  <2>2. \A i \in 1..d : delivered'[i].frame = i /\ delivered'[i].complete
    BY <1>4, <2>1 DEF StepInv, DeliveredInOrder
  <2>3. delivered'[d + 1].frame = d + 1 /\ delivered'[d + 1].complete
    BY <1>4
  <2>4. \A i \in 1..(d + 1) : i \in 1..d \/ i = d + 1
    OBVIOUS
  <2> QED
    BY <2>1, <2>2, <2>3, <2>4 DEF DeliveredInOrder
<1> QED
  BY <1>1, <1>4, <1>5, <1>7, <1>8, <1>9
  DEF StepInv, HeaderOfFrame, FlagStopsServing

LEMMA StepStep == StepInv /\ [Next]_vars => StepInv'
<1> SUFFICES ASSUME StepInv, [Next]_vars PROVE StepInv'
  OBVIOUS
<1>0. CountInv'
  BY CountStep DEF StepInv
<1>1. ASSUME NEW kind \in Kinds, NEW len \in Lengths, PeerSend(kind, len)
      PROVE  StepInv'
  BY <1>0, <1>1, SendKeepsStep
<1>2. ASSUME NEW n \in 1..(sent - received), AwaitMore(n) PROVE StepInv'
  BY <1>0, <1>2, AwaitKeepsStep
<1>3. ASSUME NEW n \in 1..(sent - received), PacketQueued(n) PROVE StepInv'
  BY <1>0, <1>3, QueueKeepsStep
<1>4. ASSUME NEW n \in 1..(sent - received), PacketRefused(n) PROVE StepInv'
  BY <1>0, <1>4, RefuseKeepsStep
<1>5. ASSUME \/ PeerLeave
             \/ \E n \in 1..(sent - received) :
                  PacketOverread(n) \/ BufferOverrun(n)
             \/ ReceiveNothing
             \/ DropInactive
             \/ UNCHANGED vars
      PROVE  StepInv'
  <2>1. /\ UNCHANGED <<frames, delivered, base, total, headerReceived,
                       handlingFinished>>
        /\ sent' = sent \/ sent' \in received..sent
        /\ peer' = peer \/ peer' # "open"
        /\ sent' # sent => peer' # "open"
        /\ activeFlag' = activeFlag \/ activeFlag' = FALSE
    BY <1>5 DEF PeerLeave, PacketOverread, BufferOverrun, FragmentArrives, ReceiveNothing,
      DropInactive, vars, peerVars, handlerVars, serverVars
  <2>2. /\ FramesAdjacent' /\ FramesApart' /\ SentFrames'
        /\ Len(delivered') <= Len(frames') /\ InStep' /\ DeliveredInOrder'
    BY <2>1, SameFrames
  <2>3. HeaderOfFrame' /\ FlagStopsServing'
    BY <2>1 DEF StepInv, HeaderOfFrame, FlagStopsServing
  <2> QED
    BY <1>0, <2>2, <2>3 DEF StepInv
<1> QED
  BY <1>1, <1>2, <1>3, <1>4, <1>5
  DEF Next, PeerStep, ServerStep, ReceiveSome

LEMMA StepAlways ==
  ASSUME FreshFlag = {FALSE}
  PROVE  Spec => []StepInv
<1>1. Init => StepInv
  BY StepInit
<1>2. StepInv /\ [Next]_vars => StepInv'
  BY StepStep
<1> QED
  BY <1>1, <1>2, PTL DEF Spec

\* With the flag initialised, the receive buffer always starts where the frame
\* after the last one delivered does, however the stream was cut into fragments:
\* the handler's counts never run ahead of the frames nor behind them.
THEOREM BufferInStep ==
  ASSUME FreshFlag = {FALSE}
  PROVE  Spec => []InStep
<1>1. StepInv => InStep
  BY DEF StepInv
<1>2. Spec => []StepInv
  BY StepAlways
<1> QED
  BY <1>1, <1>2, PTL

\* With the flag initialised, the packets handed to the application are the
\* frames the peer sent, whole and in order.
THEOREM FramesInOrder ==
  ASSUME FreshFlag = {FALSE}
  PROVE  Spec => []DeliveredInOrder
<1>1. StepInv => DeliveredInOrder
  BY DEF StepInv
<1>2. Spec => []StepInv
  BY StepAlways
<1> QED
  BY <1>1, <1>2, PTL

\* The handler reports a finished message without a packet only for a frame of a
\* legal length that is damaged or of no known command.
LEMMA RefusalHasCause ==
  ASSUME StepInv, NEW n \in 1..(sent - received), PacketRefused(n)
  PROVE  \E k \in FrameHere : frames[k].kind \in {"unknown", "damaged"}
<1>1. PICK k \in Origin : \E t \in TotalAfter(n, k) :
        /\ Remaining(n, t) = 0 \/ handlingFinished
        /\ FALSE \in Registered(k, Remaining(n, t) = 0)
  BY DEF PacketRefused
<1>2. PICK t \in TotalAfter(n, k) :
        /\ Remaining(n, t) = 0 \/ handlingFinished
        /\ FALSE \in Registered(k, Remaining(n, t) = 0)
  BY <1>1
<1>3. FragmentArrives(n) /\ Used + n <= BufferSize
  BY DEF PacketRefused
<1>4. /\ Len(delivered) + 1 \in 1..Len(frames) /\ k = Len(delivered) + 1
      /\ n \in Nat \ {0} /\ n <= sent - received
      /\ ~handlingFinished
      /\ (headerReceived \/ HeaderCompletes(n)) /\ t # 0 =>
           t = frames[k].len /\ frames[k].kind # "missized"
  BY <1>3, FragmentOfFrame
<1>5. Remaining(n, t) = 0
  BY <1>2, <1>4
<1>6. /\ t \in {0} \cup HeaderSize..BufferSize
      /\ Used + n + Remaining(n, t) = IF t = 0 THEN Word ELSE t
      /\ ~headerReceived /\ ~HeaderCompletes(n) => t = HeaderSize /\ Used + n < HeaderSize
  BY <1>3, <1>4, FragmentCounts DEF StepInv
<1>7. received \in Nat /\ base \in Nat /\ received < sent /\ base <= received
  BY <1>4 DEF StepInv, CountInv, TypeOK
<1>8. Used + n = t /\ t # 0
  BY <1>3, <1>4, <1>5, <1>6, <1>7, SizesAssumption DEF Used
<1>9. frames[k].kind # "missized"
  BY <1>4, <1>6, <1>8, SizesAssumption
<1>10. frames[k].kind \in Kinds
  <2>1. frames \in Seq(Frame) /\ k \in 1..Len(frames)
    BY <1>4 DEF StepInv, CountInv, TypeOK
  <2>2. frames[k] \in Frame
    BY <2>1
  <2> QED
    BY <2>2 DEF Frame
<1>11. frames[k].kind # "good"
  <2> SUFFICES ASSUME frames[k].kind = "good"
               PROVE  FALSE
    OBVIOUS
  <2>1. Len(delivered) \in Nat
    BY DEF StepInv, CountInv, TypeOK
  <2>2. k # 0
    BY <1>4, <2>1
  <2>3. (Remaining(n, t) = 0) = TRUE
    BY <1>5
  <2>4. Registered(k, TRUE) = {TRUE}
    BY <2>2 DEF Registered
  <2> QED
    BY <1>2, <2>3, <2>4
<1>12. k \in FrameHere
  BY <1>1, <1>4, <1>7 DEF Origin
<1> QED
  BY <1>9, <1>10, <1>11, <1>12, InputsAssumption DEF FrameKinds

\* A client the application did not refuse a packet of, whose peer is there and
\* sent nothing but packets, is served on.
THEOREM ServiceEndsForCause ==
  ASSUME FreshFlag = {FALSE}
  PROVE  Spec => StopHasCause
<1> DEFINE Cause == \/ peer # "open"
                    \/ \E k \in FrameHere : frames[k].kind \in {"unknown", "damaged"}
                    \/ Len(delivered') = Len(delivered) + 1
<1>1. StepInv /\ [Next]_vars => [activeFlag /\ ~activeFlag' => Cause]_vars
  <2> SUFFICES ASSUME StepInv, Next, activeFlag, ~activeFlag'
               PROVE  Cause
    OBVIOUS
  <2>1. ASSUME NEW n \in 1..(sent - received), PacketQueued(n)
        PROVE  Cause
    <3>1. PICK ok \in BOOLEAN :
            delivered' = Append(delivered, [frame |-> Len(delivered) + 1,
                                            complete |-> TRUE, verified |-> ok])
      BY <2>1, QueuedIsNextFrame
    <3> QED
      BY <3>1 DEF StepInv, CountInv, TypeOK
  <2>2. ASSUME NEW n \in 1..(sent - received), PacketRefused(n)
        PROVE  Cause
    BY <2>2, RefusalHasCause
  <2>3. CASE ReceiveNothing
    BY <2>3, SizesAssumption
    DEF ReceiveNothing, RecvGivesNothing, StepInv, CountInv, TypeOK, RecvAsksForData
  <2>4. ASSUME NEW kind \in Kinds, NEW len \in Lengths, PeerSend(kind, len)
        PROVE  FALSE
    BY <2>4 DEF PeerSend, serverVars
  <2>5. ASSUME \/ PeerLeave
               \/ \E n \in 1..(sent - received) :
                    AwaitMore(n) \/ PacketOverread(n) \/ BufferOverrun(n)
               \/ DropInactive
        PROVE  FALSE
    BY <2>5 DEF PeerLeave, AwaitMore, PacketOverread, BufferOverrun, DropInactive,
      serverVars
  <2> QED
    BY <2>1, <2>2, <2>3, <2>4, <2>5 DEF Next, PeerStep, ServerStep, ReceiveSome
<1>2. Init => StepInv
  BY StepInit
<1>3. StepInv /\ [Next]_vars => StepInv'
  BY StepStep
<1> QED
  BY <1>1, <1>2, <1>3, PTL DEF Spec, StopHasCause

(***************************************************************************)
(* Part 3: the path implements PacketDelivery.                             *)
(***************************************************************************)
LEMMA HandedNumbers ==
  ASSUME NEW s \in Seq(PacketEntry)
  PROVE  LET h == [i \in DOMAIN s |-> s[i].frame]
         IN  /\ h \in Seq(Nat) /\ Len(h) = Len(s)
             /\ \A i \in 1..Len(s) : h[i] = s[i].frame
<1> DEFINE h == [i \in DOMAIN s |-> s[i].frame]
<1>1. Len(s) \in Nat /\ DOMAIN s = 1..Len(s)
  OBVIOUS
<1>2. \A i \in 1..Len(s) : s[i].frame \in Nat
  <2>1. \A i \in 1..Len(s) : s[i] \in PacketEntry
    OBVIOUS
  <2> QED
    BY <2>1 DEF PacketEntry
<1>3. h \in [1..Len(s) -> Nat]
  BY <1>1, <1>2
<1>4. h \in Seq(Nat)
  BY <1>1, <1>3
<1>5. Len(h) = Len(s)
  BY <1>1, <1>3, <1>4
<1> QED
  BY <1>1, <1>4, <1>5

LEMMA ContractInit == Init => Contract!Init
<1> SUFFICES ASSUME Init PROVE Contract!Init
  OBVIOUS
<1>1. Len(frames) = 0 /\ Handed = <<>> /\ Serving = TRUE
  BY DEF Init, Handed, Serving
<1> QED
  BY <1>1 DEF Init, Contract!Init, HeaderRejected

\* A handler that has all it asked for was given a size that was accepted.
LEMMA FinishedNotRejected ==
  ASSUME StepInv, NEW n \in 1..(sent - received), FragmentArrives(n),
         Used + n <= BufferSize,
         NEW k \in Origin, NEW t \in TotalAfter(n, k), Remaining(n, t) = 0
  PROVE  t # 0 /\ ~HeaderRejected
<1>1. n \in Nat \ {0} /\ n <= sent - received
  BY FragmentOfFrame
<1>2. Used + n + Remaining(n, t) = IF t = 0 THEN Word ELSE t
  BY <1>1, FragmentCounts DEF StepInv
<1>3. Used + n \in Nat
  BY <1>1 DEF Used, StepInv, CountInv, TypeOK
<1>4. t # 0
  BY <1>2, <1>3, SizesAssumption
<1>5. ~HeaderRejected
  BY <1>4 DEF HeaderRejected, TotalAfter, HeaderCompletes
<1> QED
  BY <1>4, <1>5

LEMMA ContractStep ==
  StepInv /\ StepInv' /\ [Next]_vars => [Contract!Next]_Contract!vars
<1> SUFFICES ASSUME StepInv, StepInv', [Next]_vars
             PROVE  [Contract!Next]_Contract!vars
  OBVIOUS
<1> USE DEF Contract!Next, Contract!vars
<1>1. /\ frames \in Seq(Frame) /\ delivered \in Seq(PacketEntry)
      /\ delivered' \in Seq(PacketEntry)
      /\ Serving \in BOOLEAN /\ Serving' \in BOOLEAN
      /\ Served => Serving = TRUE
  BY DEF StepInv, CountInv, TypeOK, Serving, Served, Defined
<1>2. /\ Handed \in Seq(Nat) /\ Len(Handed) = Len(delivered)
      /\ \A i \in 1..Len(delivered) : Handed[i] = delivered[i].frame
      /\ Handed' \in Seq(Nat) /\ Len(Handed') = Len(delivered')
      /\ \A i \in 1..Len(delivered') : Handed'[i] = delivered'[i].frame
  BY <1>1, HandedNumbers DEF Handed
<1>3. ASSUME NEW kind \in Kinds, NEW len \in Lengths, PeerSend(kind, len)
      PROVE  Contract!Post
  <2>1. Len(frames') = Len(frames) + 1
    BY <1>1, <1>3 DEF PeerSend
  <2> QED
    BY <1>3, <2>1 DEF PeerSend, handlerVars, serverVars, Contract!Post, Handed,
      Serving, HeaderRejected
<1>4. ASSUME NEW n \in 1..(sent - received), AwaitMore(n)
      PROVE  Contract!Lose \/ UNCHANGED Contract!vars
  <2>1. PICK k \in Origin : \E t \in TotalAfter(n, k) : HandlerAfter(n, t)
    BY <1>4 DEF AwaitMore
  <2>2. PICK t \in TotalAfter(n, k) : HandlerAfter(n, t)
    BY <2>1
  <2>3. Len(delivered) + 1 \in 1..Len(frames) /\ Serving = TRUE
    BY <1>1, <1>4, FragmentOfFrame DEF AwaitMore, FragmentArrives
  <2>4. UNCHANGED <<frames, delivered, activeFlag, overread>>
    BY <1>4 DEF AwaitMore, FragmentArrives, peerVars
  <2>5. UNCHANGED <<Len(frames), Handed, Serving>>
    BY <2>4 DEF Handed, Serving
  <2>6. HeaderRejected => HeaderRejected'
    BY <2>2 DEF HeaderRejected, HandlerAfter, TotalAfter, HeaderCompletes
  <2>7. CASE HeaderRejected' = HeaderRejected
    BY <2>5, <2>7
  <2>8. CASE ~HeaderRejected /\ HeaderRejected'
    <3>1. Len(Handed) < Len(frames)
      BY <1>1, <1>2, <2>3
    <3>2. HeaderRejected' = TRUE
      BY <2>8 DEF HeaderRejected
    <3> QED
      BY <2>3, <2>5, <2>8, <3>1, <3>2 DEF Contract!Lose
  <2> QED
    BY <2>6, <2>7, <2>8 DEF HeaderRejected
<1>5. ASSUME NEW n \in 1..(sent - received), PacketQueued(n)
      PROVE  Contract!Hand
  <2>1. /\ Len(delivered) + 1 \in 1..Len(frames)
        /\ ~HeaderRejected
        /\ \E ok \in BOOLEAN :
             delivered' = Append(delivered, [frame |-> Len(delivered) + 1,
                                             complete |-> TRUE, verified |-> ok])
    BY <1>5, QueuedIsNextFrame
  <2>2. PICK ok \in BOOLEAN :
          delivered' = Append(delivered, [frame |-> Len(delivered) + 1,
                                          complete |-> TRUE, verified |-> ok])
    BY <2>1
  <2>3. [frame |-> Len(delivered) + 1, complete |-> TRUE, verified |-> ok] \in PacketEntry
    BY <1>1 DEF PacketEntry
  <2>4. /\ Len(delivered') = Len(delivered) + 1
        /\ \A i \in 1..Len(delivered) : delivered'[i] = delivered[i]
        /\ delivered'[Len(delivered) + 1].frame = Len(delivered) + 1
    BY <1>1, <2>2, <2>3, AppendProperties
  <2>5. Handed' = Append(Handed, Len(Handed) + 1)
    <3>1. Len(Handed) \in Nat /\ Len(Handed) + 1 \in Nat
      BY <1>2
    <3>2. /\ Append(Handed, Len(Handed) + 1) \in Seq(Nat)
          /\ Len(Append(Handed, Len(Handed) + 1)) = Len(Handed) + 1
          /\ \A i \in 1..Len(Handed) : Append(Handed, Len(Handed) + 1)[i] = Handed[i]
          /\ Append(Handed, Len(Handed) + 1)[Len(Handed) + 1] = Len(Handed) + 1
      BY <1>2, <3>1, AppendProperties
    <3>3. \A i \in 1..Len(Handed') : Handed'[i] = Append(Handed, Len(Handed) + 1)[i]
      <4>1. ASSUME NEW i \in 1..Len(Handed') PROVE i \in 1..Len(Handed) \/ i = Len(Handed) + 1
        BY <1>2, <2>4, <3>1
      <4> QED
        BY <1>2, <2>4, <3>1, <3>2, <4>1
    <3> QED
      BY <1>2, <2>4, <3>2, <3>3, SeqEqual
  <2>6. UNCHANGED <<frames>> /\ ~HeaderRejected' /\ Serving = TRUE
    BY <1>1, <1>5 DEF PacketQueued, FragmentArrives, HandlerReset,
      HeaderRejected, peerVars
  <2>7. Len(Handed) < Len(frames)
    BY <1>1, <1>2, <2>1
  <2> QED
    BY <1>1, <2>1, <2>5, <2>6, <2>7 DEF Contract!Hand, HeaderRejected
<1>6. ASSUME NEW n \in 1..(sent - received), PacketRefused(n)
      PROVE  Contract!Close
  <2>1. PICK k \in Origin : \E t \in TotalAfter(n, k) :
          (Remaining(n, t) = 0 \/ handlingFinished) /\ HandlerAfter(n, t)
    BY <1>6 DEF PacketRefused
  <2>2. PICK t \in TotalAfter(n, k) :
          (Remaining(n, t) = 0 \/ handlingFinished) /\ HandlerAfter(n, t)
    BY <2>1
  <2>3. FragmentArrives(n) /\ Used + n <= BufferSize
    BY <1>6 DEF PacketRefused
  <2>4. Remaining(n, t) = 0
    BY <2>2, <2>3, FragmentOfFrame
  <2>5. t # 0 /\ ~HeaderRejected
    BY <2>3, <2>4, FinishedNotRejected
  <2>6. UNCHANGED <<frames, delivered>> /\ Serving = TRUE /\ Serving' = FALSE
    BY <1>1, <1>6 DEF PacketRefused, FragmentArrives, peerVars, Serving
  <2>7. HeaderRejected' = HeaderRejected
    BY <2>2, <2>5 DEF HandlerAfter, HeaderRejected
  <2> QED
    BY <2>6, <2>7 DEF Contract!Close, Handed
<1>7. ASSUME ReceiveNothing PROVE Contract!Close
  <2>1. Serving = TRUE /\ Serving' = FALSE
    BY <1>1, <1>7 DEF ReceiveNothing, Serving
  <2> QED
    BY <1>7, <2>1 DEF ReceiveNothing, peerVars, handlerVars, Contract!Close,
      Handed, HeaderRejected
<1>8. ASSUME NEW n \in 1..(sent - received), PacketOverread(n)
      PROVE  Contract!Close
  <2>1. Serving = TRUE /\ Serving' = FALSE
    BY <1>1, <1>8 DEF PacketOverread, FragmentArrives, Serving
  <2> QED
    BY <1>8, <2>1 DEF PacketOverread, FragmentArrives, peerVars, handlerVars,
      Contract!Close, Handed, HeaderRejected
<1>9. ASSUME \/ PeerLeave
             \/ \E n \in 1..(sent - received) : BufferOverrun(n)
             \/ DropInactive
             \/ UNCHANGED vars
      PROVE  UNCHANGED Contract!vars
  <2>1. UNCHANGED <<activeFlag, overread>>
    BY <1>9 DEF PeerLeave, BufferOverrun, DropInactive, vars, serverVars
  <2>2. UNCHANGED Serving
    BY <2>1 DEF Serving
  <2> QED
    BY <1>9, <2>2 DEF PeerLeave, BufferOverrun, FragmentArrives, DropInactive,
      vars, peerVars, handlerVars, serverVars, Handed, HeaderRejected
<1> QED
  BY <1>3, <1>4, <1>5, <1>6, <1>7, <1>8, <1>9
  DEF Next, PeerStep, ServerStep, ReceiveSome

\* With the flag initialised, the receive path implements its contract: every
\* step hands over the next frame, gives the connection up, loses the frame
\* boundaries at a rejected header, or changes nothing the application sees.
THEOREM PathKeepsContract ==
  ASSUME FreshFlag = {FALSE}
  PROVE  Spec => KeepsContract
<1>1. Init => StepInv /\ Contract!Init
  BY StepInit, ContractInit
<1>2. StepInv /\ [Next]_vars => StepInv'
  BY StepStep
<1>3. StepInv /\ StepInv' /\ [Next]_vars => [Contract!Next]_Contract!vars
  BY ContractStep
<1> QED
  BY <1>1, <1>2, <1>3, PTL DEF Spec, KeepsContract, Contract!Safety
=============================================================================
