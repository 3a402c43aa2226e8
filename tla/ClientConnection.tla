-------------------------- MODULE ClientConnection --------------------------
(***************************************************************************)
(* The receive path of one connected client, from the bytes of its TCP     *)
(* stream to the packets handed to the application:                        *)
(*                                                                         *)
(*   NetworkServer::handleConnectedClients    one pass over this client    *)
(*   ROSEServer::onPrepareDataIncoming        recv limit := expected bytes *)
(*   NetworkClient::receiveData               recv                         *)
(*   ROSEServer::onDataReceived                                            *)
(*     ROSEClient::handleIncomingDataFragment                              *)
(*       ROSEMessageHandler::accept, createPacketFromReceivedData, reset   *)
(*     onPacketsReady                                                      *)
(*                                                                         *)
(* The server is single-threaded, so one pass over one client is one step. *)
(* Bytes are counted, not represented: the stream is the concatenation of  *)
(* the frames the peer sent, and the handler's buffer is the part of the   *)
(* stream from offset base to offset received.  What decrypting a frame    *)
(* gives is determined by the frame's kind when the buffer starts at a     *)
(* frame, and arbitrary when it does not.  maxAllowedBytesToReceive is not *)
(* a variable: onPrepareDataIncoming overwrites it with                    *)
(* expectedAmountOfBytes before every recv.                                *)
(***************************************************************************)
EXTENDS Integers, Sequences

CONSTANTS
  HeaderSize,   \* DEFAULT_HEADERSIZE, 6 in the code
  BufferSize,   \* 0x400: capacity of the handler's buffer and of a fragment
  Word,         \* 2^16: expectedAmountOfBytes is a uint16_t
  Lengths,      \* numbers of bytes a frame may have
  Kinds,        \* kinds of frames the peer may send, see FrameKinds
  MaxFrames,    \* bound on the number of frames, for TLC
  FreshFlag,    \* values handlingFinished may have after the constructor
  AppResults    \* results of onPacketsReady

(***************************************************************************)
(* good:     well-formed, with a command the packet factory knows          *)
(* unknown:  well-formed, with a command the packet factory does not know  *)
(* damaged:  the length field is right, decryptBuffer reports failure      *)
(* missized: the length field is outside HeaderSize..BufferSize            *)
(***************************************************************************)
FrameKinds == {"good", "unknown", "damaged", "missized"}

ASSUME SizesAssumption ==
  /\ HeaderSize \in Nat \ {0}
  /\ BufferSize \in Nat
  /\ Word \in Nat
  /\ HeaderSize <= BufferSize
  /\ BufferSize < Word

ASSUME InputsAssumption ==
  /\ Lengths \subseteq HeaderSize..BufferSize
  /\ Kinds \subseteq FrameKinds
  /\ MaxFrames \in Nat
  /\ FreshFlag \subseteq BOOLEAN
  /\ AppResults \subseteq BOOLEAN

VARIABLES
  \* the peer and the stream
  frames,     \* the frames the peer composed, with their offset in the stream
  sent,       \* bytes of the stream the peer got onto the wire
  peer,       \* "open", "closed" (orderly) or "reset"
  received,   \* bytes of the stream recv has returned
  \* ROSEMessageHandler
  base,       \* stream offset of the first byte of dataHolder
  total,      \* HeaderSize, then what decryptHeader returned (0: rejected)
  expectedAmountOfBytes,
  headerReceived,
  handlingFinished,
  \* the server's view of the client
  delivered,  \* packets handed to onPacketsReady, oldest first
  activeFlag, \* NetworkClient::activeFlag
  alive,      \* FALSE once disconnectClient has deleted the client
  overrun,    \* a fragment did not fit the buffer
  overread    \* a packet was copied from beyond the buffer

peerVars == <<frames, sent, peer>>
handlerVars ==
  <<base, total, expectedAmountOfBytes, headerReceived, handlingFinished>>
serverVars == <<delivered, activeFlag, alive, overrun, overread>>
vars == <<frames, sent, peer, received, base, total, expectedAmountOfBytes,
          headerReceived, handlingFinished, delivered, activeFlag, alive,
          overrun, overread>>

\* The code has left the buffer in neither direction; nothing is claimed of what
\* it does afterwards.
Defined == ~overrun /\ ~overread

Frame == [kind : Kinds, len : Lengths, start : Nat]
PacketEntry == [frame : Nat, complete : BOOLEAN, verified : BOOLEAN]

\* The value a uint16_t takes for x > -2^16; mutant: a signed variable.
U16Signed(x) == x
U16(x) == IF x < 0 THEN x + Word ELSE x

EndOf(k) == frames[k].start + frames[k].len

HeaderRejected == headerReceived /\ total = 0

\* TrackableAppender::getCurrentlyUsedSize of dataHolder
Used == received - base

(***************************************************************************)
(* The position of the frame the buffer starts with, 0 for none.           *)
(***************************************************************************)
FrameHere == {k \in DOMAIN frames : frames[k].start = base}
Origin == IF FrameHere = {} THEN {0} ELSE FrameHere

\* Possible results of EncryptionHandler::decryptHeader
DecryptHeader(k) ==
  IF k = 0 THEN {0} \cup HeaderSize..BufferSize
  ELSE IF frames[k].kind = "missized" THEN {0} ELSE {frames[k].len}

\* Possible results of EncryptionHandler::decryptBuffer
DecryptBuffer(k) ==
  IF k = 0 THEN BOOLEAN ELSE {frames[k].kind \in {"good", "unknown"}}

\* Whether the factory may know the command that stands in the buffer
Registered(k, complete) ==
  IF k = 0 \/ ~complete \/ frames[k].kind \in {"damaged", "missized"}
  THEN BOOLEAN ELSE {frames[k].kind = "good"}

\* The lengths Packet's constructor may find in the buffer: decryptBuffer writes
\* the one it has checked when it succeeds; otherwise the bytes stand there as
\* they are, encrypted, or as decryptHeader left them.
LengthRead(verified) ==
  IF verified THEN HeaderSize..BufferSize ELSE 0..(Word - 1)

-----------------------------------------------------------------------------

Init ==
  /\ frames = <<>> /\ sent = 0 /\ peer = "open" /\ received = 0
  /\ base = 0 /\ total = HeaderSize /\ expectedAmountOfBytes = HeaderSize
  /\ headerReceived = FALSE /\ handlingFinished \in FreshFlag
  /\ delivered = <<>> /\ activeFlag = TRUE /\ alive = TRUE
  /\ overrun = FALSE /\ overread = FALSE

(***************************************************************************)
(* The peer.                                                               *)
(***************************************************************************)
PeerSend(kind, len) ==
  /\ peer = "open" /\ alive /\ Len(frames) < MaxFrames
  /\ frames' = Append(frames, [kind |-> kind, len |-> len, start |-> sent])
  /\ sent' = sent + len
  /\ UNCHANGED <<peer, received, handlerVars, serverVars>>

\* The peer may leave in the middle of a frame: the rest is never sent.
PeerLeave ==
  /\ peer = "open" /\ alive
  /\ peer' \in {"closed", "reset"}
  /\ sent' \in received..sent
  /\ UNCHANGED <<frames, received, handlerVars, serverVars>>

-----------------------------------------------------------------------------
(***************************************************************************)
(* One pass of handleConnectedClients over this client.                    *)
(***************************************************************************)

Served == alive /\ activeFlag /\ Defined

\* recv returns n bytes, at most what it was asked for.  Mutant: the limit stays
\* what NetworkClient's constructor set it to.
FragmentUpToBuffer(n) ==
  /\ Served
  /\ n <= BufferSize
  /\ received' = received + n
  /\ UNCHANGED <<peerVars, alive>>
FragmentArrives(n) ==
  /\ Served
  /\ n <= expectedAmountOfBytes
  /\ received' = received + n
  /\ UNCHANGED <<peerVars, alive>>

HeaderCompletes(n) == ~headerReceived /\ Used + n = HeaderSize

TotalAfter(n, k) == IF HeaderCompletes(n) THEN DecryptHeader(k) ELSE {total}

\* expectedAmountOfBytes when accept compares it with 0.  Mutants: the header
\* counts as still missing; a fragment is not subtracted.
RemainingCountsHeader(n, t) ==
  IF HeaderCompletes(n) THEN t ELSE U16(expectedAmountOfBytes - n)
RemainingNotReduced(n, t) ==
  IF HeaderCompletes(n) THEN U16(t - HeaderSize) ELSE expectedAmountOfBytes
Remaining(n, t) ==
  IF HeaderCompletes(n) THEN U16(t - HeaderSize)
  ELSE U16(expectedAmountOfBytes - n)

HandlerAfter(n, t) ==
  /\ total' = t
  /\ expectedAmountOfBytes' = Remaining(n, t)
  /\ headerReceived' = (headerReceived \/ HeaderCompletes(n))

\* ROSEMessageHandler::reset after a fragment of n bytes; mutant: the bytes of
\* the finished message stay in dataHolder.
HandlerResetKeepsBytes(n) ==
  /\ total' = HeaderSize
  /\ expectedAmountOfBytes' = HeaderSize
  /\ headerReceived' = FALSE
  /\ handlingFinished' = FALSE
  /\ UNCHANGED base
\* Mutant: headerReceived is not reset.
HandlerResetKeepsHeader(n) ==
  /\ base' = received + n
  /\ total' = HeaderSize
  /\ expectedAmountOfBytes' = HeaderSize
  /\ handlingFinished' = FALSE
  /\ UNCHANGED headerReceived
HandlerReset(n) ==
  /\ base' = received + n
  /\ total' = HeaderSize
  /\ expectedAmountOfBytes' = HeaderSize
  /\ headerReceived' = FALSE
  /\ handlingFinished' = FALSE

\* The message is not finished and the handler waits for the rest.
\* Mutant: accept also returns early when nothing is missing.
AwaitMoreOrNothing(n) ==
  /\ FragmentArrives(n)
  /\ Used + n <= BufferSize
  /\ ~handlingFinished
  /\ \E k \in Origin : \E t \in TotalAfter(n, k) : HandlerAfter(n, t)
  /\ UNCHANGED <<base, handlingFinished, delivered, activeFlag, overrun,
                 overread>>
AwaitMore(n) ==
  /\ FragmentArrives(n)
  /\ Used + n <= BufferSize
  /\ ~handlingFinished
  /\ \E k \in Origin : \E t \in TotalAfter(n, k) :
       /\ Remaining(n, t) > 0
       /\ HandlerAfter(n, t)
  /\ UNCHANGED <<base, handlingFinished, delivered, activeFlag, overrun,
                 overread>>

\* The handler reports a finished message and the factory makes a packet of
\* it: queued, handed to onPacketsReady, the handler reset.  The flag can have
\* been set all along, in which case the message is whatever has arrived.
PacketQueued(n) ==
  /\ FragmentArrives(n)
  /\ Used + n <= BufferSize
  /\ \E k \in Origin : \E t \in TotalAfter(n, k), ok \in DecryptBuffer(k) :
       LET complete == Remaining(n, t) = 0 IN
       /\ complete \/ handlingFinished
       /\ TRUE \in Registered(k, complete)
       /\ delivered' = Append(delivered, [frame |-> k, complete |-> complete,
                                          verified |-> complete /\ ok])
  /\ HandlerReset(n)
  /\ activeFlag' \in AppResults
  /\ UNCHANGED <<overrun, overread>>

\* The handler reports a finished message of which the factory makes nothing:
\* no reset, and the client is inactive from now on.
PacketRefused(n) ==
  /\ FragmentArrives(n)
  /\ Used + n <= BufferSize
  /\ \E k \in Origin : \E t \in TotalAfter(n, k) :
       LET complete == Remaining(n, t) = 0 IN
       /\ complete \/ handlingFinished
       /\ FALSE \in Registered(k, complete)
       /\ HandlerAfter(n, t)
  /\ handlingFinished' = TRUE
  /\ activeFlag' = FALSE
  /\ UNCHANGED <<base, delivered, overrun, overread>>

\* The handler reports a finished message, and the constructor of Packet, before
\* the command is looked up, copies as many bytes as the length it finds in the
\* buffer says, more than are in it: the outcome is undefined in the code.
PacketOverread(n) ==
  /\ FragmentArrives(n)
  /\ Used + n <= BufferSize
  /\ \E k \in Origin : \E t \in TotalAfter(n, k), ok \in DecryptBuffer(k) :
       LET complete == Remaining(n, t) = 0 IN
       /\ complete \/ handlingFinished
       /\ ~(LengthRead(complete /\ ok) \subseteq 0..BufferSize)
  /\ overread' = TRUE
  /\ UNCHANGED <<handlerVars, delivered, activeFlag, overrun>>

\* More bytes than the buffer holds: the outcome is undefined in the code.
BufferOverrun(n) ==
  /\ FragmentArrives(n)
  /\ Used + n > BufferSize
  /\ overrun' = TRUE
  /\ UNCHANGED <<handlerVars, delivered, activeFlag, overread>>

\* recv returns 0 or -1: end of stream, reset, or nothing asked for.  Mutant:
\* an error of recv is not taken for the end.
RecvErrorIgnored ==
  \/ peer = "closed" /\ received = sent
  \/ expectedAmountOfBytes = 0 /\ received < sent
RecvGivesNothing ==
  \/ peer = "closed" /\ received = sent
  \/ peer = "reset"
  \/ expectedAmountOfBytes = 0 /\ received < sent

\* The client is deleted at the end of the same pass.
ReceiveNothing ==
  /\ Served
  /\ RecvGivesNothing
  /\ activeFlag' = FALSE
  /\ alive' = FALSE
  /\ UNCHANGED <<peerVars, received, handlerVars, delivered, overrun,
                 overread>>

\* prepareClientForIncomingData meets an inactive client.  Mutant: only a client
\* whose peer has left is deleted.
DropDeparted ==
  /\ alive /\ ~activeFlag /\ Defined /\ peer # "open"
  /\ alive' = FALSE
  /\ UNCHANGED <<peerVars, received, handlerVars, delivered, activeFlag,
                 overrun, overread>>
DropInactive ==
  /\ alive /\ ~activeFlag /\ Defined
  /\ alive' = FALSE
  /\ UNCHANGED <<peerVars, received, handlerVars, delivered, activeFlag,
                 overrun, overread>>

ReceiveSome ==
  \E n \in 1..(sent - received) :
    \/ AwaitMore(n) \/ PacketQueued(n) \/ PacketRefused(n)
    \/ PacketOverread(n) \/ BufferOverrun(n)

PeerStep == (\E kind \in Kinds, len \in Lengths : PeerSend(kind, len))
            \/ PeerLeave
ServerStep == ReceiveSome \/ ReceiveNothing \/ DropInactive

Next == PeerStep \/ ServerStep

\* The server's loop never stops and select reports a readable socket in
\* every round until it is read.
Fairness == WF_vars(ServerStep)

Spec == Init /\ [][Next]_vars /\ Fairness
-----------------------------------------------------------------------------
(***************************************************************************)
(* Properties that hold whatever handlingFinished starts with.             *)
(***************************************************************************)

\* Every variable of the model holds a value of its range.
TypeOK ==
  /\ frames \in Seq(Frame)
  /\ sent \in Nat /\ received \in 0..sent /\ base \in 0..received
  /\ peer \in {"open", "closed", "reset"}
  /\ total \in {0} \cup HeaderSize..BufferSize
  /\ expectedAmountOfBytes \in 0..(Word - 1)
  /\ headerReceived \in BOOLEAN /\ handlingFinished \in BOOLEAN
  /\ delivered \in Seq(PacketEntry)
  /\ activeFlag \in BOOLEAN /\ alive \in BOOLEAN
  /\ overrun \in BOOLEAN /\ overread \in BOOLEAN

\* What has arrived and what is still asked for add up to the message, and the
\* message fits the buffer, unless decryptHeader rejected its size: then the
\* sum is 2^16.  The count is kept across fragments by accept alone.
CountsAddUp ==
  Defined =>
    /\ Used <= BufferSize
    /\ ~headerReceived => total = HeaderSize
    /\ Used + expectedAmountOfBytes = IF total = 0 THEN Word ELSE total

\* A client that is served is asked for at least one byte: a recv with limit 0
\* returns 0, which receiveData cannot tell from the end of the stream.
RecvAsksForData == activeFlag => expectedAmountOfBytes > 0

\* The header is decrypted as soon as it is complete and exactly once: while it
\* is outstanding less than a header has arrived, afterwards at least one.
HeaderOnce ==
  Defined => IF headerReceived THEN Used >= HeaderSize ELSE Used < HeaderSize

\* A fragment that does not fit comes only after a header was rejected: nothing
\* else lets the handler write beyond its buffer.  (Of reading beyond it this
\* says nothing.)
OverrunOnlyAfterRejection == overrun => HeaderRejected

\* Once the peer is gone the client is noticed and deleted, whatever was left
\* unread and whatever the handler waits for, as long as the code is defined.
PeerGoneNoticed == (peer # "open") ~> (~alive \/ ~Defined)

\* A client made inactive by onDataReceived is deleted, not left in the list.
InactiveDeleted == (~activeFlag) ~> ~alive

(***************************************************************************)
(* Properties of a handler whose flag starts FALSE.                        *)
(***************************************************************************)

StartOf(k) == IF k = 1 THEN 0 ELSE EndOf(k - 1)

\* The next message starts where the last delivered frame ended: no byte of a
\* frame is skipped, and none is counted to two of them.
InStep == base = StartOf(Len(delivered) + 1)

\* The packets handed to the application are the frames, from the first on,
\* in order and without a gap, each of them whole.
DeliveredInOrder ==
  \A i \in DOMAIN delivered :
    delivered[i].frame = i /\ delivered[i].complete

\* A connection stops being served only for a reason the peer or the
\* application gave: it left, it sent a frame without a packet, or
\* onPacketsReady refused the packet it was just given.
StopHasCause ==
  [][activeFlag /\ ~activeFlag' =>
       \/ peer # "open"
       \/ \E k \in FrameHere : frames[k].kind \in {"unknown", "damaged"}
       \/ Len(delivered') = Len(delivered) + 1]_vars

(***************************************************************************)
(* The abstract promise: frames are posted by the peer and handed over by  *)
(* onPacketsReady; a rejected header loses the frame boundaries, and a     *)
(* packet copied from beyond the buffer counts as the connection's end.    *)
(***************************************************************************)
\* What the contract sees of the state.
Serving == activeFlag /\ ~overread
Handed == [i \in DOMAIN delivered |-> delivered[i].frame]
Contract == INSTANCE PacketDelivery WITH
  posted <- Len(frames),
  handed <- Handed,
  open <- Serving,
  stuck <- HeaderRejected

\* Every step of the path is a step of the contract or leaves it alone.
KeepsContract == Contract!Safety

\* A frame on the wire does not wait for ever: it is handed over, or the
\* connection is given up, or a header is rejected.
MakesProgress == Contract!Progress

(***************************************************************************)
(* What the source says of the path and the code does not do.              *)
(***************************************************************************)

\* decryptBuffer returns FALSE when the checksum does not match
\* (EncryptionHandler.cpp, "Check CheckSum"): a packet made of the buffer
\* afterwards was verified.
OnlyVerifiedDelivered ==
  \A i \in DOMAIN delivered : delivered[i].complete => delivered[i].verified

\* "Handling is finished. Creating packet from data..." (ROSEClient.cpp): a
\* packet is made of a message all of which has arrived.
OnlyCompleteDelivered == \A i \in DOMAIN delivered : delivered[i].complete

\* decryptHeader returns 0 for a size that fails "Size correct?"
\* (EncryptionHandler.cpp): nothing more than a buffer holds is asked for.
ExpectationFitsBuffer == activeFlag => expectedAmountOfBytes <= BufferSize
=============================================================================
