------------------------------ MODULE SendPath ------------------------------
(***************************************************************************)
(* ROSEClient::sendData for one client: application threads fill in a      *)
(* response, compose it in a buffer, encrypt it there and hand it to       *)
(* ::send, all without a lock.  A response belongs to its thread; what the *)
(* threads share is the socket.                                            *)
(*                                                                         *)
(* Bytes are counted, not represented.  The socket is blocking: ::send     *)
(* takes bytes while there is room and returns when it took them all, or   *)
(* earlier with a partial count or an error.  The peer cuts the stream     *)
(* into frames by the length in each frame's header; missing is how much   *)
(* of the frame it is in has not been sent.                                *)
(*                                                                         *)
(* The classes that derive from ResponsePacket are the application's: they *)
(* have members of a fixed size, strings whose setters call onNewString,   *)
(* and append all of them.  A string is given by the bytes onNewString     *)
(* counts for it, strlen + 1, and 0 for nullptr.                           *)
(***************************************************************************)
EXTENDS Integers, FiniteSets, Functions

CONSTANTS
  Senders,     \* the threads that send to this client
  Nobody,      \* no frame is under way
  HeaderSize,  \* 6
  BufferSize,  \* 0x400
  LengthMod,   \* 2^11: the length has eleven bits in the encrypted header
  Word,        \* 2^16, for uint16_t
  FreshCaret,  \* what SendablePacket's caret may start with
  FieldSizes,  \* sizes of a response's members that are no strings
  Slots,       \* its string members
  Strings,     \* the strings, see above
  Capacity,    \* bytes the sockets hold between the two sides
  MaxSends     \* bound on the calls of a thread, for TLC: then it is done

ASSUME SendAssumption ==
  /\ Nobody \notin Senders /\ IsFiniteSet(Senders) /\ IsFiniteSet(Slots)
  /\ HeaderSize \in Nat \ {0} /\ BufferSize \in Nat /\ Word \in Nat
  /\ LengthMod \in Nat /\ HeaderSize <= BufferSize
  /\ BufferSize < LengthMod /\ LengthMod <= Word
  /\ FreshCaret \subseteq 0..(Word - 1)
  /\ FieldSizes \subseteq Nat /\ Strings \subseteq Nat
  /\ \A f \in FieldSizes : HeaderSize + f < Word
  /\ 0 \in Strings
  /\ Capacity \in Nat \ {0} /\ MaxSends \in Nat

VARIABLES
  packet,      \* each thread's response: fields, strings and length
  call,        \* whether the thread is in ::send
  frame,       \* what it sends: size, the length in the header, headerFirst
  sent,        \* how much of it ::send has taken
  calls,       \* how many times the thread has called sendData
  connection,  \* "up" or "lost"
  unread,      \* bytes on their way to the peer
  current,     \* whose frame the peer is in
  missing,     \* what it still waits for in this frame
  inStep,      \* history: so far the peer finds the frames that were sent
  overlapped,  \* history: two calls have been in ::send at the same time
  accepted,    \* history: bytes ::send took
  claimed,     \* history: bytes of the calls that returned true
  lost,        \* history: bytes ::send took in calls that returned false
  corrupt      \* something was written past the buffer

wire == <<connection, unread, current, missing, inStep, accepted>>
outcome == <<claimed, lost>>
vars == <<packet, call, frame, sent, calls, wire, overlapped, outcome, corrupt>>

Packets ==
  [fields : FieldSizes, strings : [Slots -> Strings], length : 0..(Word - 1)]
Frames ==
  [size : 0..BufferSize, lengthField : 0..(LengthMod - 1), headerFirst : BOOLEAN]
NoFrame == [size |-> 0, lengthField |-> 0, headerFirst |-> TRUE]

\* The constructor of the derived class: its members, no string set yet.
NewPacket(f) ==
  [fields |-> f, strings |-> [slot \in Slots |-> 0], length |-> HeaderSize + f]

Init ==
  /\ packet \in [Senders -> {NewPacket(f) : f \in FieldSizes}]
  /\ call = [t \in Senders |-> "idle"]
  /\ frame = [t \in Senders |-> NoFrame]
  /\ sent = [t \in Senders |-> 0]
  /\ calls = [t \in Senders |-> 0]
  /\ connection = "up"
  /\ unread = 0
  /\ current = Nobody /\ missing = 0
  /\ inStep = TRUE /\ overlapped = FALSE
  /\ accepted = 0 /\ claimed = 0 /\ lost = 0
  /\ corrupt = FALSE

(***************************************************************************)
(* Composition: onNewString, SendablePacket, toSendable, encryptBuffer.    *)
(***************************************************************************)
\* onNewString.  Mutant: the old string is not subtracted.
LengthForgetsOld(length, old, new) == (length + new) % Word
LengthAfter(length, old, new) == (length - old + new) % Word

\* What addString appends: the characters, their number cut to 16 bits, and a
\* terminating byte, for nullptr as well.
Appended(s) == IF s = 0 THEN 1 ELSE ((s - 1) % Word) + 1

Content(p) ==
  p.fields + SumFunction([slot \in Slots |-> Appended(p.strings[slot])])

\* Where the last byte is appended, counted from the buffer's start.
CaretAfter(p, caret) == caret + HeaderSize + Content(p)

\* The bytes of the buffer that are written: by memset and by the appends.
FitsBuffer(p, caret) ==
  /\ p.length <= BufferSize
  /\ CaretAfter(p, caret) \in 0..BufferSize

\* updatePacketSize stores the caret, encryptBuffer keeps eleven bits of it.
\* Mutant: the size the header was appended with stays.
LengthFieldDeclared(p, caret) == p.length % LengthMod
LengthField(p, caret) == CaretAfter(p, caret) % LengthMod

\* sendData passes getCurrentSize.  Mutant: it passes getLength.
SizeDeclared(p, caret) == p.length
SizeToSend(p, caret) == CaretAfter(p, caret)

\* A setter of the derived class.
SetString(t, slot, s) ==
  /\ call[t] = "idle" /\ calls[t] < MaxSends
  /\ packet' = [packet EXCEPT
       ![t].strings[slot] = s,
       ![t].length = LengthAfter(@, packet[t].strings[slot], s)]
  /\ UNCHANGED <<call, frame, sent, calls, wire, overlapped, outcome, corrupt>>

\* Everything sendData does before ::send is the thread's own.
Compose(t) ==
  /\ call[t] = "idle" /\ calls[t] < MaxSends
  /\ \E caret \in FreshCaret :
       /\ FitsBuffer(packet[t], caret)
       /\ frame' = [frame EXCEPT ![t] =
            [size |-> SizeToSend(packet[t], caret),
             lengthField |-> LengthField(packet[t], caret),
             headerFirst |-> caret = 0]]
  /\ call' = [call EXCEPT ![t] = "sending"]
  /\ calls' = [calls EXCEPT ![t] = @ + 1]
  /\ overlapped' = (overlapped \/ \E u \in Senders \ {t} : call[u] = "sending")
  /\ UNCHANGED <<packet, sent, wire, outcome, corrupt>>

\* Nothing is claimed after a write past the buffer.
Overrun(t) ==
  /\ call[t] = "idle" /\ calls[t] < MaxSends
  /\ \E caret \in FreshCaret : ~FitsBuffer(packet[t], caret)
  /\ corrupt' = TRUE
  /\ UNCHANGED <<packet, call, frame, sent, calls, wire, overlapped, outcome>>

(***************************************************************************)
(* NetworkClient::send and the wire.                                       *)
(***************************************************************************)
\* The peer is between frames and these bytes begin one, or it is in this
\* frame and these bytes go on with it.
Continues(t) ==
  IF missing = 0 THEN sent[t] = 0 ELSE current = t /\ sent[t] > 0

Awaited(t) == IF missing = 0 THEN frame[t].lengthField ELSE missing

\* ::send takes n more bytes of the frame.
Take(t, n) ==
  /\ call[t] = "sending" /\ connection = "up"
  /\ n <= frame[t].size - sent[t] /\ n <= Capacity - unread
  /\ sent' = [sent EXCEPT ![t] = @ + n]
  /\ unread' = unread + n
  /\ accepted' = accepted + n
  /\ LET fine == inStep /\ Continues(t) /\ n <= Awaited(t) IN
       /\ inStep' = fine
       /\ current' = IF fine THEN t ELSE current
       /\ missing' = IF fine THEN Awaited(t) - n ELSE missing
  /\ UNCHANGED <<packet, call, frame, calls, connection, overlapped, outcome,
                 corrupt>>

\* sendingSuccessful.  Mutant: any progress counts.
SomethingSent(bytesSent, length) == length = 0 \/ bytesSent > 0
SendingSuccessful(bytesSent, length) == length = 0 \/ bytesSent = length

\* ::send returns a count or SOCKET_ERROR, and sendData its verdict on it.
\* Short of the whole frame it returns when the connection is lost, and is
\* allowed to before.
Return(t, bytesSent) ==
  /\ call[t] = "sending"
  /\ IF SendingSuccessful(bytesSent, frame[t].size)
     THEN claimed' = claimed + frame[t].size /\ UNCHANGED lost
     ELSE lost' = lost + sent[t] /\ UNCHANGED claimed
  /\ call' = [call EXCEPT ![t] = "idle"]
  /\ sent' = [sent EXCEPT ![t] = 0]
  /\ frame' = [frame EXCEPT ![t] = NoFrame]
  /\ UNCHANGED <<packet, calls, wire, overlapped, corrupt>>

ReturnAll(t) == sent[t] = frame[t].size /\ Return(t, sent[t])
ReturnShort(t) ==
  sent[t] \in 1..(frame[t].size - 1) /\ Return(t, sent[t])
\* Mutant: an error is not returned.
ReturnNoError(t) == FALSE
ReturnError(t) ==
  /\ connection = "lost" /\ sent[t] < frame[t].size
  /\ Return(t, -1)

PeerReads ==
  /\ unread > 0
  /\ unread' \in 0..(unread - 1)
  /\ UNCHANGED <<packet, call, frame, sent, calls, connection, current, missing,
                 inStep, accepted, overlapped, outcome, corrupt>>

PeerGone ==
  /\ connection = "up"
  /\ connection' = "lost"
  /\ UNCHANGED <<packet, call, frame, sent, calls, unread, current, missing,
                 inStep, accepted, overlapped, outcome, corrupt>>

Begin(t) ==
  \/ \E slot \in Slots, s \in Strings : SetString(t, slot, s)
  \/ Compose(t)
  \/ Overrun(t)

InSend(t) ==
  \/ \E n \in 1..BufferSize : Take(t, n)
  \/ ReturnAll(t)
  \/ ReturnError(t)

Next ==
  /\ ~corrupt
  /\ \/ \E t \in Senders : Begin(t) \/ InSend(t) \/ ReturnShort(t)
     \/ PeerReads
     \/ PeerGone

\* A thread in ::send goes on when it can.
Fairness == \A t \in Senders : WF_vars(~corrupt /\ InSend(t))

Spec == Init /\ [][Next]_vars /\ Fairness
-----------------------------------------------------------------------------
TypeOK ==
  /\ packet \in [Senders -> Packets]
  /\ call \in [Senders -> {"idle", "sending"}]
  /\ frame \in [Senders -> Frames]
  /\ sent \in [Senders -> Nat] /\ \A t \in Senders : sent[t] <= frame[t].size
  /\ calls \in [Senders -> 0..MaxSends]
  /\ connection \in {"up", "lost"}
  /\ unread \in 0..Capacity
  /\ current \in Senders \cup {Nobody}
  /\ missing \in 0..(LengthMod - 1)
  /\ inStep \in BOOLEAN /\ overlapped \in BOOLEAN /\ corrupt \in BOOLEAN
  /\ accepted \in Nat /\ claimed \in Nat /\ lost \in Nat

\* The length the peer reads in the header is the number of bytes sendData
\* hands to ::send, whatever the setters were given, though the first comes
\* from the caret by way of eleven bits and the packet keeps a count of its own.
LengthsAgree ==
  \A t \in Senders :
    call[t] = "sending" => frame[t].lengthField = frame[t].size

\* After any sequence of setters, what getLength counts is what is composed,
\* but for the terminating byte that addString appends for a nullptr and
\* onNewString does not count.
DeclaredLength ==
  \A t \in Senders :
    call[t] = "sending" /\ frame[t].headerFirst =>
      frame[t].size
        = packet[t].length
            + Cardinality({slot \in Slots : packet[t].strings[slot] = 0})

\* The peer loses the frames only if two calls overlapped in ::send, which no
\* lock of ROSEClient prevents, or a call returned false after a part of its
\* frame had been sent.
OutOfStepHasCause == inStep \/ overlapped \/ lost > 0

\* Each byte on the wire belongs to a call that returned true and sent all of
\* its frame, to one that returned false, or to one that is under way.
BytesAccounted == accepted = claimed + lost + SumFunction(sent)

\* A frame starts with the header that appendHeaderToSendable writes: its first
\* bytes are the length (Packet.h:131, "//Length").
HeaderFirst == \A t \in Senders : frame[t].headerFirst

\* If the peer reads on or is gone, each call of sendData returns.
SendReturns ==
  []<>(unread = 0 \/ connection = "lost") =>
    \A t \in Senders : (call[t] = "sending") ~> (call[t] = "idle" \/ corrupt)
=============================================================================
