--------------------------- MODULE SendPathProofs ---------------------------
(***************************************************************************)
(* Proofs about SendPath for any number of threads and any sizes.          *)
(*                                                                         *)
(* SendInv adds to the type invariant and LengthsAgree what a thread that  *)
(* is not in ::send looks like, that without an overlap at most one thread *)
(* is there, and, as long as no frame was cut, where the peer is: between  *)
(* two frames, or in the frame of the one thread in ::send, waiting for    *)
(* what that thread still has to send.  What is composed enters there only *)
(* by its size.                                                            *)
(*                                                                         *)
(* LengthInv says how the members of a response add up: the length it      *)
(* declares is that of its members, up to multiples of 2^16, and a frame   *)
(* being sent is as long as its response says.  The sums over threads and  *)
(* over members are those of SumTheorems.                                  *)
(***************************************************************************)
EXTENDS SendPath, SumTheorems, TLAPS

IdleIsEmpty ==
  \A t \in Senders : call[t] = "idle" => sent[t] = 0 /\ frame[t] = NoFrame

OneInSend ==
  ~overlapped =>
    \A t, u \in Senders : call[t] = "sending" /\ call[u] = "sending" => t = u

BetweenFrames == missing = 0 /\ \A t \in Senders : sent[t] \in {0, frame[t].size}

WithinFrame ==
  /\ missing > 0
  /\ current \in Senders
  /\ call[current] = "sending"
  /\ sent[current] > 0
  /\ sent[current] + missing = frame[current].size

PeerInStep ==
  ~overlapped /\ lost = 0 => inStep /\ (BetweenFrames \/ WithinFrame)

SendInv == TypeOK /\ LengthsAgree /\ IdleIsEmpty /\ OneInSend /\ PeerInStep
-----------------------------------------------------------------------------
\* A length that fits the buffer fits the eleven bits.
LEMMA FieldHoldsSize ==
  ASSUME NEW size \in 0..BufferSize
  PROVE  size % LengthMod = size /\ size \in 0..(LengthMod - 1)
BY SendAssumption

\* The mutators of a packet keep its type.
LEMMA LengthAfterType ==
  ASSUME NEW length \in 0..(Word - 1), NEW old \in Strings, NEW new \in Strings
  PROVE  LengthAfter(length, old, new) \in 0..(Word - 1)
<1>1. Word \in Nat \ {0}
  BY SendAssumption
<1>2. old \in Nat /\ new \in Nat
  BY SendAssumption
<1>3. length - old + new \in Int
  BY <1>1, <1>2
<1> QED
  BY <1>1, <1>3 DEF LengthAfter

LEMMA InitSendInv == Init => SendInv
<1> SUFFICES ASSUME Init PROVE SendInv
  OBVIOUS
<1> USE SendAssumption DEF Init
<1>1. NoFrame \in Frames
  <2>1. 0 \in 0..BufferSize /\ 0 \in 0..(LengthMod - 1)
    OBVIOUS
  <2> QED
    BY <2>1 DEF NoFrame, Frames
<1>2. \A f \in FieldSizes : NewPacket(f) \in Packets
  <2> SUFFICES ASSUME NEW f \in FieldSizes PROVE NewPacket(f) \in Packets
    OBVIOUS
  <2>1. HeaderSize + f \in 0..(Word - 1)
    OBVIOUS
  <2>2. [slot \in Slots |-> 0] \in [Slots -> Strings]
    OBVIOUS
  <2> QED
    BY <2>1, <2>2 DEF NewPacket, Packets
<1>3. packet \in [Senders -> Packets]
  BY <1>2
<1>4. sent \in [Senders -> Nat] /\ \A t \in Senders : sent[t] <= frame[t].size
  BY DEF NoFrame
<1>5. TypeOK
  <2>1. frame \in [Senders -> Frames]
    BY <1>1
  <2>2. call \in [Senders -> {"idle", "sending"}] /\ calls \in [Senders -> 0..MaxSends]
    OBVIOUS
  <2>3. unread \in 0..Capacity /\ missing \in 0..(LengthMod - 1)
    OBVIOUS
  <2> QED
    BY <1>3, <1>4, <2>1, <2>2, <2>3 DEF TypeOK
<1>6. LengthsAgree /\ IdleIsEmpty /\ OneInSend
  BY DEF LengthsAgree, IdleIsEmpty, OneInSend
<1>7. PeerInStep
  BY DEF PeerInStep, BetweenFrames
<1> QED
  BY <1>5, <1>6, <1>7 DEF SendInv

(***************************************************************************)
(* The steps.                                                              *)
(***************************************************************************)
LEMMA SetStringKeepsInv ==
  ASSUME SendInv, NEW t \in Senders, NEW slot \in Slots, NEW s \in Strings,
         SetString(t, slot, s)
  PROVE  SendInv'
<1> USE DEF SetString, wire, outcome
<1> DEFINE p == packet[t]
           q == [p EXCEPT !.strings[slot] = s,
                          !.length = LengthAfter(p.length, p.strings[slot], s)]
<1>1. p \in Packets
  BY DEF SendInv, TypeOK
<1>2. p.strings[slot] \in Strings /\ p.length \in 0..(Word - 1)
  BY <1>1 DEF Packets
<1>3. LengthAfter(p.length, p.strings[slot], s) \in 0..(Word - 1)
  BY <1>2, LengthAfterType
<1>4. q \in Packets
  BY <1>1, <1>2, <1>3 DEF Packets
<1>5. packet' = [packet EXCEPT ![t] = q]
  BY DEF SendInv, TypeOK
<1>6. packet' \in [Senders -> Packets]
  BY <1>4, <1>5 DEF SendInv, TypeOK
<1>7. TypeOK'
  BY <1>6 DEF SendInv, TypeOK
<1>8. LengthsAgree' /\ IdleIsEmpty' /\ OneInSend'
  BY DEF SendInv, LengthsAgree, IdleIsEmpty, OneInSend
<1>9. PeerInStep'
  BY DEF SendInv, PeerInStep, BetweenFrames, WithinFrame
<1> QED
  BY <1>7, <1>8, <1>9 DEF SendInv

LEMMA ComposeKeepsInv ==
  ASSUME SendInv, NEW t \in Senders, Compose(t)
  PROVE  SendInv'
<1> USE DEF Compose, wire, outcome
<1>1. PICK caret \in FreshCaret :
        /\ FitsBuffer(packet[t], caret)
        /\ frame' = [frame EXCEPT ![t] =
             [size |-> SizeToSend(packet[t], caret),
              lengthField |-> LengthField(packet[t], caret),
              headerFirst |-> caret = 0]]
  OBVIOUS
<1> DEFINE size == CaretAfter(packet[t], caret)
<1>2. size \in 0..BufferSize
  BY <1>1 DEF FitsBuffer
<1>3. size % LengthMod = size /\ size \in 0..(LengthMod - 1)
  BY <1>2, FieldHoldsSize
<1>4. frame' = [frame EXCEPT ![t] =
        [size |-> size, lengthField |-> size, headerFirst |-> caret = 0]]
  BY <1>1, <1>3 DEF SizeToSend, LengthField
<1> HIDE DEF size
<1>5. [size |-> size, lengthField |-> size, headerFirst |-> caret = 0] \in Frames
  BY <1>2, <1>3 DEF Frames
<1>6. frame' \in [Senders -> Frames] /\ frame'[t].size = size
        /\ frame'[t].lengthField = size /\ sent[t] = 0
  BY <1>4, <1>5 DEF SendInv, TypeOK, IdleIsEmpty
<1>7. \A u \in Senders \ {t} : frame'[u] = frame[u] /\ call'[u] = call[u]
  BY <1>4 DEF SendInv, TypeOK
<1>8. call' \in [Senders -> {"idle", "sending"}] /\ call'[t] = "sending"
  BY DEF SendInv, TypeOK
<1>9. TypeOK'
  <2>1. \A u \in Senders : sent[u] <= frame'[u].size
    BY <1>2, <1>6, <1>7 DEF SendInv, TypeOK
  <2>2. calls' \in [Senders -> 0..MaxSends]
    BY SendAssumption DEF SendInv, TypeOK
  <2>3. overlapped' \in BOOLEAN
    BY DEF SendInv, TypeOK
  <2> QED
    BY <1>6, <1>8, <2>1, <2>2, <2>3 DEF SendInv, TypeOK
<1>10. LengthsAgree'
  BY <1>6, <1>7 DEF SendInv, LengthsAgree
<1>11. IdleIsEmpty'
  BY <1>7, <1>8 DEF SendInv, IdleIsEmpty
<1>12. ~overlapped' => ~overlapped /\ \A u \in Senders : call[u] # "sending"
  <2> SUFFICES ASSUME ~overlapped', NEW u \in Senders
               PROVE  ~overlapped /\ call[u] # "sending"
    BY DEF SendInv, TypeOK
  <2>1. ~overlapped /\ (u # t => call[u] # "sending")
    OBVIOUS
  <2> QED
    BY <2>1
<1>13. OneInSend'
  BY <1>7, <1>12 DEF OneInSend
<1>14. PeerInStep'
  <2> SUFFICES ASSUME ~overlapped', lost = 0
               PROVE  inStep /\ BetweenFrames'
    BY DEF PeerInStep
  <2>1. inStep /\ BetweenFrames
    BY <1>12 DEF SendInv, PeerInStep, WithinFrame
  <2> QED
    BY <1>6, <1>7, <2>1 DEF BetweenFrames
<1> QED
  BY <1>9, <1>10, <1>11, <1>13, <1>14 DEF SendInv

LEMMA TakeKeepsInv ==
  ASSUME SendInv, NEW t \in Senders, NEW n \in 1..BufferSize, Take(t, n)
  PROVE  SendInv'
<1> USE DEF Take, outcome
<1> DEFINE fine == inStep /\ Continues(t) /\ n <= Awaited(t)
<1>1. /\ frame[t] \in Frames /\ frame[t].size \in 0..BufferSize
      /\ frame[t].lengthField = frame[t].size
      /\ sent[t] \in 0..frame[t].size
      /\ BufferSize \in Nat /\ LengthMod \in Nat /\ BufferSize < LengthMod
  BY SendAssumption DEF SendInv, TypeOK, LengthsAgree, Frames
<1>2. sent' = [sent EXCEPT ![t] = sent[t] + n]
  OBVIOUS
<1>3. sent[t] + n \in 1..frame[t].size /\ n \in Nat \ {0}
  BY <1>1
<1>4. Awaited(t) \in 0..(LengthMod - 1)
  BY <1>1 DEF Awaited, SendInv, TypeOK
<1>5. TypeOK'
  <2>1. sent' \in [Senders -> Nat] /\ \A u \in Senders : sent'[u] <= frame[u].size
    BY <1>1, <1>2, <1>3 DEF SendInv, TypeOK
  <2>2. unread' \in 0..Capacity /\ accepted' \in Nat
    BY <1>3, SendAssumption DEF SendInv, TypeOK
  <2>3. inStep' \in BOOLEAN
    BY DEF SendInv, TypeOK
  <2>4. current' \in Senders \cup {Nobody} /\ missing' \in 0..(LengthMod - 1)
    BY <1>1, <1>3, <1>4 DEF SendInv, TypeOK
  <2> QED
    BY <2>1, <2>2, <2>3, <2>4 DEF SendInv, TypeOK
<1>6. LengthsAgree' /\ OneInSend'
  BY DEF SendInv, LengthsAgree, OneInSend
<1>7. IdleIsEmpty'
  BY <1>2 DEF SendInv, TypeOK, IdleIsEmpty
<1>8. PeerInStep'
  <2> SUFFICES ASSUME ~overlapped, lost = 0
               PROVE  inStep' /\ (BetweenFrames' \/ WithinFrame')
    BY DEF PeerInStep
  <2>1. \A u \in Senders \ {t} : sent[u] = 0 /\ sent'[u] = 0
    BY <1>2 DEF SendInv, TypeOK, OneInSend, IdleIsEmpty
  <2>2. sent'[t] = sent[t] + n
    BY <1>2 DEF SendInv, TypeOK
  <2>3. fine /\ sent[t] + Awaited(t) = frame[t].size
    <3>1. CASE BetweenFrames
      <4>1. sent[t] = 0
        BY <1>1, <1>3, <3>1 DEF BetweenFrames
      <4>2. Awaited(t) = frame[t].size /\ Continues(t)
        BY <1>1, <3>1, <4>1 DEF BetweenFrames, Awaited, Continues
      <4> QED
        BY <1>1, <1>3, <3>1, <4>1, <4>2 DEF SendInv, PeerInStep
    <3>2. CASE WithinFrame
      <4>1. current = t
        BY <3>2 DEF WithinFrame, SendInv, OneInSend
      <4>2. Awaited(t) = missing /\ Continues(t) /\ missing \in Nat
        BY <3>2, <4>1 DEF WithinFrame, Awaited, Continues, SendInv, TypeOK
      <4> QED
        BY <1>1, <1>3, <3>2, <4>1, <4>2 DEF SendInv, PeerInStep, WithinFrame
    <3> QED
      BY <3>1, <3>2 DEF SendInv, PeerInStep
  <2>4. inStep' /\ current' = t /\ missing' = Awaited(t) - n
    BY <2>3
  <2>5. sent'[t] + missing' = frame[t].size
    BY <1>1, <1>3, <1>4, <2>2, <2>3, <2>4
  <2>6. sent'[t] > 0 /\ missing' \in Nat
    BY <1>1, <1>3, <1>5, <2>2 DEF TypeOK
  <2>7. CASE missing' = 0
    <3>1. sent'[t] = frame[t].size
      BY <1>1, <1>3, <2>2, <2>5, <2>7
    <3> QED
      BY <2>1, <2>4, <2>7, <3>1 DEF BetweenFrames
  <2>8. CASE missing' > 0
    BY <2>4, <2>5, <2>6, <2>8 DEF WithinFrame
  <2> QED
    BY <2>6, <2>7, <2>8
<1> QED
  BY <1>5, <1>6, <1>7, <1>8 DEF SendInv

\* A call that returns true has sent its frame, and one that returns false a
\* part of it or nothing.
LEMMA ReturnAnswers ==
  ASSUME SendInv, NEW t \in Senders, ReturnAll(t) \/ ReturnShort(t) \/ ReturnError(t)
  PROVE  \E bytesSent \in Int :
           /\ Return(t, bytesSent)
           /\ bytesSent = frame[t].size => sent[t] = frame[t].size
           /\ frame[t].size = 0 => sent[t] = frame[t].size
           /\ sent[t] # frame[t].size => bytesSent # frame[t].size
<1>1. sent[t] \in Nat /\ frame[t].size \in Nat /\ sent[t] <= frame[t].size
  BY SendAssumption DEF SendInv, TypeOK, Frames
<1>2. CASE ReturnAll(t)
  BY <1>1, <1>2 DEF ReturnAll
<1>3. CASE ReturnShort(t)
  BY <1>1, <1>3 DEF ReturnShort
<1>4. CASE ReturnError(t)
  <2>1. Return(t, -1) /\ sent[t] < frame[t].size
    BY <1>4 DEF ReturnError
  <2>2. -1 \in Int /\ -1 # frame[t].size /\ frame[t].size # 0
    BY <1>1, <2>1
  <2> QED
    BY <2>1, <2>2
<1> QED
  BY <1>2, <1>3, <1>4

LEMMA ReturnKeepsInv ==
  ASSUME SendInv, NEW t \in Senders, ReturnAll(t) \/ ReturnShort(t) \/ ReturnError(t)
  PROVE  SendInv'
<1> USE DEF wire
<1>1. PICK bytesSent \in Int :
        /\ Return(t, bytesSent)
        /\ bytesSent = frame[t].size => sent[t] = frame[t].size
        /\ frame[t].size = 0 => sent[t] = frame[t].size
        /\ sent[t] # frame[t].size => bytesSent # frame[t].size
  BY ReturnAnswers
<1>2. /\ frame[t] \in Frames /\ frame[t].size \in Nat
      /\ sent[t] \in Nat /\ sent[t] <= frame[t].size
  BY SendAssumption DEF SendInv, TypeOK, Frames
<1>3. /\ call[t] = "sending"
      /\ call' = [call EXCEPT ![t] = "idle"]
      /\ sent' = [sent EXCEPT ![t] = 0]
      /\ frame' = [frame EXCEPT ![t] = NoFrame]
      /\ UNCHANGED <<packet, calls, wire, overlapped, corrupt>>
  BY <1>1 DEF Return
<1>4. /\ claimed' \in Nat /\ lost' \in Nat
      /\ lost' = 0 => lost = 0 /\ sent[t] \in {0, frame[t].size}
  <2>1. claimed \in Nat /\ lost \in Nat
    BY DEF SendInv, TypeOK
  <2>2. CASE SendingSuccessful(bytesSent, frame[t].size)
    BY <1>1, <1>2, <2>1, <2>2 DEF Return, SendingSuccessful
  <2>3. CASE ~SendingSuccessful(bytesSent, frame[t].size)
    BY <1>1, <1>2, <2>1, <2>3 DEF Return
  <2> QED
    BY <2>2, <2>3
<1>5. NoFrame \in Frames /\ NoFrame.size = 0
  <2>1. 0 \in 0..BufferSize /\ 0 \in 0..(LengthMod - 1)
    BY SendAssumption
  <2> QED
    BY <2>1 DEF NoFrame, Frames
<1>6. /\ sent'[t] = 0 /\ frame'[t] = NoFrame /\ call'[t] = "idle"
      /\ \A u \in Senders \ {t} :
           sent'[u] = sent[u] /\ frame'[u] = frame[u] /\ call'[u] = call[u]
  BY <1>3 DEF SendInv, TypeOK
<1>7. TypeOK'
  <2>1. frame' \in [Senders -> Frames] /\ sent' \in [Senders -> Nat]
          /\ call' \in [Senders -> {"idle", "sending"}]
    BY <1>3, <1>5 DEF SendInv, TypeOK
  <2>2. \A u \in Senders : sent'[u] <= frame'[u].size
    BY <1>5, <1>6 DEF SendInv, TypeOK
  <2> QED
    BY <1>3, <1>4, <2>1, <2>2 DEF SendInv, TypeOK
<1>8. LengthsAgree' /\ IdleIsEmpty' /\ OneInSend'
  <2>1. LengthsAgree'
    BY <1>6 DEF SendInv, LengthsAgree
  <2>2. IdleIsEmpty'
    BY <1>6 DEF SendInv, IdleIsEmpty
  <2>3. OneInSend'
    BY <1>3, <1>6 DEF SendInv, OneInSend
  <2> QED
    BY <2>1, <2>2, <2>3
<1>9. PeerInStep'
  <2> SUFFICES ASSUME ~overlapped, lost' = 0
               PROVE  inStep /\ BetweenFrames'
    BY <1>3 DEF PeerInStep
  <2>1. inStep /\ (BetweenFrames \/ WithinFrame) /\ sent[t] \in {0, frame[t].size}
    BY <1>4 DEF SendInv, PeerInStep
  <2>2. ~WithinFrame
    <3> SUFFICES ASSUME WithinFrame PROVE FALSE
      OBVIOUS
    <3>1. current = t
      BY <1>3 DEF WithinFrame, SendInv, OneInSend
    <3>2. missing \in Nat
      BY SendAssumption DEF SendInv, TypeOK
    <3> QED
      BY <1>2, <2>1, <3>1, <3>2 DEF WithinFrame
  <2> QED
    BY <1>3, <1>5, <1>6, <2>1, <2>2 DEF BetweenFrames
<1> QED
  BY <1>7, <1>8, <1>9 DEF SendInv

LEMMA NextKeepsInv == SendInv /\ [Next]_vars => SendInv'
<1> SUFFICES ASSUME SendInv, [Next]_vars PROVE SendInv'
  OBVIOUS
<1>1. ASSUME NEW t \in Senders, Begin(t) PROVE SendInv'
  <2>1. ASSUME NEW slot \in Slots, NEW s \in Strings, SetString(t, slot, s)
        PROVE  SendInv'
    BY <2>1, SetStringKeepsInv
  <2>2. CASE Compose(t)
    BY <2>2, ComposeKeepsInv
  <2>3. CASE Overrun(t)
    BY <2>3 DEF Overrun, wire, outcome, SendInv, TypeOK, LengthsAgree,
                IdleIsEmpty, OneInSend, PeerInStep, BetweenFrames, WithinFrame
  <2> QED
    BY <1>1, <2>1, <2>2, <2>3 DEF Begin
<1>2. ASSUME NEW t \in Senders, InSend(t) \/ ReturnShort(t) PROVE SendInv'
  BY <1>2, TakeKeepsInv, ReturnKeepsInv DEF InSend
<1>3. CASE PeerReads
  <2>1. unread' \in 0..Capacity
    BY <1>3, SendAssumption DEF PeerReads, SendInv, TypeOK
  <2> QED
    BY <1>3, <2>1 DEF PeerReads, outcome, SendInv, TypeOK, LengthsAgree,
                IdleIsEmpty, OneInSend, PeerInStep, BetweenFrames, WithinFrame
<1>4. CASE PeerGone
  BY <1>4 DEF PeerGone, outcome, SendInv, TypeOK, LengthsAgree,
              IdleIsEmpty, OneInSend, PeerInStep, BetweenFrames, WithinFrame
<1>5. CASE UNCHANGED vars
  BY <1>5 DEF vars, wire, outcome, SendInv, TypeOK, LengthsAgree,
              IdleIsEmpty, OneInSend, PeerInStep, BetweenFrames, WithinFrame
<1> QED
  BY <1>1, <1>2, <1>3, <1>4, <1>5 DEF Next
-----------------------------------------------------------------------------
(***************************************************************************)
(* The bytes of the calls.                                                 *)
(***************************************************************************)
LEMMA InitAccounted == Init => BytesAccounted
<1> SUFFICES ASSUME Init PROVE BytesAccounted
  OBVIOUS
<1>1. SumFunction([t \in Senders |-> 0]) = 0
  BY SendAssumption, SumOfZeros
<1> QED
  BY <1>1 DEF Init, BytesAccounted

\* What one thread's count becomes changes the sum as it changes the count.
LEMMA SentChanges ==
  ASSUME TypeOK, NEW t \in Senders, NEW n \in Nat
  PROVE  /\ SumFunction([sent EXCEPT ![t] = n]) = SumFunction(sent) - sent[t] + n
         /\ SumFunction(sent) \in Int /\ sent[t] \in Nat
         /\ accepted \in Nat /\ claimed \in Nat /\ lost \in Nat
<1>1. sent \in [Senders -> Int] /\ sent[t] \in Nat /\ n \in Int
  BY DEF TypeOK
<1>2. IsFiniteSet(Senders)
  BY SendAssumption
<1>3. SumFunction(sent) \in Int
  BY <1>1, <1>2, SumType
<1>4. SumFunction([sent EXCEPT ![t] = n]) = SumFunction(sent) - sent[t] + n
  BY <1>1, <1>2, SumUpdate
<1> QED
  BY <1>1, <1>3, <1>4 DEF TypeOK

LEMMA NextKeepsAccounts ==
  SendInv /\ BytesAccounted /\ [Next]_vars => BytesAccounted'
<1> SUFFICES ASSUME SendInv, BytesAccounted, [Next]_vars PROVE BytesAccounted'
  OBVIOUS
<1>1. TypeOK
  BY DEF SendInv
<1>2. ASSUME NEW t \in Senders, NEW n \in 1..BufferSize, Take(t, n)
      PROVE  BytesAccounted'
  <2>1. sent[t] \in Nat /\ n \in Nat
    BY <1>1 DEF TypeOK
  <2>2. sent' = [sent EXCEPT ![t] = sent[t] + n] /\ sent[t] + n \in Nat
    BY <1>2, <2>1 DEF Take
  <2>3. SumFunction(sent') = SumFunction(sent) - sent[t] + (sent[t] + n)
    BY <1>1, <2>2, SentChanges
  <2>4. accepted' = accepted + n /\ claimed' = claimed /\ lost' = lost
    BY <1>2 DEF Take, outcome
  <2>5. SumFunction(sent) \in Int
    BY <1>1, SentChanges
  <2> QED
    BY <1>1, <2>1, <2>3, <2>4, <2>5 DEF BytesAccounted, TypeOK
<1>3. ASSUME NEW t \in Senders, ReturnAll(t) \/ ReturnShort(t) \/ ReturnError(t)
      PROVE  BytesAccounted'
  <2>1. PICK bytesSent \in Int :
          /\ Return(t, bytesSent)
          /\ bytesSent = frame[t].size => sent[t] = frame[t].size
          /\ frame[t].size = 0 => sent[t] = frame[t].size
    BY <1>3, ReturnAnswers
  <2>2. SumFunction(sent') = SumFunction(sent) - sent[t] + 0
    BY <1>1, <2>1, SentChanges DEF Return
  <2>3. \/ claimed' = claimed + sent[t] /\ lost' = lost
        \/ lost' = lost + sent[t] /\ claimed' = claimed
    BY <2>1 DEF Return, SendingSuccessful
  <2>4. accepted' = accepted
    BY <2>1 DEF Return, wire
  <2>5. /\ SumFunction(sent) \in Int /\ sent[t] \in Nat
        /\ accepted \in Nat /\ claimed \in Nat /\ lost \in Nat
    BY <1>1, SentChanges
  <2> QED
    BY <2>2, <2>3, <2>4, <2>5 DEF BytesAccounted
<1>4. CASE UNCHANGED <<accepted, claimed, lost, sent>>
  BY <1>4 DEF BytesAccounted
<1>5. ASSUME NEW t \in Senders, Begin(t)
      PROVE  UNCHANGED <<accepted, claimed, lost, sent>>
  BY <1>5 DEF Begin, SetString, Compose, Overrun, wire, outcome
<1>6. CASE PeerReads \/ PeerGone
  BY <1>4, <1>6 DEF PeerReads, PeerGone, outcome
<1>7. CASE UNCHANGED vars
  BY <1>4, <1>7 DEF vars, wire, outcome
<1> QED
  BY <1>2, <1>3, <1>4, <1>5, <1>6, <1>7 DEF Next, InSend

(***************************************************************************)
(* The length a packet keeps.                                              *)
(***************************************************************************)
Nulls(p) == {slot \in Slots : p.strings[slot] = 0}

\* Equal up to wraps of a uint16_t.
SameInWord(a, b) == \E k \in Int : a = b + k * Word

\* What getLength counts is what is composed, but for the nullptr strings and
\* for the wraps on either side: strings may be longer than the 16 bits.
Counted(p) == SameInWord(p.length + Cardinality(Nulls(p)), HeaderSize + Content(p))

\* A frame with its header first is as long as the packet it was composed of,
\* which fitted the buffer.
ComposedOfPacket ==
  \A t \in Senders :
    call[t] = "sending" /\ frame[t].headerFirst =>
      frame[t].size = packet[t].length + Cardinality(Nulls(packet[t]))

LengthInv == ComposedOfPacket /\ \A t \in Senders : Counted(packet[t])

\* The terms of the two sums for a string.
Uncounted(s) == IF s = 0 THEN 1 ELSE 0
AppendedOf(p) == [slot \in Slots |-> Appended(p.strings[slot])]
UncountedOf(p) == [slot \in Slots |-> Uncounted(p.strings[slot])]

LEMMA Wraps ==
  ASSUME NEW a \in Int
  PROVE  SameInWord(a, a % Word) /\ a % Word \in 0..(Word - 1)
<1>1. Word \in Nat \ {0}
  BY SendAssumption
<1>2. a = (a % Word) + (a \div Word) * Word /\ a \div Word \in Int
  BY <1>1
<1>3. SameInWord(a, a % Word)
  BY <1>2, Zenon DEF SameInWord
<1> QED
  BY <1>1, <1>3

\* Sums and differences keep it.
LEMMA WrapsAdd ==
  ASSUME NEW a \in Int, NEW b \in Int, NEW c \in Int, NEW d \in Int,
         SameInWord(a, b), SameInWord(c, d)
  PROVE  SameInWord(a + c, b + d) /\ SameInWord(a - c, b - d)
<1>1. PICK k \in Int : a = b + k * Word
  BY DEF SameInWord
<1>2. PICK l \in Int : c = d + l * Word
  BY DEF SameInWord
<1>3. Word \in Int /\ k + l \in Int /\ k - l \in Int
  BY SendAssumption
<1>4. /\ (k + l) * Word = k * Word + l * Word
      /\ (k - l) * Word = k * Word - l * Word
      /\ k * Word \in Int /\ l * Word \in Int
  BY <1>3
<1>5. a + c = b + d + (k + l) * Word /\ a - c = b - d + (k - l) * Word
  BY <1>1, <1>2, <1>4
<1> QED
  BY <1>3, <1>5, Zenon DEF SameInWord

\* The bytes counted for a string and those appended differ as its terms do.
LEMMA StringTerms ==
  ASSUME NEW s \in Strings
  PROVE  /\ s \in Nat /\ Appended(s) \in Nat /\ Uncounted(s) \in Nat
         /\ Uncounted(s) <= Appended(s)
         /\ SameInWord(s + Uncounted(s), Appended(s))
<1>1. s \in Nat /\ Word \in Nat \ {0}
  BY SendAssumption
<1>2. CASE s = 0
  <2>1. s + Uncounted(s) = Appended(s) + 0 * Word
    BY <1>1, <1>2 DEF Uncounted, Appended
  <2> QED
    BY <1>1, <1>2, <2>1 DEF Uncounted, Appended, SameInWord
<1>3. CASE s # 0
  <2>0. s - 1 \in Int
    BY <1>1
  <2>1. PICK k \in Int : s - 1 = ((s - 1) % Word) + k * Word
    BY <2>0, Wraps, Zenon DEF SameInWord
  <2>2. (s - 1) % Word \in 0..(Word - 1)
    BY <2>0, Wraps
  <2>3. Appended(s) = ((s - 1) % Word) + 1 /\ Uncounted(s) = 0
    BY <1>3 DEF Appended, Uncounted
  <2>4. k * Word \in Int
    BY <1>1
  <2>5. s + Uncounted(s) = Appended(s) + k * Word
    BY <1>1, <2>1, <2>2, <2>3, <2>4
  <2>6. SameInWord(s + Uncounted(s), Appended(s))
    BY <2>5, Zenon DEF SameInWord
  <2>7. Appended(s) \in Nat /\ Uncounted(s) \in Nat /\ Uncounted(s) <= Appended(s)
    BY <1>1, <2>2, <2>3
  <2> QED
    BY <1>1, <2>6, <2>7
<1> QED
  BY <1>2, <1>3

\* Of a packet, the two counts are the two sums, and what is appended is no less
\* than a byte for each nullptr.
LEMMA PacketSums ==
  ASSUME NEW p \in Packets
  PROVE  /\ AppendedOf(p) \in [Slots -> Nat] /\ UncountedOf(p) \in [Slots -> Nat]
         /\ Content(p) = p.fields + SumFunction(AppendedOf(p))
         /\ Cardinality(Nulls(p)) = SumFunction(UncountedOf(p))
         /\ SumFunction(UncountedOf(p)) <= SumFunction(AppendedOf(p))
         /\ SumFunction(UncountedOf(p)) \in Int /\ SumFunction(AppendedOf(p)) \in Int
         /\ Cardinality(Nulls(p)) \in Nat
         /\ p.fields \in Nat /\ p.length \in Nat /\ p.length < Word
<1>1. p.strings \in [Slots -> Strings] /\ p.fields \in Nat /\ p.length \in 0..(Word - 1)
  BY SendAssumption DEF Packets
<1>2. IsFiniteSet(Slots)
  BY SendAssumption
<1>3. AppendedOf(p) \in [Slots -> Nat] /\ UncountedOf(p) \in [Slots -> Nat]
  BY <1>1, StringTerms DEF AppendedOf, UncountedOf
<1>4. \A slot \in Slots : UncountedOf(p)[slot] <= AppendedOf(p)[slot]
  BY <1>1, StringTerms DEF AppendedOf, UncountedOf
<1>5. Nulls(p) \in SUBSET Slots
  BY DEF Nulls
<1>6. UncountedOf(p) = [slot \in Slots |-> IF slot \in Nulls(p) THEN 1 ELSE 0]
  BY DEF UncountedOf, Uncounted, Nulls
<1>7. Cardinality(Nulls(p)) = SumFunction(UncountedOf(p))
  BY <1>2, <1>5, <1>6, SumCounts
<1>8. AppendedOf(p) \in [Slots -> Int] /\ UncountedOf(p) \in [Slots -> Int]
  BY <1>3
<1>9. SumFunction(UncountedOf(p)) <= SumFunction(AppendedOf(p))
  BY <1>2, <1>4, <1>8, SumMonotone
<1>10. SumFunction(UncountedOf(p)) \in Int /\ SumFunction(AppendedOf(p)) \in Int
  BY <1>2, <1>8, SumType
<1>11. Cardinality(Nulls(p)) \in Nat
  BY <1>2, <1>5, FS_Subset, FS_CardinalityType
<1>12. Content(p) = p.fields + SumFunction(AppendedOf(p))
  BY DEF Content, AppendedOf
<1>13. Word \in Nat
  BY SendAssumption
<1> QED
  BY <1>1, <1>3, <1>7, <1>9, <1>10, <1>11, <1>12, <1>13

LEMMA NewPacketCounted ==
  ASSUME NEW f \in FieldSizes
  PROVE  NewPacket(f) \in Packets /\ Counted(NewPacket(f))
<1> DEFINE p == NewPacket(f)
<1>1. f \in Nat /\ HeaderSize \in Nat /\ HeaderSize + f \in 0..(Word - 1)
        /\ Word \in Nat
  BY SendAssumption
<1>2. [slot \in Slots |-> 0] \in [Slots -> Strings]
  BY SendAssumption
<1>3. p \in Packets
  BY <1>1, <1>2 DEF NewPacket, Packets
<1>4. p.fields = f /\ p.length = HeaderSize + f /\ \A slot \in Slots : p.strings[slot] = 0
  BY DEF NewPacket
<1> HIDE DEF p
<1>5. AppendedOf(p) = UncountedOf(p)
  BY <1>4 DEF AppendedOf, UncountedOf, Appended, Uncounted
<1>6. p.length + Cardinality(Nulls(p)) = HeaderSize + Content(p)
  <2>1. Content(p) = f + Cardinality(Nulls(p)) /\ Cardinality(Nulls(p)) \in Nat
    BY <1>3, <1>4, <1>5, PacketSums
  <2> QED
    BY <1>1, <1>4, <2>1
<1>7. p.length + Cardinality(Nulls(p)) = HeaderSize + Content(p) + 0 * Word
  <2>1. HeaderSize + Content(p) \in Int
    BY <1>1, <1>3, PacketSums
  <2> QED
    BY <1>1, <1>6, <2>1
<1>8. Counted(p)
  BY <1>7 DEF Counted, SameInWord
<1> QED
  BY <1>3, <1>8 DEF p

\* What one string's term becomes changes the sum as it changes the term.
LEMMA SlotChanges ==
  ASSUME NEW f \in [Slots -> Int], NEW slot \in Slots, NEW v \in Int
  PROVE  SumFunction([f EXCEPT ![slot] = v]) = SumFunction(f) - f[slot] + v
BY SendAssumption, SumUpdate

\* A setter keeps the count, whatever was set before.
LEMMA SetStringCounts ==
  ASSUME NEW p \in Packets, Counted(p), NEW slot \in Slots, NEW s \in Strings,
         NEW q \in Packets,
         q.fields = p.fields, q.strings = [p.strings EXCEPT ![slot] = s],
         q.length = LengthAfter(p.length, p.strings[slot], s)
  PROVE  Counted(q)
<1> DEFINE old == p.strings[slot]
           w == p.length - old + s
<1>1. p.strings \in [Slots -> Strings] /\ old \in Strings
  BY DEF Packets
<1>2. IsFiniteSet(Slots) /\ HeaderSize \in Nat
  BY SendAssumption
<1>3. /\ old \in Nat /\ Appended(old) \in Nat /\ Uncounted(old) \in Nat
      /\ SameInWord(old + Uncounted(old), Appended(old))
  BY <1>1, StringTerms
<1>4. /\ s \in Nat /\ Appended(s) \in Nat /\ Uncounted(s) \in Nat
      /\ SameInWord(s + Uncounted(s), Appended(s))
  BY StringTerms
<1>5. /\ AppendedOf(q) = [AppendedOf(p) EXCEPT ![slot] = Appended(s)]
      /\ UncountedOf(q) = [UncountedOf(p) EXCEPT ![slot] = Uncounted(s)]
      /\ AppendedOf(p)[slot] = Appended(old)
      /\ UncountedOf(p)[slot] = Uncounted(old)
  BY <1>1 DEF AppendedOf, UncountedOf
<1>6. /\ AppendedOf(p) \in [Slots -> Int] /\ UncountedOf(p) \in [Slots -> Int]
      /\ Appended(s) \in Int /\ Uncounted(s) \in Int
  BY <1>4, PacketSums
<1>7. SumFunction(AppendedOf(q))
        = SumFunction(AppendedOf(p)) - Appended(old) + Appended(s)
  <2>1. SumFunction([AppendedOf(p) EXCEPT ![slot] = Appended(s)])
          = SumFunction(AppendedOf(p)) - AppendedOf(p)[slot] + Appended(s)
    BY <1>6, SlotChanges, Zenon
  <2> QED
    BY <1>5, <2>1, Zenon
<1>8. SumFunction(UncountedOf(q))
        = SumFunction(UncountedOf(p)) - Uncounted(old) + Uncounted(s)
  <2>1. SumFunction([UncountedOf(p) EXCEPT ![slot] = Uncounted(s)])
          = SumFunction(UncountedOf(p)) - UncountedOf(p)[slot] + Uncounted(s)
    BY <1>6, SlotChanges, Zenon
  <2> QED
    BY <1>5, <2>1, Zenon
<1> DEFINE Lp == p.length
           Np == Cardinality(Nulls(p))
           Cp == Content(p)
           Nq == Cardinality(Nulls(q))
           Cq == Content(q)
<1>9. /\ Lp \in Nat /\ Np \in Nat /\ Cp \in Int /\ Nq \in Nat /\ Cq \in Int
      /\ q.length \in Nat
  BY PacketSums
<1>10. Cq = Cp - Appended(old) + Appended(s) /\ Nq = Np - Uncounted(old) + Uncounted(s)
  <2>1. /\ Cp = p.fields + SumFunction(AppendedOf(p))
        /\ Cq = p.fields + SumFunction(AppendedOf(q))
        /\ Np = SumFunction(UncountedOf(p)) /\ Nq = SumFunction(UncountedOf(q))
        /\ p.fields \in Nat /\ SumFunction(AppendedOf(p)) \in Int
    BY PacketSums
  <2> QED
    BY <1>3, <1>4, <1>7, <1>8, <2>1
<1>11. w \in Int /\ q.length = w % Word
  BY <1>3, <1>4, <1>9 DEF LengthAfter
<1>12. SameInWord(Lp + Np, HeaderSize + Cp)
  BY DEF Counted
<1> HIDE DEF old, w, Lp, Np, Cp, Nq, Cq
<1>13. SameInWord(Lp + Np - (old + Uncounted(old)), HeaderSize + Cp - Appended(old))
  BY <1>2, <1>3, <1>9, <1>12, WrapsAdd
<1>14. SameInWord(Lp + Np - (old + Uncounted(old)) + (s + Uncounted(s)),
                  HeaderSize + Cp - Appended(old) + Appended(s))
  BY <1>2, <1>3, <1>4, <1>9, <1>13, WrapsAdd
<1>15. /\ Lp + Np - (old + Uncounted(old)) + (s + Uncounted(s)) = w + Nq
       /\ HeaderSize + Cp - Appended(old) + Appended(s) = HeaderSize + Cq
  BY <1>2, <1>3, <1>4, <1>9, <1>10 DEF w, Lp
<1>16. SameInWord(w + Nq, HeaderSize + Cq)
  BY <1>14, <1>15
<1>17. SameInWord(w, q.length)
  BY <1>11, Wraps
<1>18. SameInWord(w + Nq - w, HeaderSize + Cq - q.length)
  BY <1>2, <1>9, <1>11, <1>16, <1>17, WrapsAdd
<1>19. PICK k \in Int : w + Nq - w = HeaderSize + Cq - q.length + k * Word
  BY <1>18 DEF SameInWord
<1>20. q.length + Nq = HeaderSize + Cq + k * Word
  <2>1. k * Word \in Int
    BY SendAssumption
  <2> QED
    BY <1>2, <1>9, <1>11, <1>19, <2>1
<1> QED
  BY <1>20, Zenon DEF Counted, SameInWord, Nq, Cq

\* A packet that fits the buffer is composed as long as counted.
LEMMA FittingIsExact ==
  ASSUME NEW p \in Packets, Counted(p), FitsBuffer(p, 0)
  PROVE  CaretAfter(p, 0) = p.length + Cardinality(Nulls(p))
<1> DEFINE L == p.length
           N == Cardinality(Nulls(p))
           C == Content(p)
<1>1. /\ Word \in Nat /\ HeaderSize \in Nat \ {0}
      /\ BufferSize \in Nat /\ BufferSize < Word
  BY SendAssumption
<1>2. L \in Nat /\ L < Word /\ N \in Nat /\ C \in Int /\ N <= C
  BY PacketSums
<1>3. CaretAfter(p, 0) = HeaderSize + C /\ HeaderSize + C <= BufferSize
  BY <1>1, <1>2 DEF FitsBuffer, CaretAfter
<1>4. PICK k \in Int : L + N = HeaderSize + C + k * Word
  BY DEF Counted, SameInWord
<1> HIDE DEF L, N, C
<1>5. k * Word \in Int /\ k * Word < Word /\ k * Word > 0 - Word
  BY <1>1, <1>2, <1>3, <1>4
<1>6. k = 0
  <2>1. CASE k >= 1
    <3>1. k * Word >= Word
      BY <1>1, <2>1
    <3> QED
      BY <1>1, <1>5, <3>1
  <2>2. CASE k <= -1
    <3>1. k * Word <= 0 - Word
      BY <1>1, <2>2
    <3> QED
      BY <1>1, <1>5, <3>1
  <2> QED
    BY <2>1, <2>2
<1> QED
  BY <1>1, <1>2, <1>3, <1>4, <1>6 DEF L, N

LEMMA InitLengths == Init => LengthInv
BY NewPacketCounted DEF Init, LengthInv, ComposedOfPacket

LEMMA NextKeepsLengths == SendInv /\ LengthInv /\ [Next]_vars => LengthInv'
<1> SUFFICES ASSUME SendInv, LengthInv, [Next]_vars PROVE LengthInv'
  OBVIOUS
<1>1. TypeOK
  BY DEF SendInv
<1>2. ASSUME NEW t \in Senders, NEW slot \in Slots, NEW s \in Strings,
             SetString(t, slot, s)
      PROVE  LengthInv'
  <2> DEFINE p == packet[t]
             q == packet'[t]
  <2>1. p \in Packets /\ p.strings \in [Slots -> Strings]
    BY <1>1 DEF TypeOK, Packets
  <2>2. packet' = [packet EXCEPT ![t] =
          [p EXCEPT !.strings[slot] = s,
                    !.length = LengthAfter(p.length, p.strings[slot], s)]]
    BY <1>1, <1>2 DEF SetString, TypeOK
  <2>3. /\ q.fields = p.fields /\ q.strings = [p.strings EXCEPT ![slot] = s]
        /\ q.length = LengthAfter(p.length, p.strings[slot], s)
        /\ \A u \in Senders \ {t} : packet'[u] = packet[u]
    BY <1>1, <2>1, <2>2 DEF TypeOK, Packets
  <2>4. q \in Packets
    BY <1>2, SetStringKeepsInv DEF SendInv, TypeOK
  <2>5. Counted(q)
    BY <2>1, <2>3, <2>4, SetStringCounts DEF LengthInv
  <2>6. ComposedOfPacket'
    BY <1>2, <2>3 DEF SetString, ComposedOfPacket, LengthInv
  <2> QED
    BY <2>3, <2>5, <2>6 DEF LengthInv
<1>3. ASSUME NEW t \in Senders, Compose(t) PROVE LengthInv'
  <2>1. PICK caret \in FreshCaret :
          /\ FitsBuffer(packet[t], caret)
          /\ frame' = [frame EXCEPT ![t] =
               [size |-> SizeToSend(packet[t], caret),
                lengthField |-> LengthField(packet[t], caret),
                headerFirst |-> caret = 0]]
    BY <1>3 DEF Compose
  <2>2. /\ frame'[t].size = CaretAfter(packet[t], caret)
        /\ frame'[t].headerFirst = (caret = 0)
        /\ \A u \in Senders \ {t} : frame'[u] = frame[u]
    BY <1>1, <2>1 DEF SizeToSend, TypeOK
  <2>3. packet' = packet /\ \A u \in Senders \ {t} : call'[u] = call[u]
    BY <1>1, <1>3 DEF Compose, TypeOK
  <2>4. frame'[t].headerFirst =>
          frame'[t].size = packet[t].length + Cardinality(Nulls(packet[t]))
    BY <1>1, <2>1, <2>2, FittingIsExact DEF TypeOK, LengthInv
  <2> QED
    BY <2>2, <2>3, <2>4 DEF LengthInv, ComposedOfPacket
<1>4. ASSUME NEW t \in Senders, ReturnAll(t) \/ ReturnShort(t) \/ ReturnError(t)
      PROVE  LengthInv'
  <2>1. PICK bytesSent \in Int : Return(t, bytesSent)
    BY <1>4, ReturnAnswers
  <2>2. packet' = packet /\ call'[t] = "idle"
    BY <1>1, <2>1 DEF Return, TypeOK
  <2>3. \A u \in Senders \ {t} : frame'[u] = frame[u] /\ call'[u] = call[u]
    BY <1>1, <2>1 DEF Return, TypeOK
  <2> QED
    BY <2>2, <2>3 DEF LengthInv, ComposedOfPacket
<1>5. CASE UNCHANGED <<packet, call, frame>>
  BY <1>5 DEF LengthInv, ComposedOfPacket
<1>6. ASSUME NEW t \in Senders, Overrun(t) \/ \E n \in 1..BufferSize : Take(t, n)
      PROVE  UNCHANGED <<packet, call, frame>>
  BY <1>6 DEF Overrun, Take
<1>7. CASE PeerReads \/ PeerGone
  BY <1>5, <1>7 DEF PeerReads, PeerGone
<1>8. CASE UNCHANGED vars
  BY <1>5, <1>8 DEF vars
<1> QED
  BY <1>2, <1>3, <1>4, <1>5, <1>6, <1>7, <1>8 DEF Next, Begin, InSend
-----------------------------------------------------------------------------
LEMMA SendInvHolds == Spec => []SendInv
BY InitSendInv, NextKeepsInv, PTL DEF Spec

\* What sendData hands to ::send is as long as the header in it says, for every
\* response, caret and size of buffer that is below the eleven bits' range.
THEOREM HeaderTellsSize == Spec => []LengthsAgree
<1>1. SendInv => LengthsAgree
  BY DEF SendInv
<1> QED
  BY <1>1, SendInvHolds, PTL

\* Each variable keeps its type.
THEOREM SendTypes == Spec => []TypeOK
<1>1. SendInv => TypeOK
  BY DEF SendInv
<1> QED
  BY <1>1, SendInvHolds, PTL

\* The peer finds every frame as it was composed until two calls overlap or one
\* returns false with its frame cut.
THEOREM PeerKeepsStep == Spec => []OutOfStepHasCause
<1>1. SendInv => OutOfStepHasCause
  BY DEF SendInv, TypeOK, PeerInStep, OutOfStepHasCause
<1> QED
  BY <1>1, SendInvHolds, PTL

\* What sendData answered and what is under way account for every byte ::send
\* took, for any number of threads and however their calls fall together.
THEOREM AnswersAccount == Spec => []BytesAccounted
BY InitAccounted, NextKeepsAccounts, SendInvHolds, PTL DEF Spec

\* After any sequence of setters, with strings of any length, a composed frame
\* is as long as getLength says and a byte for each nullptr.
THEOREM LengthIsDeclared == Spec => []DeclaredLength
<1>1. Spec => []LengthInv
  BY InitLengths, NextKeepsLengths, SendInvHolds, PTL DEF Spec
<1>2. LengthInv => DeclaredLength
  BY DEF LengthInv, ComposedOfPacket, DeclaredLength, Nulls
<1> QED
  BY <1>1, <1>2, PTL

\* While one thread alone sends to a client, the peer loses the frames only to a
\* call that returned false after a part of its frame had been sent.
THEOREM OneThreadKeepsStep ==
  ASSUME \A t, u \in Senders : t = u
  PROVE  Spec => [](inStep \/ lost > 0)
<1>1. Init => ~overlapped
  BY DEF Init
<1>2. ~overlapped /\ [Next]_vars => ~overlapped'
  <2> SUFFICES ASSUME ~overlapped, [Next]_vars PROVE ~overlapped'
    OBVIOUS
  <2>1. ASSUME NEW t \in Senders, Compose(t) PROVE ~overlapped'
    BY <2>1 DEF Compose
  <2>2. CASE overlapped' = overlapped
    BY <2>2
  <2> QED
    BY <2>1, <2>2 DEF Next, Begin, SetString, Overrun, InSend, Take, ReturnAll,
      ReturnShort, ReturnError, Return, PeerReads, PeerGone, vars
<1>3. ~overlapped /\ OutOfStepHasCause => inStep \/ lost > 0
  BY DEF OutOfStepHasCause
<1> QED
  BY <1>1, <1>2, <1>3, PeerKeepsStep, PTL DEF Spec
=============================================================================
