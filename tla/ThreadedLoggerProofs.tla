------------------------ MODULE ThreadedLoggerProofs ------------------------
(***************************************************************************)
(* Theorems about ThreadedLogger for every set of threads and every number *)
(* of messages.  The inductive invariant adds to the properties that       *)
(* nothing is printed or moved before the queue was replaced, that the     *)
(* local queue is empty outside the printing, and that a thread that       *)
(* pushes has a message left.  From it follow that the logger acts as the  *)
(* one queue of MessageQueue and, with the numbers of the messages that    *)
(* were pushed, that the messages of each thread are printed in turn.      *)
(***************************************************************************)
EXTENDS ThreadedLogger, SequenceTheorems, TLAPS

LocalQueue ==
  /\ loggerPc # "printing" => copy = <<>>
  /\ loggerPc \in {"unstarted", "starting"} => printed = <<>> /\ discarded = 0
  /\ \A t \in Threads : threadPc[t] = "pushing" => logged[t] < MaxMessages

LoggerInv == TypeOK /\ OneAtATime /\ LocalQueue /\ NothingLost

(***************************************************************************)
(* Three facts about sequences: what a push, a print and the suffix of the *)
(* accepted messages do.                                                   *)
(***************************************************************************)
LEMMA AppendLast ==
  ASSUME NEW S, NEW p \in Seq(S), NEW h \in Seq(S), NEW e \in S
  PROVE  p \o Append(h, e) = Append(p \o h, e)
<1>1. <<e>> \in Seq(S)
  OBVIOUS
<1>2. Append(h, e) = h \o <<e>>
  BY AppendIsConcat
<1>3. p \o h \in Seq(S)
  BY ConcatProperties
<1>4. Append(p \o h, e) = (p \o h) \o <<e>>
  BY <1>3, AppendIsConcat
<1>5. (p \o h) \o <<e>> = p \o (h \o <<e>>)
  BY <1>1, ConcatAssociative
<1> QED
  BY <1>2, <1>4, <1>5

LEMMA MoveHead ==
  ASSUME NEW S, NEW p \in Seq(S), NEW c \in Seq(S), c # <<>>
  PROVE  Append(p, Head(c)) \o Tail(c) = p \o c
<1>1. Head(c) \in S /\ Tail(c) \in Seq(S) /\ Len(c) \in Nat \ {0}
  BY HeadTailProperties, EmptySeq
<1>2. <<Head(c)>> \in Seq(S) /\ Head(c) = c[1]
  BY <1>1
<1>3. Tail(c) = SubSeq(c, 2, Len(c))
  BY TailIsSubSeq
<1>4. SubSeq(c, 1, Len(c)) = <<c[1]>> \o SubSeq(c, 1 + 1, Len(c))
  <2>1. 1 \in 1..Len(c) /\ Len(c) \in 1..Len(c)
    BY <1>1
  <2> QED
    BY <2>1, SubSeqRecursiveFirst
<1>5. c = <<Head(c)>> \o Tail(c)
  BY <1>2, <1>3, <1>4, SubSeqFull
<1>6. Append(p, Head(c)) = p \o <<Head(c)>>
  BY <1>1, AppendIsConcat
<1>7. (p \o <<Head(c)>>) \o Tail(c) = p \o (<<Head(c)>> \o Tail(c))
  BY <1>1, <1>2, ConcatAssociative
<1> QED
  BY <1>5, <1>6, <1>7

LEMMA SuffixGrows ==
  ASSUME NEW S, NEW s \in Seq(S), NEW e \in S, NEW d \in 0..Len(s)
  PROVE  SubSeq(Append(s, e), d + 1, Len(s) + 1)
           = Append(SubSeq(s, d + 1, Len(s)), e)
<1> DEFINE N == Len(s)
           g == Append(s, e)
<1>1. N \in Nat /\ d \in Nat /\ d <= N
  BY LenProperties
<1>2. g \in Seq(S) /\ Len(g) = N + 1 /\ g[N + 1] = e
  BY AppendProperties
<1>3. SubSeq(g, d + 1, N + 1) = SubSeq(g, d + 1, N) \o <<e>>
  <2>1. d + 1 \in 1..Len(g) /\ N + 1 \in (d + 1)..Len(g) /\ (N + 1) - 1 = N
    BY <1>1, <1>2
  <2>2. SubSeq(g, d + 1, N + 1) = SubSeq(g, d + 1, (N + 1) - 1) \o <<g[N + 1]>>
    BY <1>2, <2>1, SubSeqRecursiveSecond
  <2> QED
    BY <1>2, <2>1, <2>2
<1>4. SubSeq(g, d + 1, N) = SubSeq(s, d + 1, N)
  <2>1. CASE d = N
    <3>1. N < d + 1 /\ d + 1 \in Int /\ N \in Int
      BY <1>1, <2>1
    <3> QED
      BY <3>1, SubSeqEmpty
  <2>2. CASE d < N
    <3>1. d + 1 \in 1..Len(s) /\ N \in 1..Len(s)
      BY <1>1, <2>2
    <3>2. <<e>> \in Seq(S) /\ g = s \o <<e>>
      BY AppendIsConcat
    <3> HIDE DEF g, N
    <3> QED
      BY <3>1, <3>2, SubSeqOfConcat1
  <2> QED
    BY <1>1, <2>1, <2>2
<1>5. SubSeq(s, d + 1, N) \in Seq(S)
  <2>1. \A i \in (d + 1)..N : s[i] \in S
    BY <1>1, ElementOfSeq
  <2> QED
    BY <1>1, <2>1, SubSeqProperties
<1>6. Append(SubSeq(s, d + 1, N), e) = SubSeq(s, d + 1, N) \o <<e>>
  BY <1>5, AppendIsConcat
<1> QED
  BY <1>3, <1>4, <1>6

(***************************************************************************)
(* The steps.                                                              *)
(***************************************************************************)
LEMMA LoggerInit == Init => LoggerInv
<1> SUFFICES ASSUME Init PROVE LoggerInv
  OBVIOUS
<1> USE LoggerAssumption DEF Init
<1>1. <<>> \in Seq(Message) /\ Len(<<>>) = 0
  OBVIOUS
<1>2. TypeOK
  <2>1. discarded \in 0..Len(accepted)
    BY <1>1
  <2>2. /\ threadPc \in [Threads -> {"idle", "pushing", "pushed"}]
        /\ logged \in [Threads -> 0..MaxMessages]
    OBVIOUS
  <2>3. /\ streamHolder \in Seq(Message) /\ copy \in Seq(Message)
        /\ printed \in Seq(Message) /\ accepted \in Seq(Message)
    BY <1>1
  <2> QED
    BY <2>1, <2>2, <2>3 DEF TypeOK
<1>3. OneAtATime /\ LocalQueue
  BY DEF OneAtATime, LocalQueue
<1>4. SubSeq(accepted, discarded + 1, Len(accepted)) = <<>>
  BY <1>1, SubSeqEmpty
<1>5. printed \o copy \o streamHolder = <<>>
  BY <1>1, ConcatEmptySeq
<1> QED
  BY <1>2, <1>3, <1>4, <1>5 DEF LoggerInv, NothingLost

\* The push is the only step of a logging thread that touches the queue.
LEMMA PushKeeps ==
  ASSUME LoggerInv, NEW t \in Threads, Push(t), ~torn
  PROVE  LoggerInv'
<1> USE LoggerAssumption
<1>1. TypeOK /\ OneAtATime /\ LocalQueue /\ NothingLost
  BY DEF LoggerInv
<1> DEFINE e == <<t, logged[t] + 1>>
           queued == printed \o copy
<1>2. /\ threadPc[t] = "pushing"
      /\ streamHolder' = Append(streamHolder, e)
      /\ accepted' = Append(accepted, e)
      /\ threadPc' = [threadPc EXCEPT ![t] = "pushed"]
      /\ logged' = [logged EXCEPT ![t] = logged[t] + 1]
      /\ UNCHANGED <<inputMutex, loggerPc, copy, printed, discarded, torn>>
  BY DEF Push
<1>3. logged[t] \in Nat /\ logged[t] < MaxMessages
  BY <1>1, <1>2 DEF TypeOK, LocalQueue
<1>4. e \in Message
  BY <1>3 DEF Message
<1>5. /\ accepted \in Seq(Message) /\ streamHolder \in Seq(Message)
      /\ copy \in Seq(Message) /\ printed \in Seq(Message)
      /\ discarded \in 0..Len(accepted) /\ Len(accepted) \in Nat
  BY <1>1 DEF TypeOK
<1> HIDE DEF e
<1>6. /\ accepted' \in Seq(Message) /\ streamHolder' \in Seq(Message)
      /\ Len(accepted') = Len(accepted) + 1
  BY <1>2, <1>4, <1>5, AppendProperties
<1>7. logged' \in [Threads -> 0..MaxMessages]
  BY <1>1, <1>2, <1>3 DEF TypeOK
<1>8. TypeOK'
  BY <1>1, <1>2, <1>5, <1>6, <1>7 DEF TypeOK
<1>9. OneAtATime' /\ LocalQueue'
  BY <1>1, <1>2 DEF OneAtATime, LocalQueue, TypeOK
<1>10. NothingLost'
  <2>1. queued \in Seq(Message)
    BY <1>5, ConcatProperties
  <2>2. queued \o streamHolder' = Append(queued \o streamHolder, e)
    BY <1>2, <1>4, <1>5, <2>1, AppendLast
  <2>3. SubSeq(accepted', discarded + 1, Len(accepted) + 1)
          = Append(SubSeq(accepted, discarded + 1, Len(accepted)), e)
    BY <1>2, <1>4, <1>5, SuffixGrows
  <2>4. queued \o streamHolder = SubSeq(accepted, discarded + 1, Len(accepted))
    BY <1>1 DEF NothingLost
  <2>5. queued \o streamHolder' = SubSeq(accepted', discarded + 1, Len(accepted'))
    BY <1>6, <2>2, <2>3, <2>4
  <2> QED
    BY <1>2, <2>5 DEF NothingLost
<1> QED
  BY <1>8, <1>9, <1>10 DEF LoggerInv

LEMMA LockAndUnlockKeep ==
  ASSUME LoggerInv, NEW t \in Threads, Lock(t) \/ Unlock(t)
  PROVE  LoggerInv'
<1> USE LoggerAssumption DEF history
<1>1. TypeOK /\ OneAtATime /\ LocalQueue /\ NothingLost
  BY DEF LoggerInv
<1>2. UNCHANGED <<streamHolder, logged, loggerPc, copy, printed, history, torn>>
  BY DEF Lock, Unlock
<1>3. CASE Lock(t)
  <2>1. TypeOK'
    BY <1>1, <1>2, <1>3 DEF Lock, TypeOK
  <2>2. OneAtATime' /\ LocalQueue'
    BY <1>1, <1>2, <1>3 DEF Lock, TypeOK, OneAtATime, LocalQueue
  <2> QED
    BY <1>1, <1>2, <2>1, <2>2 DEF LoggerInv, NothingLost
<1>4. CASE Unlock(t)
  <2>1. TypeOK'
    BY <1>1, <1>2, <1>4 DEF Unlock, TypeOK
  <2>2. OneAtATime' /\ LocalQueue'
    BY <1>1, <1>2, <1>4 DEF Unlock, TypeOK, OneAtATime, LocalQueue
  <2> QED
    BY <1>1, <1>2, <2>1, <2>2 DEF LoggerInv, NothingLost
<1> QED
  BY <1>3, <1>4

LEMMA ReplaceKeeps ==
  ASSUME LoggerInv, Replace
  PROVE  LoggerInv'
<1> USE LoggerAssumption
<1>1. TypeOK /\ OneAtATime /\ LocalQueue
  BY DEF LoggerInv
<1>2. /\ loggerPc = "starting" /\ loggerPc' = "checking"
      /\ streamHolder' = <<>> /\ discarded' = Len(accepted)
      /\ UNCHANGED <<inputMutex, threadPc, logged, copy, printed, accepted>>
  BY DEF Replace
<1>3. torn' \in BOOLEAN
  BY <1>1 DEF Replace, TypeOK
<1>4. accepted \in Seq(Message) /\ Len(accepted) \in Nat /\ <<>> \in Seq(Message)
  BY <1>1 DEF TypeOK
<1>5. copy = <<>> /\ printed = <<>>
  BY <1>1, <1>2 DEF LocalQueue
<1>6. TypeOK'
  BY <1>1, <1>2, <1>3, <1>4 DEF TypeOK
<1>7. OneAtATime' /\ LocalQueue'
  BY <1>1, <1>2, <1>5 DEF OneAtATime, LocalQueue, TypeOK
<1>8. NothingLost'
  <2>1. SubSeq(accepted, Len(accepted) + 1, Len(accepted)) = <<>>
    BY <1>4, SubSeqEmpty
  <2>2. printed \o copy \o streamHolder' = <<>>
    BY <1>2, <1>4, <1>5, ConcatEmptySeq
  <2> QED
    BY <1>2, <2>1, <2>2 DEF NothingLost
<1> QED
  BY <1>6, <1>7, <1>8 DEF LoggerInv

\* The logger thread's steps that leave the queues alone.
LEMMA WaitingKeeps ==
  ASSUME LoggerInv, Start \/ Check \/ LockToMove \/ PrintingDone
  PROVE  LoggerInv'
<1> USE LoggerAssumption DEF history
<1>1. TypeOK /\ OneAtATime /\ LocalQueue /\ NothingLost
  BY DEF LoggerInv
<1>2. UNCHANGED <<streamHolder, threadPc, logged, copy, printed, history, torn>>
  BY DEF Start, Check, LockToMove, PrintingDone
<1>3. CASE Start
  <2>1. TypeOK' /\ OneAtATime' /\ LocalQueue'
    BY <1>1, <1>2, <1>3 DEF Start, TypeOK, OneAtATime, LocalQueue
  <2> QED
    BY <1>1, <1>2, <2>1 DEF LoggerInv, NothingLost
<1>4. CASE Check
  <2>1. TypeOK' /\ OneAtATime' /\ LocalQueue'
    BY <1>1, <1>2, <1>4 DEF Check, TypeOK, OneAtATime, LocalQueue
  <2> QED
    BY <1>1, <1>2, <2>1 DEF LoggerInv, NothingLost
<1>5. CASE LockToMove
  <2>1. TypeOK' /\ OneAtATime' /\ LocalQueue'
    BY <1>1, <1>2, <1>5 DEF LockToMove, TypeOK, OneAtATime, LocalQueue
  <2> QED
    BY <1>1, <1>2, <2>1 DEF LoggerInv, NothingLost
<1>6. CASE PrintingDone
  <2>1. TypeOK' /\ OneAtATime' /\ LocalQueue'
    BY <1>1, <1>2, <1>6 DEF PrintingDone, TypeOK, OneAtATime, LocalQueue
  <2> QED
    BY <1>1, <1>2, <2>1 DEF LoggerInv, NothingLost
<1> QED
  BY <1>3, <1>4, <1>5, <1>6

LEMMA MoveKeeps ==
  ASSUME LoggerInv, Move
  PROVE  LoggerInv'
<1> USE LoggerAssumption DEF history
<1>1. TypeOK /\ OneAtATime /\ LocalQueue /\ NothingLost
  BY DEF LoggerInv
<1>2. /\ loggerPc = "moving" /\ loggerPc' = "printing"
      /\ copy' = streamHolder /\ streamHolder' = <<>> /\ inputMutex' = Nobody
      /\ UNCHANGED <<threadPc, logged, printed, history, torn>>
  BY DEF Move
<1>3. /\ printed \in Seq(Message) /\ streamHolder \in Seq(Message)
      /\ <<>> \in Seq(Message)
  BY <1>1 DEF TypeOK
<1>4. TypeOK'
  BY <1>1, <1>2, <1>3 DEF TypeOK
<1>5. OneAtATime' /\ LocalQueue'
  BY <1>1, <1>2 DEF OneAtATime, LocalQueue, TypeOK
<1>6. printed \o copy = printed /\ copy = <<>>
  BY <1>1, <1>2, <1>3, ConcatEmptySeq DEF LocalQueue
<1>7. printed \o streamHolder \in Seq(Message)
  BY <1>3, ConcatProperties
<1>8. (printed \o streamHolder) \o <<>> = printed \o streamHolder
  BY <1>7, ConcatEmptySeq
<1>9. NothingLost'
  BY <1>1, <1>2, <1>6, <1>8 DEF NothingLost
<1> QED
  BY <1>4, <1>5, <1>9 DEF LoggerInv

LEMMA PrintKeeps ==
  ASSUME LoggerInv, PrintFront
  PROVE  LoggerInv'
<1> USE LoggerAssumption DEF history
<1>1. TypeOK /\ OneAtATime /\ LocalQueue /\ NothingLost
  BY DEF LoggerInv
<1>2. /\ loggerPc = "printing" /\ copy # <<>>
      /\ printed' = Append(printed, Head(copy)) /\ copy' = Tail(copy)
      /\ UNCHANGED <<inputMutex, streamHolder, threadPc, logged, loggerPc,
                     history, torn>>
  BY DEF PrintFront
<1>3. printed \in Seq(Message) /\ copy \in Seq(Message)
  BY <1>1 DEF TypeOK
<1>4. Head(copy) \in Message /\ copy' \in Seq(Message)
  BY <1>2, <1>3, HeadTailProperties
<1>5. printed' \in Seq(Message)
  BY <1>2, <1>3, <1>4, AppendProperties
<1>6. TypeOK'
  BY <1>1, <1>2, <1>4, <1>5 DEF TypeOK
<1>7. OneAtATime' /\ LocalQueue'
  BY <1>1, <1>2 DEF OneAtATime, LocalQueue
<1>8. printed' \o copy' = printed \o copy
  BY <1>2, <1>3, MoveHead
<1>9. NothingLost'
  BY <1>1, <1>2, <1>8 DEF NothingLost
<1> QED
  BY <1>6, <1>7, <1>9 DEF LoggerInv

LEMMA LoggerStepKeeps == LoggerInv /\ [Next]_vars => LoggerInv'
<1> SUFFICES ASSUME LoggerInv, [Next]_vars PROVE LoggerInv'
  OBVIOUS
<1>1. CASE LoggerStep
  BY <1>1, WaitingKeeps, ReplaceKeeps, MoveKeeps, PrintKeeps DEF LoggerStep
<1>2. ASSUME NEW t \in Threads, LogStart(t) \/ LogStep(t) PROVE LoggerInv'
  BY <1>2, LockAndUnlockKeep, PushKeeps DEF LogStart, LogStep
<1>3. CASE UNCHANGED vars
  <2>1. TypeOK' /\ OneAtATime' /\ LocalQueue' /\ NothingLost'
    BY <1>3 DEF vars, LoggerInv, TypeOK, OneAtATime, LocalQueue, NothingLost
  <2> QED
    BY <2>1 DEF LoggerInv
<1> QED
  BY <1>1, <1>2, <1>3 DEF Next, Torn

(***************************************************************************)
(* The theorems.                                                           *)
(***************************************************************************)
LEMMA LoggerAlways == Spec => []LoggerInv
<1>1. Init => LoggerInv
  BY LoggerInit
<1>2. LoggerInv /\ [Next]_vars => LoggerInv'
  BY LoggerStepKeeps
<1> QED
  BY <1>1, <1>2, PTL DEF Spec

\* inputMutex excludes: log's push and the logger thread's move of the queue
\* never overlap, for any number of threads.
THEOREM MutexExcludes == Spec => [](TypeOK /\ OneAtATime)
<1>1. LoggerInv => TypeOK /\ OneAtATime
  BY DEF LoggerInv
<1> QED
  BY <1>1, LoggerAlways, PTL

\* Every message pushed after the start of the logger thread is printed, being
\* printed or queued, in the order of the pushes and once.
THEOREM MessagesKept == Spec => []NothingLost
<1>1. LoggerInv => NothingLost
  BY DEF LoggerInv
<1> QED
  BY <1>1, LoggerAlways, PTL

(***************************************************************************)
(* The logger implements MessageQueue: the queue there is the local queue  *)
(* followed by streamHolder.                                               *)
(***************************************************************************)
LEMMA FrontOfBoth ==
  ASSUME NEW S, NEW c \in Seq(S), NEW h \in Seq(S), c # <<>>
  PROVE  /\ c \o h # <<>>
         /\ Head(c \o h) = Head(c)
         /\ Tail(c \o h) = Tail(c) \o h
<1>1. Head(c) \in S /\ Tail(c) \in Seq(S) /\ Len(c) \in Nat \ {0} /\ Len(h) \in Nat
  BY HeadTailProperties, EmptySeq
<1>2. /\ c \o h \in Seq(S) /\ Len(c \o h) = Len(c) + Len(h)
      /\ \A i \in 1..Len(c) + Len(h) :
           (c \o h)[i] = IF i <= Len(c) THEN c[i] ELSE h[i - Len(c)]
  BY ConcatProperties
<1>3. c \o h # <<>>
  BY <1>1, <1>2, EmptySeq
<1>4. Head(c \o h) = Head(c)
  <2>1. Head(c \o h) = (c \o h)[1] /\ Head(c) = c[1]
    BY <1>1, <1>2
  <2> QED
    BY <1>1, <1>2, <2>1
<1>5. Tail(c \o h) = Tail(c) \o h
  <2>1. /\ Tail(c \o h) \in Seq(S)
        /\ Len(Tail(c \o h)) = Len(c) + Len(h) - 1
        /\ \A i \in 1..Len(Tail(c \o h)) : Tail(c \o h)[i] = (c \o h)[i + 1]
    BY <1>2, <1>3, HeadTailProperties
  <2>2. /\ Len(Tail(c)) = Len(c) - 1
        /\ \A i \in 1..Len(Tail(c)) : Tail(c)[i] = c[i + 1]
    BY HeadTailProperties
  <2>3. /\ Tail(c) \o h \in Seq(S)
        /\ Len(Tail(c) \o h) = Len(Tail(c)) + Len(h)
        /\ \A i \in 1..Len(Tail(c)) + Len(h) :
             (Tail(c) \o h)[i] = IF i <= Len(Tail(c)) THEN Tail(c)[i]
                                 ELSE h[i - Len(Tail(c))]
    BY <1>1, ConcatProperties
  <2>4. ASSUME NEW i \in 1..Len(Tail(c \o h))
        PROVE  Tail(c \o h)[i] = (Tail(c) \o h)[i]
    <3>1. Tail(c \o h)[i] = IF i + 1 <= Len(c) THEN c[i + 1] ELSE h[(i + 1) - Len(c)]
      BY <1>1, <1>2, <2>1, <2>4
    <3>2. (Tail(c) \o h)[i] = IF i <= Len(c) - 1 THEN Tail(c)[i]
                              ELSE h[i - (Len(c) - 1)]
      BY <1>1, <2>1, <2>2, <2>3, <2>4
    <3>3. (i + 1) - Len(c) = i - (Len(c) - 1)
      BY <1>1, <2>1
    <3> QED
      BY <1>1, <2>1, <2>2, <3>1, <3>2, <3>3
  <2>5. Len(Tail(c \o h)) = Len(Tail(c) \o h)
    BY <1>1, <2>1, <2>2, <2>3
  <2> QED
    BY <2>1, <2>3, <2>4, <2>5, SeqEqual
<1> QED
  BY <1>3, <1>4, <1>5

LEMMA QueueInit == Init => Queue!Init
<1> SUFFICES ASSUME Init PROVE Queue!Init
  OBVIOUS
<1>1. copy \o streamHolder = <<>>
  BY DEF Init
<1> QED
  BY <1>1 DEF Init, Queue!Init

LEMMA QueueStep == LoggerInv /\ [Next]_vars => [Queue!Next]_Queue!vars
<1> SUFFICES ASSUME LoggerInv, [Next]_vars PROVE [Queue!Next]_Queue!vars
  OBVIOUS
<1> USE DEF Queue!Next, Queue!vars
<1>1. /\ TypeOK /\ LocalQueue
      /\ copy \in Seq(Message) /\ streamHolder \in Seq(Message)
      /\ <<>> \in Seq(Message)
  BY DEF LoggerInv, TypeOK
<1>2. ASSUME NEW t \in Threads, Push(t) PROVE Queue!Log(t)
  <2>0. logged[t] \in Nat /\ logged[t] < MaxMessages /\ MaxMessages \in Nat
    BY <1>1, <1>2, LoggerAssumption DEF Push, LocalQueue, TypeOK
  <2>1. <<t, logged[t] + 1>> \in Message
    BY <2>0 DEF Message
  <2>2. copy' \o streamHolder' = Append(copy \o streamHolder, <<t, logged[t] + 1>>)
    BY <1>1, <1>2, <2>1, AppendLast DEF Push
  <2> QED
    BY <1>2, <2>2 DEF Push, Queue!Log
<1>3. ASSUME Replace PROVE Queue!Begin
  <2>1. copy' = <<>> /\ streamHolder' = <<>> /\ loggerPc = "starting"
        /\ loggerPc' = "checking" /\ UNCHANGED <<logged, printed>>
    BY <1>1, <1>3 DEF Replace, LocalQueue
  <2>2. copy' \o streamHolder' = <<>>
    BY <1>1, <2>1, ConcatEmptySeq
  <2> QED
    BY <2>1, <2>2 DEF Queue!Begin
<1>4. ASSUME Move PROVE UNCHANGED Queue!vars
  <2>1. copy = <<>> /\ copy' = streamHolder /\ streamHolder' = <<>>
        /\ loggerPc = "moving" /\ loggerPc' = "printing"
        /\ UNCHANGED <<logged, printed>>
    BY <1>1, <1>4 DEF Move, LocalQueue
  <2>2. copy' \o streamHolder' = copy \o streamHolder
    BY <1>1, <2>1, ConcatEmptySeq
  <2> QED
    BY <2>1, <2>2
<1>5. ASSUME PrintFront PROVE Queue!Emit
  <2>1. /\ copy # <<>> /\ loggerPc = "printing"
        /\ printed' = Append(printed, Head(copy)) /\ copy' = Tail(copy)
        /\ UNCHANGED <<streamHolder, logged, loggerPc>>
    BY <1>5 DEF PrintFront
  <2>2. /\ copy \o streamHolder # <<>>
        /\ Head(copy \o streamHolder) = Head(copy)
        /\ Tail(copy \o streamHolder) = Tail(copy) \o streamHolder
    BY <1>1, <2>1, FrontOfBoth
  <2> QED
    BY <2>1, <2>2 DEF Queue!Emit
<1>6. ASSUME \/ Start \/ Check \/ LockToMove \/ PrintingDone
             \/ \E t \in Threads : Lock(t) \/ Unlock(t)
             \/ UNCHANGED vars
      PROVE  UNCHANGED Queue!vars
  BY <1>6 DEF Start, Check, LockToMove, PrintingDone, Lock, Unlock, vars
<1> QED
  BY <1>2, <1>3, <1>4, <1>5, <1>6
  DEF Next, LoggerStep, LogStart, LogStep, Torn

\* Seen from the threads that log and from the output, the threaded logger is
\* one queue: every step puts the next message of a thread in at the end, prints
\* the front, begins anew, or changes nothing that can be seen.
THEOREM LoggerIsAQueue == Spec => ActsAsQueue
<1>1. Init => Queue!Init
  BY QueueInit
<1>2. LoggerInv /\ [Next]_vars => [Queue!Next]_Queue!vars
  BY QueueStep
<1> QED
  BY <1>1, <1>2, LoggerAlways, PTL DEF Spec, ActsAsQueue, Queue!Safety

(***************************************************************************)
(* The messages of one thread.  Each is numbered by how many the thread    *)
(* logged before; the messages pushed are numbered without a gap.          *)
(***************************************************************************)
Numbered ==
  /\ \A i \in 1..Len(accepted) : accepted[i][2] <= logged[accepted[i][1]]
  /\ \A i, j \in 1..Len(accepted) :
       i < j /\ accepted[i][1] = accepted[j][1] => accepted[i][2] < accepted[j][2]
  /\ \A t \in Threads : \A n \in 1..logged[t] :
       \E i \in 1..Len(accepted) : accepted[i] = <<t, n>>

\* Between two printed messages of a thread all it logged between them are
\* printed, in the order in which it logged them.
PrintedInTurn ==
  ~torn =>
    \A i, j \in 1..Len(printed) :
      i < j /\ printed[i][1] = printed[j][1] =>
        /\ printed[i][2] < printed[j][2]
        /\ \A n \in printed[i][2]..printed[j][2] :
             \E k \in i..j : printed[k] = <<printed[i][1], n>>

LEMMA NumberedStep == LoggerInv /\ Numbered /\ [Next]_vars => Numbered'
<1> SUFFICES ASSUME LoggerInv, Numbered, [Next]_vars PROVE Numbered'
  OBVIOUS
<1>1. /\ accepted \in Seq(Message) /\ Len(accepted) \in Nat
      /\ logged \in [Threads -> 0..MaxMessages]
      /\ \A i \in 1..Len(accepted) : accepted[i] \in Message
  BY DEF LoggerInv, TypeOK
<1>2. ASSUME NEW t \in Threads, Push(t) PROVE Numbered'
  <2> DEFINE e == <<t, logged[t] + 1>>
             N == Len(accepted)
  <2>1. /\ accepted' = Append(accepted, e)
        /\ logged' = [logged EXCEPT ![t] = logged[t] + 1]
        /\ logged[t] \in Nat /\ logged[t] < MaxMessages /\ MaxMessages \in Nat
    BY <1>1, <1>2, LoggerAssumption DEF Push, LoggerInv, LocalQueue
  <2>2. e \in Message /\ e[1] = t /\ e[2] = logged[t] + 1
    BY <2>1 DEF Message
  <2>3. /\ logged'[t] = logged[t] + 1
        /\ \A u \in Threads : u # t => logged'[u] = logged[u]
        /\ \A u \in Threads : logged[u] \in Nat /\ logged[u] <= logged'[u]
    BY <1>1, <2>1
  <2> HIDE DEF e
  <2>4. /\ Len(accepted') = N + 1 /\ accepted'[N + 1] = e
        /\ \A i \in 1..N : accepted'[i] = accepted[i]
    BY <1>1, <2>1, <2>2, AppendProperties
  <2>5. \A i \in 1..N : accepted[i][1] \in Threads /\ accepted[i][2] \in Nat
    BY <1>1 DEF Message
  <2>6. \A i \in 1..N : accepted[i][2] <= logged[accepted[i][1]]
    BY DEF Numbered
  <2>7. \A i \in 1..N + 1 : i \in 1..N \/ i = N + 1
    BY <1>1
  <2>8. \A i \in 1..N + 1 : accepted'[i][2] <= logged'[accepted'[i][1]]
    <3>1. ASSUME NEW i \in 1..N PROVE accepted'[i][2] <= logged'[accepted'[i][1]]
      <4>1. /\ accepted[i][1] \in Threads /\ accepted[i][2] \in Nat
            /\ accepted[i][2] <= logged[accepted[i][1]]
        BY <2>5, <2>6
      <4>2. /\ logged[accepted[i][1]] <= logged'[accepted[i][1]]
            /\ logged[accepted[i][1]] \in Nat
        BY <2>3, <4>1
      <4>3. logged'[accepted[i][1]] \in Nat
        BY <2>1, <2>3, <4>1, <4>2
      <4> QED
        BY <2>4, <4>1, <4>2, <4>3
    <3>2. accepted'[N + 1][2] <= logged'[accepted'[N + 1][1]]
      BY <2>1, <2>2, <2>3, <2>4
    <3> QED
      BY <2>7, <3>1, <3>2
  <2>9. \A i, j \in 1..N + 1 :
          i < j /\ accepted'[i][1] = accepted'[j][1]
            => accepted'[i][2] < accepted'[j][2]
    <3> SUFFICES ASSUME NEW i \in 1..N + 1, NEW j \in 1..N + 1, i < j,
                        accepted'[i][1] = accepted'[j][1]
                 PROVE  accepted'[i][2] < accepted'[j][2]
      OBVIOUS
    <3>1. i \in 1..N
      BY <1>1
    <3>2. CASE j \in 1..N
      BY <2>4, <3>1, <3>2 DEF Numbered
    <3>3. CASE j = N + 1
      <4>1. accepted[i][1] = t /\ accepted[i][2] \in Nat
        BY <2>2, <2>4, <2>5, <3>1, <3>3
      <4>2. accepted[i][2] <= logged[t]
        BY <2>6, <3>1, <4>1
      <4> QED
        BY <2>1, <2>2, <2>4, <3>1, <3>3, <4>1, <4>2
    <3> QED
      BY <2>7, <3>2, <3>3
  <2>10. \A u \in Threads : \A n \in 1..logged'[u] :
           \E i \in 1..N + 1 : accepted'[i] = <<u, n>>
    <3> SUFFICES ASSUME NEW u \in Threads, NEW n \in 1..logged'[u]
                 PROVE  \E i \in 1..N + 1 : accepted'[i] = <<u, n>>
      OBVIOUS
    <3>1. CASE n \in 1..logged[u]
      <4>1. PICK i \in 1..N : accepted[i] = <<u, n>>
        BY <3>1 DEF Numbered
      <4>2. i \in 1..N + 1
        BY <1>1
      <4> QED
        BY <2>4, <4>1, <4>2
    <3>2. CASE n \notin 1..logged[u]
      <4>1. u = t /\ n = logged[t] + 1
        BY <2>1, <2>3, <3>2
      <4>2. N + 1 \in 1..N + 1
        BY <1>1
      <4> QED
        BY <2>4, <4>1, <4>2 DEF e
    <3> QED
      BY <3>1, <3>2
  <2> QED
    BY <2>4, <2>8, <2>9, <2>10 DEF Numbered
<1>3. CASE UNCHANGED <<accepted, logged>>
  BY <1>3 DEF Numbered
<1>4. \/ UNCHANGED <<accepted, logged>>
      \/ \E t \in Threads : Push(t)
  BY DEF Next, LoggerStep, LogStart, LogStep, Torn, Start, Replace, Check,
     LockToMove, Move, PrintFront, PrintingDone, Lock, Unlock, history, vars
<1> QED
  BY <1>2, <1>3, <1>4

\* What is printed is a stretch of what was pushed.
LEMMA PrintedIsStretch ==
  ASSUME TypeOK, NothingLost, ~torn
  PROVE  \A i \in 1..Len(printed) :
           /\ discarded + i \in 1..Len(accepted)
           /\ printed[i] = accepted[discarded + i]
<1> DEFINE rest == copy \o streamHolder
           suffix == SubSeq(accepted, discarded + 1, Len(accepted))
<1>1. /\ accepted \in Seq(Message) /\ printed \in Seq(Message)
      /\ copy \in Seq(Message) /\ streamHolder \in Seq(Message)
      /\ discarded \in Nat /\ discarded <= Len(accepted) /\ Len(accepted) \in Nat
      /\ Len(printed) \in Nat
  BY DEF TypeOK
<1>2. rest \in Seq(Message) /\ Len(rest) \in Nat
  BY <1>1, ConcatProperties
<1>3. printed \o rest = suffix
  <2>1. printed \o rest = (printed \o copy) \o streamHolder
    BY <1>1, ConcatAssociative
  <2> QED
    BY <2>1 DEF NothingLost
<1> HIDE DEF rest
<1>4. /\ Len(printed \o rest) = Len(printed) + Len(rest)
      /\ \A i \in 1..Len(printed) : (printed \o rest)[i] = printed[i]
  BY <1>1, <1>2, ConcatProperties
<1>5. /\ Len(suffix) = Len(accepted) - discarded
      /\ \A i \in 1..Len(accepted) - discarded : suffix[i] = accepted[discarded + i]
  <2>1. \A i \in (discarded + 1)..Len(accepted) : accepted[i] \in Message
    BY <1>1, ElementOfSeq
  <2>2. /\ discarded + 1 \in Int /\ Len(accepted) \in Int
        /\ Len(suffix) = IF discarded + 1 <= Len(accepted)
                         THEN Len(accepted) - (discarded + 1) + 1 ELSE 0
        /\ \A i \in 1..Len(accepted) - (discarded + 1) + 1 :
             suffix[i] = accepted[(discarded + 1) + i - 1]
    BY <1>1, <2>1, SubSeqProperties
  <2>3. Len(suffix) = Len(accepted) - discarded
    BY <1>1, <2>2
  <2>4. ASSUME NEW i \in 1..Len(accepted) - discarded
        PROVE  suffix[i] = accepted[discarded + i]
    <3>1. /\ i \in 1..Len(accepted) - (discarded + 1) + 1
          /\ (discarded + 1) + i - 1 = discarded + i
      BY <1>1, <2>4
    <3> QED
      BY <2>2, <3>1
  <2> QED
    BY <2>3, <2>4
<1> HIDE DEF suffix
<1> SUFFICES ASSUME NEW i \in 1..Len(printed)
             PROVE  /\ discarded + i \in 1..Len(accepted)
                    /\ printed[i] = accepted[discarded + i]
  OBVIOUS
<1>6. i \in 1..Len(accepted) - discarded
  BY <1>1, <1>2, <1>3, <1>4, <1>5
<1>7. discarded + i \in 1..Len(accepted)
  BY <1>1, <1>6
<1> QED
  BY <1>3, <1>4, <1>5, <1>6, <1>7

LEMMA NumberedInTurn == LoggerInv /\ Numbered => PrintedInTurn
<1> SUFFICES ASSUME LoggerInv, Numbered, ~torn,
                    NEW i \in 1..Len(printed), NEW j \in 1..Len(printed), i < j,
                    printed[i][1] = printed[j][1]
             PROVE  /\ printed[i][2] < printed[j][2]
                    /\ \A n \in printed[i][2]..printed[j][2] :
                         \E k \in i..j : printed[k] = <<printed[i][1], n>>
  BY DEF PrintedInTurn
<1> DEFINE t == printed[i][1]
           first == discarded + i
           last == discarded + j
<1>1. TypeOK /\ NothingLost
  BY DEF LoggerInv
<1>2. /\ first \in 1..Len(accepted) /\ printed[i] = accepted[first]
      /\ last \in 1..Len(accepted) /\ printed[j] = accepted[last]
      /\ \A k \in 1..Len(printed) : printed[k] = accepted[discarded + k]
  BY <1>1, PrintedIsStretch
<1>3. /\ discarded \in Nat /\ Len(printed) \in Nat /\ first \in Nat /\ last \in Nat
      /\ Len(accepted) \in Nat /\ first < last
  BY <1>1, <1>2 DEF TypeOK
<1>4. printed[i][2] < printed[j][2]
  BY <1>2, <1>3 DEF Numbered
<1>5. /\ t \in Threads /\ printed[i] = <<t, printed[i][2]>>
      /\ printed[j] = <<t, printed[j][2]>>
      /\ printed[i][2] \in Nat \ {0} /\ printed[j][2] \in Nat
  <2>1. printed[i] \in Message /\ printed[j] \in Message
    BY <1>1 DEF TypeOK
  <2> QED
    BY <2>1, LoggerAssumption DEF Message
<1>6. printed[j][2] <= logged[t] /\ logged[t] \in Nat
  <2>1. accepted[last][2] <= logged[accepted[last][1]]
    BY <1>2 DEF Numbered
  <2> QED
    BY <1>1, <1>2, <1>5, <2>1 DEF TypeOK
<1>7. ASSUME NEW n \in printed[i][2]..printed[j][2]
      PROVE  \E k \in i..j : printed[k] = <<t, n>>
  <2>1. CASE n = printed[i][2]
    BY <1>5, <2>1
  <2>2. CASE n = printed[j][2]
    BY <1>5, <2>2
  <2>3. CASE n # printed[i][2] /\ n # printed[j][2]
    <3>1. n \in 1..logged[t] /\ printed[i][2] < n /\ n < printed[j][2]
      BY <1>5, <1>6, <1>7, <2>3
    <3>2. PICK m \in 1..Len(accepted) : accepted[m] = <<t, n>>
      BY <1>5, <3>1 DEF Numbered
    <3>3. accepted[m][1] = t /\ accepted[m][2] = n
      BY <3>2
    <3>4. first < m
      <4>1. ~(m < first)
        <5>1. m < first => accepted[m][2] < accepted[first][2]
          BY <1>2, <3>3 DEF Numbered
        <5> QED
          BY <1>2, <1>5, <3>1, <3>3, <5>1
      <4>2. m # first
        BY <1>2, <2>3, <3>3
      <4> QED
        BY <1>3, <4>1, <4>2
    <3>5. m < last
      <4>1. ~(last < m)
        <5>1. last < m => accepted[last][2] < accepted[m][2]
          BY <1>2, <1>5, <3>3 DEF Numbered
        <5> QED
          BY <1>2, <1>5, <3>1, <3>3, <5>1
      <4>2. m # last
        BY <1>2, <2>3, <3>3
      <4> QED
        BY <1>3, <4>1, <4>2
    <3>6. /\ m - discarded \in i..j /\ m - discarded \in 1..Len(printed)
          /\ discarded + (m - discarded) = m
      BY <1>3, <3>4, <3>5
    <3>7. printed[m - discarded] = <<t, n>>
      BY <1>2, <3>2, <3>6
    <3> QED
      BY <3>6, <3>7
  <2> QED
    BY <2>1, <2>2, <2>3
<1> QED
  BY <1>4, <1>7

\* What one thread logs comes out in the order in which it logged it and without
\* a gap, whatever the other threads log meanwhile.
THEOREM MessagesInTurn == Spec => []PrintedInTurn
<1>1. Init => Numbered
  BY LoggerAssumption DEF Init, Numbered
<1>2. LoggerInv /\ Numbered /\ [Next]_vars => Numbered'
  BY NumberedStep
<1>3. LoggerInv /\ Numbered => PrintedInTurn
  BY NumberedInTurn
<1> QED
  BY <1>1, <1>2, <1>3, LoggerAlways, PTL DEF Spec
=============================================================================
