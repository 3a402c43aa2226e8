--------------------------- MODULE ThreadedLogger ---------------------------
(***************************************************************************)
(* ROSEThreadedLogger: any thread logs, one logger thread prints.          *)
(*                                                                         *)
(* log pushes a message on streamHolder under inputMutex.  The thread that *)
(* init starts replaces streamHolder by an empty queue without the mutex,  *)
(* then for ever: looks without the mutex whether streamHolder is empty,   *)
(* moves it away under the mutex, and prints what it moved.                *)
(*                                                                         *)
(* init is called by NetworkServer's constructor, and constructors log     *)
(* before and after it: threads log at any time here.  The replacement of  *)
(* streamHolder races with a push that is under way.  That is undefined    *)
(* behaviour; the model lets the push survive, be lost, or leave the queue *)
(* torn, and claims nothing from there on.                                 *)
(***************************************************************************)
EXTENDS Naturals, Sequences, FiniteSets

CONSTANTS
  Threads,     \* the threads that log
  Logger,      \* the thread init starts
  Nobody,      \* inputMutex is free
  MaxMessages  \* bound on the messages a thread logs, for TLC

ASSUME LoggerAssumption ==
  /\ MaxMessages \in Nat
  /\ Logger \notin Threads
  /\ Nobody \notin Threads \cup {Logger}

VARIABLES
  inputMutex,    \* who holds it
  streamHolder,  \* the queue of messages
  threadPc,      \* where each logging thread is
  logged,        \* how many messages each has pushed
  loggerPc,      \* where the logger thread is
  copy,          \* the logger thread's local queue
  printed,       \* what it printed, oldest first
  accepted,      \* history: messages in the order of their pushes
  discarded,     \* history: how many of accepted the thread's start threw away
  torn           \* a push and the unlocked replacement overlapped

history == <<accepted, discarded>>
vars == <<inputMutex, streamHolder, threadPc, logged, loggerPc, copy, printed,
          accepted, discarded, torn>>

\* A message is known by the thread that logged it and a number of its own.
Message == Threads \X (1..MaxMessages)

Init ==
  /\ inputMutex = Nobody
  /\ streamHolder = <<>>
  /\ threadPc = [t \in Threads |-> "idle"]
  /\ logged = [t \in Threads |-> 0]
  /\ loggerPc = "unstarted"
  /\ copy = <<>> /\ printed = <<>> /\ accepted = <<>>
  /\ discarded = 0
  /\ torn = FALSE

(***************************************************************************)
(* ROSEThreadedLogger::log, past the check of the level.                   *)
(***************************************************************************)
Lock(t) ==
  /\ threadPc[t] = "idle" /\ logged[t] < MaxMessages
  /\ inputMutex = Nobody
  /\ inputMutex' = t
  /\ threadPc' = [threadPc EXCEPT ![t] = "pushing"]
  /\ UNCHANGED <<streamHolder, logged, loggerPc, copy, printed, history, torn>>

Push(t) ==
  /\ threadPc[t] = "pushing"
  /\ LET message == <<t, logged[t] + 1>> IN
       /\ streamHolder' = Append(streamHolder, message)
       /\ accepted' = Append(accepted, message)
  /\ threadPc' = [threadPc EXCEPT ![t] = "pushed"]
  /\ logged' = [logged EXCEPT ![t] = @ + 1]
  /\ UNCHANGED <<inputMutex, loggerPc, copy, printed, discarded, torn>>

Unlock(t) ==
  /\ threadPc[t] = "pushed"
  /\ inputMutex' = Nobody
  /\ threadPc' = [threadPc EXCEPT ![t] = "idle"]
  /\ UNCHANGED <<streamHolder, logged, loggerPc, copy, printed, history, torn>>

(***************************************************************************)
(* init and the thread it starts.                                          *)
(***************************************************************************)
Start ==
  /\ loggerPc = "unstarted"
  /\ loggerPc' = "starting"
  /\ UNCHANGED <<inputMutex, streamHolder, threadPc, logged, copy, printed,
                 history, torn>>

\* streamHolder = std::queue<LogMessage>(), mutex or not: what is queued so far
\* is gone, and a push under way may tear the queue.
Replace ==
  /\ loggerPc = "starting"
  /\ streamHolder' = <<>>
  /\ discarded' = Len(accepted)
  /\ loggerPc' = "checking"
  /\ torn' \in IF \E t \in Threads : threadPc[t] = "pushing"
               THEN BOOLEAN ELSE {torn}
  /\ UNCHANGED <<inputMutex, threadPc, logged, copy, printed, accepted>>

\* streamHolder.empty() is read without the mutex: a push that is not unlocked
\* yet is seen or not.
Check ==
  /\ loggerPc = "checking"
  /\ \/ streamHolder # <<>> /\ loggerPc' = "locking"
     \/ /\ \/ streamHolder = <<>>
           \/ \E t \in Threads : threadPc[t] = "pushed"
        /\ loggerPc' = "checking"
  /\ UNCHANGED <<inputMutex, streamHolder, threadPc, logged, copy, printed,
                 history, torn>>

\* The lock_guard of the logger thread.  Mutant: there is none.
MoveWithoutLock ==
  /\ loggerPc = "locking"
  /\ loggerPc' = "moving"
  /\ UNCHANGED <<inputMutex, streamHolder, threadPc, logged, copy, printed,
                 history, torn>>
LockToMove ==
  /\ loggerPc = "locking"
  /\ inputMutex = Nobody
  /\ inputMutex' = Logger
  /\ loggerPc' = "moving"
  /\ UNCHANGED <<streamHolder, threadPc, logged, copy, printed, history, torn>>

\* copy = std::move(streamHolder), streamHolder emptied, the mutex released.
\* Mutant: streamHolder is not emptied.
MoveKeepsQueue ==
  /\ loggerPc = "moving"
  /\ copy' = streamHolder
  /\ inputMutex' = Nobody
  /\ loggerPc' = "printing"
  /\ UNCHANGED <<streamHolder, threadPc, logged, printed, history, torn>>
Move ==
  /\ loggerPc = "moving"
  /\ copy' = streamHolder
  /\ streamHolder' = <<>>
  /\ inputMutex' = Nobody
  /\ loggerPc' = "printing"
  /\ UNCHANGED <<threadPc, logged, printed, history, torn>>

PrintFront ==
  /\ loggerPc = "printing" /\ copy # <<>>
  /\ printed' = Append(printed, Head(copy))
  /\ copy' = Tail(copy)
  /\ UNCHANGED <<inputMutex, streamHolder, threadPc, logged, loggerPc, history,
                 torn>>

\* The local queue ends with the round.  Mutant: it may end before it is empty.
PrintingCut ==
  /\ loggerPc = "printing"
  /\ loggerPc' = "checking"
  /\ copy' = <<>>
  /\ UNCHANGED <<inputMutex, streamHolder, threadPc, logged, printed, history,
                 torn>>
PrintingDone ==
  /\ loggerPc = "printing" /\ copy = <<>>
  /\ loggerPc' = "checking"
  /\ UNCHANGED <<inputMutex, streamHolder, threadPc, logged, copy, printed,
                 history, torn>>

LoggerStep ==
  /\ ~torn
  /\ Start \/ Replace \/ Check \/ LockToMove \/ Move \/ PrintFront \/ PrintingDone

LogStart(t) == ~torn /\ Lock(t)
LogStep(t) == ~torn /\ (Push(t) \/ Unlock(t))

\* Nothing is claimed of a torn queue: the system stands still.
Torn == torn /\ UNCHANGED vars

Next ==
  \/ LoggerStep
  \/ \E t \in Threads : LogStart(t) \/ LogStep(t)
  \/ Torn

\* The logger thread and a thread that holds the mutex go on.
Fairness ==
  /\ WF_vars(LoggerStep)
  /\ \A t \in Threads : WF_vars(LogStep(t))

Spec == Init /\ [][Next]_vars /\ Fairness
-----------------------------------------------------------------------------
TypeOK ==
  /\ inputMutex \in Threads \cup {Logger, Nobody}
  /\ streamHolder \in Seq(Message) /\ copy \in Seq(Message)
  /\ printed \in Seq(Message) /\ accepted \in Seq(Message)
  /\ threadPc \in [Threads -> {"idle", "pushing", "pushed"}]
  /\ logged \in [Threads -> 0..MaxMessages]
  /\ loggerPc \in {"unstarted", "starting", "checking", "locking", "moving",
                   "printing"}
  /\ discarded \in 0..Len(accepted)
  /\ torn \in BOOLEAN

\* Whoever is between lock and unlock holds inputMutex, so that after the start
\* of the logger thread no two threads change streamHolder at a time.
OneAtATime ==
  /\ \A t \in Threads : threadPc[t] # "idle" <=> inputMutex = t
  /\ loggerPc = "moving" <=> inputMutex = Logger

\* The messages printed, being printed and waiting are, in this order, those
\* pushed since the logger thread replaced the queue: none is lost between the
\* two queues, doubled or overtaken, whichever threads logged them.  The check
\* without the mutex does no harm.
NothingLost ==
  ~torn =>
    printed \o copy \o streamHolder
      = SubSeq(accepted, discarded + 1, Len(accepted))

\* The two queues, the mutex and the unlocked looks at the queue together are one
\* queue into which every thread logs and out of which the logger thread prints,
\* begun anew by the replacement.
Queue == INSTANCE MessageQueue WITH
  waiting <- copy \o streamHolder,
  begun   <- loggerPc \notin {"unstarted", "starting"}

ActsAsQueue == Queue!Safety

\* As many messages as were pushed after the start are printed in the end, if
\* the threads pause.
AllPrinted ==
  \A n \in 1..(Cardinality(Threads) * MaxMessages) :
    (loggerPc \notin {"unstarted", "starting"} /\ Len(accepted) - discarded >= n)
      ~> (torn \/ Len(printed) >= n)
=============================================================================
