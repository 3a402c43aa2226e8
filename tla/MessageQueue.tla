---------------------------- MODULE MessageQueue ----------------------------
(***************************************************************************)
(* What the threaded logger promises to the threads that log: one queue,   *)
(* into which each thread puts its messages one after the other and out of *)
(* which they are printed in the order they came, each once.  What was     *)
(* logged before the logger thread begins is thrown away at once when it   *)
(* does.                                                                   *)
(*                                                                         *)
(* There is no mutex and no second queue here, and a message is put in or  *)
(* taken out in one step.                                                  *)
(***************************************************************************)
EXTENDS Naturals, Sequences

CONSTANT Threads

VARIABLES
  logged,   \* how many messages each thread has logged
  waiting,  \* the messages to print, oldest first
  printed,  \* the messages printed, oldest first
  begun     \* the logger thread is at work

vars == <<logged, waiting, printed, begun>>

Init ==
  /\ logged = [t \in Threads |-> 0]
  /\ waiting = <<>> /\ printed = <<>>
  /\ begun = FALSE

Log(t) ==
  /\ logged' = [logged EXCEPT ![t] = @ + 1]
  /\ waiting' = Append(waiting, <<t, logged[t] + 1>>)
  /\ UNCHANGED <<printed, begun>>

Begin ==
  /\ ~begun /\ begun' = TRUE
  /\ waiting' = <<>>
  /\ UNCHANGED <<logged, printed>>

Emit ==
  /\ begun /\ waiting # <<>>
  /\ printed' = Append(printed, Head(waiting))
  /\ waiting' = Tail(waiting)
  /\ UNCHANGED <<logged, begun>>

Next == Begin \/ Emit \/ \E t \in Threads : Log(t)

Safety == Init /\ [][Next]_vars
=============================================================================
