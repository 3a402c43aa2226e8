--------------------------- MODULE PacketDelivery ---------------------------
(***************************************************************************)
(* What the receive path of one client promises to the server built on it: *)
(* the packets handed to ROSEServer::onPacketsReady are the frames the     *)
(* peer sent, in the order it sent them, each once and none left out.      *)
(*                                                                         *)
(* The promise ends when the connection is given up (open becomes FALSE)   *)
(* or when the receiver loses the frame boundaries (stuck becomes TRUE).   *)
(* A frame is known by its position in the order of sending.               *)
(***************************************************************************)
EXTENDS Naturals, Sequences

VARIABLES
  posted,   \* number of frames the peer has sent
  handed,   \* positions of the frames handed over, oldest first
  open,     \* the server still serves this connection
  stuck     \* the receiver no longer knows where a frame ends

vars == <<posted, handed, open, stuck>>

Init ==
  /\ posted = 0
  /\ handed = <<>>
  /\ open = TRUE
  /\ stuck = FALSE

Post ==
  /\ posted' = posted + 1
  /\ UNCHANGED <<handed, open, stuck>>

\* The next frame in the order of sending; the application may end the
\* connection by the result it returns for it.
Hand ==
  /\ open /\ ~stuck
  /\ Len(handed) < posted
  /\ handed' = Append(handed, Len(handed) + 1)
  /\ open' \in BOOLEAN
  /\ UNCHANGED <<posted, stuck>>

Close ==
  /\ open
  /\ open' = FALSE
  /\ UNCHANGED <<posted, handed, stuck>>

Lose ==
  /\ open /\ ~stuck
  /\ Len(handed) < posted
  /\ stuck' = TRUE
  /\ UNCHANGED <<posted, handed, open>>

Next == Post \/ Hand \/ Close \/ Lose

Safety == Init /\ [][Next]_vars

Waiting == Len(handed) < posted /\ open /\ ~stuck

\* While a frame waits, the connection does not stand still: weak fairness of
\* Hand \/ Close \/ Lose at a waiting frame, spelled out because Waiting is when
\* the action is enabled.
Progress == []<>~Waiting \/ []<><<Hand \/ Close \/ Lose>>_vars

Spec == Safety /\ Progress
=============================================================================
