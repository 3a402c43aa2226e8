----------------------------- MODULE PeerService -----------------------------
(***************************************************************************)
(* What the server's loop promises to one peer, as though it were the only *)
(* one: its connection is accepted, what it sends is read in pieces while  *)
(* it is served, and it is given up only on the session's verdict on       *)
(* something read, at the end of what it sent, or at a reset.  Other peers *)
(* do not show.                                                            *)
(***************************************************************************)
EXTENDS Naturals

VARIABLES
  stage,   \* "away", "waiting" for accept, "accepted" or "done"
  link,    \* the peer's end: "open", "closed" or "reset"
  unread,  \* data sent and not read yet
  served   \* the peer is accepted and not given up

vars == <<stage, link, unread, served>>

Init ==
  /\ stage = "away" /\ link = "open"
  /\ unread = 0
  /\ served = FALSE

(***************************************************************************)
(* The peer.                                                               *)
(***************************************************************************)
Connect ==
  /\ stage = "away" /\ stage' = "waiting"
  /\ UNCHANGED <<link, unread, served>>

Here == stage \in {"waiting", "accepted"} /\ link = "open"

Send ==
  /\ Here
  /\ unread' = unread + 1
  /\ UNCHANGED <<stage, link, served>>

Leave ==
  /\ Here
  /\ link' \in {"closed", "reset"}
  /\ UNCHANGED <<stage, unread, served>>

(***************************************************************************)
(* The server.                                                             *)
(***************************************************************************)
Accept ==
  /\ stage = "waiting" /\ stage' = "accepted"
  /\ served' = TRUE
  /\ UNCHANGED <<link, unread>>

\* The connection was reset before it was accepted.
Abort ==
  /\ stage = "waiting" /\ link = "reset"
  /\ stage' = "done"
  /\ UNCHANGED <<link, unread, served>>

\* A piece is read, and the session may end the service for what it holds.
Read ==
  /\ served /\ unread > 0
  /\ unread' = unread - 1
  /\ served' \in BOOLEAN
  /\ UNCHANGED <<stage, link>>

\* A peer that closed its end is read to the end first.
NoticeEnd ==
  /\ served
  /\ link = "reset" \/ (link = "closed" /\ unread = 0)
  /\ served' = FALSE
  /\ UNCHANGED <<stage, link, unread>>

Close ==
  /\ stage = "accepted" /\ ~served
  /\ stage' = "done"
  /\ UNCHANGED <<link, unread, served>>

Next ==
  \/ Connect \/ Send \/ Leave
  \/ Accept \/ Abort \/ Read \/ NoticeEnd \/ Close

Safety == Init /\ [][Next]_vars
=============================================================================
