-------------------------- MODULE MCNetworkServer --------------------------
(***************************************************************************)
(* Small instances of NetworkServer for TLC: three peers and an fd_set     *)
(* with room for two sockets, so that the listening socket is pushed out   *)
(* of the set while a peer waits.  In the safety run there are three       *)
(* addresses and handles, more than the set takes; in both runs addresses  *)
(* and handles are used again.                                             *)
(***************************************************************************)
EXTENDS NetworkServer, TLC

CONSTANTS p1, p2, p3, s1, s2, s3

ThreePeers == {p1, p2, p3}
TwoSockets == {s1, s2}
ThreeSockets == {s1, s2, s3}
BothEndings == {"closed", "reset"}
ClosedOnly == {"closed"}
TwoAddresses == {1, 2}
ThreeAddresses == {1, 2, 3}

\* Peers and handles are only compared for equality; addresses are ordered.
Symmetric == Permutations(ThreePeers) \cup Permutations(ThreeSockets)
=============================================================================
