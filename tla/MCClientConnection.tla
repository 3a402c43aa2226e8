------------------------ MODULE MCClientConnection ------------------------
(***************************************************************************)
(* Small instances of ClientConnection for TLC: a header of three bytes    *)
(* and a buffer of six, so that a header can arrive in pieces, a message   *)
(* can be a header only, and a second message can fail to fit the buffer.  *)
(***************************************************************************)
EXTENDS ClientConnection

AllKinds == {"good", "unknown", "damaged", "missized"}
SmallLengths == {3, 4, 6}
EitherValue == {TRUE, FALSE}
OnlyFalse == {FALSE}
OnlyTrue == {TRUE}
GoodOnly == {"good"}
GoodAndDamaged == {"good", "damaged"}
GoodAndMissized == {"good", "missized"}
=============================================================================
