----------------------------- MODULE MCSendPath -----------------------------
(***************************************************************************)
(* Small instances of SendPath for TLC.  The buffer holds a header of one  *)
(* byte and three more.  The one string that is no nullptr has two bytes   *)
(* more than the model's uint16_t can count, so that it is appended as one *)
(* of two: set in one member it fits the buffer, in both it does not.      *)
(***************************************************************************)
EXTENDS SendPath, TLC

CONSTANTS t1, t2

TwoThreads == {t1, t2}
OneThread == {t1}
TwoStrings == {"name", "text"}
NullAndLong == {0, Word + 2}
=============================================================================
