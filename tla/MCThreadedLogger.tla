-------------------------- MODULE MCThreadedLogger --------------------------
(***************************************************************************)
(* A small instance of ThreadedLogger for TLC: three threads, one of them  *)
(* the constructor's, with two messages each.                              *)
(***************************************************************************)
EXTENDS ThreadedLogger, TLC

CONSTANTS t1, t2, t3

ThreeThreads == {t1, t2, t3}
=============================================================================
