--------------------------- MODULE MCSharedSession ---------------------------
(***************************************************************************)
(* Two sessions that may live at the same address or behind the same       *)
(* handle one after the other, two application threads, and packets enough *)
(* for a second one to arrive after the first was taken.                   *)
(***************************************************************************)
EXTENDS SharedSession, TLC

CONSTANTS c1, c2, a1, a2, s1, s2, w1, w2

TwoSessions == {c1, c2}
TwoAddresses == {a1, a2}
TwoSockets == {s1, s2}
TwoWorkers == {w1, w2}

\* All of these are only compared for equality.
Symmetric ==
  Permutations(TwoSessions) \cup Permutations(TwoAddresses)
    \cup Permutations(TwoSockets) \cup Permutations(TwoWorkers)
=============================================================================
