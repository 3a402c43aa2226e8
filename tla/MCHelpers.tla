------------------------------ MODULE MCHelpers ------------------------------
(***************************************************************************)
(* The timers and the readers share nothing with each other or with the    *)
(* rest of the library: a behaviour is one of a timer or one of a reader.  *)
(* Half milliseconds are enough for a reading to be cut, four milliseconds *)
(* for two periods with an interrupted call in between; timestamp 5 is     *)
(* ahead of the clock for good.  Four bytes give a text in the middle of a *)
(* file, and the caret two amounts of room beyond the end.                 *)
(***************************************************************************)
EXTENDS Timers, DataReaders

VARIABLE subject

BothKinds == {"timer", "wrapping"}
SomePeriods == {1, 2, 3}
SomeSettings == {0, 1, 5}
AllClasses == {"loaded", "file", "stored"}
SomeAmounts == {1, 2}

helperVars == <<subject, timerVars, readerVars>>

HelpersInit ==
  /\ subject \in {"timer", "reader"}
  /\ TimerInit /\ (subject = "reader" => kind = "timer" /\ period = 1)
  /\ ReaderInit /\ (subject = "timer" => class = "file" /\ size = 0)

HelpersNext ==
  \/ subject = "timer" /\ TimerNext /\ UNCHANGED <<subject, readerVars>>
  \/ subject = "reader" /\ ReaderNext /\ UNCHANGED <<subject, timerVars>>

HelpersSpec == HelpersInit /\ [][HelpersNext]_helperVars
=============================================================================
