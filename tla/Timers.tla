------------------------------- MODULE Timers -------------------------------
(***************************************************************************)
(* Timer and WrappingTimer of Timer.h, and the application that drives     *)
(* them: it calls updateTimestamp again and again, may set timestamp and   *)
(* period between two calls, and the period from within onTimeWrap.        *)
(*                                                                         *)
(* The steady clock is finer than the milliseconds the timers count.  An   *)
(* instant is a number of whole milliseconds and the part of one beyond    *)
(* them.  The clock runs between any two steps, so also between the two    *)
(* readings of it in one call.  A duration handed around as a uint64_t is  *)
(* a number below Word, a negative one wraps.                              *)
(***************************************************************************)
EXTENDS Integers

CONSTANTS
  Word,      \* 2^64
  Parts,     \* parts of a millisecond the clock tells apart
  Kinds,     \* "timer", "wrapping"
  Periods,   \* periods of a WrappingTimer
  Settings,  \* milliseconds the application hands to setTimestamp
  MaxTime,   \* bound on the clock
  MaxStamp   \* bound on a timestamp that is asked

ASSUME TimerAssumption ==
  /\ Word \in Nat \ {0}
  /\ Parts \in Nat \ {0}
  /\ Kinds \subseteq {"timer", "wrapping"}
  /\ Periods \subseteq Nat
  /\ Settings \subseteq Nat
  /\ MaxTime \in Nat /\ MaxStamp \in Nat

\* Nothing reaches 2^63 milliseconds; so the default period of 2^64 - 1, which
\* is due only if the timestamp is one millisecond ahead, is left out.
ASSUME RangeAssumption ==
  \A p \in Periods : 2 * (MaxTime + MaxStamp + p) < Word

VARIABLES
  kind,       \* the class
  now,        \* the steady clock
  timestamp,  \* Timer::timestamp
  period,     \* WrappingTimer::timeInMillisTillWrap
  step,       \* "idle", or where updateTimestamp is: "passed", "wrapping"
  passed,     \* what getPassedTimeInMillis returned in this call
  asked,      \* the millisecond in which it did
  accounted,  \* the millisecond in which the application set timestamp last,
              \* and the time since that was reported, as a result or as whole
              \* periods, or went by between the two readings of a call;
              \* until the timestamp is pushed ahead
  pushed      \* the application made the timestamp go ahead of the clock

settingVars == <<kind, period>>
callVars == <<step, passed, asked>>
timerVars == <<kind, now, timestamp, period, step, passed, asked, accounted,
               pushed>>

Instant == [ms : Nat, part : 0..(Parts - 1)]
AtMs(m) == [ms |-> m, part |-> 0]
Before(s, t) == s.ms < t.ms \/ (s.ms = t.ms /\ s.part < t.part)

\* Whole milliseconds from s to a t that is not before it.
Whole(s, t) == t.ms - s.ms - (IF t.part < s.part THEN 1 ELSE 0)

\* getPassedTimeInMillis: duration_cast drops the part of a millisecond.
PassedTime == IF Before(now, timestamp) THEN -Whole(now, timestamp)
              ELSE Whole(timestamp, now)

\* A uint64_t of a number that is at most once around, and back to an int64_t.
U64(x) == IF x < 0 THEN x + Word ELSE IF x >= Word THEN x - Word ELSE x
S64(x) == IF 2 * x >= Word THEN x - Word ELSE x

TimerInit ==
  /\ kind \in Kinds
  /\ now = AtMs(0)
  /\ timestamp = now
  /\ period \in Periods
  /\ step = "idle" /\ passed = 0 /\ asked = 0
  /\ accounted = timestamp.ms
  /\ pushed = FALSE

\* Time goes on, by any amount; a part of a millisecond stands for all.
Tick ==
  /\ now.ms < MaxTime
  /\ now' = IF now.part + 1 < Parts THEN [now EXCEPT !.part = @ + 1]
            ELSE AtMs(now.ms + 1)
  /\ UNCHANGED <<settingVars, timestamp, callVars, accounted, pushed>>

(***************************************************************************)
(* The application.                                                        *)
(***************************************************************************)

\* setTimestamp and setTimestampToCurrentTimepoint: the count starts anew.
SetTo(t) ==
  /\ step = "idle"
  /\ timestamp' = t /\ accounted' = t.ms
  /\ pushed' = Before(now, t)
  /\ UNCHANGED <<settingVars, now, callVars>>
SetTimestamp == \E m \in Settings : SetTo(AtMs(m))
SetToNow == SetTo(now)

\* setDurationForWrappingInMillis, also from within onTimeWrap, where the call
\* goes on with the new period and the time passed under the old one.
SetPeriod(p) ==
  /\ kind = "wrapping" /\ step \in {"idle", "wrapping"} /\ p # period
  /\ period' = p
  /\ pushed' = (pushed \/ (step = "wrapping" /\ p > passed))
  /\ UNCHANGED <<kind, now, timestamp, callVars, accounted>>

(***************************************************************************)
(* updateTimestamp.                                                        *)
(***************************************************************************)

\* The first reading of the clock.  Mutant: a WrappingTimer is due too early.
AskTooEarly ==
  /\ step = "idle" /\ timestamp.ms <= MaxStamp
  /\ passed' = U64(PassedTime) /\ asked' = now.ms
  /\ step' = IF kind = "timer" THEN "passed"
             ELSE IF passed' + 1 >= period THEN "wrapping" ELSE "idle"
  /\ UNCHANGED <<settingVars, now, timestamp, accounted, pushed>>
Ask ==
  /\ step = "idle" /\ timestamp.ms <= MaxStamp
  /\ passed' = U64(PassedTime) /\ asked' = now.ms
  /\ step' = IF kind = "timer" THEN "passed"
             ELSE IF passed' >= period THEN "wrapping" ELSE "idle"
  /\ UNCHANGED <<settingVars, now, timestamp, accounted, pushed>>

\* timestamp is set, in a Timer to the second reading of the clock, and the
\* call returns.
Finish(t, reported) ==
  /\ timestamp' = t
  /\ accounted' = IF pushed THEN accounted
                  ELSE accounted + reported + (now.ms - asked)
  /\ step' = "idle" /\ passed' = 0 /\ asked' = 0
  /\ UNCHANGED <<settingVars, now, pushed>>

FinishPlain == step = "passed" /\ Finish(now, passed)

\* The next period starts where the last one ended, the time onTimeWrap took
\* left out.  Mutant: it starts at the second reading.
WrapPointNow == now.ms
WrapPoint == S64(U64(U64(now.ms - passed) + period))

FinishWrap == step = "wrapping" /\ Finish(AtMs(WrapPoint), period)

TimerNext ==
  \/ Tick
  \/ SetTimestamp
  \/ SetToNow
  \/ \E p \in Periods : SetPeriod(p)
  \/ Ask
  \/ FinishPlain
  \/ FinishWrap

TimerSpec == TimerInit /\ [][TimerNext]_timerVars
-----------------------------------------------------------------------------
TimerTypeOK ==
  /\ kind \in {"timer", "wrapping"}
  /\ {now, timestamp} \subseteq Instant
  /\ period \in Periods /\ passed \in 0..(Word - 1) /\ asked \in Nat
  /\ step \in {"idle", "passed", "wrapping"}
  /\ accounted \in Nat /\ pushed \in BOOLEAN

\* The clock is read twice in a call and a reading is cut to milliseconds, but
\* over any number of calls, however long onTimeWrap takes and however the
\* period changes, a WrappingTimer loses exactly the time within its calls, but
\* for the millisecond the first timestamp was cut to.  A Timer loses more, the
\* rest of a millisecond in every call, and never gains.
TimeAccounted ==
  LET rest == timestamp.ms - accounted
  IN  ~pushed => IF kind = "wrapping" THEN rest \in {0, 1} ELSE rest >= 0

\* The timestamp does not get ahead of the clock by itself, and no more time is
\* reported than has passed: a timestamp ahead of it makes the unsigned passed
\* time huge, every call wraps then and pushes the timestamp a period further.
\* Only the application can bring this about, by setTimestamp or by a period
\* set within onTimeWrap that is longer than the time passed.
NeverAhead ==
  ~pushed => ~Before(now, timestamp) /\ accounted <= now.ms
=============================================================================
