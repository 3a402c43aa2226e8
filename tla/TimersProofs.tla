---------------------------- MODULE TimersProofs ----------------------------
(***************************************************************************)
(* The time a timer reports, for every clock, period and order of calls.   *)
(*                                                                         *)
(* In a call the passed time is what lies between the timestamp and the    *)
(* first reading, cut by less than a millisecond; the cut is lost once,    *)
(* since the timestamps a WrappingTimer sets are whole milliseconds.       *)
(***************************************************************************)
EXTENDS Timers, TLAPS

\* What is reported leaves this much of the time to the timestamp.
Rest ==
  ~pushed =>
    IF kind = "wrapping"
    THEN \/ timestamp.ms = accounted
         \/ timestamp.ms = accounted + 1 /\ timestamp.part = 0
    ELSE timestamp.ms >= accounted

\* In a call.
CallInv ==
  step # "idle" =>
    /\ step = (IF kind = "timer" THEN "passed" ELSE "wrapping")
    /\ asked <= now.ms /\ timestamp.ms <= MaxStamp
    /\ passed <= asked \/ Word - passed <= MaxStamp
    /\ ~pushed =>
         /\ passed <= asked
         /\ \/ passed = asked - timestamp.ms
            \/ passed = asked - timestamp.ms - 1 /\ timestamp.part > 0
         /\ kind = "wrapping" => period <= passed

Inv ==
  /\ TimerTypeOK /\ now.ms <= MaxTime
  /\ ~pushed => ~Before(now, timestamp)
  /\ Rest
  /\ CallInv

LEMMA AtMsInstant ==
  ASSUME NEW m \in Nat
  PROVE  AtMs(m) \in Instant /\ AtMs(m).ms = m /\ AtMs(m).part = 0
  BY TimerAssumption DEF AtMs, Instant

LEMMA InstantParts ==
  ASSUME NEW t \in Instant
  PROVE  t.ms \in Nat /\ t.part \in Nat /\ t.part < Parts
  BY TimerAssumption DEF Instant

LEMMA PeriodSmall ==
  ASSUME NEW p \in Periods
  PROVE  p \in Nat /\ 2 * (MaxTime + MaxStamp + p) < Word
  BY TimerAssumption, RangeAssumption

LEMMA InitInv == TimerInit => Inv
<1> SUFFICES ASSUME TimerInit
             PROVE  Inv
  OBVIOUS
<1>1. now \in Instant /\ now.ms = 0 /\ now.part = 0 /\ timestamp = now
  BY AtMsInstant DEF TimerInit
<1>2. /\ kind \in {"timer", "wrapping"} /\ period \in Periods /\ step = "idle"
      /\ passed = 0 /\ asked = 0 /\ accounted = 0 /\ pushed = FALSE
  BY <1>1, TimerAssumption DEF TimerInit
<1>3. ~Before(now, timestamp)
  BY <1>1 DEF Before
<1>4. TimerTypeOK
  <2>1. passed \in 0..(Word - 1)
    BY <1>2, TimerAssumption
  <2> QED
    BY <1>1, <1>2, <2>1 DEF TimerTypeOK
<1>5. now.ms <= MaxTime
  BY <1>1, TimerAssumption
<1>6. Rest /\ CallInv
  BY <1>1, <1>2 DEF Rest, CallInv
<1> QED
  BY <1>3, <1>4, <1>5, <1>6 DEF Inv

LEMMA TickInv == Inv /\ Tick => Inv'
<1> SUFFICES ASSUME Inv, Tick
             PROVE  Inv'
  OBVIOUS
<1>1. /\ UNCHANGED <<kind, period, timestamp, step, passed, asked, accounted,
                     pushed>>
      /\ now.ms < MaxTime
  BY DEF Tick, settingVars, callVars
<1>2. now \in Instant /\ timestamp \in Instant
  BY DEF Inv, TimerTypeOK
<1>3. /\ now' \in Instant
      /\ \/ now'.ms = now.ms /\ now'.part = now.part + 1
         \/ now'.ms = now.ms + 1
  <2>1. CASE now.part + 1 < Parts
    <3>1. now' = [now EXCEPT !.part = @ + 1]
      BY <2>1 DEF Tick
    <3> QED
      BY <3>1, <2>1, <1>2, TimerAssumption DEF Instant
  <2>2. CASE ~(now.part + 1 < Parts)
    <3>1. now' = AtMs(now.ms + 1)
      BY <2>2 DEF Tick
    <3> QED
      BY <3>1, <1>2, InstantParts, AtMsInstant
  <2> QED
    BY <2>1, <2>2
<1>4. ~Before(now, timestamp) => ~Before(now', timestamp)
  BY <1>2, <1>3, InstantParts DEF Before
<1> QED
  BY <1>1, <1>2, <1>3, <1>4, InstantParts, TimerAssumption
  DEF Inv, TimerTypeOK, Rest, CallInv

LEMMA SetToInv ==
  ASSUME Inv, NEW t \in Instant, SetTo(t)
  PROVE  Inv'
<1>1. /\ UNCHANGED <<kind, period, now, step, passed, asked>> /\ step = "idle"
      /\ timestamp' = t /\ accounted' = t.ms /\ pushed' = Before(now, t)
  BY DEF SetTo, settingVars, callVars
<1>2. pushed' \in BOOLEAN
  BY <1>1 DEF Before
<1>3. ~pushed' => ~Before(now', timestamp')
  BY <1>1
<1> QED
  BY <1>1, <1>2, <1>3, InstantParts DEF Inv, TimerTypeOK, Rest, CallInv

LEMMA SetPeriodInv ==
  ASSUME Inv, NEW p \in Periods, SetPeriod(p)
  PROVE  Inv'
<1>1. /\ UNCHANGED <<kind, now, timestamp, step, passed, asked, accounted>>
      /\ period' = p
      /\ pushed' = (pushed \/ (step = "wrapping" /\ p > passed))
      /\ kind = "wrapping"
  BY DEF SetPeriod, callVars
<1>2. pushed' \in BOOLEAN /\ (~pushed' => ~pushed)
  BY <1>1
<1>3. step = "wrapping" /\ ~pushed' => p <= passed
  <2>1. step = "wrapping" /\ ~pushed' => ~(p > passed)
    BY <1>1
  <2> QED
    BY <2>1, PeriodSmall, TimerAssumption DEF Inv, TimerTypeOK
<1>4. TimerTypeOK' /\ now'.ms <= MaxTime /\ Rest'
  BY <1>1, <1>2 DEF Inv, TimerTypeOK, Rest
<1>5. ~pushed' => ~Before(now', timestamp')
  BY <1>1, <1>2 DEF Inv
<1>6. CallInv'
  BY <1>1, <1>2, <1>3 DEF Inv, CallInv
<1> QED
  BY <1>4, <1>5, <1>6 DEF Inv

\* The first reading gives the distance to the timestamp.
LEMMA PassedKnown ==
  ASSUME Inv, timestamp.ms <= MaxStamp
  PROVE  /\ U64(PassedTime) \in 0..(Word - 1)
         /\ U64(PassedTime) <= now.ms \/ Word - U64(PassedTime) <= MaxStamp
         /\ ~pushed =>
              /\ U64(PassedTime) <= now.ms
              /\ \/ U64(PassedTime) = now.ms - timestamp.ms
                 \/ /\ U64(PassedTime) = now.ms - timestamp.ms - 1
                    /\ timestamp.part > 0
<1>1. /\ now \in Instant /\ timestamp \in Instant /\ now.ms <= MaxTime
      /\ period \in Periods
  BY DEF Inv, TimerTypeOK
<1>2. MaxTime \in Nat /\ MaxStamp \in Nat /\ Word \in Nat
        /\ MaxTime + MaxStamp < Word
  BY <1>1, PeriodSmall, TimerAssumption
<1> DEFINE n == now.ms
           m == timestamp.ms
<1>3. n \in Nat /\ m \in Nat /\ now.part \in Nat /\ timestamp.part \in Nat
  BY <1>1, InstantParts
<1>4. CASE Before(now, timestamp)
  <2>1. pushed
    BY <1>4 DEF Inv
  <2>2. PICK k \in 0..MaxStamp : PassedTime = -k
    BY <1>3, <1>4, <1>2 DEF PassedTime, Whole, Before
  <2> QED
    BY <2>1, <2>2, <1>2, <1>3 DEF U64
<1>5. CASE ~Before(now, timestamp)
  <2>1. /\ PassedTime \in 0..n
        /\ \/ PassedTime = n - m
           \/ PassedTime = n - m - 1 /\ timestamp.part > 0
    BY <1>3, <1>5 DEF PassedTime, Whole, Before
  <2>2. U64(PassedTime) = PassedTime
    BY <2>1, <1>1, <1>2, <1>3 DEF U64
  <2> QED
    BY <2>1, <2>2, <1>1, <1>2, <1>3
<1> QED
  BY <1>4, <1>5

LEMMA AskInv == Inv /\ Ask => Inv'
<1> SUFFICES ASSUME Inv, Ask
             PROVE  Inv'
  OBVIOUS
<1>1. /\ UNCHANGED <<kind, period, now, timestamp, accounted, pushed>>
      /\ timestamp.ms <= MaxStamp
      /\ passed' = U64(PassedTime) /\ asked' = now.ms
      /\ step' = IF kind = "timer" THEN "passed"
                 ELSE IF passed' >= period THEN "wrapping" ELSE "idle"
  BY DEF Ask, settingVars
<1>2. now \in Instant /\ timestamp \in Instant /\ period \in Periods
        /\ kind \in {"timer", "wrapping"}
  BY DEF Inv, TimerTypeOK
<1>3. TimerTypeOK'
  BY <1>1, <1>2, PassedKnown, InstantParts DEF Inv, TimerTypeOK
<1>4. CallInv'
  <2>1. kind = "wrapping" /\ step' # "idle" => period <= passed'
    BY <1>1, <1>2, <1>3, PeriodSmall, TimerAssumption DEF TimerTypeOK
  <2>2. step' # "idle" =>
          step' = (IF kind = "timer" THEN "passed" ELSE "wrapping")
    BY <1>1, <1>2
  <2> QED
    BY <1>1, <1>2, <2>1, <2>2, PassedKnown, InstantParts DEF CallInv
<1> QED
  BY <1>1, <1>3, <1>4 DEF Inv, Rest

LEMMA FinishPlainInv == Inv /\ FinishPlain => Inv'
<1> SUFFICES ASSUME Inv, FinishPlain
             PROVE  Inv'
  OBVIOUS
<1>1. /\ UNCHANGED <<kind, period, now, pushed>> /\ step = "passed"
      /\ timestamp' = now /\ step' = "idle" /\ passed' = 0 /\ asked' = 0
      /\ accounted' = IF pushed THEN accounted
                      ELSE accounted + passed + (now.ms - asked)
  BY DEF FinishPlain, Finish, settingVars
<1>2. /\ now \in Instant /\ timestamp \in Instant /\ accounted \in Nat
      /\ passed \in Nat /\ asked \in Nat /\ kind \in {"timer", "wrapping"}
      /\ pushed \in BOOLEAN
  BY TimerAssumption DEF Inv, TimerTypeOK
<1>3. kind = "timer" /\ asked <= now.ms
        /\ (~pushed => passed <= asked - timestamp.ms
                         /\ timestamp.ms >= accounted)
  BY <1>1, <1>2, InstantParts DEF Inv, CallInv, Rest
<1>4. ~pushed => now.ms >= accounted'
  BY <1>1, <1>2, <1>3, InstantParts
<1>5. accounted' \in Nat
  BY <1>1, <1>2, <1>3, InstantParts
<1>6. ~Before(now', timestamp')
  BY <1>1, <1>2, InstantParts DEF Before
<1> QED
  BY <1>1, <1>2, <1>3, <1>4, <1>5, <1>6, TimerAssumption
  DEF Inv, TimerTypeOK, Rest, CallInv

LEMMA FinishWrapInv == Inv /\ FinishWrap => Inv'
<1> SUFFICES ASSUME Inv, FinishWrap
             PROVE  Inv'
  OBVIOUS
<1>1. /\ UNCHANGED <<kind, period, now, pushed>> /\ step = "wrapping"
      /\ timestamp' = AtMs(WrapPoint)
      /\ step' = "idle" /\ passed' = 0 /\ asked' = 0
      /\ accounted' = IF pushed THEN accounted
                      ELSE accounted + period + (now.ms - asked)
  BY DEF FinishWrap, Finish, settingVars
<1>2. /\ now \in Instant /\ timestamp \in Instant /\ accounted \in Nat
      /\ passed \in Nat /\ passed < Word /\ asked \in Nat
      /\ kind \in {"timer", "wrapping"} /\ period \in Periods
      /\ pushed \in BOOLEAN /\ now.ms <= MaxTime
  BY TimerAssumption DEF Inv, TimerTypeOK
<1>3. /\ kind = "wrapping" /\ asked <= now.ms
      /\ passed <= asked \/ Word - passed <= MaxStamp
  BY <1>1, <1>2 DEF Inv, CallInv
<1>4. period \in Nat /\ 2 * (MaxTime + MaxStamp + period) < Word
        /\ MaxTime \in Nat /\ MaxStamp \in Nat /\ Word \in Nat
  BY <1>2, PeriodSmall, TimerAssumption
<1> DEFINE n == now.ms
<1>5. n \in Nat
  BY <1>2, InstantParts
<1>6. passed <= asked => WrapPoint = n - passed + period
  BY <1>2, <1>3, <1>4, <1>5 DEF WrapPoint, U64, S64
<1>7. WrapPoint \in Nat
  <2>1. CASE passed <= asked
    BY <2>1, <1>2, <1>3, <1>4, <1>5, <1>6
  <2>2. CASE ~(passed <= asked)
    <3> DEFINE k == Word - passed
    <3>1. k \in 1..MaxStamp /\ n - passed = n + k - Word
      BY <2>2, <1>2, <1>3, <1>4, <1>5
    <3>2. U64(n - passed) = n + k
      BY <3>1, <1>2, <1>4, <1>5 DEF U64
    <3>3. U64(U64(n - passed) + period) = n + k + period
      BY <3>1, <3>2, <1>2, <1>4, <1>5 DEF U64
    <3>4. S64(n + k + period) = n + k + period
      BY <3>1, <1>2, <1>4, <1>5 DEF S64
    <3> QED
      BY <3>1, <3>3, <3>4, <1>4, <1>5 DEF WrapPoint
  <2> QED
    BY <2>1, <2>2
<1>8. timestamp' \in Instant /\ timestamp'.ms = WrapPoint /\ timestamp'.part = 0
  BY <1>1, <1>7, AtMsInstant
<1>9. ~pushed =>
        /\ passed <= asked /\ period <= passed
        /\ \/ passed = asked - timestamp.ms
           \/ passed = asked - timestamp.ms - 1 /\ timestamp.part > 0
        /\ \/ timestamp.ms = accounted
           \/ timestamp.ms = accounted + 1 /\ timestamp.part = 0
  BY <1>1, <1>3 DEF Inv, CallInv, Rest
<1>10. ~pushed => WrapPoint = accounted' \/ WrapPoint = accounted' + 1
  BY <1>1, <1>2, <1>4, <1>5, <1>6, <1>9, InstantParts
<1>11. ~pushed => ~Before(now', timestamp')
  BY <1>1, <1>2, <1>4, <1>5, <1>6, <1>8, <1>9, InstantParts DEF Before
<1>12. accounted' \in Nat
  BY <1>1, <1>2, <1>3, <1>4, <1>5
<1>13. TimerTypeOK'
  BY <1>1, <1>2, <1>4, <1>8, <1>12 DEF TimerTypeOK
<1>14. Rest'
  BY <1>1, <1>3, <1>8, <1>10 DEF Rest
<1> QED
  BY <1>1, <1>2, <1>11, <1>13, <1>14 DEF Inv, CallInv

LEMMA NextInv == Inv /\ [TimerNext]_timerVars => Inv'
<1> SUFFICES ASSUME Inv, [TimerNext]_timerVars
             PROVE  Inv'
  OBVIOUS
<1>1. CASE SetTimestamp
  <2>1. PICK m \in Settings : SetTo(AtMs(m))
    BY <1>1 DEF SetTimestamp
  <2> QED
    BY <2>1, TimerAssumption, AtMsInstant, SetToInv
<1>2. CASE SetToNow
  BY <1>2, SetToInv DEF SetToNow, Inv, TimerTypeOK
<1>3. CASE UNCHANGED timerVars
  BY <1>3 DEF timerVars, Inv, TimerTypeOK, Rest, CallInv
<1> QED
  BY <1>1, <1>2, <1>3, TickInv, SetPeriodInv, AskInv, FinishPlainInv,
    FinishWrapInv DEF TimerNext

LEMMA TimerInv == TimerSpec => []Inv
  BY InitInv, NextInv, PTL DEF TimerSpec

\* Every variable keeps its type.
THEOREM TimerTypes == TimerSpec => []TimerTypeOK
  BY TimerInv, PTL DEF Inv

\* The time reported and the time between the readings add up to the timestamp.
THEOREM TimeIsAccounted == TimerSpec => []TimeAccounted
<1>1. Inv => TimeAccounted
  BY InstantParts DEF Inv, Rest, TimerTypeOK, TimeAccounted
<1> QED
  BY <1>1, TimerInv, PTL

\* A timestamp that is ahead of the clock was pushed there by the application.
THEOREM TimestampNotAhead == TimerSpec => []NeverAhead
<1>1. Inv => NeverAhead
  <2> SUFFICES ASSUME Inv, ~pushed
               PROVE  ~Before(now, timestamp) /\ accounted <= now.ms
    BY DEF NeverAhead
  <2>1. ~Before(now, timestamp) /\ accounted <= timestamp.ms
    BY InstantParts DEF Inv, Rest, TimerTypeOK
  <2> QED
    BY <2>1, InstantParts DEF Inv, TimerTypeOK, Before
<1> QED
  BY <1>1, TimerInv, PTL
=============================================================================
