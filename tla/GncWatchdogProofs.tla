-------------------------- MODULE GncWatchdogProofs --------------------------
(***************************************************************************)
(* Theorems about GncWatchdog: types, that the serial port is at most one  *)
(* transfer ahead, that a stuck task is followed by a reset, that a task   *)
(* within its budget keeps the hardware fed, and that the GNC tasks run.   *)
(***************************************************************************)
EXTENDS GncWatchdog, TLAPS

Tock == 0 .. MaxTick

LEMMA TicksType ==
  ASSUME NEW a \in Tock, NEW b \in Tock
  PROVE  Ticks(a, b) \in Tock /\ (Ticks(a, b) = 0 <=> a = b)
BY GncAssumption DEF Ticks, Tock

LEMMA AfterType ==
  ASSUME NEW a \in Tock, NEW n \in Tock
  PROVE  After(a, n) \in Tock
BY GncAssumption DEF After, Tock

\* A tick later an instant of the past is one tick further away.
LEMMA TickFromPast ==
  ASSUME NEW a \in Tock, NEW b \in Tock, Ticks(a, b) < MaxTick
  PROVE  Ticks(a, After(b, 1)) = Ticks(a, b) + 1
BY GncAssumption DEF Ticks, After, Tock

\* And one that is still to come one tick closer.
LEMMA TickToFuture ==
  ASSUME NEW a \in Tock, NEW b \in Tock, Ticks(b, a) > 0
  PROVE  Ticks(After(b, 1), a) = Ticks(b, a) - 1
BY GncAssumption DEF Ticks, After, Tock

\* vTaskDelayUntil sees whether the wake time is past, as long as the last one is not
\* almost a whole count ago.
LEMMA Delays ==
  ASSUME xLastWakeTime \in Tock, now \in Tock, Ticks(xLastWakeTime, now) + Period <= MaxTick
  PROVE  /\ StillToCome <=> Ticks(xLastWakeTime, now) < Period
         /\ StillToCome => Ticks(now, WakeTime) = Period - Ticks(xLastWakeTime, now)
         /\ ~StillToCome => Ticks(WakeTime, now) = Ticks(xLastWakeTime, now) - Period
BY GncAssumption DEF StillToCome, WakeTime, Ticks, After, Tock

-----------------------------------------------------------------------------
(* Types. *)

\* The values a start and a reset give the variables.
LEMMA StartValues ==
  /\ 0 \in Tock /\ 0 \in 0 .. FeedingPeriod /\ 0 \in 0 .. PacketSize
  /\ MaxBusy \in 0 .. MaxBusy /\ 0 \in Nat /\ 1 \in Nat \ {0}
BY GncAssumption DEF Tock

LEMMA TypeInit == Init => TypeOK
BY StartValues, Zenon DEF Init, TypeOK, Tock

LEMMA TypeNext == TypeOK /\ [Next]_vars => TypeOK'
<1> SUFFICES ASSUME TypeOK, [Next]_vars PROVE TypeOK'
  OBVIOUS
<1> USE GncAssumption DEF TypeOK, vars, wdVars, loopVars, sciVars
<1>1. CASE Feed
  BY <1>1 DEF Feed
<1>2. CASE Suspend
  BY <1>2 DEF Suspend
<1>3. CASE Start
  BY <1>3 DEF Start, Runs
<1>4. CASE CheckIn
  BY <1>4 DEF CheckIn, Runs
<1>5. CASE StartRead
  BY <1>5 DEF StartRead, Runs
<1>6. CASE ReadDone
  BY <1>6 DEF ReadDone, Runs
<1>7. CASE ReadTimeout
  BY <1>7 DEF ReadTimeout, Runs
<1>8. CASE DelayUntil
  <2>1. WakeTime \in Tock
    BY AfterType DEF WakeTime, Tock
  <2>2. Ticks(now, WakeTime) \in Nat
    BY <2>1, TicksType DEF Tock
  <2> QED
    BY <1>8, <2>1, <2>2 DEF DelayUntil, Runs, Tock
<1>9. CASE Wake
  BY <1>9 DEF Wake, Runs
<1>10. CASE SetGncTaskPeriod
  <2>1. PICK p \in Requested : p >= Period /\ taskRateDivisor' = p \div Period
    BY <1>10 DEF SetGncTaskPeriod
  <2>2. p \div Period \in Nat \ {0}
    BY <2>1
  <2> QED
    BY <1>10, <2>1, <2>2 DEF SetGncTaskPeriod
<1>11. CASE ReceiveByte
  BY <1>11 DEF ReceiveByte
<1>12. CASE Hang
  BY <1>12 DEF Hang
<1>13. CASE Tick
  <2>1. After(now, 1) \in Tock
    BY AfterType DEF Tock
  <2> QED
    BY <1>13, <2>1 DEF Tick, TickPasses, Waiting, Tock
<1>14. CASE HwReset
  BY <1>14, StartValues, Zenon DEF HwReset, Tock
<1>15. CASE UNCHANGED vars
  BY <1>15
<1> QED
  BY <1>1, <1>2, <1>3, <1>4, <1>5, <1>6, <1>7, <1>8, <1>9, <1>10, <1>11, <1>12, <1>13, <1>14, <1>15
     DEF Next

\* The state of the watchdog, the GNC task and the serial port keeps its types, for
\* every choice of the periods and timeouts.
THEOREM GncTypeCorrect == Spec => []TypeOK
<1> QED
  BY TypeInit, TypeNext, PTL DEF Spec
-----------------------------------------------------------------------------
(* The serial port. *)

LEMMA OneTransferNext == TypeOK /\ OneTransfer /\ [Next]_vars => OneTransfer'
<1> SUFFICES ASSUME TypeOK, OneTransfer, [Next]_vars PROVE OneTransfer'
  OBVIOUS
<1> USE GncAssumption DEF TypeOK, OneTransfer, One, vars, wdVars, loopVars, sciVars
<1>1. CASE Feed
  BY <1>1 DEF Feed
<1>2. CASE Suspend
  BY <1>2 DEF Suspend
<1>3. CASE Start
  BY <1>3 DEF Start, Runs
<1>4. CASE CheckIn
  BY <1>4 DEF CheckIn, Runs
<1>5. CASE StartRead
  BY <1>5 DEF StartRead, Runs
<1>6. CASE ReadDone
  BY <1>6 DEF ReadDone, Runs
<1>7. CASE ReadTimeout
  BY <1>7 DEF ReadTimeout, Runs
<1>8. CASE DelayUntil
  BY <1>8 DEF DelayUntil, Runs
<1>9. CASE Wake
  BY <1>9 DEF Wake, Runs
<1>10. CASE SetGncTaskPeriod
  BY <1>10 DEF SetGncTaskPeriod
<1>11. CASE ReceiveByte
  BY <1>11 DEF ReceiveByte
<1>12. CASE Hang
  BY <1>12 DEF Hang
<1>13. CASE Tick
  BY <1>13 DEF Tick
<1>14. CASE HwReset
  BY <1>14 DEF HwReset
<1>15. CASE UNCHANGED vars
  BY <1>15
<1> QED
  BY <1>1, <1>2, <1>3, <1>4, <1>5, <1>6, <1>7, <1>8, <1>9, <1>10, <1>11, <1>12, <1>13, <1>14, <1>15
     DEF Next

\* The semaphore a read of the sensor takes is that of its own transfer, unless an
\* earlier read has timed out; and then one transfer is left over, never more.
THEOREM OneTransferCorrect == Spec => []OneTransfer
<1>1. Init => OneTransfer
  BY DEF Init, OneTransfer, One
<1>2. TypeOK /\ OneTransfer /\ [Next]_vars => OneTransfer'
  BY OneTransferNext
<1> QED
  BY <1>1, <1>2, GncTypeCorrect, PTL DEF Spec

-----------------------------------------------------------------------------
(* A stuck task is followed by a reset. *)

\* What the watchdog task computes is the age of the check-in, over the end of the
\* count too, because the hardware resets the computer before a whole count passes;
\* and what was too old when it last fed is at most as much older now.
Ages ==
  /\ age = Ticks(lastCheckIn, now)
  /\ age <= Timeout + fed
  /\ fed < HwTimeout

LEMMA AgesNext == TypeOK /\ Ages /\ [Next]_vars => Ages'
<1> SUFFICES ASSUME TypeOK, Ages, [Next]_vars PROVE Ages'
  OBVIOUS
<1> USE GncAssumption DEF TypeOK, vars, wdVars, loopVars, sciVars
<1>u. ASSUME UNCHANGED <<now, fed, lastCheckIn, age>> PROVE Ages'
  BY <1>u DEF Ages, Ticks
<1>z. \A t \in Tock : Ticks(t, t) = 0
  BY TicksType
<1>1. CASE Feed
  BY <1>1 DEF Feed, TicksSinceLastCheckIn, Ages, Ticks
<1>4. CASE CheckIn
  BY <1>4, <1>z DEF CheckIn, Ages, Tock
<1>13. CASE Tick
  <2>1. age < MaxTick
    BY <1>13 DEF Tick, Ages
  <2>2. Ticks(lastCheckIn, After(now, 1)) = age + 1
    BY <2>1, TickFromPast DEF Ages, Tock
  <2> QED
    BY <1>13, <2>2 DEF Tick, Ages
<1>14. CASE HwReset
  BY <1>14, <1>z, StartValues DEF HwReset, Ages
<1>2. CASE Suspend
  BY <1>2, <1>u DEF Suspend
<1>3. CASE Start
  BY <1>3, <1>u DEF Start
<1>5. CASE StartRead
  BY <1>5, <1>u DEF StartRead
<1>6. CASE ReadDone
  BY <1>6, <1>u DEF ReadDone
<1>7. CASE ReadTimeout
  BY <1>7, <1>u DEF ReadTimeout
<1>8. CASE DelayUntil
  BY <1>8, <1>u DEF DelayUntil
<1>9. CASE Wake
  BY <1>9, <1>u DEF Wake
<1>10. CASE SetGncTaskPeriod
  BY <1>10, <1>u DEF SetGncTaskPeriod
<1>11. CASE ReceiveByte
  BY <1>11, <1>u DEF ReceiveByte
<1>12. CASE Hang
  BY <1>12, <1>u DEF Hang
<1>15. CASE UNCHANGED vars
  BY <1>15, <1>u
<1> QED
  BY <1>1, <1>2, <1>3, <1>4, <1>5, <1>6, <1>7, <1>8, <1>9, <1>10, <1>11, <1>12, <1>13, <1>14, <1>15
     DEF Next

LEMMA AgesCorrect == Spec => []Ages
<1>1. Init => Ages
  BY TicksType, StartValues, GncAssumption DEF Init, Ages
<1>2. TypeOK /\ Ages /\ [Next]_vars => Ages'
  BY AgesNext
<1> QED
  BY <1>1, <1>2, GncTypeCorrect, PTL DEF Spec

\* Whatever the GNC task gets stuck in, the hardware resets the computer at most
\* Timeout and HwTimeout after its last check-in.
THEOREM HangCaughtCorrect == Spec => []HangCaught
<1>1. TypeOK /\ Ages => HangCaught
  BY GncAssumption DEF TypeOK, Ages, HangCaught
<1> QED
  BY <1>1, AgesCorrect, GncTypeCorrect, PTL
-----------------------------------------------------------------------------
(* A task within its budget keeps the hardware fed. *)

\* How far the tick count is ahead of the wake time the task last asked for.
Lag == Ticks(xLastWakeTime, now)

\* What is left of the iteration added to the age of the check-in and to the lag: no
\* tick changes these sums.  The lag grows over the iteration that reads the sensor and
\* the one after it, and is made up for before the next read.
AtLoop ==
  /\ age + slack <= Period + MaxBusy
  /\ \/ Lag + slack <= MaxBusy
     \/ cycleNum = 1 /\ Lag + slack + Period <= 2 * MaxBusy + SciTimeout

AtSense == cycleNum = 1 /\ age + slack <= MaxBusy /\ age <= Lag /\ Lag + slack <= 2 * MaxBusy

AtRead ==
  /\ cycleNum = 1
  /\ age <= Lag
  /\ age + wait + slack <= MaxBusy + SciTimeout
  /\ Lag + wait + slack <= 2 * MaxBusy + SciTimeout

AtPause ==
  /\ age <= Lag
  /\ age + slack <= MaxBusy + SciTimeout
  /\ \/ cycleNum = 1 /\ Lag + slack <= 2 * MaxBusy + SciTimeout
     \/ Lag + slack <= 2 * MaxBusy
     \/ Lag + slack + Period <= 3 * MaxBusy + SciTimeout

AtDelay ==
  /\ age + wait + slack <= Period + MaxBusy
  /\ IF wait > 0 THEN Ticks(now, xLastWakeTime) = wait ELSE Lag + slack <= MaxBusy

AtEachPoint ==
  /\ watchdog = "running"
  /\ gnc = "start" => cycleNum = 1 /\ age + slack <= MaxBusy
  /\ gnc = "loop"  => AtLoop
  /\ gnc = "sense" => AtSense
  /\ gnc = "read"  => AtRead
  /\ gnc = "pause" => AtPause
  /\ gnc = "delay" => AtDelay

Schedule == WithinBudget /\ ~hung => AtEachPoint

LEMMA LagType ==
  ASSUME TypeOK
  PROVE  Lag \in Nat /\ Ticks(now, xLastWakeTime) \in Nat
BY GncAssumption, TicksType DEF TypeOK, Lag, Tock

LEMMA NotTooOld ==
  ASSUME TypeOK, WithinBudget, AtEachPoint
  PROVE  age <= Timeout
<1> USE GncAssumption DEF TypeOK, WithinBudget, AtEachPoint
<1>1. gnc \in {"sense", "read", "pause"} => age <= Timeout
  BY DEF AtSense, AtRead, AtPause
<1>2. gnc \in {"start", "loop", "delay"} => age <= Timeout
  BY DEF AtLoop, AtDelay
<1> QED
  BY <1>1, <1>2

LEMMA ScheduleTick ==
  ASSUME TypeOK, WithinBudget, ~hung, AtEachPoint, Tick
  PROVE  AtEachPoint'
<1> USE GncAssumption DEF TypeOK, WithinBudget, AtEachPoint
<1>a. /\ UNCHANGED <<watchdog, gnc, cycleNum, xLastWakeTime>>
      /\ now' = After(now, 1) /\ age' = age + 1
  BY DEF Tick, loopVars
<1>0. /\ Lag \in Nat /\ Ticks(now, xLastWakeTime) \in Nat
      /\ UNCHANGED <<watchdog, gnc, cycleNum, xLastWakeTime>>
      /\ now' = After(now, 1) /\ age' = age + 1
  BY <1>a, LagType
<1>1. \/ Waiting /\ wait' = wait - 1 /\ slack' = slack
      \/ ~Waiting /\ slack > 0 /\ slack' = slack - 1 /\ wait' = wait
  BY DEF Tick, TickPasses
<1>2. Lag < MaxTick => Lag' = Lag + 1
  BY <1>0, TickFromPast DEF Lag, Tock
<1>3. CASE gnc = "start"
  BY <1>0, <1>1, <1>3 DEF Waiting
<1>4. CASE gnc = "loop"
  BY <1>0, <1>1, <1>2, <1>4 DEF Waiting, AtLoop
<1>5. CASE gnc = "sense"
  BY <1>0, <1>1, <1>2, <1>5 DEF Waiting, AtSense
<1>6. CASE gnc = "read"
  BY <1>0, <1>1, <1>2, <1>6 DEF Waiting, AtRead
<1>7. CASE gnc = "pause"
  BY <1>0, <1>1, <1>2, <1>7 DEF Waiting, AtPause
<1>8. CASE gnc = "delay"
  <2>1. CASE wait = 0
    BY <1>0, <1>1, <1>2, <1>8, <2>1 DEF Waiting, AtDelay
  <2>2. CASE wait > 0
    <3>1. wait' = wait - 1 /\ slack' = slack
      BY <1>1, <1>8, <2>2 DEF Waiting
    <3>2. Ticks(now', xLastWakeTime) = wait - 1
      BY <1>0, <1>8, <2>2, TickToFuture DEF AtDelay, Tock
    <3>3. now' \in Tock
      BY <1>0, AfterType DEF Tock
    <3>4. wait = 1 => Lag' = 0
      <4>1. wait = 1 => now' = xLastWakeTime
        BY <3>2, <3>3, TicksType DEF Tock
      <4> QED
        BY <4>1, <1>0, <3>3, TicksType DEF Lag, Tock
    <3> QED
      BY <1>0, <1>8, <2>2, <3>1, <3>2, <3>4 DEF AtDelay
  <2> QED
    BY <2>1, <2>2
<1> QED
  BY <1>3, <1>4, <1>5, <1>6, <1>7, <1>8

LEMMA ScheduleDelayUntil ==
  ASSUME TypeOK, WithinBudget, AtEachPoint, DelayUntil
  PROVE  AtEachPoint'
<1> USE GncAssumption DEF TypeOK, WithinBudget
<1>a. AtPause /\ watchdog = "running"
  BY DEF AtEachPoint, DelayUntil, Runs
<1>1. AtPause /\ watchdog = "running" /\ Lag \in Nat
  BY <1>a, LagType
<1>2. Lag + Period <= MaxTick
  BY <1>1 DEF AtPause
<1>3. /\ StillToCome <=> Lag < Period
      /\ StillToCome => Ticks(now, WakeTime) = Period - Lag
      /\ ~StillToCome => Ticks(WakeTime, now) = Lag - Period
  BY <1>2, Delays DEF Lag, Tock
<1>4. /\ UNCHANGED <<now, watchdog, cycleNum, slack, age>>
      /\ xLastWakeTime' = WakeTime
  BY DEF DelayUntil, wdVars, loopVars
<1>5. CASE StillToCome
  <2>1. gnc' = "delay" /\ wait' = Period - Lag /\ wait' > 0
    BY <1>1, <1>3, <1>5 DEF DelayUntil
  <2>2. Ticks(now', xLastWakeTime') = wait'
    BY <1>3, <1>4, <1>5, <2>1
  <2>3. age' + wait' + slack' <= Period + MaxBusy
    BY <1>1, <1>4, <2>1 DEF AtPause
  <2> QED
    BY <1>1, <1>4, <2>1, <2>2, <2>3 DEF AtEachPoint, AtDelay
<1>6. CASE ~StillToCome
  <2>1. gnc' = "loop" /\ Lag' = Lag - Period /\ Lag >= Period
    BY <1>1, <1>3, <1>4, <1>6 DEF DelayUntil, Lag
  <2>2. AtLoop'
    BY <1>1, <1>4, <2>1 DEF AtPause, AtLoop
  <2> QED
    BY <1>1, <1>4, <2>1, <2>2 DEF AtEachPoint
<1> QED
  BY <1>5, <1>6

LEMMA ScheduleNext == TypeOK /\ Ages /\ Schedule /\ [Next]_vars => Schedule'
<1> SUFFICES ASSUME TypeOK, Ages, Schedule, [Next]_vars, WithinBudget, ~hung'
             PROVE  AtEachPoint'
  BY DEF Schedule, WithinBudget
<1> USE GncAssumption DEF TypeOK, vars, wdVars, loopVars, sciVars
<1>z. /\ \A t \in Tock : Ticks(t, t) = 0
      /\ Lag \in Nat /\ Ticks(now, xLastWakeTime) \in Nat
      /\ Ticks(now, xLastWakeTime) = 0 => now = xLastWakeTime
  BY TicksType DEF Lag, Tock
<1>14. CASE HwReset
  BY <1>14 DEF HwReset, AtEachPoint
<1>h. ASSUME ~HwReset PROVE ~hung /\ AtEachPoint
  <2>1. ~hung
    BY <1>h DEF Next, Feed, Suspend, Start, CheckIn, StartRead, ReadDone, ReadTimeout, DelayUntil,
                Wake, SetGncTaskPeriod, ReceiveByte, Hang, Tick
  <2> QED
    BY <2>1 DEF Schedule
<1>u. ASSUME AtEachPoint,
             UNCHANGED <<now, watchdog, gnc, cycleNum, xLastWakeTime, wait, slack, age>>
      PROVE  AtEachPoint'
  BY <1>u DEF AtEachPoint, AtLoop, AtSense, AtRead, AtPause, AtDelay, Lag, Ticks
<1>2. ASSUME Suspend, AtEachPoint PROVE FALSE
  BY <1>2, NotTooOld DEF Suspend, Ages, TicksSinceLastCheckIn
<1>3. ASSUME Start, AtEachPoint PROVE AtEachPoint'
  <2>1. Lag' = 0
    BY <1>3, <1>z DEF Start, Lag, Tock
  <2> QED
    BY <1>3, <2>1 DEF Start, Runs, AtEachPoint, AtLoop
<1>4. ASSUME CheckIn, AtEachPoint PROVE AtEachPoint'
  <2>1. Lag' = Lag
    BY <1>4 DEF CheckIn, Lag, Ticks
  <2>2. AtLoop
    BY <1>4 DEF CheckIn, Runs, AtEachPoint
  <2>3. /\ age' = 0 /\ slack' = MaxBusy /\ watchdog' = "running"
    BY <1>4 DEF CheckIn, AtEachPoint
  <2>4. CASE CycleSkips
    BY <1>4, <1>z, <2>1, <2>2, <2>3, <2>4 DEF CheckIn, AtEachPoint, AtLoop, AtPause, WithinBudget
  <2>5. CASE ~CycleSkips
    <3>1. cycleNum # 1
      BY <2>5 DEF CycleSkips
    <3> QED
      BY <1>4, <1>z, <2>1, <2>2, <2>3, <2>5, <3>1 DEF CheckIn, AtEachPoint, AtLoop, AtSense
  <2> QED
    BY <2>4, <2>5
<1>5. ASSUME StartRead, AtEachPoint PROVE AtEachPoint'
  BY <1>5, <1>z DEF StartRead, Runs, AtEachPoint, AtSense, AtRead, Lag, Ticks
<1>6. ASSUME ReadDone, AtEachPoint PROVE AtEachPoint'
  BY <1>6, <1>z DEF ReadDone, Runs, AtEachPoint, AtRead, AtPause, Lag, Ticks
<1>7. ASSUME ReadTimeout, AtEachPoint PROVE AtEachPoint'
  BY <1>7, <1>z DEF ReadTimeout, Runs, AtEachPoint, AtRead, AtPause, Lag, Ticks
<1>9. ASSUME Wake, AtEachPoint PROVE AtEachPoint'
  BY <1>9, <1>z DEF Wake, Runs, AtEachPoint, AtDelay, AtLoop, Lag, Ticks
<1>15. ASSUME AtEachPoint, Feed \/ SetGncTaskPeriod \/ ReceiveByte \/ Hang \/ UNCHANGED vars
       PROVE  AtEachPoint'
  BY <1>15, <1>u DEF Feed, SetGncTaskPeriod, ReceiveByte, Hang
<1> QED
  BY <1>h, <1>2, <1>3, <1>4, <1>5, <1>6, <1>7, <1>9, <1>14, <1>15, ScheduleDelayUntil, ScheduleTick
     DEF Next

\* However late the GNC task is within its budget, whether the sensor answers or not, and
\* over the end of the tick count, the watchdog task goes on feeding the hardware.
THEOREM KeepsFedCorrect == Spec => []KeepsFed
<1>1. Init => Schedule
  BY GncAssumption DEF Init, Schedule, AtEachPoint
<1>2. TypeOK /\ Ages /\ Schedule /\ [Next]_vars => Schedule'
  BY ScheduleNext
<1>3. Schedule => KeepsFed
  BY DEF Schedule, AtEachPoint, KeepsFed
<1> QED
  BY <1>1, <1>2, <1>3, AgesCorrect, GncTypeCorrect, PTL DEF Spec

-----------------------------------------------------------------------------
(* The GNC tasks run. *)

LEMMA Division ==
  ASSUME NEW p \in Nat, p >= Period, p <= MaxPeriod
  PROVE  p \div Period <= MaxPeriod \div Period
BY GncAssumption

LEMMA OnePeriod == MaxPeriod \div Period \in Nat /\ 1 <= MaxPeriod \div Period
BY GncAssumption

\* The divisor of a period that is accepted.  The end of the countdown is found with a
\* comparison, so that a divisor made smaller in the middle of one still ends it.
Rates ==
  /\ taskRateDivisor <= MaxPeriod \div Period
  /\ skipped + 1 = cycleNum
  /\ skipped <= MaxPeriod \div Period

LEMMA RatesNext == TypeOK /\ Rates /\ [Next]_vars => Rates'
<1> SUFFICES ASSUME TypeOK, Rates, [Next]_vars PROVE Rates'
  OBVIOUS
<1> DEFINE M == MaxPeriod \div Period
<1>m. M \in Nat /\ 1 <= M
  BY OnePeriod
<1> HIDE DEF M
<1> USE DEF TypeOK, vars, wdVars, loopVars, sciVars
<1>r. taskRateDivisor <= M /\ skipped + 1 = cycleNum /\ skipped <= M
  BY DEF Rates, M
<1>s. ASSUME taskRateDivisor' <= M, skipped' + 1 = cycleNum', skipped' <= M PROVE Rates'
  BY <1>s DEF Rates, M
<1>u. ASSUME UNCHANGED loopVars PROVE Rates'
  BY <1>u, <1>r, <1>s
<1>1. CASE CheckIn
  BY <1>1, <1>m, <1>r, <1>s DEF CheckIn, CycleSkips
<1>2. CASE SetGncTaskPeriod
  <2>1. PICK p \in Requested : p >= Period /\ p <= MaxPeriod /\ taskRateDivisor' = p \div Period
    BY <1>2 DEF SetGncTaskPeriod
  <2>2. taskRateDivisor' <= M
    BY <2>1, Division, GncAssumption DEF M
  <2> QED
    BY <1>2, <2>2, <1>r, <1>s DEF SetGncTaskPeriod
<1>3. CASE HwReset
  BY <1>3, <1>m, <1>s DEF HwReset
<1>4. CASE \/ Feed \/ Suspend \/ Start \/ StartRead \/ ReadDone \/ ReadTimeout \/ DelayUntil
           \/ Wake \/ ReceiveByte \/ Hang \/ Tick \/ UNCHANGED vars
  BY <1>4, <1>u DEF Feed, Suspend, Start, StartRead, ReadDone, ReadTimeout, DelayUntil, Wake,
                    ReceiveByte, Hang, Tick
<1> QED
  BY <1>1, <1>2, <1>3, <1>4 DEF Next

\* However the period of the GNC tasks is changed while they are counted down to, they
\* run after at most as many idle periods as fit into the longest one.
THEOREM NotStarvedCorrect == Spec => []NotStarved
<1>1. Init => Rates
  BY OnePeriod DEF Init, Rates
<1>2. TypeOK /\ Rates /\ [Next]_vars => Rates'
  BY RatesNext
<1>3. Rates => NotStarved
  BY DEF Rates, NotStarved
<1> QED
  BY <1>1, <1>2, <1>3, GncTypeCorrect, PTL DEF Spec
=============================================================================
