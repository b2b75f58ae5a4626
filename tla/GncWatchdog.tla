----------------------------- MODULE GncWatchdog -----------------------------
(***************************************************************************)
(* digital_watchdog_mgr.c and the task it watches, gnc_manager.c: the one  *)
(* task with a timeout.  The GNC task checks in once per period and on     *)
(* some periods reads the VN-100 over a serial port (obc_sci_io.c) and     *)
(* steps its models; the watchdog task, of the highest priority, feeds the *)
(* hardware counter as long as the last check-in is recent.                *)
(*                                                                         *)
(* Time passes in ticks.  Of one iteration the GNC task spends at most     *)
(* MaxBusy ticks ready or running: its own steps and whatever preempts it. *)
(* The sensor and what may hang the task are external.                     *)
(***************************************************************************)
EXTENDS Integers

CONSTANTS
  MaxTick,          \* the largest tick count, UINT32_MAX
  Period,           \* DEFAULT_GNC_TASK_PERIOD_MS
  MaxPeriod,        \* MAX_GNC_TASK_PERIOD_MS
  Timeout,          \* TASK_GNC_MGR_WATCHDOG_TIMEOUT
  FeedingPeriod,
  HwTimeout,        \* ticks after which the hardware counter resets the computer
  SciTimeout,       \* SCI_SEMAPHORE_TIMEOUT_MS
  PacketSize,       \* VN100_BINARY_PACKET_SIZE
  Requested,        \* the periods setGncTaskPeriod is called with
  MaxBusy           \* bound on the ticks of an iteration that are not waited

ASSUME GncAssumption ==
  /\ MaxTick \in Nat /\ HwTimeout \in Nat \ {0} /\ MaxBusy \in Nat
  /\ Period \in Nat \ {0} /\ MaxPeriod \in Nat /\ MaxPeriod >= Period
  /\ Timeout \in Nat /\ FeedingPeriod \in Nat \ {0}
  /\ SciTimeout \in Nat /\ PacketSize \in Nat \ {0}
  /\ Requested \subseteq Nat
  /\ Timeout + HwTimeout <= MaxTick /\ Period <= MaxTick

VARIABLES
  now,           \* xTaskGetTickCount()
  watchdog,      \* "running" or "suspended"
  wdDelay,       \* ticks left of its vTaskDelay
  fed,           \* ticks since the hardware counter was fed
  lastCheckIn,   \* taskLastCheckInTick of the GNC task
  gnc,           \* where the GNC task is in its loop
  cycleNum, taskRateDivisor,
  xLastWakeTime,
  wait,          \* ticks left of its delay or of its wait for the semaphore
  complete,      \* sciTransferComplete
  rxLength,      \* bytes the transfer of the serial port still expects
  hung,          \* the GNC task does not go on any more
  slack,         \* ticks left of MaxBusy in this iteration
  age,           \* history: ticks since the last check-in
  skipped,       \* history: periods since the GNC tasks ran
  timedOut       \* history: a read of the sensor timed out

wdVars   == <<watchdog, wdDelay, fed>>
loopVars == <<cycleNum, taskRateDivisor, skipped>>
sciVars  == <<complete, rxLength, timedOut>>
vars     == <<now, wdVars, lastCheckIn, gnc, loopVars, xLastWakeTime, wait, sciVars,
              hung, slack, age>>

\* The watchdog task is created last and runs first: it checks in all tasks at once.
Init ==
  /\ now = 0
  /\ watchdog = "running" /\ wdDelay = 0 /\ fed = 0
  /\ lastCheckIn = 0
  /\ gnc = "start"
  /\ cycleNum = 1 /\ taskRateDivisor = 1
  /\ xLastWakeTime = 0 /\ wait = 0
  /\ complete = FALSE /\ rxLength = 0
  /\ hung = FALSE /\ slack = MaxBusy
  /\ age = 0 /\ skipped = 0 /\ timedOut = FALSE

\* The ticks from one tick count to a later one, over the end of the count.
Ticks(from, to) == IF to >= from THEN to - from ELSE (MaxTick - from) + to + 1

After(tick, n) == IF tick + n > MaxTick THEN tick + n - MaxTick - 1 ELSE tick + n

-----------------------------------------------------------------------------
(* The watchdog task. *)

WatchdogReady == watchdog = "running" /\ wdDelay = 0

TicksNoOverflow == IF now >= lastCheckIn THEN now - lastCheckIn ELSE 0

TicksOverEqual == IF now > lastCheckIn THEN now - lastCheckIn ELSE MaxTick - lastCheckIn + now + 1

TicksSinceLastCheckIn == Ticks(lastCheckIn, now)

Feed ==
  /\ WatchdogReady
  /\ TicksSinceLastCheckIn <= Timeout
  /\ fed' = 0
  /\ wdDelay' = FeedingPeriod
  /\ UNCHANGED <<now, watchdog, lastCheckIn, gnc, loopVars, xLastWakeTime, wait, sciVars, hung, slack, age>>

\* It waits for the reset.
Suspend ==
  /\ WatchdogReady
  /\ TicksSinceLastCheckIn > Timeout
  /\ watchdog' = "suspended"
  /\ UNCHANGED <<now, wdDelay, fed, lastCheckIn, gnc, loopVars, xLastWakeTime, wait, sciVars, hung, slack, age>>

-----------------------------------------------------------------------------
(* The GNC task.  It runs only while the watchdog task does not. *)

Runs(at) == ~WatchdogReady /\ ~hung /\ gnc = at

Start ==
  /\ Runs("start")
  /\ xLastWakeTime' = now
  /\ gnc' = "loop"
  /\ UNCHANGED <<now, wdVars, lastCheckIn, loopVars, wait, sciVars, hung, slack, age>>

CycleSkipsUnequal == cycleNum # taskRateDivisor

\* A period in which the GNC tasks do not run.
CycleSkips == cycleNum <= taskRateDivisor

CheckIn ==
  /\ Runs("loop")
  /\ lastCheckIn' = now
  /\ age' = 0
  /\ slack' = MaxBusy
  /\ IF CycleSkips
     THEN cycleNum' = cycleNum + 1 /\ skipped' = skipped + 1 /\ gnc' = "pause"
     ELSE cycleNum' = 1 /\ skipped' = 0 /\ gnc' = "sense"
  /\ UNCHANGED <<now, wdVars, taskRateDivisor, xLastWakeTime, wait, sciVars, hung>>

\* vn100ReadBinaryOutputs, sciReceive: a transfer under way is replaced.
StartRead ==
  /\ Runs("sense")
  /\ rxLength' = PacketSize
  /\ wait' = SciTimeout
  /\ gnc' = "read"
  /\ UNCHANGED <<now, wdVars, lastCheckIn, loopVars, xLastWakeTime, complete, timedOut, hung, slack, age>>

ReadDoneKeeps ==
  /\ Runs("read")
  /\ complete
  /\ wait' = 0
  /\ gnc' = "pause"
  /\ UNCHANGED <<now, wdVars, lastCheckIn, loopVars, xLastWakeTime, sciVars, hung, slack, age>>

\* The semaphore is there.  The packet is parsed, the models are stepped.
ReadDone ==
  /\ Runs("read")
  /\ complete
  /\ complete' = FALSE
  /\ wait' = 0
  /\ gnc' = "pause"
  /\ UNCHANGED <<now, wdVars, lastCheckIn, loopVars, xLastWakeTime, rxLength, timedOut, hung, slack, age>>

\* The transfer is left as it is.
ReadTimeout ==
  /\ Runs("read")
  /\ ~complete
  /\ wait = 0
  /\ timedOut' = TRUE
  /\ gnc' = "pause"
  /\ UNCHANGED <<now, wdVars, lastCheckIn, loopVars, xLastWakeTime, wait, complete, rxLength, hung, slack, age>>

\* vTaskDelayUntil waits only for a wake time that is still to come, in a count that
\* may have run over since the last one.
WakeTime == After(xLastWakeTime, Period)

StillToCome ==
  LET over == WakeTime < xLastWakeTime
  IN  IF now < xLastWakeTime THEN over /\ WakeTime > now ELSE over \/ WakeTime > now

DelayUntil ==
  /\ Runs("pause")
  /\ xLastWakeTime' = WakeTime
  /\ IF StillToCome
     THEN gnc' = "delay" /\ wait' = Ticks(now, WakeTime)
     ELSE gnc' = "loop" /\ UNCHANGED wait
  /\ UNCHANGED <<now, wdVars, lastCheckIn, loopVars, sciVars, hung, slack, age>>

Wake ==
  /\ Runs("delay")
  /\ wait = 0
  /\ gnc' = "loop"
  /\ UNCHANGED <<now, wdVars, lastCheckIn, loopVars, xLastWakeTime, wait, sciVars, hung, slack, age>>

\* Called from another task.
SetGncTaskPeriod ==
  /\ ~WatchdogReady
  /\ \E periodMs \in Requested :
       /\ periodMs >= Period /\ periodMs <= MaxPeriod
       /\ taskRateDivisor' = periodMs \div Period
  /\ UNCHANGED <<now, wdVars, lastCheckIn, gnc, cycleNum, skipped, xLastWakeTime, wait, sciVars, hung, slack, age>>

-----------------------------------------------------------------------------
(* The serial port, faults and time. *)

\* The receive interrupt: a byte of the sensor, and sciNotification after the last.
ReceiveByte ==
  /\ rxLength > 0
  /\ rxLength' = rxLength - 1
  /\ complete' = (complete \/ rxLength = 1)
  /\ UNCHANGED <<now, wdVars, lastCheckIn, gnc, loopVars, xLastWakeTime, wait, timedOut, hung, slack, age>>

\* The GNC task is stuck, at any point of its loop.
Hang ==
  /\ ~hung
  /\ hung' = TRUE
  /\ UNCHANGED <<now, wdVars, lastCheckIn, gnc, loopVars, xLastWakeTime, wait, sciVars, slack, age>>

Waiting == wait > 0 /\ (gnc = "delay" \/ (gnc = "read" /\ ~complete))

\* A tick: the GNC task waits, or is kept from running, or is stuck.
TickPasses ==
  /\ ~WatchdogReady
  /\ \/ hung /\ UNCHANGED <<wait, slack>>
     \/ ~hung /\ Waiting /\ wait' = wait - 1 /\ UNCHANGED slack
     \/ ~hung /\ ~Waiting /\ slack > 0 /\ slack' = slack - 1 /\ UNCHANGED wait

Tick ==
  /\ fed + 1 < HwTimeout
  /\ TickPasses
  /\ now' = After(now, 1)
  /\ age' = age + 1
  /\ fed' = fed + 1
  /\ wdDelay' = IF wdDelay > 0 THEN wdDelay - 1 ELSE 0
  /\ UNCHANGED <<watchdog, lastCheckIn, gnc, loopVars, xLastWakeTime, sciVars, hung>>

\* The hardware counter reaches its end.
HwReset ==
  /\ fed + 1 >= HwTimeout
  /\ ~WatchdogReady
  /\ now' = 0
  /\ watchdog' = "running" /\ wdDelay' = 0 /\ fed' = 0
  /\ lastCheckIn' = 0
  /\ gnc' = "start"
  /\ cycleNum' = 1 /\ taskRateDivisor' = 1
  /\ xLastWakeTime' = 0 /\ wait' = 0
  /\ complete' = FALSE /\ rxLength' = 0
  /\ hung' = FALSE /\ slack' = MaxBusy
  /\ age' = 0 /\ skipped' = 0 /\ timedOut' = FALSE

Next ==
  \/ Feed \/ Suspend
  \/ Start \/ CheckIn \/ StartRead \/ ReadDone \/ ReadTimeout \/ DelayUntil \/ Wake
  \/ SetGncTaskPeriod
  \/ ReceiveByte \/ Hang \/ Tick \/ HwReset

Spec == Init /\ [][Next]_vars

-----------------------------------------------------------------------------
(* Properties. *)

TypeOK ==
  /\ now \in 0 .. MaxTick /\ lastCheckIn \in 0 .. MaxTick /\ xLastWakeTime \in 0 .. MaxTick
  /\ watchdog \in {"running", "suspended"}
  /\ wdDelay \in 0 .. FeedingPeriod
  /\ fed \in Nat /\ wait \in Nat /\ age \in Nat /\ skipped \in Nat
  /\ gnc \in {"start", "loop", "sense", "read", "pause", "delay"}
  /\ cycleNum \in Nat \ {0} /\ taskRateDivisor \in Nat \ {0}
  /\ complete \in BOOLEAN /\ timedOut \in BOOLEAN /\ hung \in BOOLEAN
  /\ rxLength \in 0 .. PacketSize
  /\ slack \in 0 .. MaxBusy

\* What the other tasks may take: a read that times out fits in a period, and what
\* an iteration spends ready or running fits in the watchdog's timeout together with a
\* period; and over the two iterations of a read and the pause after it nothing piles
\* up, so that the delay of xLastWakeTime behind the tick count stays bounded.
WithinBudget ==
  /\ SciTimeout <= Period
  /\ Period + MaxBusy <= Timeout
  /\ 2 * MaxBusy + SciTimeout <= 2 * Period
  /\ 2 * Period + 4 * MaxBusy + SciTimeout <= MaxTick

\* digital_watchdog_mgr.c:126: as long as the GNC task is not stuck the watchdog is not
\* suspended, however late its iterations are within the budget, whether the sensor
\* answers or not, and over the end of the tick count.
KeepsFed == WithinBudget /\ ~hung => watchdog = "running"

\* digital_watchdog_mgr.c:131: a GNC task that stops checking in, at whatever point, is
\* followed by a reset at most Timeout and HwTimeout later: the watchdog task never feeds
\* the hardware on the word of an old check-in.
HangCaught == age < Timeout + HwTimeout

One(p) == IF p THEN 1 ELSE 0

\* As long as no read has timed out, no transfer is under way outside of a read and the
\* semaphore a read takes is that of its own transfer, so that all bytes have come.  After
\* a timeout one transfer or one semaphore, and never more, is left over: the next read may
\* return at once, with its own transfer still writing to a buffer that is gone.
OneTransfer == One(complete) + One(rxLength > 0) <= One(gnc = "read") + One(timedOut)

\* gnc_manager.c:211: the GNC tasks run, however the period is changed; of consecutive
\* periods at most as many as fit into MaxPeriod pass without them.
NotStarved == skipped <= MaxPeriod \div Period
=============================================================================
