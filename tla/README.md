# A TLA+ verification of the OBC firmware

This directory holds TLA+ models of the flight software of the on-board computer
(`src/obc/app`) and its bootloader (`src/obc/bl`), with the code they share with the
ground (`src/interfaces`), the TLC
configurations that check them on small instances, and proofs for TLAPS of the
results that hold for instances of every size. `PROJECT.json` lists the components,
the runs, the source lines behind every definition, the hazards and the theorems.

## The system

The computer is a TI RM46 running FreeRTOS. Each manager is a task with a queue of
events; interrupts and other tasks send to the queues. Priorities decide who runs when
several are ready: watchdog, then timekeeper (6), state manager and logger (5), alarm
manager (4), power and guidance (3), the three comms tasks (2), and telemetry manager,
command manager, payload and health (1).

| Part | State it keeps | Operations | Talks to |
|---|---|---|---|
| Alarm manager (`alarm_mgr/`) | sorted array of 24 alarms, event queue of 64 | insert an alarm, arm the RTC, execute what is due | command manager (new alarms), RTC interrupt, encode queue |
| DS3232 driver (`drivers/ds3232`) | in the chip: time, alarm 1, flag A1F, interrupt line | set and get time, set and clear alarm 1 | alarm manager, timekeeper, command callbacks; I2C |
| Local time, timekeeper (`sys/time`, `timekeeper/`) | `currTime`, `currDataTime` | increment every second, synchronise every minute, persist | everybody reads it |
| Command manager (`command_mgr/`) | queue of 25 commands | verify, execute and answer, or turn into an alarm | uplink decoder, alarm manager, encode queue |
| Comms manager (`comms_link_mgr/comms_manager.c`) | state of the link, event queue of 10, transmit queue of 3 | one handler per state | ground, decode queue, transmit queue |
| Uplink decoder (`uplink_decoder.c`) | decode queue of 200 bytes, frame being assembled | find frames, decode, decrypt, unpack commands | comms manager (events), command queue |
| Downlink encoder (`downlink_encoder.c`) | encode queue of 2, response buffer | collect responses, read telemetry files, encode packets | transmit queue |
| Telemetry manager (`telemetry_mgr/`) | data queue of 128, open file, batch id, a binary semaphore | collect data in files, hand over a file when a downlink is requested | encode queue, file system |
| Logger (`logger/`) | queue of 10 | write a line to the UART, or to a file it opens and closes each time | file system |
| File system wrapper (`sys/fs_wrapper`) | 10 handles, in Reliance Edge | open, read, write, close | telemetry manager, encoder, logger, camera |
| I2C and SCI drivers (`drivers/rm46`) | a mutex and a binary semaphore each | start a transfer, await its interrupt | all drivers of devices; interrupts |
| Persistent storage (`sys/persistent`, `drivers/fram`) | sections of the FRAM: header, checksum, data | set, get | timekeeper; SPI |
| Time conversion (`sys/time/obc_time_utils.c`) | none | Unix time to and from date and time | RTC sync, alarms, time initialisation |
| AX.25 (`obc_gs_interface/ax25`) | keys, the last frame numbers | stuff, unstuff, address | uplink decoder, downlink encoder, ground |
| Bootloader (`bl/`) | flash, timeouts | commands: erase, download, verify, jump, reset | ground tool, application |
| Digital watchdog (`digital_watchdog_mgr/`) | tick of each task's last check-in; in hardware: a counter | look at all check-ins and feed the counter, or wait for the reset | every task (check-in), tick count |
| Guidance manager (`gnc_mgr/`) | cycle count, rate divisor, last wake time | check in, skip or run a cycle, read the VN-100, step the models | watchdog, SCI driver |
| State manager, health collector, payload and power managers, radio, other sensors, ground station | see `PROJECT.json` | not modelled | |

What makes it hard:

* **Time-tagged commands** cross four parties that do not wait for one another: the
  command manager compares the tag with the local clock, the alarm manager arms the RTC
  later and over I2C, the RTC matches on date, hours, minutes and seconds only and
  signals by an edge, and the timekeeper moves the clock that is compared again.
* **The command pipeline is a ring**: the comms manager both fills it (decode queue) and
  empties it (transmit queue), five bounded queues and six tasks long, with sends that
  block. Responses are sent byte by byte by two tasks into one queue.
* **Faults**: I2C transfers fail between two registers, readings tear, FRAM writes stop
  at any byte, event queues overflow, frames arrive damaged or in the wrong state, the
  computer resets while the RTC and the FRAM go on.
* **The search for frames** works on bytes that come from blocks of fixed size, with lost
  and changed bytes, a buffer that fills up, and flags that end one frame and begin the
  next.
* **One bus, many tasks**: a transfer is awaited on a binary semaphore that a late
  interrupt may also give, and a register is read in two transfers that are not one.
* **One file system, many tasks**: file handles are small numbers that are reused; the
  telemetry manager closes a batch while the encoder reads the one before.
* **The bootloader** erases and programs the application it will start, over a link that
  loses packets and with a power supply that may fail.
* **The watchdog** judges the guidance task by the age of a time stamp in a count that wraps,
  while the task waits for a sensor, is preempted, catches up and has its rate changed.
* **Calendar arithmetic** is tested by the repository on a handful of dates.

What would make each part correct:

* alarm manager: sorted, earliest first, never early, nothing lost or duplicated, the
  interrupt always comes back, an armed alarm is executed;
* pipeline: every command handed on and answered exactly once, whole packets in the
  order of the commands, no event dropped, every wait ends;
* uplink: what arrives intact is decoded, once and in order, and nothing else;
* I2C: each caller gets the result of its own transfer, and every call returns;
* telemetry: no datum lost or sent twice between two batches, every request served,
  handles given back;
* bootloader: it starts only what was written as a whole, and that it does start;
* watchdog and guidance: a task within its budget is never suspected, a stuck one always is,
  and the guidance models do run;
* persistent storage: an atomic register that detects its own loss;
* time conversion: the two directions agree with the calendar.

## Modules

| Module | Models | Uses |
|---|---|---|
| `AlarmHandler` | alarm manager, alarm 1 of the RTC and its interrupt, the hand-over from the command manager, local time | |
| `CommsPipeline` | comms manager, uplink decoder, command manager, alarm and telemetry managers as sources of answers, downlink encoder | |
| `FrameDelimiting` | what the search for frames promises (abstract) | |
| `UplinkDecoder` | the decoder's loop, byte by byte; implements `FrameDelimiting` | `FrameDelimiting` (INSTANCE) |
| `Ax25` | bit stuffing and unstuffing | |
| `UplinkLink` | ground, link, UART, comms manager and decoder composed | `UplinkDecoder` (EXTENDS), `Ax25` (INSTANCE) |
| `I2cBus` | I2C driver, its interrupt, bus and devices, tasks that call it | |
| `TelemetryFiles` | telemetry manager, downlink encoder, logger on the shared file handles | |
| `Bootloader` | bootloader, flash, packets, time, resets | |
| `GncWatchdog` | digital watchdog, hardware counter, guidance loop, its reads over SCI, time | |
| `PersistentRegister` | what a persistent section promises (abstract) | |
| `ObcPersistent` | the section as header and data in the FRAM; implements `PersistentRegister` | `PersistentRegister` (INSTANCE) |
| `TimeUtils` | the two time conversions as operators | |
| `Calendar` | days counted forth one by one, with their dates: what the conversions are compared with | `TimeUtils` (EXTENDS) |
| `AlarmHandlerProofs`, `CommsPipelineProofs`, `UplinkDecoderProofs`, `I2cBusProofs`, `TelemetryFilesProofs`, `BootloaderProofs`, `GncWatchdogProofs`, `ObcPersistentProofs` | theorems | the module they name (`AlarmHandlerProofs` also `Calendar`), `TLAPS` |
| `MCAlarmHandler`, `MCCommsPipeline`, `MCUplinkLink`, `MCI2cBus`, `MCBootloader`, `MCObcPersistent` | instances for TLC (`TelemetryFiles`, `GncWatchdog` and `Calendar` need none) | the module they name |

The modules meet at queues. `CommsPipeline` takes a frame as chunks that decode or do not;
`UplinkLink` is what is inside that step. It takes telemetry as packets of a file;
`TelemetryFiles` is what is inside those. `AlarmHandler` and `ObcPersistent` take I2C and
SPI transfers as steps that succeed or fail; `I2cBus` is what makes them so.

### `AlarmHandler`

`alarmQueue` is the used part of the C array; `eventQueue` is `alarmHandlerQueue`;
`alarmReg` and `a1f` are the registers of the DS3232. The alarm task has one action for
each stretch of code between two points where it may wait (I2C, a queue): its place is
`pc`. `rtcTime` is the true time as the chip has it, `currTime` the local clock, which
leads it by at most `MaxDrift` more than the last reading did and lags by `MaxTear` more after
a torn reading. A reading across the end of a month is ahead: the date was read before
month and year were, so that it is the last day of the month that begins, or of December a
year later (`ReadAhead`, by one of `Leads`, within `ReadTime` of the month's end); `lead` is
how far ahead the last one was and `checkLead` how far the one was that an early check relied
on. The RTC matches modulo `MonthLength`, because month and year are not among its alarm registers.
`fate` is history: what became of each command. A definition such as `InsertedNoShift`
next to `Inserted` is the same operation with a bug a programmer could have made; it is
used by no action and serves to show that a property would notice.

Simplifications: each command is uplinked once; `currTime` is read as a whole (it is an
aligned word); the response data of a callback is left to `CommsPipeline`; an argument
check that no caller can fail is left out.

### `CommsPipeline`

The default build talks to the ground over UART (`cmake/obc_build_options.cmake`), so
this is the link modelled: reads block until the expected bytes are there. `cm` is
where the handler of the current state waits: reading a frame, pushing it to the
decoder, posting its completion event, taking packets. Transitions are the table of
`getNextCommsState`, including states no event of this build leads to. A frame is a few chunks
of which the last one carries the decoded content, a list of commands; a response is a
few chunks that name their command. Command kinds stand for callbacks: `ping` answers,
`telem` answers and gives the telemetry semaphore, `tagged` goes to the alarm manager,
`refused` fails verification and is not answered.

Simplifications: the search for flags, bit stuffing, AES and Reed-Solomon are a
frame that decodes or does not (`corrupt`); a damaged frame is as long as a good one;
`DOWNLINK_DATA_BUFFER` events have no sender in the code.

### `UplinkDecoder`, `FrameDelimiting`, `Ax25` and `UplinkLink`

`axData` is the used part of `axData.data`, `startFlagReceived` the flag of that name.
Whether the buffer is full is asked before the byte is looked at (`Full`), so the byte
that meets a full buffer is the first of a new search: `Found` and `Started` are the
state it meets. The timer started with a first flag is left out because its callback clears
a static variable that nothing reads. `received` and `packets` are history; they are what
`FrameDelimiting` is about, which says without any buffer which frames a sequence of bytes
contains. `UplinkLink` puts before the decoder the ground, which pads each frame to the
size the satellite reads, a link that loses and changes bytes, the receive interrupt, and the
comms manager, which pushes a block only up to its second flag. Bytes are real bytes and frames
really stuffed; AES and Reed-Solomon are a body that is one of those sent or is not.

### `I2cBus`

`mutex` and `complete` are `i2cMutex` and `i2cTransferComplete`. The controller (`bus`) is
external: it is in at most one transfer, and one that is cut off by `i2cSetStop` or by the
next transfer may or may not have moved its data and may show its stop condition later
(`stops`). A device is a register pointer, so that reading a register by sending its number
and then receiving can go wrong. `Refuse` is the NACK, which completes like a success.
The scan of the bus is the call without limits, all others have a timeout for the transfer.

### `TelemetryFiles`

Data are numbered in the order they are added. `mgr`, `enc` and `log` are the places of the
three tasks; a step is one call of the file system or of a queue. `handle` maps the numbers
Reliance Edge gives out, always the lowest free one, to the file they are open for:
`telemetryFileId` survives a failing open, as in the code, and may then be another task's. A
packet holds `PacketItems` data; the sizes in bytes are left out. Packets and ends of
downlinks go to the comms manager through its transmit queue of three: `outbox` is what the
encoder has built and sends next, and it does nothing else until there is room
(`SendTransmit`, `portMAX_DELAY` in the code). `sent` is history, the packets in the order in which they were
built. Of the comms manager there is what this needs: it comes to downlink when the ground
lets it (`StartDownlinking`), and then takes from the queue up to an end (`TakeTransmit`). The
handles are those of Reliance Edge (`posix.c`), the first unused one given out; a close is
taken to succeed. `SendSameBatch` and the like are bugs used by no action.

### `Bootloader`

A cell of flash is blank, holds what an image has there, or something else. An erased
sector is blank; programming a cell that is not blank leaves something else, or fails its
status and hangs, as `blFlashWaitFsmStatusSuccess` would; a reset in the middle leaves the
old or something else. The loop reads, runs, answers, and looks whether the timeout of the
jump has passed. `now` is `blGetCurrentTick`, a counter divided by 50, so that it wraps
at `MaxTick` and not at 2^32. A checksum is taken to tell images and mixtures apart.

### `GncWatchdog`

Of all tasks only the guidance manager has a watchdog timeout that is finite, so it is the only
one that checks in here. `gnc` is its place in the loop, `fed` and `age` are times since an
event, and `now`, `lastCheckIn` and `xLastWakeTime` are tick counts that wrap after `MaxTick`.
A tick is possible when nothing the watchdog task would do first is left; the guidance task then
waits, is stuck, or uses one of the `MaxBusy` ticks it may be ready or running for between two
check-ins. So `MaxBusy` stands for its own computing and for all that preempts it. Delays are
those of `vTaskDelayUntil`, with its two comparisons of counts that may have wrapped.
`rxLength` and `complete` are the transfer and the semaphore of the serial port, which no other
task reads, so its mutex is always free. The build modelled has `CONFIG_VN100`; without it a read
is like one that is answered at once. `sciReceive` is one step: a byte between its two assignments
would be written through the pointer of the read before. `setGncTaskPeriod` is called with any
period at any time. What the packet holds and the models compute is left out.

### `ObcPersistent` and `PersistentRegister`

The abstract register may lose its value while it is set and never answers with
anything but a value set as a whole. The detailed module has the header and the data in
the FRAM, written and read in two transfers each of which may stop anywhere, and resets
at any time. `Stored` (what a get would answer) and `Setting` are the refinement
mapping. The header comment of the code leaves concurrent accesses of a section to its
callers, so one task uses it. A checksum identifies the data it was computed from.

### `TimeUtils`

The arithmetic of `unixToDatetime` and `datetimeToUnix`, a Unix time split into day and
second of the day since TLC's integers have 32 bits with a sign. `Calendar` walks the
calendar day by day, by the rules of the calendar and not by the code's, and compares.

## Runs

| Run | Asks | Bounds | Result |
|---|---|---|---|
| `Alarm` | sorted, earliest first, never early by more than a reading was ahead, none lost, under I2C faults, torn readings, readings a month ahead, a full event queue, a clock set by the ground, a reset | 3 commands, array of 2, event queue of 1, 4 seconds, months of 2, one sync, one reset | holds, 4.3 million states |
| `AlarmLive` | the interrupt is never lost; an alarm armed in time is executed | 1 command, 2 months | holds, 1 500 states |
| `AlarmRearm` | the RTC is armed for the earliest alarm | 2 commands | violated |
| `PipelineRound` | types and capacities; link quiet between frames; every uplink and downlink ends | one answered command a frame, 12 frames | holds, 26 000 states |
| `PipelineAll` | no event dropped and nothing lost or repeated until too many U frames wait; whole packets, in order, until the alarm manager answers | every kind of frame and command, several answers and telemetry files a frame, 5 frames, an event queue of 3 and a decode queue of 2 U frames | holds, 3.1 million states |
| `UplinkFrames` | the frames found are those there are; intact frames decoded, once and in order; flags only at the ends | 3 frames, bytes lost and changed anywhere | holds, 1 million states |
| `I2cTransfers` | completions ahead of transfers; registers read; calls return | 3 tasks, 3 calls, a refusal and two transfers that outlast their timeouts | holds, 162 000 states |
| `TelemetryBatches` | data conserved and in order; handles accounted for; files closed before they are read; requests served | 3 data, one a packet, 2 requests, 3 handles, 1 failing operation, one log event, queues of 1, transmit queue of 1 | holds, 2.5 million states |
| `BootUpdate` | only what was written starts, and it starts | 2 images of 2 and 3 cells, 2 sectors, 4 packets, one reset, a counter that wraps | holds, 519 000 states |
| `GncTiming` | the watchdog suspects exactly a stuck guidance task; reads and transfers stay together; the guidance tasks run | 3 ticks are 50 ms, the count wraps after 38, the counter resets after 27, a busy tick an iteration, packets of 2 bytes, 4 requested periods | holds, 2.4 million states |
| `PersistRegister` | a section implements the register | data in 3 pieces of 2 values | holds, 168 000 states |
| `TimeCalendar` | both conversions against the calendar | every day 2000-03-01 to 2099-12-31, 4 seconds of each | holds |

Why the bounds are enough. In `AlarmHandler` three commands are the fewest with an
insertion at the front, in the middle and at the end and a full array of two; the
horizon is longer than a month, so a match in the wrong month happens, and so does a
reading a month ahead with a command that then runs a month early, as the code lets it: without
`checkLead` the run finds that. In `CommsPipeline`
every queue is as short as what is put in it at once or shorter (a frame, a response, the
responses of a frame), so all blocking happens, and the decode queue of `PipelineAll` holds one U
frame more than its event queue has places for, less two: events are dropped in
the run, as in the code, where 200 bytes are ten U frames for ten places; the number of frames lets the
backlog of one round meet the next two. `UplinkFrames` has a frame before, in and after the
damage, a buffer that some of the damaged ones overrun, and bytes whose stuffing carries ones
from one byte to the next. In `I2cBus` two tasks share a device and the third
has another, so one can come between the halves of another's read while the third's late
completion is still to come. In `TelemetryFiles` the handles are fewer than the tasks would
like when one is forgotten, a batch may be several packets, the transmit queue is full with one of
them, so the encoder waits and the manager for the encoder, and
the second request may come before, while or after the first is served. In
`Bootloader` one image ends in the other's last sector and the second is the first to need it; one reset
is enough because it can fall on any step, and all that survives it is flash. In `GncWatchdog`
the ratios of the periods and timeouts are those of the code, a hang can last until the counter
resets, which is before a whole count of ticks, and the sums that `WithinBudget` limits are
reached. In
`ObcPersistent` three pieces of data have a prefix, a middle and a suffix, and two symbols
let old and new data agree in part. `TimeCalendar` is exhaustive in days and takes both ends
of an hour and a day.

Deadlock is not checked where the system really stops: the pipeline, the uplink and the files
when nothing more comes from outside, the bus when no more calls are made, the bootloader
when it has jumped, the calendar at its end. In `AlarmHandler`, `GncWatchdog` and
`ObcPersistent` it is checked.

## Divergences

Where the code does not do what its own comments or its callers expect. `ArmedForEarliest` is
shown by a run, and the others were met while modelling: the properties that hold leave them out
explicitly, by a hypothesis that can be found in their definitions.

Alarms:

* `ArmedForEarliest` (run `AlarmRearm`): after an alarm is executed nothing arms the RTC
  for the next one.
* `getCurrentDateTimeRTC` (`ds3232_mz.c:251`) reads the date before month and year, each in a transfer of
  its own. When the month ends in between, the time read is a month or a year ahead, and
  `syncUnixTime` makes it the local time for a minute. A command whose alarm matches then passes
  the early check of `alarm_handler.c:105` although it is a month or a year early, and new
  commands for the time until then are thrown away as past. `NeverEarly` bounds how early by how far ahead the reading
  was (`checkLead`), and claims nothing better.
* The loop of `alarm_handler.c:115` runs while `i < numActiveAlarms`, and each pass both
  increments `i` and lowers the count, so of two alarms due together the second stays in
  the array, until an unrelated match.
* An alarm whose second has begun when the RTC is armed is not matched, which is why
  `AlarmLive` speaks of alarms armed ahead of time. The length of response data is cleared
  per event and not per alarm.
* `obc_time_utils.c:145` compares with `>= 12` where 12 is December itself: the clock the
  ground sends in December becomes month 0 of the next year, which `setMonthRTC` refuses
  after the time and date were written. `AlarmHandler!RtcSync` has this failure as one of
  its outcomes.

Pipeline:

* With several answered commands in a frame (three with the queues of one of the runs) the
  command manager fills the ring, then the decoder stops, then the comms manager that would
  have emptied it: `UplinkReturns` holds in `PipelineRound`, with one answer a frame.
* Events for the comms manager that find its queue full are dropped after 10 ms. Its 10 places are fewer than the
  U frames that 200 bytes of decode queue can hold, plus two; a dropped completion event leaves the manager idle until
  another event happens to have a transition. `EventsFit` and `NothingLost` hold until that many U
  frames wait (`crowded`).
* A frame without an answered command leaves `handleDownlinkingState` waiting for ever, which
  is why `PipelineRound` has an answer in each frame; two tasks that answer at the same
  time mix their bytes in one packet, which is why `WholePackets` and `AnsweredInOrder` speak of
  the time before the alarm manager answers (`alarmAnswered`).

Uplink:

* The comms manager reads blocks of 300 bytes and never looks for a start flag: after a lost
  byte every later block starts one byte late, and nothing brings it back.
* `ax25Unstuff` takes zero bytes at the end of a frame for padding, so a frame whose last
  checksum byte is zero never decodes.

I2C:

* A refused transfer ends with a stop condition like any other and is reported as SUCCESS, so
  the scan (`command_callbacks.c:109`) lists all addresses.
* After a timeout the late completion is taken for that of the next transfer
  (`OneAheadPerTimeout` says by how much), and nothing drains the semaphore.
* The mutex is given back between the two halves of `i2cReadReg`; another task's transfer to
  the same device then redirects the read (`ReadsItsRegister` excuses these).
* `obc_i2c_io.h:38` documents the two timeout parameters in the wrong order.

Files:

* When opening the next telemetry file fails, `telemetryFileId` still is the number of a
  closed one, through which the manager writes into, and closes, what others have open;
  the encoder may then send a batch twice.
* `sendTelemetryFile` returns without closing a file whose last packet is empty; on errors it
  returns the SUCCESS of the close instead of the error; a datum that cannot be packed drops the
  rest of its file.
* The encoder and, behind it, the telemetry manager wait without a limit for the three places of the transmit queue,
  which are freed only while the ground has the comms manager downlink. If it does not, the next requests
  fill the encode queue, the manager waits there and its queue of data fills up.
* `writeFile` checks `red_errno`, which an earlier failure may have set, and a failing
  write of the logger leaves its file open. Logging from an interrupt always reports QUEUE_FULL
  (`logger.c:195`).

Bootloader:

* A deadline on the other side of the counter's wrap never passes: `CompleteStarts` asks for
  one on this side.
* The verify command computes the checksum and does not compare it with the stored one; only
  the jump does. An image with an all-0xFF section of 208 bytes is refused as blank.
* `create_app_packet` of `app_update.py` pads the slice it cut instead of the packet, so 15 bytes
  too many are sent, which explains the TODO in `bl_uart.c:38`.

Guidance:

* The tasks run every `(divisor + 1) * 50` ms because
  `gnc_manager.c:211` compares with `<=`; the comments there say 20 Hz, and 100 ms for a
  divisor of 2.
* After a read of the VN-100 timed out its transfer stays armed, with a buffer on a stack frame that
  is gone, and its semaphore lets the next read return before its own bytes are there
  (`OneTransfer` says that it is never more than one).
* `gnc_manager.h:11` documents periods of 0 to 50 ms and of 150 ms and more, which
  `setGncTaskPeriod` refuses.

## Fairness

Safety properties assume none. `AlarmLive`: the alarm task is the highest of those that
wait for one another and its I2C transfers end (with an error if need be); the RTC ticks;
the timekeeper, above it, synchronises every minute. A pending send ends because it waits
10 ms at most. `PipelineRound`: weak fairness for each task, since
FreeRTOS runs a ready task once the tasks above it wait, and all of those wait for queues
or delays most of the time; tasks of equal priority share time slices. Nothing is assumed
of the ground, which may stop sending at any time. `I2cTransfers`: a transfer that is not slow
ends; a task that holds the mutex goes on when its transfer has completed or timed out (weak), and
one that waits for the mutex gets it in the end (strong: FreeRTOS wakes the waiter of the highest
priority, and the calls of the others are periodic with pauses between them). Nothing is
assumed of slow transfers. `TelemetryBatches`: weak fairness for the manager, the encoder and the
logger, each of which may wait for another's queue, and for the comms manager while it downlinks. That it
comes to downlink is up to the ground and not assumed to be fair: it is the hypothesis of `RequestServed`
(`[]<>downlinking`), without which the property fails as soon as the transmit queue is full. `BootUpdate`: time passes and the loop goes round; packets and resets need not come.

## Proofs

`AlarmHandlerProofs`, from `AlarmAssumption` (the constants are numbers, sizes positive):

* `TypeCorrect`: types and capacities. The work is in the sequences: lemmas give length
  and elements of an array after an insertion or removal.
* `SortedCorrect`: `AlarmQueueSorted` is inductive with `TypeOK`. The positions
  `InsertPositions` allows have only earlier alarms before them and none earlier after.
* `EarliestFirstCorrect`: while an alarm executes the array does not change at its
  front except by the task itself, and the alarm was its head when the array was sorted.
* `NeverEarlyCorrect`: the strengthening carries the bound from the early check
  (until the first sync, `currTime` leads `rtcTime` by at most `MaxDrift` and the `lead` of its last reading) through
  `timestampThresh` to the alarm being executed; which month the alarm matches in plays no part, which
  is the point of the check. `Leads` is any set of numbers, a month's and a year's seconds in the code, so the
  bound is that of the code's register order: `MaxDrift + Tol` after a reading that was not ahead, and a month or year more after one that was.
* `NoAlarmLostCorrect`: inductive with `TypeOK` and with `OneSent` (the command manager holds
  one alarm at most: a set that could hold two would let a drop lose both). `Copies` is a
  sum of cardinalities, so the proof is about counting: `InsertCount` says that putting an
  element into a sequence adds one to the places where something holds, or none, and the
  five operations on the two queues are instances of it. Each action is then a change of
  the four summands (`CopiesDelta`) and of one fate.
* `InterruptPendingCorrect`, under `InterruptAssumption` (the property's own conditions: no
  failed transfer, no reset, fewer commands than places in the event queue). `EdgeInv` says
  the interrupt's event is at the front while the line is low and not being released, and
  nowhere while it is high. That the edge finds room needs `NoAlarmLost`: the events in the
  queue are of distinct commands, an injection into `Commands`.

The same module proves the conversions the alarms' times go through, from `CalendarAssumption` (the
calendar begins in 2000 and ends before 2100, a day has `SecondsPerDay` seconds): `ToUnixCorrect`,
`AlarmTimeCorrect` and `FromUnixCorrect`, for every second the calendar reaches. `CalendarInv` says what
the date tells of the days counted: with the year taken to begin in March (`MarchYear`, `MarchMonth`),
a leap day is a year's last, and the days before a month of it have one formula for all years, plus the
years and their fourths. `datetimeToUnix` is then compared month by month. For `unixToDatetime`
the year is found first by the cycles of four (`YearFound`), then the month in the code's table
(`MonthFound`), whose recursive sum of month lengths is evaluated twelve times once the function is shown to exist.

`ObcPersistentProofs`, from `PersistentAssumption` (the marks for a torn checksum, an
error and no data are not data): `TypeCorrect`, and `ImplementsCorrect`, the refinement,
for data of any length and content. The invariant `Progress` says what header and data
are at each place of a call; each transfer is then a `Settle` of the register or a
stutter.

`CommsPipelineProofs`, from `PipelineAssumption`: `TypeCorrect`, types and capacities of
the five queues and the response buffer. The strengthening is
`Handlers`: a handler posts only in a state that has a completion event, pushes only
while chunks of its frame are left, and has sent fewer than the most frames while it
downlinks. There is one lemma for each action, and `TypeOK` is split into the parts that
actions change together. `WholePacketsCorrect` and `AnsweredInOrderCorrect` rest on `Flow`, in two
parts. `Ordered(Places)` lines up the nine places a command number can be, from what was
downlinked back to the numbers not yet given out: everything in a place comes before everything in
the places behind it, and each queue is in order. A step drops numbers or moves the first of a place to
the end of the next one (`StepMoves`, `StepDrops`). In the middle place, between command manager and
encoder, a command is many bytes over three sequences, some between telemetry files: `Stream` says
that the bytes in the buffer, the queue and still to be written form one row of whole responses, the
k-th byte of each knowing it is the k-th (`Blocks`), of which only bytes of the first have
left. So a full buffer is one response, and what it holds comes before the rest. The
alarm manager writes to the same queue at the same time as the command manager, which no such
row survives: hence `SInv`, `Flow` until it has answered.
`EventsFitCorrect` holds until the decoder was `crowded`, that is, as long as at no time more U frames waited for it than the
event queue has places, less two (eight, with the code's ten places); with one more an event can be
dropped, as the run shows when the condition is taken away. The decode queue's 200 bytes hold up to ten
U frames of 19 bytes, so the code itself does not keep to the condition.
The invariant `EventInv` says that there is at most one event in the queue that
a handler ended with (`CompletedAt`), that everything else in it is dropped before that one is taken or
came after it, and that this fits with two places to spare.
`NothingLostCorrect` holds under the property's own conditions (`AnsweredFrames`: no command is refused, a frame with
commands decodes) and until `crowded`, since a DISC frame's commands are passed on only when its
event fitted. `Accounted` is the property for all numbers at once, those not yet given out included, with the
waiting and the bytes as sums over queues (`WaitsOf`, `WrittenOf`, `PackedOf`), and `Good` adds that the commands
of a frame have numbers of their own. A step moves one summand's loss to another (`AccountedMoved`,
`AccountedPacked`, `AccountedAnswered`), by what sends and receives do to counts (`TimesAppend`,
`TimesTail`, and `AllAppend`, `AllTail` for bytes in packets).
`ReadsWhenQuietCorrect` holds under the property's own condition `OneAnswerFrames`: frames before the
connection have no commands, later ones are data frames whose commands are refused but for one ping at
the end, and a downlink may be longer than one packet. The invariant `OneAtATime` gives, for each state and
place of the manager, what the ring holds: nothing (`Drained`), the one answer as a frame, a row of
commands, bytes or a packet with its end behind it (`Underway`), or that end alone (`Ending`), and never more than one
event for the manager (`Connecting`, `Uplinking`, `Downlinking`). Since nothing but the end of a downlink
leads back to reading, and that end is the last thing an answer leaves behind, reading finds the ring empty. The
proof is by the place of the answer: each step of a task takes it one place on or removes something refused
in front of it (`Line` describes rows of which the last element is special).
`NearerCorrect` and `NeverStuckCorrect` are what `UplinkReturns` and `DownlinkReturns` need besides fairness.
`ToDo` counts what is to do at six places, from the chunks to push to the packets to send, and every step that
can be taken while the manager pushes or waits for responses makes it lexicographically smaller, for all frames and commands:
what a step adds, it adds further on. And while each frame brings one answer (`OneAnswerFrames` again) the guard of some
task's action always holds, from `OneAtATime`. So under the weak fairness of every task the manager
goes on; this last step, which is about `ENABLED`, is the only one left to the run. Without `OneAnswerFrames`
there is still no endless activity, but the ring can lock up with more commands in a frame than the queues hold.

`UplinkDecoderProofs`, from `DecoderAssumption` (the flag is a byte, the buffer holds at
least three): `DecoderTypeCorrect`, and `DecoderFindsFrames`, that the decoder implements
`FrameDelimiting`. The invariant `Remembers` says what the buffer is of everything received:
from the last flag on while a search has one; nothing otherwise, and then the last flag is
too long ago for a frame that fits. The second half is what makes restarting at a full
buffer right, and is needed since the code notices a full buffer one byte late.

The same module proves the link, from `LinkAssumption` (the frames are nonempty sequences of bytes,
distinct, and fit a block when stuffed). First the bits: what stuffing and unstuffing do is a recursive function along
the bits, so that the function exists and what holds of each of its values is proved by
`NatInductionSet`. `FlagsAtEndsCorrect`: `Spaced` says that of any six bits in a row of a stuffed
sequence one is zero, wherever they lie, and a flag has six ones in a row. `StuffedIsRecovered`:
unstuffing the bits stuffed so far gives the bits taken so far (`Taken`), and skips next exactly
when the zero it skips was put in (`Skips`); then the zeros that fill up the last byte come off at
the end (`WithZeros`), which is where the body must not end in a zero byte.
Then the composition. `LinkRunsDecoder`: every step of the link is one of the decoder or leaves it
alone, so both decoder theorems hold behind the link (`LinkFindsFrames`). The rest is from two
facts. `InLine` is about `Uplinked`, which joins what the decoder received, the queue and what is yet to be
pushed: there are places in it where frames stand, in the order in which they were sent and apart, and an
unspoilt frame that has no place yet is the last one and on its way (`Arriving`: its first part read into the
block, the rest in the air) or the beginning of the block (`Begins`). `InTurn` is about the decoder: the
packets are the runs between two flags that fit, each once, in the order in which they end. With no flag
within a frame, a frame that stands in what was received is a packet once queue and pushing are
empty (`StandingFound`), and its contents come back by `StuffedIsRecovered`: that is `RecoveredCorrect`.
Two such frames are packets in the order in which they stand, whatever became of others:
`ArrivedInOrderCorrect`. That nothing else comes out holds as long as no frame was spoilt: then the
frames are all that was uplinked (`Tight`), so that what is between two flags is a frame or the nothing between
two frames (`OnlyFrames`), and `OnceInOrder` follows (`OnceInOrderCorrect`) for frames of which none is
what is left of another without its zeros at the end (`Told`; `DecodableTold`: so it is when none ends with a
zero byte). Lost and changed bytes after the end of a frame spoil nothing and are included. Once a
frame was spoilt, its bytes may be those of another frame, and the property is not one of all frames.

`I2cBusProofs`, from `BusAssumption` (calls are of three kinds, `None` is none of
the others): `BusTypeCorrect`, `AheadCorrect`, and `ReadCorrect`. `OneAheadPerTimeout` is
inductive with the types. `ReadsItsRegister` needs `HolderOnly` (as long as nothing
was given up, the bus is in the holder's transfer or has completed it) and `ReadProgress` (what
pointer and buffer hold at each point of a read that nothing came in between).
`NotForsakenCorrect` needs only the types: the holder of the mutex has a completion to take or the controller is in its
transfer, also after timeouts left completions behind. So what `CallsReturn` says of a task with the mutex is left to fairness alone.

`TelemetryFilesProofs`, from `FilesAssumption`: `ReadsClosedFileCorrect` from `OneWriter`
(the only handle open for writing is the manager's and of the current batch) and `BatchOrder`;
`HandlesAccountedCorrect` from `Covered`: the open handles are covered by what the three tasks
take for their own and a set of forgotten ones. It is a cover and not an equation because after
a failing open a task's own number may be another's.
`FilesTypeCorrect` comes from `TInv`, which says besides what the files, the packets and a
datum in hand may hold. `ConservedCorrect` and `SentInOrderCorrect` are about `Total`, what the
encoder has (`Ahead`: sent, in the packet, not yet read) before what the manager has (`Rest`: batches
that wait, the current one, in hand, queued). Every step is one of three (`Flows`): a datum is added
at the end, `Total` stays since data only move between neighbours, or a part is dropped, which
leaves the order and shows in `unreadable`. That nobody interferes with a neighbour's file is `Own`:
while no open of the manager has failed, the handles that manager, encoder and logger take for
theirs are open for their files and distinct, and the batches that wait are of the past (`BatchOrder`).
Files are joined with `FlattenSeq`, a recursive function: that it exists, has the right type and joins
from either end (`JoinsExist`, `FlattenJoins`) is proved by induction, in the form of a set of
numbers that holds 0 and all successors (`NatInductionSet`, from the well-foundedness of finite sets).

`BootloaderProofs`, from `BootAssumption`: `StartCorrect`. The invariant `CellsTell`
is that a blank cell was given nothing and one that holds an image's data nothing else,
which programming, erasing and a reset in the middle of either all keep.

`GncWatchdogProofs`, from `GncAssumption` (periods are positive, the two timeouts together less
than a whole tick count): `GncTypeCorrect`; `OneTransferCorrect`, inductive with the types;
`HangCaughtCorrect`, from `Ages`: what the watchdog computes is the true age of the check-in,
and it is at most `Timeout` older than the last feeding; `NotStarvedCorrect`, from `Rates`;
and `KeepsFedCorrect`. That one needs `Schedule`, which gives for each place of the loop two sums
no tick changes: the age of the check-in, the wait and the slack that is left, and the same
with the lag behind the wake time. The lag grows by a read that times out and by the iteration after
it, and `WithinBudget` says that it is then made up for. Three lemmas on tick counts that wrap
(`TickFromPast`, `TickToFuture`, `Delays`) carry it over the end of the count.

Only model-checked: `OnceInOrder` of `UplinkLink` when frames are damaged, which holds because the frames
of the run differ by more than the few bytes changed can make up for (in general one frame may be
changed into another); and liveness, which is out of the proof system's reach: `ArmedAlarmExecutes`,
`RequestServed` (under its hypothesis on the ground) and `CompleteStarts`, and of `UplinkReturns`, `DownlinkReturns` and `CallsReturn` the
step from what is proved above by fairness.

## Not modelled, and the plan

Left out for good: vendored code (FreeRTOS, Reliance Edge, HAL), which is most of `src/` and
appears only as the queues, semaphores, file handles, delays and ticks the code uses; register and pixel I/O
of sensors and camera; the ground station's database and web interface; skeleton
managers without behaviour (payload, power); what the generated guidance models compute; health
and statistics collectors (a periodic read and a send); the state manager (it starts the tasks and
then waits on a queue nobody sends to).

The CC1120 build of the comms manager cannot be modelled from code that runs: it does not
compile (`comms_manager.c:389` calls `cc1120ReceiveToDecodeTask` without its argument, and
`CC1120_TX_FIFO_EMPTY_SEMAPHORE_TIMEOUT` is defined nowhere), and nothing calls the callback that
would give it its sync events.

Not modelled yet, in the order in which they would add most:

1. The ground's `GsStateMachine` against `getNextCommsState`.
2. The broken-down local time (`obc_time.c:122`), whose seconds run past 59 between two
   synchronisations; only the text of the log uses it.
3. The response data of time-tagged commands, whose length outlives one executed alarm
   (`alarm_handler.c:56`).
