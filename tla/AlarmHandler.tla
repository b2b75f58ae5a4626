---------------------------- MODULE AlarmHandler ----------------------------
(***************************************************************************)
(* The alarm manager task of the on-board computer, with everything it     *)
(* depends on to execute a time-tagged command: the command manager that   *)
(* hands it over, the FreeRTOS event queue between them, the DS3232 real   *)
(* time clock with its alarm 1 and interrupt line, and the timekeeper task *)
(* that maintains the local Unix time.                                     *)
(*                                                                         *)
(* Every step of the alarm task that talks to the RTC over I2C or waits    *)
(* for the encode queue is an action of its own: time passes, interrupts   *)
(* arrive and other tasks run between two of them.                         *)
(***************************************************************************)
EXTENDS Integers, Sequences, FiniteSets

CONSTANTS
  Commands,          \* time-tagged commands uplinked, each at most once
  AlarmQueueSize,    \* ALARM_QUEUE_SIZE
  EventQueueLength,  \* ALARM_HANDLER_QUEUE_LENGTH
  Tol,               \* tol, the tolerance of the early check, in seconds
  MonthLength,       \* seconds after which date, hour, minute, second recur
  MaxTime,           \* bound on the modelled time
  MaxDrift,          \* how far the local time may lead the RTC (s)
  MaxTear,           \* how far behind a torn reading of the RTC may be (s)
  Leads,             \* how far ahead one across the end of a month may be (s)
  ReadTime,          \* how long a reading of the RTC's registers may take (s)
  I2CFaults,         \* whether an I2C transfer to the RTC may fail
  MaxSyncs,          \* bound on the RTC sync commands executed
  MaxResets          \* bound on the resets of the on-board computer

ASSUME AlarmAssumption ==
  /\ AlarmQueueSize \in Nat \ {0}
  /\ EventQueueLength \in Nat \ {0}
  /\ Tol \in Nat
  /\ MonthLength \in Nat \ {0}
  /\ MaxTime \in Nat
  /\ MaxDrift \in Nat
  /\ MaxTear \in Nat
  /\ Leads \subseteq Nat
  /\ ReadTime \in Nat
  /\ I2CFaults \in BOOLEAN
  /\ MaxSyncs \in Nat
  /\ MaxResets \in Nat

VARIABLES
  rtcTime,          \* the time the DS3232 keeps
  currTime,         \* currTime of obc_time.c, the local Unix time
  alarmReg,         \* alarm 1 registers: date, hours, minutes, seconds to match
  a1f,              \* A1F status flag: the interrupt line is low while it is set
  sending,          \* the alarm the command manager is about to send, if any
  eventQueue,       \* alarmHandlerQueue
  alarmQueue,       \* the first numActiveAlarms entries of alarmQueue[]
  pc,               \* where the alarm task is
  current,          \* the alarm it is arming the RTC for or executing
  iter,             \* i, the counter of the execution loop
  timestampThresh,  \* timestampThresh of the execution loop
  fate,             \* history: what became of each command
  lead,             \* history: how far ahead the last reading of the RTC was
  checkLead,        \* history: lead at the check that started the execution loop
  syncs, resets     \* RTC sync commands and resets so far

rtc  == <<rtcTime, alarmReg, a1f>>
task == <<pc, current, iter, timestampThresh, checkLead>>
local == <<currTime, lead>>
env  == <<syncs, resets>>
vars == <<rtcTime, currTime, alarmReg, a1f, sending, eventQueue, alarmQueue,
          pc, current, iter, timestampThresh, fate, lead, checkLead,
          syncs, resets>>

Times  == 0 .. MaxTime
Alarms == [id : Commands, unixTime : Times]
Events == [type : {"NEW_ALARM"}, alarm : Alarms] \cup [type : {"ALARM_TRIGGERED"}]
Triggered == [type |-> "ALARM_TRIGGERED"]

\* The registers match on date, hours, minutes and seconds only, so a time is
\* programmed as its place in the month: month and year are lost.
AlarmTime(t) == t % MonthLength
NotArmed     == -1
AlarmTimes   == 0 .. MonthLength - 1

NoAlarm   == [id |-> "none", unixTime |-> 0]
Fates     == {"idle", "discarded", "dropped", "rejected", "pending", "executed", "lost"}
Locations == {"wait", "arm", "clear", "check", "loop", "exec"}

-----------------------------------------------------------------------------
(* The sorted array of alarms. *)

ArrayFullLate(q) == Len(q) > AlarmQueueSize

ArrayFull(q) == Len(q) >= AlarmQueueSize

InsertPositionsAppend(q, a) == {Len(q) + 1}

\* Where enqueueAlarm puts an alarm: before the first that is not earlier.
InsertPositions(q, a) ==
  {k \in 1 .. Len(q) + 1 :
     /\ \A j \in 1 .. k - 1 : q[j].unixTime < a.unixTime
     /\ k <= Len(q) => q[k].unixTime >= a.unixTime}

InsertedNoShift(q, k, a) ==
  [j \in 1 .. Len(q) + 1 |-> IF j = k THEN a ELSE IF j <= Len(q) THEN q[j] ELSE a]

\* The entries from k on move back by one and the alarm takes place k.
Inserted(q, k, a) ==
  [j \in 1 .. Len(q) + 1 |-> IF j < k THEN q[j] ELSE IF j = k THEN a ELSE q[j - 1]]

DequeuedNoShift(q) == [j \in 1 .. Len(q) - 1 |-> q[j]]

\* The entries after the first move forward by one.
Dequeued(q) == [j \in 1 .. Len(q) - 1 |-> q[j + 1]]

-----------------------------------------------------------------------------
Init ==
  /\ rtcTime = 0
  /\ currTime = 0
  /\ alarmReg = NotArmed
  /\ a1f = FALSE
  /\ sending = {}
  /\ eventQueue = <<>>
  /\ alarmQueue = <<>>
  /\ pc = "wait"
  /\ current = NoAlarm
  /\ iter = 0
  /\ timestampThresh = 0
  /\ fate = [c \in Commands |-> "idle"]
  /\ lead = 0
  /\ checkLead = 0
  /\ syncs = 0
  /\ resets = 0

-----------------------------------------------------------------------------
(* The command manager: processTimeTaggedCommand. *)

\* A command whose time tag is in the past is thrown away ...
DiscardPastCommand(c, t) ==
  /\ sending = {}
  /\ fate[c] = "idle"
  /\ t < currTime
  /\ fate' = [fate EXCEPT ![c] = "discarded"]
  /\ UNCHANGED <<rtc, local, sending, eventQueue, alarmQueue, task, env>>

\* ... any other is turned into an alarm, to be sent in a later step.
AcceptCommand(c, t) ==
  /\ sending = {}
  /\ fate[c] = "idle"
  /\ t >= currTime
  /\ sending' = {[id |-> c, unixTime |-> t]}
  /\ fate' = [fate EXCEPT ![c] = "pending"]
  /\ UNCHANGED <<rtc, local, eventQueue, alarmQueue, task, env>>

\* sendToAlarmHandlerQueue waits 10 ms for room, then gives the alarm up.
SendNewAlarm ==
  /\ \E a \in sending :
       \/ /\ Len(eventQueue) < EventQueueLength
          /\ eventQueue' = Append(eventQueue, [type |-> "NEW_ALARM", alarm |-> a])
          /\ UNCHANGED fate
       \/ /\ Len(eventQueue) = EventQueueLength
          /\ fate' = [fate EXCEPT ![a.id] = "dropped"]
          /\ UNCHANGED eventQueue
  /\ sending' = {}
  /\ UNCHANGED <<rtc, local, alarmQueue, task, env>>

-----------------------------------------------------------------------------
(* The alarm task. *)

ReceiveNewAlarm ==
  /\ pc = "wait"
  /\ eventQueue # <<>>
  /\ Head(eventQueue).type = "NEW_ALARM"
  /\ eventQueue' = Tail(eventQueue)
  /\ LET a == Head(eventQueue).alarm
     IN  \/ /\ ArrayFull(alarmQueue)
            /\ fate' = [fate EXCEPT ![a.id] = "rejected"]
            /\ UNCHANGED <<alarmQueue, pc, current>>
         \/ /\ ~ArrayFull(alarmQueue)
            /\ \E k \in InsertPositions(alarmQueue, a) :
                 /\ alarmQueue' = Inserted(alarmQueue, k, a)
                 /\ \/ /\ k = 1
                       /\ pc' = "arm"
                       /\ current' = a
                    \/ /\ k # 1
                       /\ UNCHANGED <<pc, current>>
            /\ UNCHANGED fate
  /\ UNCHANGED <<rtc, local, sending, iter, timestampThresh, checkLead, env>>

\* setAlarm1RTC writes four registers one after the other; a transfer that
\* fails leaves the later ones as they were, so any mixture may result.
ArmAlarm1 ==
  /\ pc = "arm"
  /\ pc' = "wait"
  /\ \/ alarmReg' = AlarmTime(current.unixTime)
     \/ /\ I2CFaults
        /\ alarmReg' \in AlarmTimes
  /\ UNCHANGED <<rtcTime, a1f, local, sending, eventQueue, alarmQueue, current, iter,
                 timestampThresh, checkLead, fate, env>>

ReceiveTriggered ==
  /\ pc = "wait"
  /\ eventQueue # <<>>
  /\ Head(eventQueue).type = "ALARM_TRIGGERED"
  /\ eventQueue' = Tail(eventQueue)
  /\ pc' = "clear"
  /\ UNCHANGED <<rtc, local, sending, alarmQueue, current, iter, timestampThresh,
                 checkLead, fate, env>>

ClearAlarm1NoWrite ==
  /\ pc = "clear"
  /\ pc' = "check"
  /\ UNCHANGED <<rtc, local, sending, eventQueue, alarmQueue, current, iter,
                 timestampThresh, checkLead, fate, env>>

\* clearAlarm1RTC; when it fails the event is abandoned with the flag still set.
ClearAlarm1 ==
  /\ pc = "clear"
  /\ \/ /\ a1f' = FALSE
        /\ pc' = "check"
     \/ /\ I2CFaults
        /\ pc' = "wait"
        /\ UNCHANGED a1f
  /\ UNCHANGED <<rtcTime, alarmReg, local, sending, eventQueue, alarmQueue, current, iter,
                 timestampThresh, checkLead, fate, env>>

CheckEarliestAlways ==
  /\ pc = "check"
  /\ \/ /\ alarmQueue = <<>>
        /\ pc' = "wait"
        /\ UNCHANGED <<iter, timestampThresh, checkLead>>
     \/ /\ alarmQueue # <<>>
        /\ timestampThresh' = alarmQueue[1].unixTime
        /\ iter' = 0
        /\ checkLead' = lead
        /\ pc' = "loop"
  /\ UNCHANGED <<rtc, local, sending, eventQueue, alarmQueue, current, fate, env>>

\* Is the earliest alarm due?  OBC_ERR_CODE_RTC_ALARM_EARLY ends the event.
CheckEarliest ==
  /\ pc = "check"
  /\ \/ /\ alarmQueue = <<>>
        /\ pc' = "wait"
        /\ UNCHANGED <<iter, timestampThresh, checkLead>>
     \/ /\ alarmQueue # <<>>
        /\ currTime + Tol < alarmQueue[1].unixTime
        /\ pc' = "wait"
        /\ UNCHANGED <<iter, timestampThresh, checkLead>>
     \/ /\ alarmQueue # <<>>
        /\ currTime + Tol >= alarmQueue[1].unixTime
        /\ timestampThresh' = alarmQueue[1].unixTime
        /\ iter' = 0
        /\ checkLead' = lead
        /\ pc' = "loop"
  /\ UNCHANGED <<rtc, local, sending, eventQueue, alarmQueue, current, fate, env>>

\* The loop runs while i < numActiveAlarms, a count that every dequeue lowers.
NextDueAlarm ==
  /\ pc = "loop"
  /\ \/ /\ iter < Len(alarmQueue)
        /\ alarmQueue[1].unixTime <= timestampThresh
        /\ current' = alarmQueue[1]
        /\ alarmQueue' = Dequeued(alarmQueue)
        /\ pc' = "exec"
        /\ UNCHANGED checkLead
     \/ /\ iter < Len(alarmQueue) => alarmQueue[1].unixTime > timestampThresh
        /\ pc' = "wait"
        /\ checkLead' = 0
        /\ UNCHANGED <<current, alarmQueue>>
  /\ UNCHANGED <<rtc, local, sending, eventQueue, iter, timestampThresh, fate, env>>

\* The callback runs and its response goes to the encode queue, which may block
\* the task for long.
ExecuteAlarm ==
  /\ pc = "exec"
  /\ fate' = [fate EXCEPT ![current.id] = "executed"]
  /\ iter' = iter + 1
  /\ pc' = "loop"
  /\ UNCHANGED <<rtc, local, sending, eventQueue, alarmQueue, current, timestampThresh,
                 checkLead, env>>

-----------------------------------------------------------------------------
(* The clocks. *)

\* One second of the DS3232.  On a match it sets A1F and pulls the interrupt
\* line low; only the falling edge interrupts, and alarmInterruptCallback puts
\* the event in front of the queue, or loses it when the queue is full.
RtcTick ==
  /\ rtcTime < MaxTime
  /\ rtcTime - currTime < MaxDrift + MaxTear
  /\ rtcTime' = rtcTime + 1
  /\ LET match == alarmReg = AlarmTime(rtcTime + 1)
         edge  == match /\ ~a1f
     IN  /\ a1f' = (a1f \/ match)
         /\ eventQueue' = IF edge /\ Len(eventQueue) < EventQueueLength
                          THEN <<Triggered>> \o eventQueue
                          ELSE eventQueue
  /\ UNCHANGED <<alarmReg, local, sending, alarmQueue, task, fate, env>>

\* The timekeeper adds one to the local time every second ...
IncrementUnixTime ==
  /\ currTime - rtcTime < MaxDrift + lead
  /\ currTime' = currTime + 1
  /\ UNCHANGED <<rtc, lead, sending, eventQueue, alarmQueue, task, fate, env>>

\* getCurrentDateTimeRTC reads date, month, year, hours, minutes and seconds, each
\* in a transfer of its own.  When the month ends after the date was read, the
\* last day of the old month is read with the new month, or with the old month
\* and the new year: a month or a year ahead.  Any other carry leaves it behind.
ReadAhead == IF rtcTime >= MonthLength /\ AlarmTime(rtcTime) <= ReadTime THEN Leads ELSE {}

\* ... and every LOCAL_TIME_SYNC_PERIOD_S seconds syncUnixTime sets it to such a
\* reading, whatever it is.
SyncUnixTime ==
  /\ \E l \in {0} \cup ReadAhead :
       /\ currTime' \in {t \in 0 .. rtcTime + l : t >= rtcTime + l - MaxTear}
       /\ lead' = l
  /\ UNCHANGED <<rtc, sending, eventQueue, alarmQueue, task, fate, env>>

\* rtcSyncCmdCallback: the ground sets both clocks.  When a transfer fails, or the
\* driver refuses the month (0, in December), the RTC is left with some mixture of
\* its old and new registers and the local time is not set.
RtcSync(t) ==
  /\ syncs < MaxSyncs
  /\ syncs' = syncs + 1
  /\ rtcTime' = t
  /\ \/ currTime' = t /\ lead' = 0
     \/ UNCHANGED local
  /\ UNCHANGED <<alarmReg, a1f, sending, eventQueue, alarmQueue, task, fate, resets>>

\* The computer restarts: queues and alarms were in RAM, initTime sets the RTC
\* to a fixed date (or fails to), and the RTC keeps its alarm registers and flag.
Reset ==
  /\ resets < MaxResets
  /\ resets' = resets + 1
  /\ rtcTime' \in (IF I2CFaults THEN Times ELSE {0})
  /\ currTime' = 0
  /\ lead' = 0
  /\ sending' = {}
  /\ eventQueue' = <<>>
  /\ alarmQueue' = <<>>
  /\ pc' = "wait"
  /\ current' = NoAlarm
  /\ iter' = 0
  /\ timestampThresh' = 0
  /\ checkLead' = 0
  /\ fate' = [c \in Commands |-> IF fate[c] = "pending" THEN "lost" ELSE fate[c]]
  /\ UNCHANGED <<alarmReg, a1f, syncs>>

-----------------------------------------------------------------------------
CommandManager == \/ \E c \in Commands, t \in Times : DiscardPastCommand(c, t) \/ AcceptCommand(c, t)
                  \/ SendNewAlarm

AlarmTask == \/ ReceiveNewAlarm
             \/ ArmAlarm1
             \/ ReceiveTriggered
             \/ ClearAlarm1
             \/ CheckEarliest
             \/ NextDueAlarm
             \/ ExecuteAlarm

Timekeeper == IncrementUnixTime \/ SyncUnixTime

Next == \/ CommandManager
        \/ AlarmTask
        \/ RtcTick
        \/ Timekeeper
        \/ \E t \in Times : RtcSync(t)
        \/ Reset

Spec == Init /\ [][Next]_vars

\* The alarm task has the highest priority of the tasks that may wait for one
\* another here and is never starved; the RTC ticks; the timekeeper, above it,
\* keeps the local time close to the RTC.
Fairness == /\ WF_vars(AlarmTask)
            /\ WF_vars(SendNewAlarm)
            /\ WF_vars(RtcTick)
            /\ WF_vars(SyncUnixTime)

FairSpec == Spec /\ Fairness

-----------------------------------------------------------------------------
(* Properties. *)

\* Every variable has its type; both queues respect their capacity, and the
\* task works on a real alarm exactly where the code does.
TypeOK ==
  /\ rtcTime \in Times
  /\ lead \in Leads \cup {0}
  /\ checkLead \in Leads \cup {0}
  /\ currTime \in 0 .. MaxTime + MaxDrift + lead
  /\ alarmReg \in AlarmTimes \cup {NotArmed}
  /\ a1f \in BOOLEAN
  /\ sending \in SUBSET Alarms
  /\ eventQueue \in Seq(Events)
  /\ Len(eventQueue) <= EventQueueLength
  /\ alarmQueue \in Seq(Alarms)
  /\ Len(alarmQueue) <= AlarmQueueSize
  /\ pc \in Locations
  /\ current \in Alarms \cup {NoAlarm}
  /\ pc \in {"arm", "exec"} => current \in Alarms
  /\ iter \in Nat
  /\ timestampThresh \in Times
  /\ fate \in [Commands -> Fates]
  /\ syncs \in 0 .. MaxSyncs
  /\ resets \in 0 .. MaxResets

\* Insertions and removals, in whatever order they come, keep the array of
\* alarms in order of time (enqueueAlarm: "in order of increasing time").
AlarmQueueSorted ==
  \A j, k \in 1 .. Len(alarmQueue) :
    j <= k => alarmQueue[j].unixTime <= alarmQueue[k].unixTime

\* While an alarm executes, no alarm still in the array is earlier than it.
EarliestFirst ==
  pc = "exec" => \A k \in 1 .. Len(alarmQueue) : current.unixTime <= alarmQueue[k].unixTime

\* No command executes ahead of its time tag by more than the tolerance, the
\* drift of the local clock and the error of the reading the early check relied
\* on, even when the RTC matched a month too soon.  After a reading across the
\* end of a month that error is a month or a year, and the next reading ends it.
\* A ground RTC sync voids the bound.
NeverEarly ==
  syncs = 0 /\ pc = "exec" => current.unixTime <= rtcTime + MaxDrift + Tol + checkLead

Copies(c) ==
  Cardinality({a \in sending : a.id = c})
  + Cardinality({k \in DOMAIN eventQueue :
                   eventQueue[k].type = "NEW_ALARM" /\ eventQueue[k].alarm.id = c})
  + Cardinality({k \in DOMAIN alarmQueue : alarmQueue[k].id = c})
  + (IF pc = "exec" /\ current.id = c THEN 1 ELSE 0)

\* A command that was accepted and neither reported full, executed nor lost in a
\* reset is in exactly one place: the queues neither lose nor duplicate alarms.
NoAlarmLost ==
  \A c \in Commands : Copies(c) = IF fate[c] = "pending" THEN 1 ELSE 0

\* While the interrupt line is held low no further edge can come, so an event
\* that will release it must be on its way.  Needs I2C transfers to succeed, a
\* queue with room for the interrupt and no reset.
InterruptPending ==
  a1f => \/ pc = "clear"
         \/ \E k \in 1 .. Len(eventQueue) : eventQueue[k] = Triggered

\* The RTC is armed, ahead of time, for command c, the earliest alarm.
ArmedFor(c) ==
  /\ pc = "wait"
  /\ alarmQueue # <<>>
  /\ alarmQueue[1].id = c
  /\ alarmReg = AlarmTime(alarmQueue[1].unixTime)
  /\ rtcTime < alarmQueue[1].unixTime

\* A command on its own for which the RTC was armed ahead of time is executed,
\* also when the RTC matches in an earlier month first.
ArmedAlarmExecutes == \A c \in Commands : ArmedFor(c) ~> fate[c] = "executed"

\* alarm_handler.c: the RTC alarm is set to the earliest alarm, so while the task
\* waits for events it is armed for the head of the array.
ArmedForEarliest ==
  pc = "wait" /\ alarmQueue # <<>> => alarmReg = AlarmTime(alarmQueue[1].unixTime)
=============================================================================
