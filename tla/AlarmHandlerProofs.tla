------------------------- MODULE AlarmHandlerProofs -------------------------
(***************************************************************************)
(* What holds of the alarm manager for every number of commands, every     *)
(* queue length and every horizon: its types, the order of its array of    *)
(* alarms, that no command executes before its time, that none is lost,    *)
(* and that a line held low will be released.  Then what holds of the      *)
(* conversions an alarm's time goes through, for every second.             *)
(***************************************************************************)
EXTENDS AlarmHandler, Calendar, FiniteSetTheorems, SequenceTheorems, TLAPS

-----------------------------------------------------------------------------
(* The operations on the sorted array. *)

\* The time of an alarm is a number.
LEMMA AlarmTimeInt == \A a \in Alarms : a.unixTime \in Int
BY DEF Alarms, Times

\* Shifting back and inserting yields a sequence one longer.
LEMMA InsertedSeq ==
  ASSUME NEW q \in Seq(Alarms), NEW k \in 1 .. Len(q) + 1, NEW a \in Alarms
  PROVE  /\ Inserted(q, k, a) \in Seq(Alarms)
         /\ Len(Inserted(q, k, a)) = Len(q) + 1
         /\ \A j \in 1 .. Len(q) + 1 :
              Inserted(q, k, a)[j] = IF j < k THEN q[j] ELSE IF j = k THEN a ELSE q[j - 1]
<1> DEFINE n == Len(q) + 1
           s == [j \in 1 .. n |-> IF j < k THEN q[j] ELSE IF j = k THEN a ELSE q[j - 1]]
<1>1. n \in Nat
  BY LenProperties
<1>2. \A j \in 1 .. n : s[j] \in Alarms
  BY ElementOfSeq, LenProperties
<1>3. s \in [1 .. n -> Alarms]
  BY <1>2
<1>4. s \in Seq(Alarms) /\ Len(s) = n
  BY <1>1, <1>3, SeqDef
<1>5. QED
  BY <1>4 DEF Inserted

\* Shifting forward yields a sequence one shorter.
LEMMA DequeuedSeq ==
  ASSUME NEW q \in Seq(Alarms), q # <<>>
  PROVE  /\ Dequeued(q) \in Seq(Alarms)
         /\ Len(Dequeued(q)) = Len(q) - 1
         /\ \A j \in 1 .. Len(q) - 1 : Dequeued(q)[j] = q[j + 1]
<1> DEFINE n == Len(q) - 1
           s == [j \in 1 .. n |-> q[j + 1]]
<1>1. n \in Nat
  BY EmptySeq, LenProperties
<1>2. \A j \in 1 .. n : s[j] \in Alarms
  BY ElementOfSeq, LenProperties
<1>3. s \in [1 .. n -> Alarms]
  BY <1>2
<1>4. s \in Seq(Alarms) /\ Len(s) = n
  BY <1>1, <1>3, SeqDef
<1>5. QED
  BY <1>4 DEF Dequeued

\* A sequence of alarms in order of time.
Sorted(q) == \A j, k \in 1 .. Len(q) : j <= k => q[j].unixTime <= q[k].unixTime

\* The place enqueueAlarm chooses keeps the order.
LEMMA InsertedSorted ==
  ASSUME NEW q \in Seq(Alarms), Sorted(q), NEW a \in Alarms, NEW k \in InsertPositions(q, a)
  PROVE  Sorted(Inserted(q, k, a))
<1> DEFINE s == Inserted(q, k, a)
<1>1. /\ k \in 1 .. Len(q) + 1
      /\ \A j \in 1 .. k - 1 : q[j].unixTime < a.unixTime
      /\ k <= Len(q) => q[k].unixTime >= a.unixTime
  BY DEF InsertPositions
<1>2. /\ Len(s) = Len(q) + 1
      /\ \A j \in 1 .. Len(q) + 1 :
           s[j] = IF j < k THEN q[j] ELSE IF j = k THEN a ELSE q[j - 1]
  BY <1>1, InsertedSeq
<1>3. Len(q) \in Nat /\ \A j \in 1 .. Len(q) : q[j].unixTime \in Int
  BY LenProperties, ElementOfSeq, AlarmTimeInt
<1>4. a.unixTime \in Int
  BY AlarmTimeInt
<1>5. ASSUME NEW j \in 1 .. Len(q), k <= j
      PROVE  a.unixTime <= q[j].unixTime
  BY <1>1, <1>3, <1>4, <1>5 DEF Sorted
<1>6. ASSUME NEW i \in 1 .. Len(s), NEW j \in 1 .. Len(s), i <= j
      PROVE  s[i].unixTime <= s[j].unixTime
  <2>1. CASE i < k /\ j < k
    BY <1>1, <1>2, <1>3, <1>6, <2>1 DEF Sorted
  <2>2. CASE i < k /\ j = k
    BY <1>1, <1>2, <1>3, <1>4, <2>2
  <2>3. CASE i < k /\ j > k
    <3>1. s[i] = q[i] /\ s[j] = q[j - 1]
      BY <1>1, <1>2, <1>3, <2>3
    <3>2. i \in 1 .. Len(q) /\ j - 1 \in 1 .. Len(q) /\ i <= j - 1
      BY <1>1, <1>2, <1>3, <2>3
    <3>3. QED
      BY <3>1, <3>2 DEF Sorted
  <2>4. CASE i = k /\ j = k
    BY <1>1, <1>2, <1>4, <2>4
  <2>5. CASE i = k /\ j > k
    <3>1. s[i] = a /\ s[j] = q[j - 1]
      BY <1>1, <1>2, <1>3, <2>5
    <3>2. j - 1 \in 1 .. Len(q) /\ k <= j - 1
      BY <1>1, <1>2, <1>3, <2>5
    <3>3. QED
      BY <3>1, <3>2, <1>5
  <2>6. CASE i > k /\ j > k
    <3>1. s[i] = q[i - 1] /\ s[j] = q[j - 1]
      BY <1>1, <1>2, <1>3, <2>6
    <3>2. i - 1 \in 1 .. Len(q) /\ j - 1 \in 1 .. Len(q) /\ i - 1 <= j - 1
      BY <1>1, <1>2, <1>3, <1>6, <2>6
    <3>3. QED
      BY <3>1, <3>2 DEF Sorted
  <2>7. QED
    BY <1>1, <1>2, <1>3, <1>6, <2>1, <2>2, <2>3, <2>4, <2>5, <2>6
<1>7. QED
  BY <1>6 DEF Sorted

\* Taking the first alarm keeps the order, and none that stays is earlier.
LEMMA DequeuedSorted ==
  ASSUME NEW q \in Seq(Alarms), q # <<>>, Sorted(q)
  PROVE  /\ Sorted(Dequeued(q))
         /\ \A k \in 1 .. Len(Dequeued(q)) : q[1].unixTime <= Dequeued(q)[k].unixTime
<1>1. /\ Len(Dequeued(q)) = Len(q) - 1
      /\ \A j \in 1 .. Len(q) - 1 : Dequeued(q)[j] = q[j + 1]
  BY DequeuedSeq
<1>2. Len(q) \in Nat \ {0}
  BY EmptySeq
<1>3. ASSUME NEW j \in 1 .. Len(q) - 1
      PROVE  j + 1 \in 1 .. Len(q) /\ 1 <= j + 1 /\ 1 \in 1 .. Len(q)
  BY <1>2
<1>4. QED
  BY <1>1, <1>2, <1>3 DEF Sorted

-----------------------------------------------------------------------------
(* The type invariant. *)

\* Putting the interrupt event in front of the queue keeps it a queue of events.
LEMMA InterruptSeq ==
  ASSUME NEW q \in Seq(Events)
  PROVE  /\ <<Triggered>> \o q \in Seq(Events)
         /\ Len(<<Triggered>> \o q) = Len(q) + 1
<1>1. Triggered \in Events
  BY DEF Triggered, Events
<1>2. <<Triggered>> \in Seq(Events) /\ Len(<<Triggered>>) = 1
  BY <1>1
<1>3. QED
  BY <1>2, ConcatProperties

LEMMA TypeInit == Init => TypeOK
<1>1. 0 \in Times /\ 0 \in 0 .. MaxTime + MaxDrift + 0
  BY AlarmAssumption DEF Times
<1>2. <<>> \in Seq(Events) /\ <<>> \in Seq(Alarms) /\ Len(<<>>) = 0
  BY EmptySeq
<1>3. Init => fate \in [Commands -> Fates]
  BY DEF Init, Fates
<1>4. Init => a1f \in BOOLEAN /\ sending \in SUBSET Alarms
  BY DEF Init
<1>5. QED
  BY <1>1, <1>2, <1>3, <1>4, AlarmAssumption DEF Init, TypeOK, Locations

LEMMA TypeStep == TypeOK /\ [Next]_vars => TypeOK'
<1> SUFFICES ASSUME TypeOK, [Next]_vars
             PROVE  TypeOK'
  OBVIOUS
<1> USE AlarmAssumption
<1>1. ASSUME NEW c \in Commands, NEW t \in Times, DiscardPastCommand(c, t)
      PROVE  TypeOK'
  BY <1>1 DEF DiscardPastCommand, TypeOK, rtc, local, task, env, Fates
<1>2. ASSUME NEW c \in Commands, NEW t \in Times, AcceptCommand(c, t)
      PROVE  TypeOK'
  <2>1. [id |-> c, unixTime |-> t] \in Alarms
    BY DEF Alarms
  <2>2. sending' \in SUBSET Alarms
    BY <1>2, <2>1 DEF AcceptCommand
  <2>3. fate' \in [Commands -> Fates]
    BY <1>2 DEF AcceptCommand, TypeOK, Fates
  <2>4. QED
    BY <1>2, <2>2, <2>3 DEF AcceptCommand, TypeOK, rtc, local, task, env
<1>3. CASE SendNewAlarm
  <2>1. PICK a \in sending :
           \/ /\ Len(eventQueue) < EventQueueLength
              /\ eventQueue' = Append(eventQueue, [type |-> "NEW_ALARM", alarm |-> a])
              /\ UNCHANGED fate
           \/ /\ Len(eventQueue) = EventQueueLength
              /\ fate' = [fate EXCEPT ![a.id] = "dropped"]
              /\ UNCHANGED eventQueue
    BY <1>3 DEF SendNewAlarm
  <2>2. a \in Alarms /\ [type |-> "NEW_ALARM", alarm |-> a] \in Events
    BY DEF TypeOK, Events
  <2>3. eventQueue' \in Seq(Events) /\ Len(eventQueue') <= EventQueueLength
    <3>1. eventQueue \in Seq(Events) /\ Len(eventQueue) \in Nat /\ Len(eventQueue) <= EventQueueLength
      BY LenProperties DEF TypeOK
    <3> DEFINE e == [type |-> "NEW_ALARM", alarm |-> a]
    <3>2. Append(eventQueue, e) \in Seq(Events) /\ Len(Append(eventQueue, e)) = Len(eventQueue) + 1
      BY <2>2, <3>1, AppendProperties
    <3>3. QED
      BY <2>1, <3>1, <3>2
  <2>4. fate' \in [Commands -> Fates]
    BY <2>1 DEF TypeOK, Fates
  <2>5. QED
    BY <1>3, <2>3, <2>4 DEF SendNewAlarm, TypeOK, rtc, local, task, env
<1>4. CASE ReceiveNewAlarm
  <2> DEFINE a == Head(eventQueue).alarm
  <2>1. Head(eventQueue) \in Events /\ eventQueue' \in Seq(Events)
        /\ Len(eventQueue') <= EventQueueLength
    BY <1>4, HeadTailProperties, LenProperties DEF ReceiveNewAlarm, ArrayFull, TypeOK
  <2>2. a \in Alarms
    BY <1>4, <2>1 DEF ReceiveNewAlarm, ArrayFull, Events
  <2>3. CASE /\ fate' = [fate EXCEPT ![a.id] = "rejected"]
             /\ UNCHANGED <<alarmQueue, pc, current>>
    BY <1>4, <2>1, <2>2, <2>3 DEF ReceiveNewAlarm, ArrayFull, TypeOK, rtc, local, env, Fates
  <2>4. CASE /\ Len(alarmQueue) < AlarmQueueSize
             /\ \E k \in InsertPositions(alarmQueue, a) :
                  /\ alarmQueue' = Inserted(alarmQueue, k, a)
                  /\ \/ /\ k = 1
                        /\ pc' = "arm"
                        /\ current' = a
                     \/ /\ k # 1
                        /\ UNCHANGED <<pc, current>>
             /\ UNCHANGED fate
    <3>1. PICK k \in InsertPositions(alarmQueue, a) :
             /\ alarmQueue' = Inserted(alarmQueue, k, a)
             /\ \/ /\ k = 1
                   /\ pc' = "arm"
                   /\ current' = a
                \/ /\ k # 1
                   /\ UNCHANGED <<pc, current>>
      BY <2>4
    <3>2. k \in 1 .. Len(alarmQueue) + 1
      BY DEF InsertPositions
    <3>3. alarmQueue' \in Seq(Alarms) /\ Len(alarmQueue') = Len(alarmQueue) + 1
      BY <2>2, <3>1, <3>2, InsertedSeq DEF TypeOK
    <3>4. Len(alarmQueue') <= AlarmQueueSize
      BY <2>4, <3>3, LenProperties DEF TypeOK
    <3>5. QED
      BY <1>4, <2>1, <2>2, <2>4, <3>1, <3>3, <3>4
         DEF ReceiveNewAlarm, ArrayFull, TypeOK, rtc, local, env, Locations
  <2>5. QED
    BY <1>4, <2>3, <2>4 DEF ReceiveNewAlarm, ArrayFull
<1>5. CASE ArmAlarm1
  <2>1. current \in Alarms /\ current.unixTime \in Nat
    BY <1>5 DEF ArmAlarm1, TypeOK, Alarms, Times
  <2>2. AlarmTime(current.unixTime) \in AlarmTimes
    BY <2>1 DEF AlarmTime, AlarmTimes
  <2>3. QED
    BY <1>5, <2>2 DEF ArmAlarm1, TypeOK, local, env, Locations
<1>6. CASE ReceiveTriggered
  <2>1. eventQueue' \in Seq(Events) /\ Len(eventQueue') <= EventQueueLength
    BY <1>6, HeadTailProperties, LenProperties DEF ReceiveTriggered, TypeOK
  <2>2. QED
    BY <1>6, <2>1 DEF ReceiveTriggered, TypeOK, rtc, local, env, Locations
<1>7. CASE ClearAlarm1
  BY <1>7 DEF ClearAlarm1, TypeOK, local, env, Locations
<1>8. CASE CheckEarliest
  <2>1. alarmQueue # <<>> => alarmQueue[1].unixTime \in Times
    <3>1. alarmQueue # <<>> => 1 \in 1 .. Len(alarmQueue)
      BY EmptySeq DEF TypeOK
    <3>2. alarmQueue # <<>> => alarmQueue[1] \in Alarms
      BY <3>1, ElementOfSeq DEF TypeOK
    <3>3. QED
      BY <3>2 DEF Alarms
  <2>2. timestampThresh' \in Times /\ iter' \in Nat /\ pc' \in {"wait", "loop"}
    BY <1>8, <2>1 DEF CheckEarliest, TypeOK
  <2>3. QED
    BY <1>8, <2>2 DEF CheckEarliest, TypeOK, rtc, local, env, Locations
<1>9. CASE NextDueAlarm
  <2>1. CASE /\ iter < Len(alarmQueue)
             /\ current' = alarmQueue[1]
             /\ alarmQueue' = Dequeued(alarmQueue)
             /\ pc' = "exec"
    <3>1. alarmQueue # <<>> /\ Len(alarmQueue) \in Nat
      BY <2>1, EmptySeq, LenProperties DEF TypeOK
    <3>2. current' \in Alarms
      BY <2>1, <3>1, EmptySeq, ElementOfSeq DEF TypeOK
    <3>3. alarmQueue' \in Seq(Alarms) /\ Len(alarmQueue') <= AlarmQueueSize
      BY <2>1, <3>1, DequeuedSeq DEF TypeOK
    <3>4. QED
      BY <1>9, <2>1, <3>2, <3>3 DEF NextDueAlarm, TypeOK, rtc, local, env, Locations
  <2>2. CASE pc' = "wait" /\ UNCHANGED <<current, alarmQueue>>
    BY <1>9, <2>2 DEF NextDueAlarm, TypeOK, rtc, local, env, Locations
  <2>3. QED
    BY <1>9, <2>1, <2>2 DEF NextDueAlarm
<1>10. CASE ExecuteAlarm
  <2>1. fate' \in [Commands -> Fates]
    BY <1>10 DEF ExecuteAlarm, TypeOK, Fates
  <2>2. iter' \in Nat
    BY <1>10 DEF ExecuteAlarm, TypeOK
  <2>3. QED
    BY <1>10, <2>1, <2>2 DEF ExecuteAlarm, TypeOK, rtc, local, env, Locations
<1>11. CASE RtcTick
  <2>1. eventQueue' \in Seq(Events) /\ Len(eventQueue') <= EventQueueLength
    BY <1>11, InterruptSeq, LenProperties DEF RtcTick, TypeOK
  <2>2. rtcTime' \in Times /\ a1f' \in BOOLEAN
    BY <1>11 DEF RtcTick, TypeOK, Times
  <2>3. QED
    BY <1>11, <2>1, <2>2 DEF RtcTick, TypeOK, local, task, env
<1>12. CASE IncrementUnixTime
  <2>1. currTime' \in 0 .. MaxTime + MaxDrift + lead /\ lead \in Nat
    BY <1>12 DEF IncrementUnixTime, TypeOK, Times
  <2>2. QED
    BY <1>12, <2>1 DEF IncrementUnixTime, TypeOK, rtc, task, env
<1>13. CASE SyncUnixTime
  <2>0. PICK l \in {0} \cup ReadAhead : currTime' \in 0 .. rtcTime + l /\ lead' = l
    BY <1>13 DEF SyncUnixTime
  <2>1. lead' \in Leads \cup {0} /\ currTime' \in 0 .. MaxTime + MaxDrift + lead'
    <3>1. l \in Leads \cup {0} /\ l \in Nat
      BY DEF ReadAhead
    <3>2. rtcTime \in 0 .. MaxTime
      BY DEF TypeOK, Times
    <3>3. QED
      BY <2>0, <3>1, <3>2
  <2>2. QED
    BY <1>13, <2>1 DEF SyncUnixTime, TypeOK, rtc, task, env
<1>14. ASSUME NEW t \in Times, RtcSync(t)
       PROVE  TypeOK'
  <2>1. /\ lead' \in Leads \cup {0} /\ currTime' \in 0 .. MaxTime + MaxDrift + lead'
        /\ syncs' \in 0 .. MaxSyncs
    BY <1>14 DEF RtcSync, TypeOK, Times, local
  <2>2. QED
    BY <1>14, <2>1 DEF RtcSync, TypeOK, local, task
<1>15. CASE Reset
  <2>1. 0 \in Times /\ 0 \in 0 .. MaxTime + MaxDrift + 0 /\ resets' \in 0 .. MaxResets
    BY <1>15 DEF Reset, TypeOK, Times
  <2>2. <<>> \in Seq(Events) /\ <<>> \in Seq(Alarms) /\ Len(<<>>) = 0
    BY EmptySeq
  <2>3. fate' \in [Commands -> Fates]
    BY <1>15 DEF Reset, TypeOK, Fates
  <2>4. QED
    BY <1>15, <2>1, <2>2, <2>3 DEF Reset, TypeOK, Locations
<1>16. CASE UNCHANGED vars
  BY <1>16 DEF vars, TypeOK
<1>17. QED
  BY <1>1, <1>2, <1>3, <1>4, <1>5, <1>6, <1>7, <1>8, <1>9, <1>10, <1>11, <1>12, <1>13,
     <1>14, <1>15, <1>16 DEF Next, CommandManager, AlarmTask, Timekeeper

\* Whatever the alarm manager, the clocks and the resets do, every variable
\* keeps its type and both queues stay within their capacity.
THEOREM TypeCorrect == Spec => []TypeOK
<1>1. QED
  BY TypeInit, TypeStep, PTL DEF Spec

-----------------------------------------------------------------------------
(* Order and time. *)

\* Until the ground sets the clocks, the local time leads the RTC by at most
\* the drift and the error of the last reading.
ClockLead == syncs = 0 => currTime <= rtcTime + MaxDrift + lead

\* The check that started the execution loop still holds of the RTC, and the
\* alarm being executed passed the loop's own test.
ThreshDue ==
  /\ syncs = 0 /\ pc \in {"loop", "exec"} => timestampThresh <= rtcTime + MaxDrift + Tol + checkLead
  /\ pc = "exec" => current.unixTime <= timestampThresh

\* The inductive invariant: NeverEarly needs both clauses about the clocks, and
\* EarliestFirst needs the array sorted.
IInv == /\ TypeOK
        /\ AlarmQueueSorted
        /\ EarliestFirst
        /\ ClockLead
        /\ ThreshDue

LEMMA IInvInit == Init => IInv
<1>1. Init => alarmQueue = <<>> /\ Len(alarmQueue) = 0
  BY EmptySeq DEF Init
<1>2. Init => AlarmQueueSorted
  BY <1>1 DEF AlarmQueueSorted
<1>3. Init => EarliestFirst /\ ClockLead /\ ThreshDue
  BY AlarmAssumption DEF Init, EarliestFirst, ClockLead, ThreshDue
<1>4. QED
  BY <1>2, <1>3, TypeInit DEF IInv

\* The steps that leave the array, the loop and the clocks alone.
LEMMA IInvUntouched ==
  IInv /\ UNCHANGED <<rtcTime, currTime, lead, syncs, alarmQueue, current, timestampThresh>>
       /\ ((pc' = pc /\ checkLead' = checkLead) \/ pc' \in {"wait", "arm", "clear", "check"})
  => (AlarmQueueSorted /\ EarliestFirst /\ ClockLead /\ ThreshDue)'
BY DEF IInv, AlarmQueueSorted, EarliestFirst, ClockLead, ThreshDue

LEMMA IInvStep == IInv /\ [Next]_vars => IInv'
<1> SUFFICES ASSUME IInv, [Next]_vars
             PROVE  (AlarmQueueSorted /\ EarliestFirst /\ ClockLead /\ ThreshDue)'
  BY TypeStep DEF IInv
<1> USE AlarmAssumption
<1> DEFINE Rest == (AlarmQueueSorted /\ EarliestFirst /\ ClockLead /\ ThreshDue)'
<1>0. /\ rtcTime \in Int /\ currTime \in Int /\ timestampThresh \in Int
      /\ lead \in Nat /\ checkLead \in Nat
      /\ alarmQueue \in Seq(Alarms) /\ Sorted(alarmQueue)
      /\ ClockLead /\ ThreshDue /\ EarliestFirst
  <2>1. rtcTime \in Int /\ currTime \in Int /\ timestampThresh \in Int
    BY DEF IInv, TypeOK, Times
  <2>0. lead \in Nat /\ checkLead \in Nat
    BY DEF IInv, TypeOK
  <2>2. alarmQueue \in Seq(Alarms)
    BY DEF IInv, TypeOK
  <2>3. Sorted(alarmQueue)
    BY DEF IInv, AlarmQueueSorted, Sorted
  <2>4. QED
    BY <2>0, <2>1, <2>2, <2>3 DEF IInv
<1>1. ASSUME NEW c \in Commands, NEW t \in Times,
             DiscardPastCommand(c, t) \/ AcceptCommand(c, t)
      PROVE  Rest
  BY <1>1, IInvUntouched DEF DiscardPastCommand, AcceptCommand, rtc, local, task, env
<1>2. CASE SendNewAlarm
  BY <1>2, IInvUntouched DEF SendNewAlarm, rtc, local, task, env
<1>3. CASE ReceiveNewAlarm
  <2> DEFINE a == Head(eventQueue).alarm
  <2>1. CASE UNCHANGED <<alarmQueue, pc, current>>
    BY <1>3, <2>1, IInvUntouched DEF ReceiveNewAlarm, ArrayFull, rtc, local, env
  <2>2. CASE \E k \in InsertPositions(alarmQueue, a) :
                  /\ alarmQueue' = Inserted(alarmQueue, k, a)
                  /\ \/ /\ k = 1
                        /\ pc' = "arm"
                        /\ current' = a
                     \/ /\ k # 1
                        /\ UNCHANGED <<pc, current>>
    <3>1. PICK k \in InsertPositions(alarmQueue, a) : alarmQueue' = Inserted(alarmQueue, k, a)
      BY <2>2
    <3>2. pc' \in {"wait", "arm"}
      BY <1>3, <2>2 DEF ReceiveNewAlarm, ArrayFull
    <3>3. a \in Alarms
      <4>1. Head(eventQueue) \in Events /\ Head(eventQueue).type = "NEW_ALARM"
        BY <1>3, HeadTailProperties DEF ReceiveNewAlarm, ArrayFull, IInv, TypeOK
      <4>2. QED
        BY <4>1 DEF Events
    <3>4. AlarmQueueSorted'
      BY <1>0, <3>1, <3>3, InsertedSorted DEF AlarmQueueSorted, Sorted
    <3>5. (EarliestFirst /\ ThreshDue)'
      BY <3>2 DEF EarliestFirst, ThreshDue
    <3>6. ClockLead'
      BY <1>0, <1>3 DEF ClockLead, ReceiveNewAlarm, rtc, local, env
    <3>7. QED
      BY <3>4, <3>5, <3>6
  <2>3. QED
    BY <1>3, <2>1, <2>2 DEF ReceiveNewAlarm, ArrayFull
<1>4. CASE ArmAlarm1
  BY <1>4, IInvUntouched DEF ArmAlarm1, local, env
<1>5. CASE ReceiveTriggered
  BY <1>5, IInvUntouched DEF ReceiveTriggered, rtc, local, env
<1>6. CASE ClearAlarm1
  BY <1>6, IInvUntouched DEF ClearAlarm1, local, env
<1>7. CASE CheckEarliest
  <2>1. (AlarmQueueSorted /\ ClockLead)'
    BY <1>0, <1>7 DEF CheckEarliest, rtc, local, env, Sorted, AlarmQueueSorted, ClockLead
  <2>2. pc' # "exec"
    BY <1>7 DEF CheckEarliest
  <2>3. EarliestFirst'
    BY <2>2 DEF EarliestFirst
  <2>4. syncs' = 0 /\ pc' = "loop" => timestampThresh' <= rtcTime' + MaxDrift + Tol + checkLead'
    <3>1. SUFFICES ASSUME syncs' = 0, pc' = "loop"
                   PROVE  timestampThresh' <= rtcTime' + MaxDrift + Tol + checkLead'
      OBVIOUS
    <3>2. alarmQueue # <<>> /\ timestampThresh' = alarmQueue[1].unixTime
          /\ currTime + Tol >= alarmQueue[1].unixTime /\ rtcTime' = rtcTime /\ syncs = 0
          /\ checkLead' = lead
      BY <1>7, <3>1 DEF CheckEarliest, rtc, local, env
    <3>3. 1 \in 1 .. Len(alarmQueue)
      BY <1>0, <3>2, EmptySeq
    <3>4. alarmQueue[1].unixTime \in Int
      BY <1>0, <3>3, ElementOfSeq, AlarmTimeInt
    <3>5. QED
      BY <1>0, <3>2, <3>4 DEF ClockLead
  <2>5. QED
    BY <2>1, <2>2, <2>3, <2>4 DEF ThreshDue
<1>8. CASE NextDueAlarm
  <2>1. CASE /\ iter < Len(alarmQueue)
             /\ alarmQueue[1].unixTime <= timestampThresh
             /\ current' = alarmQueue[1]
             /\ alarmQueue' = Dequeued(alarmQueue)
             /\ pc' = "exec"
             /\ UNCHANGED checkLead
    <3>1. alarmQueue # <<>>
      BY <1>0, <2>1, EmptySeq DEF IInv, TypeOK
    <3>2. (AlarmQueueSorted /\ EarliestFirst)'
      BY <1>0, <2>1, <3>1, DequeuedSorted DEF AlarmQueueSorted, EarliestFirst, Sorted
    <3>3. ClockLead'
      BY <1>0, <1>8 DEF NextDueAlarm, rtc, local, env, ClockLead
    <3>4. ThreshDue'
      BY <1>0, <1>8, <2>1 DEF NextDueAlarm, rtc, local, env, ThreshDue
    <3>5. QED
      BY <3>2, <3>3, <3>4
  <2>2. CASE pc' = "wait" /\ UNCHANGED <<current, alarmQueue>>
    BY <1>8, <2>2, IInvUntouched DEF NextDueAlarm, rtc, local, env
  <2>3. QED
    BY <1>8, <2>1, <2>2 DEF NextDueAlarm
<1>9. CASE ExecuteAlarm
  <2>1. /\ pc = "exec" /\ pc' = "loop"
        /\ UNCHANGED <<rtcTime, currTime, lead, alarmQueue, current, timestampThresh, checkLead, syncs>>
    BY <1>9 DEF ExecuteAlarm, rtc, local, env
  <2>2. QED
    BY <1>0, <2>1 DEF AlarmQueueSorted, Sorted, EarliestFirst, ClockLead, ThreshDue
<1>10. CASE RtcTick
  <2>1. /\ rtcTime' = rtcTime + 1
        /\ UNCHANGED <<currTime, lead, alarmQueue, pc, current, timestampThresh, checkLead, syncs>>
    BY <1>10 DEF RtcTick, local, task, env
  <2>2. ClockLead'
    BY <1>0, <2>1 DEF ClockLead
  <2>3. ThreshDue'
    BY <1>0, <2>1 DEF ThreshDue
  <2>4. (AlarmQueueSorted /\ EarliestFirst)'
    BY <1>0, <2>1 DEF AlarmQueueSorted, Sorted, EarliestFirst
  <2>5. QED
    BY <2>2, <2>3, <2>4
<1>11. CASE IncrementUnixTime \/ SyncUnixTime
  <2>1. UNCHANGED <<rtcTime, alarmQueue, pc, current, timestampThresh, checkLead, syncs>>
    BY <1>11 DEF IncrementUnixTime, SyncUnixTime, rtc, task, env
  <2>2. ClockLead'
    <3>1. CASE IncrementUnixTime
      BY <1>0, <2>1, <3>1 DEF ClockLead, IncrementUnixTime
    <3>2. CASE SyncUnixTime
      <4>1. PICK l \in {0} \cup ReadAhead : currTime' \in 0 .. rtcTime + l /\ lead' = l
        BY <3>2 DEF SyncUnixTime
      <4>2. l \in Nat
        BY DEF ReadAhead
      <4>3. QED
        BY <1>0, <2>1, <4>1, <4>2 DEF ClockLead
    <3>3. QED
      BY <1>11, <3>1, <3>2
  <2>3. QED
    BY <1>0, <2>1, <2>2 DEF AlarmQueueSorted, Sorted, EarliestFirst, ThreshDue
<1>12. ASSUME NEW t \in Times, RtcSync(t)
       PROVE  Rest
  <2>1. /\ syncs' = syncs + 1
        /\ UNCHANGED <<alarmQueue, pc, current, timestampThresh, checkLead>>
    BY <1>12 DEF RtcSync, task
  <2>2. syncs' # 0 /\ t \in Int
    BY <2>1 DEF IInv, TypeOK, Times
  <2>3. QED
    BY <1>0, <2>1, <2>2
       DEF AlarmQueueSorted, Sorted, EarliestFirst, ClockLead, ThreshDue
<1>13. CASE Reset
  <2>1. /\ alarmQueue' = <<>> /\ Len(alarmQueue') = 0 /\ pc' = "wait"
        /\ rtcTime' \in Times /\ currTime' = 0 /\ lead' = 0
    <3>1. rtcTime' \in Times \cup {0}
      BY <1>13 DEF Reset
    <3>2. rtcTime' \in Times
      BY <3>1 DEF Times
    <3>3. /\ alarmQueue' = <<>> /\ pc' = "wait" /\ currTime' = 0 /\ lead' = 0
      BY <1>13 DEF Reset
    <3>4. QED
      BY <3>2, <3>3, EmptySeq
  <2>2. ClockLead'
    <3>1. PICK r \in Nat : rtcTime' = r
      BY <2>1 DEF Times
    <3>2. 0 <= r + MaxDrift + 0
      BY DEF AlarmAssumption
    <3>3. QED
      BY <2>1, <3>1, <3>2 DEF ClockLead
  <2>3. QED
    BY <2>1, <2>2 DEF AlarmQueueSorted, EarliestFirst, ThreshDue
<1>14. CASE UNCHANGED vars
  BY <1>14, IInvUntouched DEF vars
<1>15. QED
  BY <1>1, <1>2, <1>3, <1>4, <1>5, <1>6, <1>7, <1>8, <1>9, <1>10, <1>11, <1>12, <1>13,
     <1>14 DEF Next, CommandManager, AlarmTask, Timekeeper

LEMMA IInvCorrect == Spec => []IInv
<1>1. QED
  BY IInvInit, IInvStep, PTL DEF Spec

\* However alarms are inserted, executed and reset, the array stays in order.
THEOREM SortedCorrect == Spec => []AlarmQueueSorted
<1>1. IInv => AlarmQueueSorted
  BY DEF IInv
<1>2. QED
  BY <1>1, IInvCorrect, PTL

\* The alarm being executed is never later than one still waiting.
THEOREM EarliestFirstCorrect == Spec => []EarliestFirst
<1>1. IInv => EarliestFirst
  BY DEF IInv
<1>2. QED
  BY <1>1, IInvCorrect, PTL

\* No time-tagged command executes before its time, within tolerance and drift,
\* for every length of the month and every schedule, until a ground RTC sync.
THEOREM NeverEarlyCorrect == Spec => []NeverEarly
<1>1. IInv => NeverEarly
  <2>1. SUFFICES ASSUME IInv, syncs = 0, pc = "exec"
                 PROVE  current.unixTime <= rtcTime + MaxDrift + Tol + checkLead
    BY DEF NeverEarly
  <2>2. current \in Alarms /\ timestampThresh \in Int /\ rtcTime \in Int /\ checkLead \in Nat
    BY <2>1, AlarmAssumption DEF IInv, TypeOK, Times
  <2>3. current.unixTime \in Int
    BY <2>2, AlarmTimeInt
  <2>4. QED
    BY <2>1, <2>2, <2>3, AlarmAssumption DEF IInv, ThreshDue
<1>2. QED
  BY <1>1, IInvCorrect, PTL

-----------------------------------------------------------------------------
(* Counting the copies of a command. *)

\* The places of a sequence at which something holds, before and after an
\* element is put in at place k: one more at most, when it holds there.
LEMMA InsertCount ==
  ASSUME NEW n \in Nat, NEW k \in 1 .. n + 1,
         NEW S \in SUBSET (1 .. n), NEW T \in SUBSET (1 .. n + 1),
         \A j \in 1 .. n : j < k => (j \in S <=> j \in T),
         \A j \in 1 .. n : j >= k => (j \in S <=> j + 1 \in T)
  PROVE  /\ Cardinality(S) \in Nat
         /\ Cardinality(T) = Cardinality(S) + (IF k \in T THEN 1 ELSE 0)
<1> DEFINE f == [j \in S |-> IF j < k THEN j ELSE j + 1]
           R == T \ {k}
<1>1. IsFiniteSet(S) /\ IsFiniteSet(T)
  <2>1. 1 \in Int /\ n \in Int /\ n + 1 \in Int
    OBVIOUS
  <2>2. IsFiniteSet(1 .. n) /\ IsFiniteSet(1 .. n + 1)
    BY <2>1, FS_Interval
  <2>3. QED
    BY <2>2, FS_Subset
<1>2. f \in [S -> R]
  OBVIOUS
<1>3. \A i, j \in S : f[i] = f[j] => i = j
  OBVIOUS
<1>4. \A r \in R : \E j \in S : f[j] = r
  <2>1. TAKE r \in R
  <2>2. CASE r < k
    <3>1. r \in S
      BY <2>2
    <3>2. QED
      BY <2>2, <3>1
  <2>3. CASE r > k
    <3>1. r - 1 \in 1 .. n /\ r - 1 >= k /\ (r - 1) + 1 = r
      BY <2>3
    <3>2. r - 1 \in S
      BY <3>1
    <3>3. QED
      BY <3>1, <3>2
  <2>4. QED
    BY <2>2, <2>3
<1>5. ExistsBijection(S, R)
  <2>1. f \in Bijection(S, R)
    BY <1>2, <1>3, <1>4 DEF Bijection, Injection, Surjection, IsInjective
  <2>2. QED
    BY <2>1 DEF ExistsBijection
<1>6. Cardinality(R) = Cardinality(S)
  BY <1>1, <1>5, FS_Bijection
<1>7. Cardinality(R) = IF k \in T THEN Cardinality(T) - 1 ELSE Cardinality(T)
  BY <1>1, FS_RemoveElement
<1>8. Cardinality(S) \in Nat /\ Cardinality(T) \in Nat
  BY <1>1, FS_CardinalityType
<1>9. QED
  BY <1>6, <1>7, <1>8

\* The same for an element put in front.
LEMMA FrontCount ==
  ASSUME NEW n \in Nat, NEW S \in SUBSET (1 .. n), NEW T \in SUBSET (1 .. n + 1),
         \A j \in 1 .. n : j \in S <=> j + 1 \in T
  PROVE  /\ Cardinality(S) \in Nat
         /\ Cardinality(T) = Cardinality(S) + (IF 1 \in T THEN 1 ELSE 0)
<1>1. 1 \in 1 .. n + 1
  OBVIOUS
<1>2. \A j \in 1 .. n : j < 1 => (j \in S <=> j \in T)
  OBVIOUS
<1>3. \A j \in 1 .. n : j >= 1 => (j \in S <=> j + 1 \in T)
  OBVIOUS
<1>4. QED
  BY <1>1, <1>2, <1>3, InsertCount

\* The places at which a queue of events, and the array, hold command c.
EventsOf(q, c) == {k \in DOMAIN q : q[k].type = "NEW_ALARM" /\ q[k].alarm.id = c}
AlarmsOf(q, c) == {k \in DOMAIN q : q[k].id = c}

\* sendToAlarmHandlerQueue adds one event of its command.
LEMMA EventsAppend ==
  ASSUME NEW q \in Seq(Events), NEW e \in Events, NEW c
  PROVE  /\ Cardinality(EventsOf(q, c)) \in Nat
         /\ Cardinality(EventsOf(Append(q, e), c))
              = Cardinality(EventsOf(q, c))
                + (IF e.type = "NEW_ALARM" /\ e.alarm.id = c THEN 1 ELSE 0)
<1> DEFINE n == Len(q)
           r == Append(q, e)
           S == EventsOf(q, c)
           T == EventsOf(r, c)
<1>1. /\ n \in Nat /\ DOMAIN q = 1 .. n /\ r \in Seq(Events) /\ Len(r) = n + 1
      /\ \A j \in 1 .. n : r[j] = q[j]
      /\ r[n + 1] = e
  BY AppendProperties, LenProperties
<1>2. DOMAIN r = 1 .. n + 1
  BY <1>1, LenProperties
<1>3. S \in SUBSET (1 .. n) /\ T \in SUBSET (1 .. n + 1)
  BY <1>1, <1>2 DEF EventsOf
<1>4. \A j \in 1 .. n : j \in S <=> j \in T
  BY <1>1, <1>2 DEF EventsOf
<1>5. n + 1 \in T <=> e.type = "NEW_ALARM" /\ e.alarm.id = c
  BY <1>1, <1>2 DEF EventsOf
<1>6. n + 1 \in 1 .. n + 1 /\ \A j \in 1 .. n : ~(j >= n + 1)
  BY <1>1
<1> HIDE DEF n, r, S, T
<1>7. /\ Cardinality(S) \in Nat
      /\ Cardinality(T) = Cardinality(S) + (IF n + 1 \in T THEN 1 ELSE 0)
  BY <1>1, <1>3, <1>4, <1>6, InsertCount
<1>8. QED
  BY <1>5, <1>7 DEF S, T, r

\* Receiving takes one event, of the command at the head.
LEMMA EventsTail ==
  ASSUME NEW q \in Seq(Events), q # <<>>, NEW c
  PROVE  /\ Cardinality(EventsOf(Tail(q), c)) \in Nat
         /\ Cardinality(EventsOf(q, c))
              = Cardinality(EventsOf(Tail(q), c))
                + (IF Head(q).type = "NEW_ALARM" /\ Head(q).alarm.id = c THEN 1 ELSE 0)
<1> DEFINE r == Tail(q)
           n == Len(r)
           S == EventsOf(r, c)
           T == EventsOf(q, c)
<1>1. /\ r \in Seq(Events) /\ n \in Nat /\ Len(q) = n + 1
      /\ \A j \in 1 .. n : r[j] = q[j + 1]
      /\ Head(q) = q[1]
  BY HeadTailProperties, LenProperties, EmptySeq
<1>2. DOMAIN r = 1 .. n /\ DOMAIN q = 1 .. n + 1
  BY <1>1, LenProperties
<1>3. S \in SUBSET (1 .. n) /\ T \in SUBSET (1 .. n + 1)
  BY <1>1, <1>2 DEF EventsOf
<1>4. \A j \in 1 .. n : j \in S <=> j + 1 \in T
  BY <1>1, <1>2 DEF EventsOf
<1>5. 1 \in T <=> Head(q).type = "NEW_ALARM" /\ Head(q).alarm.id = c
  BY <1>1, <1>2 DEF EventsOf
<1> HIDE DEF n, r, S, T
<1>6. /\ Cardinality(S) \in Nat
      /\ Cardinality(T) = Cardinality(S) + (IF 1 \in T THEN 1 ELSE 0)
  <2>1. n \in Nat
    BY <1>1
  <2>2. QED
    BY ONLY <2>1, <1>3, <1>4, FrontCount
<1>7. QED
  BY <1>5, <1>6 DEF S, T, r

\* The interrupt in front of the queue is no command's event.
LEMMA EventsInterrupt ==
  ASSUME NEW q \in Seq(Events), NEW c
  PROVE  Cardinality(EventsOf(<<Triggered>> \o q, c)) = Cardinality(EventsOf(q, c))
<1> DEFINE r == <<Triggered>> \o q
           n == Len(q)
           S == EventsOf(q, c)
           T == EventsOf(r, c)
<1>1. /\ n \in Nat /\ r \in Seq(Events) /\ Len(r) = n + 1
      /\ \A j \in 1 .. n : r[j + 1] = q[j]
      /\ r[1] = Triggered
  <2>1. Triggered \in Events
    BY DEF Triggered, Events
  <2>2. <<Triggered>> \in Seq(Events) /\ Len(<<Triggered>>) = 1 /\ <<Triggered>>[1] = Triggered
    BY <2>1
  <2>3. QED
    BY <2>2, ConcatProperties, LenProperties
<1>2. DOMAIN q = 1 .. n /\ DOMAIN r = 1 .. n + 1
  BY <1>1, LenProperties
<1>3. S \in SUBSET (1 .. n) /\ T \in SUBSET (1 .. n + 1)
  BY <1>1, <1>2 DEF EventsOf
<1>4. \A j \in 1 .. n : j \in S <=> j + 1 \in T
  BY <1>1, <1>2 DEF EventsOf
<1>5. 1 \notin T
  BY <1>1, <1>2 DEF EventsOf, Triggered
<1> HIDE DEF n, r, S, T
<1>6. /\ Cardinality(S) \in Nat
      /\ Cardinality(T) = Cardinality(S) + (IF 1 \in T THEN 1 ELSE 0)
  <2>1. n \in Nat
    BY <1>1
  <2>2. QED
    BY ONLY <2>1, <1>3, <1>4, FrontCount
<1>7. QED
  BY <1>5, <1>6 DEF S, T, r

\* enqueueAlarm adds one alarm of its command, wherever it goes.
LEMMA AlarmsInserted ==
  ASSUME NEW q \in Seq(Alarms), NEW a \in Alarms, NEW k \in 1 .. Len(q) + 1, NEW c
  PROVE  /\ Cardinality(AlarmsOf(q, c)) \in Nat
         /\ Cardinality(AlarmsOf(Inserted(q, k, a), c))
              = Cardinality(AlarmsOf(q, c)) + (IF a.id = c THEN 1 ELSE 0)
<1> DEFINE n == Len(q)
           r == Inserted(q, k, a)
           S == AlarmsOf(q, c)
           T == AlarmsOf(r, c)
<1>1. /\ n \in Nat /\ DOMAIN q = 1 .. n /\ r \in Seq(Alarms) /\ Len(r) = n + 1
      /\ \A j \in 1 .. n + 1 : r[j] = IF j < k THEN q[j] ELSE IF j = k THEN a ELSE q[j - 1]
  BY InsertedSeq, LenProperties
<1>2. DOMAIN r = 1 .. n + 1
  BY <1>1, LenProperties
<1>3. S \in SUBSET (1 .. n) /\ T \in SUBSET (1 .. n + 1)
  BY <1>1, <1>2 DEF AlarmsOf
<1>4. \A j \in 1 .. n : j < k => (j \in S <=> j \in T)
  BY <1>1, <1>2 DEF AlarmsOf
<1>5. \A j \in 1 .. n : j >= k => (j \in S <=> j + 1 \in T)
  <2>1. TAKE j \in 1 .. n
  <2>2. HAVE j >= k
  <2>3. r[j + 1] = q[j] /\ j + 1 \in 1 .. n + 1
    BY <1>1, <2>2
  <2>4. QED
    BY <1>1, <1>2, <2>3 DEF AlarmsOf
<1>6. k \in T <=> a.id = c
  BY <1>1, <1>2 DEF AlarmsOf
<1>7. k \in 1 .. n + 1
  OBVIOUS
<1> HIDE DEF n, r, S, T
<1>8. /\ Cardinality(S) \in Nat
      /\ Cardinality(T) = Cardinality(S) + (IF k \in T THEN 1 ELSE 0)
  BY <1>1, <1>3, <1>4, <1>5, <1>7, InsertCount
<1>9. QED
  BY <1>6, <1>8 DEF S, T, r

\* Dequeuing takes the alarm in front and no other.
LEMMA AlarmsDequeued ==
  ASSUME NEW q \in Seq(Alarms), q # <<>>, NEW c
  PROVE  /\ Cardinality(AlarmsOf(Dequeued(q), c)) \in Nat
         /\ Cardinality(AlarmsOf(q, c))
              = Cardinality(AlarmsOf(Dequeued(q), c)) + (IF q[1].id = c THEN 1 ELSE 0)
<1> DEFINE r == Dequeued(q)
           n == Len(r)
           S == AlarmsOf(r, c)
           T == AlarmsOf(q, c)
<1>1. /\ r \in Seq(Alarms) /\ n \in Nat /\ Len(q) = n + 1
      /\ \A j \in 1 .. n : r[j] = q[j + 1]
  BY DequeuedSeq, LenProperties
<1>2. DOMAIN r = 1 .. n /\ DOMAIN q = 1 .. n + 1
  BY <1>1, LenProperties
<1>3. S \in SUBSET (1 .. n) /\ T \in SUBSET (1 .. n + 1)
  BY <1>1, <1>2 DEF AlarmsOf
<1>4. \A j \in 1 .. n : j \in S <=> j + 1 \in T
  BY <1>1, <1>2 DEF AlarmsOf
<1>5. 1 \in T <=> q[1].id = c
  BY <1>1, <1>2 DEF AlarmsOf
<1> HIDE DEF n, r, S, T
<1>6. /\ Cardinality(S) \in Nat
      /\ Cardinality(T) = Cardinality(S) + (IF 1 \in T THEN 1 ELSE 0)
  <2>1. n \in Nat
    BY <1>1
  <2>2. QED
    BY ONLY <2>1, <1>3, <1>4, FrontCount
<1>7. QED
  BY <1>5, <1>6 DEF S, T, r

-----------------------------------------------------------------------------
(* No alarm is lost. *)

\* The copies of command c in the hands of the command manager, and on its way
\* through the execution loop.
Sent(s, c)       == Cardinality({a \in s : a.id = c})
Running(p, x, c) == IF p = "exec" /\ x.id = c THEN 1 ELSE 0

\* The command manager has one alarm to send, or none.
LEMMA SentCount ==
  ASSUME NEW c
  PROVE  /\ Sent({}, c) = 0
         /\ \A a : Sent({a}, c) = IF a.id = c THEN 1 ELSE 0
<1>1. {a \in {} : a.id = c} = {}
  OBVIOUS
<1>2. ASSUME NEW a
      PROVE  Sent({a}, c) = IF a.id = c THEN 1 ELSE 0
  <2>1. CASE a.id = c
    <3>1. {b \in {a} : b.id = c} = {a}
      BY <2>1
    <3>2. QED
      BY <2>1, <3>1, FS_Singleton DEF Sent
  <2>2. CASE a.id # c
    <3>1. {b \in {a} : b.id = c} = {}
      BY <2>2
    <3>2. QED
      BY <2>2, <3>1, FS_EmptySet DEF Sent
  <2>3. QED
    BY <2>1, <2>2
<1>3. QED
  BY <1>1, <1>2, FS_EmptySet DEF Sent

\* Copies is the sum of the four places.
LEMMA CopiesParts ==
  /\ \A c : Copies(c) = Sent(sending, c) + Cardinality(EventsOf(eventQueue, c))
                        + Cardinality(AlarmsOf(alarmQueue, c)) + Running(pc, current, c)
  /\ \A c : Copies(c)' = Sent(sending', c) + Cardinality(EventsOf(eventQueue', c))
                         + Cardinality(AlarmsOf(alarmQueue', c)) + Running(pc', current', c)
BY DEF Copies, Sent, EventsOf, AlarmsOf, Running

\* The command manager is about to send at most one alarm.
OneSent == sending = {} \/ \E a \in Alarms : sending = {a}

\* The inductive invariant: a step that drops an alarm must know it was the only
\* one about to be sent.
LInv == TypeOK /\ OneSent /\ NoAlarmLost

\* The four counts are numbers.
LEMMA PartsNat ==
  ASSUME LInv, NEW c
  PROVE  /\ Sent(sending, c) \in {0, 1}
         /\ Cardinality(EventsOf(eventQueue, c)) \in Nat
         /\ Cardinality(AlarmsOf(alarmQueue, c)) \in Nat
         /\ Running(pc, current, c) \in {0, 1}
<1>1. Sent(sending, c) \in {0, 1}
  BY SentCount DEF LInv, OneSent
<1>2. Running(pc, current, c) \in {0, 1}
  BY DEF Running
<1>3. Cardinality(EventsOf(eventQueue, c)) \in Nat
  <2>1. eventQueue \in Seq(Events) /\ Triggered \in Events
    BY DEF LInv, TypeOK, Triggered, Events
  <2>2. QED
    BY <2>1, EventsAppend
<1>4. Cardinality(AlarmsOf(alarmQueue, c)) \in Nat
  <2>1. alarmQueue \in Seq(Alarms) /\ Len(alarmQueue) \in Nat
    BY LenProperties DEF LInv, TypeOK
  <2>2. CASE alarmQueue = <<>>
    <3>1. AlarmsOf(alarmQueue, c) = {}
      BY <2>2 DEF AlarmsOf
    <3>2. QED
      BY <3>1, FS_EmptySet
  <2>3. CASE alarmQueue # <<>>
    <3>1. 1 \in 1 .. Len(alarmQueue) + 1 /\ alarmQueue[1] \in Alarms
      BY <2>1, <2>3, EmptySeq, ElementOfSeq
    <3>2. QED
      BY <2>1, <3>1, AlarmsInserted
  <2>4. QED
    BY <2>2, <2>3
<1>5. QED
  BY <1>1, <1>2, <1>3, <1>4

\* What a step does to the copies, from what it does to the four counts.
LEMMA CopiesDelta ==
  ASSUME LInv, NEW c, NEW ds \in Int, NEW de \in Int, NEW da \in Int, NEW dr \in Int,
         Sent(sending', c) = Sent(sending, c) + ds,
         Cardinality(EventsOf(eventQueue', c)) = Cardinality(EventsOf(eventQueue, c)) + de,
         Cardinality(AlarmsOf(alarmQueue', c)) = Cardinality(AlarmsOf(alarmQueue, c)) + da,
         Running(pc', current', c) = Running(pc, current, c) + dr
  PROVE  Copies(c) \in Nat /\ Copies(c)' = Copies(c) + (ds + de + da + dr)
<1> DEFINE s == Sent(sending, c)
           e == Cardinality(EventsOf(eventQueue, c))
           l == Cardinality(AlarmsOf(alarmQueue, c))
           r == Running(pc, current, c)
<1>1. s \in Nat /\ e \in Nat /\ l \in Nat /\ r \in Nat
  BY PartsNat
<1>2. Copies(c) = s + e + l + r
  BY CopiesParts
<1>3. Copies(c)' = (s + ds) + (e + de) + (l + da) + (r + dr)
  BY CopiesParts
<1> HIDE DEF s, e, l, r
<1>4. QED
  BY <1>1, <1>2, <1>3

LEMMA LInvInit == Init => LInv
<1>1. SUFFICES ASSUME Init, NEW c \in Commands
               PROVE  Copies(c) = 0 /\ fate[c] # "pending"
  BY TypeInit DEF LInv, OneSent, NoAlarmLost, Init
<1>2. EventsOf(eventQueue, c) = {} /\ AlarmsOf(alarmQueue, c) = {}
  BY <1>1 DEF Init, EventsOf, AlarmsOf
<1>3. Sent(sending, c) = 0 /\ Running(pc, current, c) = 0
  BY <1>1, SentCount DEF Init, Running
<1>4. Copies(c) = 0 + 0 + 0 + 0
  BY <1>2, <1>3, CopiesParts, FS_EmptySet
<1>5. QED
  BY <1>1, <1>4 DEF Init

\* The steps that move no alarm.
LEMMA CopiesUntouched ==
  ASSUME NoAlarmLost, UNCHANGED <<sending, eventQueue, alarmQueue, fate>>,
         (pc # "exec" /\ pc' # "exec") \/ UNCHANGED <<pc, current>>
  PROVE  NoAlarmLost'
<1>1. \A c : Running(pc', current', c) = Running(pc, current, c)
  BY DEF Running
<1>2. QED
  BY <1>1, CopiesParts DEF NoAlarmLost

\* Every step moves a copy from one place to the next, adds the first or takes the
\* last with the command's fate.
LEMMA LInvStep == LInv /\ [Next]_vars => LInv'
<1> SUFFICES ASSUME LInv, [Next]_vars
             PROVE  (OneSent /\ NoAlarmLost)'
  BY TypeStep DEF LInv
<1> USE AlarmAssumption
<1> DEFINE Fated(c) == IF fate'[c] = "pending" THEN 1 ELSE 0
<1>0. /\ TypeOK /\ OneSent /\ NoAlarmLost
      /\ \A c \in Commands : Copies(c) = IF fate[c] = "pending" THEN 1 ELSE 0
  BY DEF LInv, NoAlarmLost
<1>1. ASSUME NEW c \in Commands, NEW t \in Times, DiscardPastCommand(c, t)
      PROVE  (OneSent /\ NoAlarmLost)'
  <2>1. OneSent'
    BY <1>0, <1>1 DEF OneSent, DiscardPastCommand
  <2>2. /\ UNCHANGED <<sending, eventQueue, alarmQueue, pc, current>>
        /\ fate' = [fate EXCEPT ![c] = "discarded"] /\ fate[c] = "idle"
    BY <1>1 DEF DiscardPastCommand, task
  <2>3. ASSUME NEW d \in Commands
        PROVE  Copies(d)' = Fated(d)
    <3>1. Copies(d)' = Copies(d)
      BY <2>2, CopiesParts
    <3>2. fate'[d] = "pending" <=> fate[d] = "pending"
      BY <1>0, <2>2 DEF TypeOK
    <3>3. QED
      BY <1>0, <3>1, <3>2
  <2>4. QED
    BY <2>1, <2>3 DEF NoAlarmLost
<1>2. ASSUME NEW c \in Commands, NEW t \in Times, AcceptCommand(c, t)
      PROVE  (OneSent /\ NoAlarmLost)'
  <2> DEFINE a == [id |-> c, unixTime |-> t]
  <2>1. a \in Alarms /\ a.id = c
    BY DEF Alarms
  <2>2. /\ sending = {} /\ sending' = {a} /\ fate[c] = "idle"
        /\ fate' = [fate EXCEPT ![c] = "pending"]
        /\ UNCHANGED <<eventQueue, alarmQueue, pc, current>>
    BY <1>2 DEF AcceptCommand, task
  <2> HIDE DEF a
  <2>3. OneSent'
    BY <2>1, <2>2 DEF OneSent
  <2>4. ASSUME NEW d \in Commands
        PROVE  Copies(d)' = Fated(d)
    <3>1. Copies(d)' = Copies(d) + (IF d = c THEN 1 ELSE 0)
      <4> DEFINE x == IF d = c THEN 1 ELSE 0
      <4>1. Sent(sending', d) = Sent(sending, d) + x
        BY <2>1, <2>2, SentCount
      <4>2. /\ Cardinality(EventsOf(eventQueue', d)) = Cardinality(EventsOf(eventQueue, d)) + 0
            /\ Cardinality(AlarmsOf(alarmQueue', d)) = Cardinality(AlarmsOf(alarmQueue, d)) + 0
            /\ Running(pc', current', d) = Running(pc, current, d) + 0
        BY <2>2, PartsNat
      <4>3. x \in Int /\ Copies(d)' = Copies(d) + (x + 0 + 0 + 0)
        BY <4>1, <4>2, CopiesDelta
      <4>4. QED
        BY <4>3
    <3>2. fate'[d] = IF d = c THEN "pending" ELSE fate[d]
      BY <1>0, <2>2 DEF TypeOK
    <3>3. QED
      BY <1>0, <2>2, <3>1, <3>2
  <2>5. QED
    BY <2>3, <2>4 DEF NoAlarmLost
<1>3. CASE SendNewAlarm
  <2>1. PICK a \in sending :
           \/ /\ Len(eventQueue) < EventQueueLength
              /\ eventQueue' = Append(eventQueue, [type |-> "NEW_ALARM", alarm |-> a])
              /\ UNCHANGED fate
           \/ /\ Len(eventQueue) = EventQueueLength
              /\ fate' = [fate EXCEPT ![a.id] = "dropped"]
              /\ UNCHANGED eventQueue
    BY <1>3 DEF SendNewAlarm
  <2>2. /\ sending = {a} /\ sending' = {} /\ UNCHANGED <<alarmQueue, pc, current>>
        /\ a \in Alarms /\ a.id \in Commands
    BY <1>0, <1>3 DEF SendNewAlarm, task, OneSent, Alarms
  <2>3. OneSent'
    BY <2>2 DEF OneSent
  <2>4. ASSUME NEW d \in Commands
        PROVE  Sent(sending, d) = (IF a.id = d THEN 1 ELSE 0) /\ Sent(sending', d) = 0
    BY <2>2, SentCount
  <2>5. CASE /\ eventQueue' = Append(eventQueue, [type |-> "NEW_ALARM", alarm |-> a])
             /\ UNCHANGED fate
    <3> DEFINE e == [type |-> "NEW_ALARM", alarm |-> a]
    <3>1. e \in Events /\ e.type = "NEW_ALARM" /\ e.alarm = a /\ eventQueue \in Seq(Events)
      BY <1>0, <2>2 DEF Events, TypeOK
    <3>2. ASSUME NEW d \in Commands
          PROVE  Copies(d)' = Copies(d)
      <4>1. Cardinality(EventsOf(eventQueue', d))
              = Cardinality(EventsOf(eventQueue, d)) + (IF a.id = d THEN 1 ELSE 0)
        <5> HIDE DEF e
        <5>1. eventQueue' = Append(eventQueue, e)
          BY <2>5 DEF e
        <5>2. QED
          BY <3>1, <5>1, EventsAppend
      <4> DEFINE x == IF a.id = d THEN 1 ELSE 0
      <4>2. /\ Sent(sending', d) = Sent(sending, d) + (-x)
            /\ Cardinality(EventsOf(eventQueue', d)) = Cardinality(EventsOf(eventQueue, d)) + x
            /\ Cardinality(AlarmsOf(alarmQueue', d)) = Cardinality(AlarmsOf(alarmQueue, d)) + 0
            /\ Running(pc', current', d) = Running(pc, current, d) + 0
        <5>1. Sent(sending', d) = Sent(sending, d) + (-x)
          BY <2>4
        <5>2. Cardinality(EventsOf(eventQueue', d)) = Cardinality(EventsOf(eventQueue, d)) + x
          BY <4>1
        <5>3. /\ Cardinality(AlarmsOf(alarmQueue', d)) = Cardinality(AlarmsOf(alarmQueue, d)) + 0
              /\ Running(pc', current', d) = Running(pc, current, d) + 0
          BY <2>2, PartsNat
        <5>4. QED
          BY <5>1, <5>2, <5>3
      <4>3. Copies(d) \in Nat /\ Copies(d)' = Copies(d) + ((-x) + x + 0 + 0)
        BY <4>2, CopiesDelta
      <4>4. QED
        BY <4>3
    <3>3. QED
      BY <1>0, <2>3, <2>5, <3>2 DEF NoAlarmLost
  <2>6. CASE fate' = [fate EXCEPT ![a.id] = "dropped"] /\ UNCHANGED eventQueue
    <3>1. ASSUME NEW d \in Commands
          PROVE  Copies(d)' = Fated(d)
      <4> DEFINE x == IF a.id = d THEN 1 ELSE 0
      <4>0. /\ Sent(sending', d) = Sent(sending, d) + (-x)
            /\ Cardinality(EventsOf(eventQueue', d)) = Cardinality(EventsOf(eventQueue, d)) + 0
            /\ Cardinality(AlarmsOf(alarmQueue', d)) = Cardinality(AlarmsOf(alarmQueue, d)) + 0
            /\ Running(pc', current', d) = Running(pc, current, d) + 0
        <5>1. Sent(sending', d) = Sent(sending, d) + (-x)
          BY <2>4
        <5>2. /\ Cardinality(EventsOf(eventQueue', d)) = Cardinality(EventsOf(eventQueue, d)) + 0
              /\ Cardinality(AlarmsOf(alarmQueue', d)) = Cardinality(AlarmsOf(alarmQueue, d)) + 0
              /\ Running(pc', current', d) = Running(pc, current, d) + 0
          BY <2>2, <2>6, PartsNat
        <5>3. QED
          BY <5>1, <5>2
      <4>1. Copies(d) \in Nat /\ Copies(d)' = Copies(d) + ((-x) + 0 + 0 + 0)
        BY <4>0, CopiesDelta
      <4>5. Copies(d) >= x
        <5> DEFINE e == Cardinality(EventsOf(eventQueue, d))
                   l == Cardinality(AlarmsOf(alarmQueue, d))
                   r == Running(pc, current, d)
        <5>1. Copies(d) = x + e + l + r
          BY <2>4, CopiesParts
        <5>2. e \in Nat /\ l \in Nat /\ r \in Nat
          BY PartsNat
        <5> HIDE DEF e, l, r
        <5>3. QED
          BY <5>1, <5>2
      <4>2. fate'[d] = IF a.id = d THEN "dropped" ELSE fate[d]
        BY <1>0, <2>2, <2>6 DEF TypeOK
      <4>3. QED
        BY <1>0, <4>1, <4>2, <4>5
    <3>2. QED
      BY <2>3, <3>1 DEF NoAlarmLost
  <2>7. QED
    BY <2>1, <2>5, <2>6
<1>4. CASE ReceiveNewAlarm
  <2> DEFINE a == Head(eventQueue).alarm
  <2>1. /\ eventQueue \in Seq(Events) /\ eventQueue # <<>>
        /\ Head(eventQueue).type = "NEW_ALARM" /\ eventQueue' = Tail(eventQueue)
        /\ pc = "wait" /\ UNCHANGED sending
    BY <1>0, <1>4 DEF ReceiveNewAlarm, TypeOK
  <2>2. a \in Alarms /\ a.id \in Commands
    <3>1. Head(eventQueue) \in Events
      BY <2>1, HeadTailProperties
    <3>2. QED
      BY <2>1, <3>1 DEF Events, Alarms
  <2>3. OneSent'
    BY <1>0, <2>1 DEF OneSent
  <2>4. ASSUME NEW d \in Commands
        PROVE  /\ Cardinality(EventsOf(eventQueue', d)) \in Nat
               /\ Cardinality(EventsOf(eventQueue, d))
                    = Cardinality(EventsOf(eventQueue', d)) + (IF a.id = d THEN 1 ELSE 0)
    BY <2>1, EventsTail
  <2>5. CASE fate' = [fate EXCEPT ![a.id] = "rejected"] /\ UNCHANGED <<alarmQueue, pc, current>>
    <3>1. ASSUME NEW d \in Commands
          PROVE  Copies(d)' = Fated(d)
      <4> HIDE DEF a
      <4> DEFINE x == IF a.id = d THEN 1 ELSE 0
      <4>0. /\ Sent(sending', d) = Sent(sending, d) + 0
            /\ Cardinality(EventsOf(eventQueue', d)) = Cardinality(EventsOf(eventQueue, d)) + (-x)
            /\ Cardinality(AlarmsOf(alarmQueue', d)) = Cardinality(AlarmsOf(alarmQueue, d)) + 0
            /\ Running(pc', current', d) = Running(pc, current, d) + 0
        <5>1. Cardinality(EventsOf(eventQueue', d)) = Cardinality(EventsOf(eventQueue, d)) + (-x)
          BY <2>4
        <5>2. /\ Sent(sending', d) = Sent(sending, d) + 0
              /\ Cardinality(AlarmsOf(alarmQueue', d)) = Cardinality(AlarmsOf(alarmQueue, d)) + 0
              /\ Running(pc', current', d) = Running(pc, current, d) + 0
          BY <2>1, <2>5, PartsNat
        <5>3. QED
          BY <5>1, <5>2
      <4>1. Copies(d) \in Nat /\ Copies(d)' = Copies(d) + (0 + (-x) + 0 + 0)
        BY <4>0, CopiesDelta
      <4>2. fate'[d] = IF a.id = d THEN "rejected" ELSE fate[d]
        BY <1>0, <2>2, <2>5 DEF TypeOK
      <4>3. Copies(d)' \in Nat
        <5>1. /\ Sent(sending', d) \in Nat /\ Running(pc', current', d) \in Nat
              /\ Cardinality(AlarmsOf(alarmQueue', d)) \in Nat
          BY <2>1, <2>5, PartsNat
        <5>2. QED
          BY <2>4, <5>1, CopiesParts
      <4>4. QED
        BY <1>0, <4>1, <4>2, <4>3
    <3>2. QED
      BY <2>3, <3>1 DEF NoAlarmLost
  <2>6. CASE /\ \E k \in InsertPositions(alarmQueue, a) :
                  /\ alarmQueue' = Inserted(alarmQueue, k, a)
                  /\ \/ /\ k = 1
                        /\ pc' = "arm"
                        /\ current' = a
                     \/ /\ k # 1
                        /\ UNCHANGED <<pc, current>>
             /\ UNCHANGED fate
    <3>1. PICK k \in InsertPositions(alarmQueue, a) :
             alarmQueue' = Inserted(alarmQueue, k, a) /\ pc' \in {"wait", "arm"}
      BY <2>1, <2>6
    <3>2. k \in 1 .. Len(alarmQueue) + 1 /\ alarmQueue \in Seq(Alarms)
      BY <1>0 DEF InsertPositions, TypeOK
    <3>3. ASSUME NEW d \in Commands
          PROVE  Copies(d)' = Copies(d)
      <4> HIDE DEF a
      <4>1. Cardinality(AlarmsOf(alarmQueue', d))
              = Cardinality(AlarmsOf(alarmQueue, d)) + (IF a.id = d THEN 1 ELSE 0)
        BY <2>2, <3>1, <3>2, AlarmsInserted
      <4>2. Running(pc, current, d) = 0 /\ Running(pc', current', d) = 0
        BY <2>1, <3>1 DEF Running
      <4> DEFINE x == IF a.id = d THEN 1 ELSE 0
      <4>3. /\ Sent(sending', d) = Sent(sending, d) + 0
            /\ Cardinality(EventsOf(eventQueue', d)) = Cardinality(EventsOf(eventQueue, d)) + (-x)
            /\ Cardinality(AlarmsOf(alarmQueue', d)) = Cardinality(AlarmsOf(alarmQueue, d)) + x
            /\ Running(pc', current', d) = Running(pc, current, d) + 0
        BY <2>1, <2>4, <4>1, <4>2, PartsNat
      <4>4. Copies(d) \in Nat /\ Copies(d)' = Copies(d) + (0 + (-x) + x + 0)
        BY <4>3, CopiesDelta
      <4>5. QED
        BY <4>4
    <3>4. QED
      BY <1>0, <2>3, <2>6, <3>3 DEF NoAlarmLost
  <2>7. QED
    BY <1>4, <2>5, <2>6 DEF ReceiveNewAlarm
<1>5. CASE ArmAlarm1
  BY <1>0, <1>5, CopiesUntouched DEF ArmAlarm1, OneSent
<1>6. CASE ReceiveTriggered
  <2>1. /\ eventQueue \in Seq(Events) /\ eventQueue # <<>>
        /\ Head(eventQueue).type # "NEW_ALARM" /\ eventQueue' = Tail(eventQueue)
        /\ UNCHANGED <<sending, alarmQueue, fate>> /\ pc = "wait" /\ pc' = "clear"
    BY <1>0, <1>6 DEF ReceiveTriggered, TypeOK
  <2>2. ASSUME NEW d \in Commands
        PROVE  Copies(d)' = Copies(d)
    <3>1. Cardinality(EventsOf(eventQueue', d)) = Cardinality(EventsOf(eventQueue, d))
      BY <2>1, EventsTail
    <3>2. Running(pc, current, d) = Running(pc', current', d)
      BY <2>1 DEF Running
    <3>3. QED
      BY <2>1, <3>1, <3>2, CopiesParts
  <2>3. QED
    BY <1>0, <2>1, <2>2 DEF NoAlarmLost, OneSent
<1>7. CASE ClearAlarm1
  <2>1. pc = "clear" /\ pc' \in {"check", "wait"} /\ UNCHANGED <<sending, eventQueue, alarmQueue, fate>>
    BY <1>7 DEF ClearAlarm1
  <2>2. QED
    BY <1>0, <2>1, CopiesUntouched DEF OneSent
<1>8. CASE CheckEarliest
  <2>1. pc = "check" /\ pc' \in {"loop", "wait"} /\ UNCHANGED <<sending, eventQueue, alarmQueue, fate>>
    BY <1>8 DEF CheckEarliest
  <2>2. QED
    BY <1>0, <2>1, CopiesUntouched DEF OneSent
<1>9. CASE NextDueAlarm
  <2>1. CASE /\ iter < Len(alarmQueue)
             /\ current' = alarmQueue[1]
             /\ alarmQueue' = Dequeued(alarmQueue)
             /\ pc' = "exec"
    <3>1. /\ pc = "loop" /\ UNCHANGED <<sending, eventQueue, fate>>
          /\ alarmQueue \in Seq(Alarms) /\ alarmQueue # <<>>
      BY <1>0, <1>9, <2>1, EmptySeq DEF NextDueAlarm, TypeOK
    <3>2. ASSUME NEW d \in Commands
          PROVE  Copies(d)' = Copies(d)
      <4>1. /\ Cardinality(AlarmsOf(alarmQueue', d)) \in Nat
            /\ Cardinality(AlarmsOf(alarmQueue, d))
                 = Cardinality(AlarmsOf(alarmQueue', d)) + (IF alarmQueue[1].id = d THEN 1 ELSE 0)
        BY <2>1, <3>1, AlarmsDequeued
      <4>2. /\ Running(pc, current, d) = 0
            /\ Running(pc', current', d) = IF alarmQueue[1].id = d THEN 1 ELSE 0
        BY <2>1, <3>1 DEF Running
      <4>3. QED
        BY <3>1, <4>1, <4>2, CopiesParts, PartsNat
    <3>3. QED
      BY <1>0, <3>1, <3>2 DEF NoAlarmLost, OneSent
  <2>2. CASE pc' = "wait" /\ UNCHANGED <<current, alarmQueue>>
    <3>1. pc = "loop" /\ UNCHANGED <<sending, eventQueue, fate>>
      BY <1>9 DEF NextDueAlarm
    <3>2. QED
      BY <1>0, <2>2, <3>1, CopiesUntouched DEF OneSent
  <2>3. QED
    BY <1>9, <2>1, <2>2 DEF NextDueAlarm
<1>10. CASE ExecuteAlarm
  <2>1. /\ pc = "exec" /\ pc' = "loop" /\ UNCHANGED <<sending, eventQueue, alarmQueue, current>>
        /\ fate' = [fate EXCEPT ![current.id] = "executed"]
    BY <1>10 DEF ExecuteAlarm
  <2>2. ASSUME NEW d \in Commands
        PROVE  Copies(d)' = Fated(d)
    <3>1. /\ Running(pc', current', d) = 0
          /\ Running(pc, current, d) = IF current.id = d THEN 1 ELSE 0
      BY <2>1 DEF Running
    <3>2. Copies(d) = Copies(d)' + (IF current.id = d THEN 1 ELSE 0) /\ Copies(d)' \in Nat
      BY <2>1, <3>1, CopiesParts, PartsNat
    <3>3. fate'[d] = IF current.id = d THEN "executed" ELSE fate[d]
      BY <1>0, <2>1 DEF TypeOK
    <3>4. QED
      BY <1>0, <3>2, <3>3
  <2>3. QED
    BY <1>0, <2>1, <2>2 DEF NoAlarmLost, OneSent
<1>11. CASE RtcTick
  <2>1. UNCHANGED <<sending, alarmQueue, pc, current, fate>> /\ eventQueue \in Seq(Events)
    BY <1>0, <1>11 DEF RtcTick, task, TypeOK
  <2>2. eventQueue' = eventQueue \/ eventQueue' = <<Triggered>> \o eventQueue
    BY <1>11 DEF RtcTick
  <2>3. ASSUME NEW d \in Commands
        PROVE  Copies(d)' = Copies(d)
    <3>1. Cardinality(EventsOf(eventQueue', d)) = Cardinality(EventsOf(eventQueue, d))
      BY <2>1, <2>2, EventsInterrupt
    <3>2. QED
      BY <2>1, <3>1, CopiesParts
  <2>4. QED
    BY <1>0, <2>1, <2>3 DEF NoAlarmLost, OneSent
<1>12. CASE IncrementUnixTime \/ SyncUnixTime
  BY <1>0, <1>12, CopiesUntouched DEF IncrementUnixTime, SyncUnixTime, task, OneSent
<1>13. ASSUME NEW t \in Times, RtcSync(t)
       PROVE  (OneSent /\ NoAlarmLost)'
  BY <1>0, <1>13, CopiesUntouched DEF RtcSync, task, OneSent
<1>14. CASE Reset
  <2>1. /\ sending' = {} /\ eventQueue' = <<>> /\ alarmQueue' = <<>> /\ pc' = "wait"
        /\ fate' = [c \in Commands |-> IF fate[c] = "pending" THEN "lost" ELSE fate[c]]
    BY <1>14 DEF Reset
  <2>2. ASSUME NEW d \in Commands
        PROVE  Copies(d)' = Fated(d)
    <3>1. EventsOf(eventQueue', d) = {} /\ AlarmsOf(alarmQueue', d) = {}
      BY <2>1 DEF EventsOf, AlarmsOf
    <3>2. Sent(sending', d) = 0 /\ Running(pc', current', d) = 0
      BY <2>1, SentCount DEF Running
    <3>3. Copies(d)' = 0 + 0 + 0 + 0
      BY <3>1, <3>2, CopiesParts, FS_EmptySet
    <3>4. fate'[d] # "pending"
      BY <2>1
    <3>5. QED
      BY <3>3, <3>4
  <2>3. QED
    BY <2>1, <2>2 DEF NoAlarmLost, OneSent
<1>15. CASE UNCHANGED vars
  BY <1>0, <1>15, CopiesUntouched DEF vars, OneSent
<1>16. QED
  BY <1>1, <1>2, <1>3, <1>4, <1>5, <1>6, <1>7, <1>8, <1>9, <1>10, <1>11, <1>12, <1>13,
     <1>14, <1>15 DEF Next, CommandManager, AlarmTask, Timekeeper

LEMMA LInvCorrect == Spec => []LInv
<1>1. QED
  BY LInvInit, LInvStep, PTL DEF Spec

\* Whatever happens to the queues, an accepted command that was neither reported
\* full, executed nor lost in a reset is in exactly one place.
THEOREM NoAlarmLostCorrect == Spec => []NoAlarmLost
<1>1. LInv => NoAlarmLost
  BY DEF LInv
<1>2. QED
  BY <1>1, LInvCorrect, PTL

-----------------------------------------------------------------------------
(* The interrupt that releases the line. *)

\* What InterruptPending needs: transfers succeed, the computer does not reset,
\* and the queue holds an event of every command and the interrupt.
InterruptAssumption ==
  /\ I2CFaults = FALSE
  /\ MaxResets = 0
  /\ IsFiniteSet(Commands)
  /\ Cardinality(Commands) < EventQueueLength

\* The interrupt's event is at the front of the queue, and there or being
\* handled for as long as the line is low.
EdgeInv ==
  /\ \A k \in 1 .. Len(eventQueue) : eventQueue[k] = Triggered => k = 1 /\ a1f /\ pc # "clear"
  /\ a1f => \/ pc = "clear"
            \/ eventQueue # <<>> /\ eventQueue[1] = Triggered
  /\ pc = "clear" => a1f

\* A queue with no interrupt in it holds one event per command at most.
LEMMA RoomForInterrupt ==
  ASSUME InterruptAssumption, LInv, \A k \in 1 .. Len(eventQueue) : eventQueue[k] # Triggered
  PROVE  Len(eventQueue) < EventQueueLength
<1> DEFINE n == Len(eventQueue)
           f == [k \in 1 .. n |-> eventQueue[k].alarm.id]
<1>1. /\ n \in Nat /\ eventQueue \in Seq(Events) /\ DOMAIN eventQueue = 1 .. n
      /\ \A k \in 1 .. n : eventQueue[k] \in Events
  BY LenProperties, ElementOfSeq DEF LInv, TypeOK
<1>2. ASSUME NEW k \in 1 .. n
      PROVE  eventQueue[k].type = "NEW_ALARM" /\ f[k] = eventQueue[k].alarm.id /\ f[k] \in Commands
  <2>1. eventQueue[k] \in Events /\ eventQueue[k] # Triggered
    BY <1>1
  <2>2. eventQueue[k] \in [type : {"NEW_ALARM"}, alarm : Alarms]
    BY <2>1 DEF Events, Triggered
  <2>3. QED
    BY <2>2 DEF Alarms
<1>3. ASSUME NEW i \in 1 .. n, NEW j \in 1 .. n, f[i] = f[j]
      PROVE  i = j
  <2> DEFINE c == f[i]
             S == EventsOf(eventQueue, c)
  <2>1. c \in Commands /\ i \in S /\ j \in S
    BY <1>1, <1>2, <1>3 DEF EventsOf
  <2>2. Cardinality(S) <= 1
    <3>1. Copies(c) \in {0, 1}
      BY <2>1 DEF LInv, NoAlarmLost
    <3> HIDE DEF c
    <3>2. QED
      BY <3>1, CopiesParts, PartsNat
  <2>3. IsFiniteSet(S)
    <3>1. 1 \in Int /\ n \in Int /\ S \in SUBSET (1 .. n)
      BY <1>1 DEF EventsOf
    <3>2. QED
      BY <3>1, FS_Interval, FS_Subset
  <2>4. Cardinality(S) \in Nat /\ Cardinality(S) # 0
    BY <2>1, <2>3, FS_CardinalityType, FS_EmptySet
  <2>5. PICK x : S = {x}
    <3>1. Cardinality(S) = 1
      BY <2>2, <2>4
    <3>2. QED
      BY <2>3, <3>1, FS_Singleton
  <2>6. QED
    BY <2>1, <2>5
<1>4. f \in Injection(1 .. n, Commands)
  BY <1>2, <1>3 DEF Injection, IsInjective
<1> HIDE DEF f
<1>5. Cardinality(1 .. n) <= Cardinality(Commands)
  BY <1>4, FS_Injection DEF InterruptAssumption
<1>6. Cardinality(1 .. n) = n
  <2>1. 1 \in Int /\ n \in Int
    BY <1>1
  <2>2. Cardinality(1 .. n) = IF 1 > n THEN 0 ELSE n - 1 + 1
    BY <2>1, FS_Interval
  <2>3. QED
    BY <1>1, <2>2
<1>7. Cardinality(Commands) \in Nat
  BY FS_CardinalityType DEF InterruptAssumption
<1>8. QED
  BY <1>1, <1>5, <1>6, <1>7, AlarmAssumption DEF InterruptAssumption

\* The steps of the task that leave the queue and the flag alone.
LEMMA EdgeUntouched ==
  ASSUME EdgeInv, UNCHANGED <<eventQueue, a1f>>, pc # "clear", pc' # "clear"
  PROVE  EdgeInv'
BY DEF EdgeInv

LEMMA EdgeInit == Init => EdgeInv
BY EmptySeq DEF Init, EdgeInv

\* An edge comes only while no event is queued, so it finds room; the flag is
\* cleared only after its event was taken.
LEMMA EdgeStep ==
  ASSUME InterruptAssumption, LInv, EdgeInv, [Next]_vars
  PROVE  EdgeInv'
<1> USE AlarmAssumption
<1>0. /\ eventQueue \in Seq(Events) /\ Len(eventQueue) \in Nat /\ a1f \in BOOLEAN
      /\ \A k \in 1 .. Len(eventQueue) : eventQueue[k] = Triggered => k = 1 /\ a1f /\ pc # "clear"
      /\ a1f => \/ pc = "clear"
                \/ eventQueue # <<>> /\ eventQueue[1] = Triggered
      /\ pc = "clear" => a1f
  BY LenProperties DEF LInv, TypeOK, EdgeInv
<1>1. ASSUME UNCHANGED <<eventQueue, a1f, pc>>
      PROVE  EdgeInv'
  BY <1>0, <1>1 DEF EdgeInv
<1>2. ASSUME NEW c \in Commands, NEW t \in Times,
             DiscardPastCommand(c, t) \/ AcceptCommand(c, t)
      PROVE  EdgeInv'
  BY <1>1, <1>2 DEF DiscardPastCommand, AcceptCommand, rtc, local, task
<1>3. CASE SendNewAlarm
  <2>1. PICK a \in sending :
           \/ eventQueue' = Append(eventQueue, [type |-> "NEW_ALARM", alarm |-> a])
           \/ UNCHANGED eventQueue
    BY <1>3 DEF SendNewAlarm
  <2>2. UNCHANGED <<a1f, pc>>
    BY <1>3 DEF SendNewAlarm, rtc, local, task
  <2> DEFINE e == [type |-> "NEW_ALARM", alarm |-> a]
             n == Len(eventQueue)
  <2>3. CASE eventQueue' = Append(eventQueue, e)
    <3>1. e \in Events /\ e # Triggered
      BY DEF LInv, TypeOK, Events, Triggered
    <3> HIDE DEF e
    <3>2. /\ Len(eventQueue') = n + 1 /\ eventQueue' \in Seq(Events)
          /\ \A k \in 1 .. n : eventQueue'[k] = eventQueue[k]
          /\ eventQueue'[n + 1] = e
      BY <1>0, <2>3, <3>1, AppendProperties
    <3>3. eventQueue # <<>> => eventQueue' # <<>> /\ eventQueue'[1] = eventQueue[1]
      BY <1>0, <3>2, EmptySeq
    <3>4. \A k \in 1 .. Len(eventQueue') : eventQueue'[k] = Triggered => k \in 1 .. n /\ eventQueue[k] = Triggered
      BY <1>0, <3>1, <3>2
    <3>5. QED
      BY <1>0, <2>2, <3>3, <3>4 DEF EdgeInv
  <2>4. QED
    BY <1>1, <2>1, <2>2, <2>3
<1>4. CASE ReceiveNewAlarm
  <2>1. /\ eventQueue # <<>> /\ Head(eventQueue).type = "NEW_ALARM"
        /\ eventQueue' = Tail(eventQueue) /\ UNCHANGED a1f
        /\ pc = "wait"
    BY <1>4 DEF ReceiveNewAlarm, rtc, local
  <2>2. pc' # "clear"
    BY <1>4, <2>1 DEF ReceiveNewAlarm
  <2>3. eventQueue[1] # Triggered /\ Head(eventQueue) = eventQueue[1]
    BY <1>0, <2>1, HeadTailProperties DEF Triggered
  <2>4. ~a1f
    BY <1>0, <2>1, <2>3
  <2>5. \A k \in 1 .. Len(eventQueue') : eventQueue'[k] # Triggered
    <3>1. /\ Len(eventQueue') = Len(eventQueue) - 1
          /\ \A k \in 1 .. Len(eventQueue') : eventQueue'[k] = eventQueue[k + 1] /\ k + 1 \in 1 .. Len(eventQueue)
      BY <1>0, <2>1, HeadTailProperties
    <3>2. QED
      BY <1>0, <2>4, <3>1
  <2>6. QED
    BY <2>1, <2>2, <2>4, <2>5 DEF EdgeInv
<1>5. CASE ArmAlarm1
  BY <1>5, EdgeUntouched DEF ArmAlarm1
<1>6. CASE ReceiveTriggered
  <2>1. /\ eventQueue # <<>> /\ Head(eventQueue).type = "ALARM_TRIGGERED"
        /\ eventQueue' = Tail(eventQueue) /\ UNCHANGED a1f
        /\ pc' = "clear"
    BY <1>6 DEF ReceiveTriggered, rtc, local
  <2>2. Head(eventQueue) = eventQueue[1] /\ 1 \in 1 .. Len(eventQueue) /\ eventQueue[1] = Triggered
    <3>1. Head(eventQueue) = eventQueue[1] /\ Head(eventQueue) \in Events /\ 1 \in 1 .. Len(eventQueue)
      BY <1>0, <2>1, HeadTailProperties, EmptySeq
    <3>2. QED
      BY <2>1, <3>1 DEF Events, Triggered
  <2>3. a1f
    BY <1>0, <2>2
  <2>4. \A k \in 1 .. Len(eventQueue') : eventQueue'[k] # Triggered
    <3>1. /\ Len(eventQueue') = Len(eventQueue) - 1
          /\ \A k \in 1 .. Len(eventQueue') : eventQueue'[k] = eventQueue[k + 1] /\ k + 1 \in 1 .. Len(eventQueue)
                                              /\ k + 1 # 1
      BY <1>0, <2>1, HeadTailProperties
    <3>2. QED
      BY <1>0, <3>1
  <2>5. QED
    BY <2>1, <2>3, <2>4 DEF EdgeInv
<1>7. CASE ClearAlarm1
  <2>1. pc = "clear" /\ a1f' = FALSE /\ pc' = "check" /\ UNCHANGED eventQueue
    BY <1>7 DEF ClearAlarm1, InterruptAssumption
  <2>2. QED
    BY <1>0, <2>1 DEF EdgeInv
<1>8. CASE CheckEarliest
  BY <1>8, EdgeUntouched DEF CheckEarliest, rtc, local
<1>9. CASE NextDueAlarm
  BY <1>9, EdgeUntouched DEF NextDueAlarm, rtc, local
<1>10. CASE ExecuteAlarm
  BY <1>10, EdgeUntouched DEF ExecuteAlarm, rtc, local
<1>11. CASE RtcTick
  <2> DEFINE match == alarmReg = AlarmTime(rtcTime + 1)
  <2>1. UNCHANGED pc
    BY <1>11 DEF RtcTick, task
  <2>2. CASE match /\ ~a1f
    <3>1. \A k \in 1 .. Len(eventQueue) : eventQueue[k] # Triggered
      BY <1>0, <2>2
    <3>2. a1f' = TRUE /\ eventQueue' = <<Triggered>> \o eventQueue
      BY <1>11, <2>2, <3>1, RoomForInterrupt DEF RtcTick
    <3>3. /\ eventQueue' \in Seq(Events) /\ Len(eventQueue') = Len(eventQueue) + 1
          /\ eventQueue'[1] = Triggered
          /\ \A k \in 1 .. Len(eventQueue) : eventQueue'[k + 1] = eventQueue[k]
      <4>1. Triggered \in Events
        BY DEF Triggered, Events
      <4>2. /\ <<Triggered>> \in Seq(Events) /\ Len(<<Triggered>>) = 1
            /\ <<Triggered>>[1] = Triggered
        BY <4>1
      <4>3. QED
        BY <1>0, <3>2, <4>2, ConcatProperties
    <3>4. eventQueue' # <<>>
      BY <1>0, <3>3, EmptySeq
    <3>5. pc # "clear"
      BY <1>0, <2>2
    <3>6. \A k \in 1 .. Len(eventQueue') : eventQueue'[k] = Triggered => k = 1
      <4>1. TAKE k \in 1 .. Len(eventQueue')
      <4>2. HAVE eventQueue'[k] = Triggered
      <4>3. CASE k # 1
        <5>1. k - 1 \in 1 .. Len(eventQueue) /\ (k - 1) + 1 = k
          BY <1>0, <3>3, <4>3
        <5>2. eventQueue'[k] = eventQueue[k - 1]
          BY <3>3, <5>1
        <5>3. QED
          BY <3>1, <4>2, <5>1, <5>2
      <4>4. QED
        BY <4>3
    <3>7. QED
      BY <2>1, <3>2, <3>3, <3>4, <3>5, <3>6 DEF EdgeInv
  <2>3. CASE ~match \/ a1f
    <3>1. UNCHANGED eventQueue
      BY <1>11, <2>3 DEF RtcTick
    <3>2. a1f' <=> a1f
      BY <1>11, <2>3 DEF RtcTick
    <3>3. QED
      BY <1>0, <2>1, <3>1, <3>2 DEF EdgeInv
  <2>4. QED
    BY <2>2, <2>3
<1>12. CASE IncrementUnixTime \/ SyncUnixTime
  BY <1>1, <1>12 DEF IncrementUnixTime, SyncUnixTime, rtc, task
<1>13. ASSUME NEW t \in Times, RtcSync(t)
       PROVE  EdgeInv'
  BY <1>1, <1>13 DEF RtcSync, task
<1>14. ~Reset
  BY DEF Reset, InterruptAssumption, LInv, TypeOK
<1>15. CASE UNCHANGED vars
  BY <1>1, <1>15 DEF vars
<1>16. QED
  BY <1>2, <1>3, <1>4, <1>5, <1>6, <1>7, <1>8, <1>9, <1>10, <1>11, <1>12, <1>13, <1>14,
     <1>15 DEF Next, CommandManager, AlarmTask, Timekeeper

\* With room for the interrupt, no failed transfer and no reset, a line held low
\* always has the event that will release it on its way: no later alarm is missed
\* for want of a falling edge.
THEOREM InterruptPendingCorrect == InterruptAssumption => (Spec => []InterruptPending)
<1>1. SUFFICES ASSUME InterruptAssumption
               PROVE  Spec => []InterruptPending
  OBVIOUS
<1>2. LInv /\ EdgeInv /\ [Next]_vars => (LInv /\ EdgeInv)'
  BY <1>1, LInvStep, EdgeStep
<1>3. LInv /\ EdgeInv => InterruptPending
  <2>1. SUFFICES ASSUME LInv, EdgeInv, a1f, pc # "clear"
                 PROVE  \E k \in 1 .. Len(eventQueue) : eventQueue[k] = Triggered
    BY DEF InterruptPending
  <2>2. eventQueue # <<>> /\ eventQueue[1] = Triggered /\ eventQueue \in Seq(Events)
    BY <2>1 DEF EdgeInv, LInv, TypeOK
  <2>3. 1 \in 1 .. Len(eventQueue)
    BY <2>2, EmptySeq
  <2>4. QED
    BY <2>2, <2>3
<1>4. QED
  BY <1>2, <1>3, LInvInit, EdgeInit, PTL DEF Spec

-----------------------------------------------------------------------------
(* The times alarms are set from. *)

\* What the calendar says is a date.
DateTypeOK ==
  /\ cal \in [year : 0 .. 99, month : 1 .. 12, date : 1 .. 31,
              hours : 0 .. 23, minutes : 0 .. 59, seconds : 0 .. 59]
  /\ cal.date <= Days(cal.year, cal.month)
  /\ cal.year = 0 => cal.month > 2
  /\ now \in [day : Int, sec : 0 .. SecondsPerDay - 1]

\* The second of the day is the time of day.
SameTime ==
  /\ cal.hours = now.sec \div 3600
  /\ cal.minutes = (now.sec % 3600) \div 60
  /\ cal.seconds = now.sec % 60

\* The days of a common year before its month, and before a month counted from March.
DaysBefore == <<0, 31, 59, 90, 120, 151, 181, 212, 243, 273, 304, 334>>
DaysSinceMarch == <<0, 31, 61, 92, 122, 153, 184, 214, 245, 275, 306, 337>>

\* The date as a year that begins in March, a month of it and a day.
MarchYear  == IF cal.month > 2 THEN cal.year ELSE cal.year - 1
MarchMonth == IF cal.month > 2 THEN cal.month - 3 ELSE cal.month + 9

\* Days are counted with a leap day in every fourth year.
SameDay ==
  now.day = LeapochDay + 365 * MarchYear + MarchYear \div 4
            + DaysSinceMarch[MarchMonth + 1] + (cal.date - 1)

CalendarInv == DateTypeOK /\ SameTime /\ SameDay

\* A second of the day is a number of five digits at most.
LEMMA SecondOfDay ==
  ASSUME NEW s \in 0 .. SecondsPerDay - 1
  PROVE  s \in Nat /\ s \in Int /\ 0 <= s /\ s <= 86399
<1>1. SecondsPerDay \in Int /\ SecondsPerDay - 1 <= 86399
  BY DEF SecondsPerDay
<1>2. s \in Int /\ 0 <= s /\ s <= SecondsPerDay - 1
  BY <1>1
<1>3. QED
  BY <1>1, <1>2

\* At the start, and
LEMMA CalendarInvInit == ASSUME CalendarInit PROVE CalendarInv
<1>1. PICK sec \in Seconds :
        /\ now = [day |-> LeapochDay, sec |-> sec]
        /\ cal = [year |-> 0, month |-> 3, date |-> 1,
                  hours |-> sec \div 3600, minutes |-> (sec % 3600) \div 60, seconds |-> sec % 60]
  BY DEF CalendarInit
<1>2. sec \in 0 .. SecondsPerDay - 1
  BY CalendarAssumption
<1>3. sec \div 3600 \in 0 .. 23 /\ (sec % 3600) \div 60 \in 0 .. 59 /\ sec % 60 \in 0 .. 59
  <2>1. sec \in Int /\ 0 <= sec /\ sec <= 86399
    BY <1>2, SecondOfDay
  <2>2. sec \div 3600 \in 0 .. 23
    BY <2>1
  <2>3. (sec % 3600) \div 60 \in 0 .. 59
    BY <2>1
  <2>4. sec % 60 \in 0 .. 59
    BY <2>1
  <2>5. QED
    BY <2>2, <2>3, <2>4
<1>4. cal.year = 0 /\ cal.month = 3 /\ cal.date = 1
  BY <1>1
<1>5. DateTypeOK
  BY <1>1, <1>2, <1>3, <1>4 DEF DateTypeOK, Days, LeapochDay
<1>6. SameTime
  BY <1>1 DEF SameTime
<1>7. MarchYear = 0 /\ MarchMonth = 0 /\ DaysSinceMarch[1] = 0
  BY <1>4 DEF MarchYear, MarchMonth, DaysSinceMarch
<1>8. SameDay
  BY <1>1, <1>4, <1>7 DEF SameDay, LeapochDay
<1>9. QED
  BY <1>5, <1>6, <1>8 DEF CalendarInv

\* with every day, the calendar and the count of days agree.
LEMMA CalendarInvNext == ASSUME CalendarInv, [CalendarNext]_<<now, cal>> PROVE CalendarInv'
<1>1. CASE UNCHANGED <<now, cal>>
  BY <1>1 DEF CalendarInv, DateTypeOK, SameTime, SameDay, MarchYear, MarchMonth
<1>2. CASE CalendarNext
  <2> DEFINE y == cal.year
             m == cal.month
             d == cal.date
  <2>1. /\ y \in 0 .. 99 /\ m \in 1 .. 12 /\ d \in 1 .. 31 /\ d <= Days(y, m)
        /\ y = 0 => m > 2
    BY DEF CalendarInv, DateTypeOK
  <2>2. now' = [now EXCEPT !.day = @ + 1] /\ now.day \in Int /\ now' \in [day : Int, sec : 0 .. SecondsPerDay - 1]
        /\ now'.day = now.day + 1 /\ now'.sec = now.sec
    BY <1>2 DEF CalendarNext, CalendarInv, DateTypeOK
  <2>3. /\ cal'.hours = cal.hours /\ cal'.minutes = cal.minutes /\ cal'.seconds = cal.seconds
        /\ \/ d < Days(y, m) /\ cal'.year = y /\ cal'.month = m /\ cal'.date = d + 1
           \/ d = Days(y, m) /\ m < 12 /\ cal'.year = y /\ cal'.month = m + 1 /\ cal'.date = 1
           \/ d = 31 /\ m = 12 /\ y < 99 /\ cal'.year = y + 1 /\ cal'.month = 1 /\ cal'.date = 1
        /\ cal' = [cal EXCEPT !.year = cal'.year, !.month = cal'.month, !.date = cal'.date]
    <3>1. cal \in [year : 0 .. 99, month : 1 .. 12, date : 1 .. 31,
                   hours : 0 .. 23, minutes : 0 .. 59, seconds : 0 .. 59]
      BY DEF CalendarInv, DateTypeOK
    <3>2. CASE NextDay
      BY <3>1, <3>2 DEF NextDay
    <3>3. CASE NextMonth
      BY <3>1, <3>3 DEF NextMonth
    <3>4. CASE NextYear
      <4>1. LastYear \in 0 .. 99
        BY CalendarAssumption
      <4>2. y < 99
        BY <3>1, <3>4, <4>1 DEF NextYear
      <4>3. QED
        BY <3>1, <3>4, <4>2 DEF NextYear
    <3>5. QED
      BY <1>2, <3>2, <3>3, <3>4 DEF CalendarNext
  <2>4. SameTime'
    BY <2>2, <2>3 DEF CalendarInv, SameTime
  <2>5. DateTypeOK'
    <3>1. /\ cal'.year \in 0 .. 99 /\ cal'.month \in 1 .. 12 /\ cal'.date \in 1 .. 31
          /\ cal'.date <= Days(cal'.year, cal'.month)
          /\ cal'.year = 0 => cal'.month > 2
      BY <2>1, <2>3 DEF Days
    <3>2. QED
      BY <2>2, <2>3, <3>1 DEF CalendarInv, DateTypeOK
  <2>6. SameDay'
    <3> DEFINE k == MarchMonth
               n == MarchYear
    <3>1. now.day = LeapochDay + 365 * n + n \div 4 + DaysSinceMarch[k + 1] + (d - 1)
      BY DEF CalendarInv, SameDay
    <3>2. SUFFICES now.day + 1 = LeapochDay + 365 * n' + n' \div 4 + DaysSinceMarch[k' + 1] + (cal'.date - 1)
      BY <2>2 DEF SameDay
    <3>3. n \in 0 .. 99 /\ k \in 0 .. 11
      BY <2>1 DEF MarchYear, MarchMonth
    <3>4. CASE d < Days(y, m) /\ cal'.year = y /\ cal'.month = m /\ cal'.date = d + 1
      <4>1. n' = n /\ k' = k
        BY <3>4 DEF MarchYear, MarchMonth
      <4> HIDE DEF n, k
      <4>2. DaysSinceMarch[k + 1] \in Int
        BY <3>3 DEF DaysSinceMarch
      <4>3. QED
        BY <2>1, <3>1, <3>3, <3>4, <4>1, <4>2 DEF LeapochDay
    <3>5. CASE d = Days(y, m) /\ m < 12 /\ cal'.year = y /\ cal'.month = m + 1 /\ cal'.date = 1
      <4>1. CASE m = 2
        <5>1. n = y - 1 /\ k = 11 /\ n' = y /\ k' = 0
          BY <3>5, <4>1 DEF MarchYear, MarchMonth
        <5>2. y \div 4 = ((y - 1) \div 4) + (IF y % 4 = 0 THEN 1 ELSE 0)
          BY <2>1
        <5>3. d = IF y % 4 = 0 THEN 29 ELSE 28
          BY <3>5, <4>1 DEF Days
        <5>4. DaysSinceMarch[12] = 337 /\ DaysSinceMarch[1] = 0
          BY DEF DaysSinceMarch
        <5> DEFINE p == (y - 1) \div 4
                   q == y \div 4
        <5>5. p \in Int /\ q \in Int /\ n \div 4 = p /\ n' \div 4 = q
          BY <2>1, <5>1
        <5>6. q = p + (IF y % 4 = 0 THEN 1 ELSE 0)
          BY <5>2
        <5>7. now.day = LeapochDay + 365 * (y - 1) + p + 337 + (d - 1)
          BY <3>1, <5>1, <5>4, <5>5
        <5> HIDE DEF n, k, p, q
        <5>8. now.day + 1 = LeapochDay + 365 * y + q + 0 + (1 - 1)
          BY <2>1, <5>3, <5>5, <5>6, <5>7 DEF LeapochDay
        <5>9. QED
          BY <3>5, <5>1, <5>4, <5>5, <5>8
      <4>2. CASE m # 2
        <5>1. n' = n /\ k' = k + 1 /\ k \in 0 .. 10
          BY <2>1, <3>5, <4>2 DEF MarchYear, MarchMonth
        <5>2. DaysSinceMarch[k + 2] = DaysSinceMarch[k + 1] + Days(y, m)
          BY <2>1, <3>5, <4>2 DEF MarchMonth, DaysSinceMarch, Days
        <5> HIDE DEF n, k
        <5>3. DaysSinceMarch[k + 1] \in Int
          BY <5>1 DEF DaysSinceMarch
        <5>4. QED
          BY <2>1, <3>1, <3>3, <3>5, <5>1, <5>2, <5>3 DEF LeapochDay
      <4>3. QED
        BY <4>1, <4>2
    <3>6. CASE d = 31 /\ m = 12 /\ y < 99 /\ cal'.year = y + 1 /\ cal'.month = 1 /\ cal'.date = 1
      <4>1. n = y /\ k = 9 /\ n' = y /\ k' = 10
        BY <2>1, <3>6 DEF MarchYear, MarchMonth
      <4>2. DaysSinceMarch[10] = 275 /\ DaysSinceMarch[11] = 306
        BY DEF DaysSinceMarch
      <4> HIDE DEF n, k
      <4>3. QED
        BY <2>1, <3>1, <3>6, <4>1, <4>2 DEF LeapochDay
    <3>7. QED
      BY <2>3, <3>4, <3>5, <3>6
  <2>7. QED
    BY <2>4, <2>5, <2>6 DEF CalendarInv
<1>3. QED
  BY <1>1, <1>2

\* The rule of the leap years, for the years the clock can show.
LEMMA LeapYears ==
  ASSUME NEW y \in 0 .. 99
  PROVE  IsLeapYear(RtcYearOffset + y) <=> y % 4 = 0
<1>1. (2000 + y) % 4 = y % 4 /\ (2000 + y) % 100 = y
  OBVIOUS
<1>2. y = 0 => (2000 + y) % 400 = 0 /\ y % 4 = 0
  OBVIOUS
<1>3. y # 0 => (2000 + y) % 400 # 0
  OBVIOUS
<1>4. QED
  BY <1>1, <1>2, <1>3 DEF IsLeapYear, RtcYearOffset

\* The leap days up to a year, as the code counts them.
LEMMA LeapDaysCounted ==
  ASSUME NEW y \in 0 .. 99
  PROVE  /\ (y + 31) \div 4 - (y + 99) \div 100 + (y + 399) \div 400
              = 7 + (y \div 4) + (IF y % 4 = 0 THEN 0 ELSE 1)
         /\ y # 0 => (y \div 4) + (IF y % 4 = 0 THEN 0 ELSE 1) = ((y - 1) \div 4) + 1
<1>1. (y + 99) \div 100 = (y + 399) \div 400 /\ (y + 99) \div 100 \in Int
  <2>1. CASE y = 0
    BY <2>1
  <2>2. CASE y # 0
    <3>1. (y + 99) \div 100 = 1
      BY <2>2
    <3>2. (y + 399) \div 400 = 1
      BY <2>2
    <3>3. QED
      BY <3>1, <3>2
  <2>3. QED
    BY <2>1, <2>2
<1>2. (y + 31) \div 4 = 7 + (y \div 4) + (IF y % 4 = 0 THEN 0 ELSE 1)
  OBVIOUS
<1>3. y # 0 => (y \div 4) + (IF y % 4 = 0 THEN 0 ELSE 1) = ((y - 1) \div 4) + 1
  OBVIOUS
<1> DEFINE p == (y + 99) \div 100
           q == (y + 399) \div 400
           r == (y + 31) \div 4
           s == 7 + (y \div 4) + (IF y % 4 = 0 THEN 0 ELSE 1)
<1>4. p = q /\ p \in Int /\ r = s /\ r \in Int
  BY <1>1, <1>2
<1> HIDE DEF p, q, r, s
<1>5. r - p + q = s
  BY <1>4
<1>6. QED
  BY <1>3, <1>5 DEF p, q, r, s

\* datetimeToUnix is right on every date.
LEMMA ToUnix == ASSUME CalendarInv PROVE ToUnixRight
<1> DEFINE y == cal.year
           m == cal.month
           d == cal.date
           leap == IsLeapYear(RtcYearOffset + y)
           up == DaysUpTo(leap)[m]
           r == (y + 31) \div 4
           p == (y + 99) \div 100
           q == (y + 399) \div 400
           f == y \div 4
           g == (y - 1) \div 4
           e == IF y % 4 = 0 THEN 0 ELSE 1
           a == DaysSinceMarch[MarchMonth + 1]
<1>1. /\ y \in 0 .. 99 /\ m \in 1 .. 12 /\ d \in 1 .. 31 /\ (y = 0 => m > 2)
      /\ cal.hours \in 0 .. 23 /\ cal.minutes \in 0 .. 59 /\ cal.seconds \in 0 .. 59
      /\ now \in [day : Int, sec : 0 .. SecondsPerDay - 1]
  BY DEF CalendarInv, DateTypeOK
<1>2. leap <=> y % 4 = 0
  BY <1>1, LeapYears
<1>3. now.sec = cal.seconds + cal.minutes * 60 + cal.hours * 3600
  <2> DEFINE t == now.sec
  <2>1. t \in 0 .. SecondsPerDay - 1
    BY <1>1
  <2>2. /\ cal.hours = t \div 3600
        /\ cal.minutes = (t % 3600) \div 60
        /\ cal.seconds = t % 60
    BY DEF CalendarInv, SameTime
  <2> HIDE DEF t
  <2>3. t \in Int
    BY <2>1, SecondOfDay
  <2>4. t = 3600 * (t \div 3600) + (t % 3600)
    BY <2>3
  <2>5. t % 3600 = 60 * ((t % 3600) \div 60) + (t % 60)
    BY <2>3
  <2>6. QED
    BY <2>2, <2>3, <2>4, <2>5 DEF t
<1>4. r - p + q = 7 + f + e /\ (y # 0 => f + e = g + 1)
  BY <1>1, LeapDaysCounted
<1>5. r \in Int /\ p \in Int /\ q \in Int /\ f \in Int /\ g \in Int /\ e \in Int
  BY <1>1
<1> DEFINE Counted == now.day = up + (d - 1) + (y + 30) * 365 + r - p + q
<1>6. y \in Int /\ d \in Int
  BY <1>1
<1>7. ASSUME m > 2 PROVE Counted
  <2>1. up = a + 60 - e /\ a \in Int
    BY <1>1, <1>2, <1>7 DEF DaysUpTo, DaysSinceMarch, MarchMonth
  <2>2. now.day = LeapochDay + 365 * y + f + a + (d - 1)
    BY <1>7 DEF CalendarInv, SameDay, MarchYear
  <2> HIDE DEF up, a, r, p, q, f, g, e, y, m, d
  <2>3. Counted
    BY <1>4, <1>5, <1>6, <2>1, <2>2 DEF LeapochDay
  <2>4. QED
    BY <2>3
<1>8. ASSUME m <= 2 PROVE Counted
  <2>1. up = a - 306 /\ a \in Int
    BY <1>1, <1>8 DEF DaysUpTo, DaysSinceMarch, MarchMonth
  <2>2. now.day = LeapochDay + 365 * (y - 1) + g + a + (d - 1)
    BY <1>1, <1>8 DEF CalendarInv, SameDay, MarchYear
  <2>3. y # 0
    BY <1>1, <1>8
  <2> HIDE DEF up, a, r, p, q, f, g, e, y, m, d
  <2>4. Counted
    BY <1>4, <1>5, <1>6, <2>1, <2>2, <2>3 DEF LeapochDay
  <2>5. QED
    BY <2>4
<1>9. DatetimeToUnix(cal).sec = now.sec
  BY <1>3 DEF DatetimeToUnix
<1>10. DatetimeToUnix(cal).day = now.day
  <2> DEFINE tmYear == RtcYearOffset + y - 1900
  <2>1. DatetimeToUnix(cal).day =
          (up + (d - 1)) + (tmYear - 70) * 365 + (tmYear - 69) \div 4 - (tmYear - 1) \div 100 + (tmYear + 299) \div 400
    BY DEF DatetimeToUnix, CalcDayOfYear
  <2>2. tmYear - 70 = y + 30 /\ tmYear - 69 = y + 31 /\ tmYear - 1 = y + 99 /\ tmYear + 299 = y + 399
    BY <1>6 DEF RtcYearOffset
  <2> HIDE DEF tmYear, up, d, y, m
  <2>3. DatetimeToUnix(cal).day = (up + (d - 1)) + (y + 30) * 365 + r - p + q
    BY <2>1, <2>2
  <2>4. Counted
    BY <1>1, <1>7, <1>8 DEF m
  <2>5. QED
    BY <2>3, <2>4
<1>11. DatetimeToUnix(cal) = [day |-> DatetimeToUnix(cal).day, sec |-> DatetimeToUnix(cal).sec]
  BY DEF DatetimeToUnix
<1>12. now = [day |-> now.day, sec |-> now.sec]
  BY <1>1
<1>13. QED
  BY <1>9, <1>10, <1>11, <1>12 DEF ToUnixRight

\* The days before a month, which the model adds up.
LEMMA MonthDays == \A m \in 0 .. 11 : DaysUpToMonth[m] = DaysSinceMarch[m + 1]
<1> DEFINE Adds(f) == f = [k \in 0 .. 11 |-> IF k = 0 THEN 0 ELSE f[k - 1] + DaysInMonth[k]]
           g == [k \in 0 .. 11 |-> DaysSinceMarch[k + 1]]
           u == CHOOSE f : Adds(f)
<1>1. Adds(g)
  <2>1. \A k \in 0 .. 11 : k # 0 => k - 1 \in 0 .. 11
    OBVIOUS
  <2>2. \A k \in 0 .. 11 : g[k] = IF k = 0 THEN 0 ELSE g[k - 1] + DaysInMonth[k]
    <3>1. \A k \in 1 .. 11 : DaysSinceMarch[k + 1] = DaysSinceMarch[k] + DaysInMonth[k]
      BY DEF DaysSinceMarch, DaysInMonth
    <3>2. DaysSinceMarch[1] = 0
      BY DEF DaysSinceMarch
    <3>3. \A k \in 0 .. 11 : k # 0 => g[k - 1] = DaysSinceMarch[k]
      OBVIOUS
    <3>4. QED
      BY <3>1, <3>2, <3>3
  <2> DEFINE h == [k \in 0 .. 11 |-> IF k = 0 THEN 0 ELSE g[k - 1] + DaysInMonth[k]]
  <2>3. \A k \in 0 .. 11 : g[k] = h[k]
    BY <2>2
  <2>4. g = h
    BY <2>3
  <2>5. QED
    BY <2>4
<1>2. Adds(u)
  <2> HIDE DEF g, Adds
  <2>1. QED
    BY <1>1
<1>3. \A m \in 0 .. 11 : DaysUpToMonth[m] = u[m]
  BY DEF DaysUpToMonth
<1> HIDE DEF u
<1>4. \A k \in 0 .. 11 : u[k] = IF k = 0 THEN 0 ELSE u[k - 1] + DaysInMonth[k]
  BY <1>2
<1>5. /\ u[0] = 0 /\ u[1] = u[0] + 31 /\ u[2] = u[1] + 30 /\ u[3] = u[2] + 31
      /\ u[4] = u[3] + 30 /\ u[5] = u[4] + 31 /\ u[6] = u[5] + 31 /\ u[7] = u[6] + 30
      /\ u[8] = u[7] + 31 /\ u[9] = u[8] + 30 /\ u[10] = u[9] + 31 /\ u[11] = u[10] + 31
  BY <1>4 DEF DaysInMonth
<1>6. \A m \in 0 .. 11 : u[m] = DaysSinceMarch[m + 1]
  BY <1>5 DEF DaysSinceMarch
<1>7. QED
  BY <1>3, <1>6

\* The month a day is in.
LEMMA MonthFound ==
  ASSUME NEW k \in 0 .. 11, NEW r \in Int,
         DaysSinceMarch[k + 1] <= r, r < DaysSinceMarch[k + 1] + DaysInMonth[k + 1]
  PROVE  MonthOf(r) = k
<1> DEFINE In(m) == DaysUpToMonth[m] <= r /\ r < DaysUpToMonth[m] + DaysInMonth[m + 1]
<1>1. \A m \in 0 .. 11 : In(m) <=> DaysSinceMarch[m + 1] <= r /\ r < DaysSinceMarch[m + 1] + DaysInMonth[m + 1]
  BY MonthDays
<1>2. In(k)
  BY <1>1
<1>3. \A m \in 0 .. 11 : m < k => DaysSinceMarch[m + 1] + DaysInMonth[m + 1] <= DaysSinceMarch[k + 1]
  BY DEF DaysSinceMarch, DaysInMonth
<1>4. \A m \in 0 .. 11 : k < m => DaysSinceMarch[k + 1] + DaysInMonth[k + 1] <= DaysSinceMarch[m + 1]
  BY DEF DaysSinceMarch, DaysInMonth
<1>5. \A m \in 0 .. 11 : DaysSinceMarch[m + 1] \in Int /\ DaysInMonth[m + 1] \in Int
  BY DEF DaysSinceMarch, DaysInMonth
<1>6. \A m \in 0 .. 11 : In(m) => m = k
  <2>1. SUFFICES ASSUME NEW m \in 0 .. 11, In(m), m # k PROVE FALSE
    OBVIOUS
  <2>2. m < k \/ k < m
    BY <2>1
  <2>3. DaysSinceMarch[m + 1] <= r /\ r < DaysSinceMarch[m + 1] + DaysInMonth[m + 1]
    BY <1>1, <2>1
  <2> DEFINE a == DaysSinceMarch[m + 1]
             b == DaysInMonth[m + 1]
             c == DaysSinceMarch[k + 1]
             d == DaysInMonth[k + 1]
  <2>4. a \in Int /\ b \in Int /\ c \in Int /\ d \in Int
    BY <1>5
  <2>5. a + b <= c \/ c + d <= a
    BY <1>3, <1>4, <2>2
  <2>6. c <= r /\ r < c + d /\ a <= r /\ r < a + b
    BY <2>3
  <2> HIDE DEF a, b, c, d
  <2>7. QED
    BY <2>4, <2>5, <2>6
<1>7. MonthOf(r) = CHOOSE m \in 0 .. 11 : In(m)
  BY DEF MonthOf
<1> HIDE DEF In
<1>8. QED
  BY <1>2, <1>6, <1>7

\* A day as its year and its place in the year, and what the code makes of it.
DaysOf(n, r) == 365 * n + n \div 4 + r

Cycled(days) ==
  LET qc   == days \div DaysPer400Y
      rem1 == days % DaysPer400Y
      c    == Cycles(rem1, DaysPer100Y, 3)
      rem2 == rem1 - c * DaysPer100Y
      q    == Cycles(rem2, DaysPer4Y, 24)
      rem3 == rem2 - q * DaysPer4Y
      y    == Cycles(rem3, 365, 3)
  IN  [year |-> y + 4 * q + 100 * c + 400 * qc, day |-> rem3 - y * 365]

\* The year in its cycle of four.
LEMMA FourYears ==
  ASSUME NEW n \in 0 .. 99
  PROVE  /\ n \div 4 \in 0 .. 24 /\ n % 4 \in 0 .. 3 /\ n = 4 * (n \div 4) + (n % 4)
         /\ n \div 4 = 24 /\ n % 4 = 3 => n = 99
OBVIOUS

\* The year and its day come back from the days.
LEMMA YearFound ==
  ASSUME NEW n \in 0 .. 99, NEW r \in 0 .. 365, r = 365 => n % 4 = 3, n = 99 => r < 306
  PROVE  Cycled(DaysOf(n, r)) = [year |-> n, day |-> r]
<1> DEFINE days == DaysOf(n, r)
           qc   == days \div DaysPer400Y
           rem1 == days % DaysPer400Y
           c    == Cycles(rem1, DaysPer100Y, 3)
           rem2 == rem1 - c * DaysPer100Y
           q    == Cycles(rem2, DaysPer4Y, 24)
           rem3 == rem2 - q * DaysPer4Y
           y    == Cycles(rem3, 365, 3)
           u    == n \div 4
           v    == n % 4
           w    == 365 * v + r
<1>1. u \in 0 .. 24 /\ v \in 0 .. 3 /\ n = 4 * u + v /\ (u = 24 /\ v = 3 => n = 99)
  BY FourYears
<1>2. days = 365 * n + u + r /\ (r = 365 => v = 3) /\ (u = 24 /\ v = 3 => r < 306)
  BY <1>1 DEF DaysOf
<1> HIDE DEF u, v, days
<1>3. w \in 0 .. 1460 /\ w \div 365 = (IF r = 365 THEN 4 ELSE v) /\ w - v * 365 = r /\ (u = 24 => w < 1459)
  BY <1>1, <1>2
<1>4. days = 1461 * u + w
  BY <1>1, <1>2
<1> HIDE DEF w
<1>5. days \in Int /\ 0 <= days /\ days < 36524 /\ days \div 1461 = u
  <2>1. days \in Int /\ 0 <= days
    BY <1>1, <1>3, <1>4
  <2>2. CASE u <= 23
    <3>1. days < 36524
      BY <1>1, <1>3, <1>4, <2>2
    <3>2. days \div 1461 = u
      BY <1>1, <1>3, <1>4
    <3>3. QED
      BY <2>1, <3>1, <3>2
  <2>3. CASE u = 24
    BY <1>3, <1>4, <2>3
  <2>4. QED
    BY <1>1, <2>2, <2>3
<1>6. qc = 0 /\ rem1 = days
  BY <1>5 DEF DaysPer400Y
<1>7. c = 0
  <2>1. days \div DaysPer100Y = 0
    BY <1>5 DEF DaysPer100Y
  <2>2. c = Cycles(days, DaysPer100Y, 3)
    BY <1>6
  <2>3. QED
    BY <2>1, <2>2 DEF Cycles
<1>8. rem2 = days
  BY <1>5, <1>6, <1>7 DEF DaysPer100Y
<1>9. q = u
  BY <1>1, <1>5, <1>8 DEF Cycles, DaysPer4Y
<1> HIDE DEF qc, rem1, c, rem2, q
<1>10. rem3 = w
  BY <1>1, <1>3, <1>4, <1>8, <1>9 DEF DaysPer4Y
<1> HIDE DEF rem3
<1>11. y = v
  BY <1>1, <1>2, <1>3, <1>10 DEF Cycles
<1> HIDE DEF y
<1>12. rem3 - y * 365 = r
  BY <1>3, <1>10, <1>11
<1>13. y + 4 * q + 100 * c + 400 * qc = n
  BY <1>1, <1>6, <1>7, <1>9, <1>11
<1>14. QED
  <2>1. Cycled(days) = [year |-> y + 4 * q + 100 * c + 400 * qc, day |-> rem3 - y * 365]
    BY DEF Cycled, qc, rem1, c, rem2, q, rem3, y
  <2>2. QED
    BY <1>12, <1>13, <2>1 DEF days

\* unixToDatetime is right on every date but in December, and always on what an alarm
\* is set from.
LEMMA FromUnix == ASSUME CalendarInv PROVE AlarmTimeRight /\ FromUnixRight
<1> DEFINE n == MarchYear
           k == MarchMonth
           d == cal.date
           r == DaysSinceMarch[k + 1] + (d - 1)
           t == now.sec
           days == now.day - LeapochDay
<1>1. /\ cal.year \in 0 .. 99 /\ cal.month \in 1 .. 12 /\ d \in 1 .. 31 /\ (cal.year = 0 => cal.month > 2)
      /\ d <= Days(cal.year, cal.month)
      /\ cal \in [year : 0 .. 99, month : 1 .. 12, date : 1 .. 31,
                  hours : 0 .. 23, minutes : 0 .. 59, seconds : 0 .. 59]
      /\ now \in [day : Int, sec : 0 .. SecondsPerDay - 1]
  BY DEF CalendarInv, DateTypeOK
<1>2. n \in 0 .. 99 /\ k \in 0 .. 11 /\ (n = 99 => k <= 9) /\ k + 3 = cal.month + (IF cal.month > 2 THEN 0 ELSE 12)
  BY <1>1 DEF MarchYear, MarchMonth
<1>3. d <= DaysInMonth[k + 1] /\ (d = 29 /\ k = 11 => n % 4 = 3)
  <2>1. CASE cal.month > 2
    <3>1. k = cal.month - 3
      BY <2>1 DEF MarchMonth
    <3>2. QED
      BY <1>1, <2>1, <3>1 DEF Days, DaysInMonth
  <2>2. CASE cal.month <= 2
    <3>1. k = cal.month + 9 /\ n = cal.year - 1
      BY <1>1, <2>2 DEF MarchMonth, MarchYear
    <3>2. d <= DaysInMonth[k + 1]
      BY <1>1, <2>2, <3>1 DEF Days, DaysInMonth
    <3>3. d = 29 /\ k = 11 => cal.year % 4 = 0
      BY <1>1, <2>2, <3>1 DEF Days
    <3>4. QED
      BY <1>1, <3>1, <3>2, <3>3
  <2>3. QED
    BY <1>1, <2>1, <2>2
<1>4. /\ r \in 0 .. 365 /\ (r = 365 => n % 4 = 3) /\ (n = 99 => r < 306)
      /\ MonthOf(r) = k /\ r - DaysUpToMonth[k] + 1 = d
  <2> DEFINE a == DaysSinceMarch[k + 1]
             b == DaysInMonth[k + 1]
  <2>1. /\ a \in Int /\ b \in Int /\ 0 <= a /\ a + b <= 366
        /\ k <= 9 => a + b <= 306
        /\ k = 11 => a = 337
        /\ k # 11 => a + b <= 337
    BY <1>2 DEF DaysSinceMarch, DaysInMonth
  <2>2. d \in Int /\ 1 <= d /\ d <= b
    BY <1>1, <1>3
  <2>3. r = a + (d - 1)
    OBVIOUS
  <2>4. DaysUpToMonth[k] = a
    BY <1>2, MonthDays
  <2>5. n \in Int /\ k \in 0 .. 11
    BY <1>2
  <2>6. k = 11 /\ d = 29 => n % 4 = 3
    BY <1>3
  <2>7. n = 99 => k <= 9
    BY <1>2
  <2> HIDE DEF n, d, r
  <2>8. MonthOf(r) = k
    <3>1. r \in Int /\ a <= r /\ r < a + b
      <4> HIDE DEF a, b
      <4>1. QED
        BY <2>1, <2>2, <2>3
    <3>2. QED
      BY <2>5, <3>1, MonthFound
  <2> HIDE DEF a, b, k
  <2>9. r \in 0 .. 365 /\ r - a + 1 = d /\ (n = 99 => r < 306)
    BY <2>1, <2>2, <2>3, <2>5, <2>7
  <2>10. r = 365 => n % 4 = 3
    BY <2>1, <2>2, <2>3, <2>5, <2>6
  <2>11. QED
    BY <2>4, <2>8, <2>9, <2>10
<1>5. days = 365 * n + n \div 4 + r
  <2>1. now.day = LeapochDay + 365 * n + n \div 4 + DaysSinceMarch[k + 1] + (d - 1)
    BY DEF CalendarInv, SameDay
  <2>2. DaysSinceMarch[k + 1] \in Int
    BY <1>2 DEF DaysSinceMarch
  <2>3. n \in Int /\ d \in Int
    BY <1>1, <1>2
  <2> HIDE DEF n, k, d
  <2>4. QED
    BY <2>1, <2>2, <2>3 DEF LeapochDay
<1> DEFINE dt == UnixToDatetime(now)
<1>6. Cycled(days) = [year |-> n, day |-> r]
  <2>1. /\ n \in 0 .. 99 /\ r \in 0 .. 365
        /\ (r = 365 => n % 4 = 3) /\ (n = 99 => r < 306)
    BY <1>2, <1>4
  <2>2. days = DaysOf(n, r)
    BY <1>5 DEF DaysOf
  <2> HIDE DEF n, r, days
  <2>3. Cycled(DaysOf(n, r)) = [year |-> n, day |-> r]
    BY <2>1, YearFound
  <2>4. QED
    BY <2>2, <2>3
<1>7. dt = [year |-> CalendarMonth(n, k).year, month |-> CalendarMonth(n, k).month, date |-> d,
            hours |-> t \div 3600, minutes |-> (t \div 60) % 60, seconds |-> t % 60]
  <2> DEFINE z == Cycled(days)
  <2>1. dt = [year |-> CalendarMonth(z.year, MonthOf(z.day)).year,
              month |-> CalendarMonth(z.year, MonthOf(z.day)).month,
              date |-> z.day - DaysUpToMonth[MonthOf(z.day)] + 1,
              hours |-> t \div 3600, minutes |-> (t \div 60) % 60, seconds |-> t % 60]
    BY DEF UnixToDatetime, Cycled
  <2> HIDE DEF n, k, r, dt, d, days, t
  <2>2. z.year = n /\ z.day = r
    BY <1>6
  <2> HIDE DEF z
  <2>3. QED
    BY <1>4, <2>1, <2>2
<1>8. dt.date = d /\ dt.hours = cal.hours /\ dt.minutes = cal.minutes /\ dt.seconds = cal.seconds
  <2>1. t \in 0 .. SecondsPerDay - 1
    BY <1>1
  <2>2. cal.hours = t \div 3600 /\ cal.minutes = (t % 3600) \div 60 /\ cal.seconds = t % 60
    BY DEF CalendarInv, SameTime
  <2> HIDE DEF t, dt, d
  <2>3. t \in Nat
    BY <2>1, SecondOfDay
  <2>4. (t % 3600) \div 60 = (t \div 60) % 60
    BY <2>3
  <2>5. QED
    BY <1>7, <2>2, <2>4
<1>9. AlarmTimeRight
  BY <1>8 DEF AlarmTimeRight
<1>10. ASSUME cal.month # 12 PROVE dt = cal
  <2>1. CalendarMonth(n, k) = [year |-> cal.year, month |-> cal.month]
    <3>1. CASE cal.month > 2
      <4>1. n = cal.year /\ k = cal.month - 3
        BY <3>1 DEF MarchYear, MarchMonth
      <4>2. QED
        BY <1>1, <1>10, <3>1, <4>1 DEF CalendarMonth
    <3>2. CASE cal.month <= 2
      <4>1. n = cal.year - 1 /\ k = cal.month + 9
        BY <1>1, <3>2 DEF MarchYear, MarchMonth
      <4>2. QED
        BY <1>1, <3>2, <4>1 DEF CalendarMonth
    <3>3. QED
      BY <1>1, <3>1, <3>2
  <2>2. cal = [year |-> cal.year, month |-> cal.month, date |-> cal.date,
               hours |-> cal.hours, minutes |-> cal.minutes, seconds |-> cal.seconds]
    BY <1>1
  <2> HIDE DEF dt, t, n, k
  <2>3. dt = [year |-> cal.year, month |-> cal.month, date |-> d,
              hours |-> t \div 3600, minutes |-> (t \div 60) % 60, seconds |-> t % 60]
    BY <1>7, <2>1
  <2>4. t \div 3600 = cal.hours /\ (t \div 60) % 60 = cal.minutes /\ t % 60 = cal.seconds
    BY <1>7, <1>8
  <2>5. QED
    BY <2>2, <2>3, <2>4
<1>11. QED
  BY <1>9, <1>10 DEF FromUnixRight

\* They always agree.
LEMMA CalendarCorrect == CalendarSpec => []CalendarInv
<1>1. CalendarInv /\ [CalendarNext]_<<now, cal>> => CalendarInv'
  BY CalendarInvNext
<1>2. QED
  BY CalendarInvInit, <1>1, PTL DEF CalendarSpec

\* datetimeToUnix inverts the calendar on every second of every day.
THEOREM ToUnixCorrect == CalendarSpec => []ToUnixRight
<1>1. CalendarInv => ToUnixRight
  BY ToUnix
<1>2. QED
  BY <1>1, CalendarCorrect, PTL

\* What an alarm is set from is the date, hour, minute and second of the time, on every
\* second of every day.
THEOREM AlarmTimeCorrect == CalendarSpec => []AlarmTimeRight
<1>1. CalendarInv => AlarmTimeRight
  BY FromUnix
<1>2. QED
  BY <1>1, CalendarCorrect, PTL

\* unixToDatetime gives the date and time of every second that is not in December.
THEOREM FromUnixCorrect == CalendarSpec => []FromUnixRight
<1>1. CalendarInv => FromUnixRight
  BY FromUnix
<1>2. QED
  BY <1>1, CalendarCorrect, PTL
=============================================================================
