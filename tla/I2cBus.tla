------------------------------- MODULE I2cBus -------------------------------
(***************************************************************************)
(* obc_i2c_io.c: tasks that read and write registers of devices on the     *)
(* I2C bus.  A transfer is started under a mutex and awaited on a binary   *)
(* semaphore that the interrupt of its stop condition gives; the mutex is  *)
(* given back after every transfer, so between the two transfers of        *)
(* i2cReadReg as well.                                                     *)
(*                                                                         *)
(* The controller and the devices are external.  A device has one register *)
(* pointer, set by every send to it.  A transfer may be refused (NACK) or  *)
(* take longer than its timeout.                                           *)
(***************************************************************************)
EXTENDS Integers, FiniteSets

CONSTANTS
  Tasks,
  Calls,         \* the calls of i2cReadReg, i2cWriteReg and i2cSendTo
  MaxCalls,      \* bound on the calls made
  MaxRefused,    \* bound on the transfers refused
  MaxSlow,       \* bound on the transfers that outlast their timeout
  None

Devices   == {c.dev : c \in Calls}
Registers == {c.reg : c \in Calls}

ASSUME BusAssumption ==
  /\ \A c \in Calls :
       /\ c.op \in {"read", "write", "send"}
       /\ c.mutexTimeout \in BOOLEAN      \* FALSE is portMAX_DELAY
       /\ c.transferTimeout \in BOOLEAN
  /\ None \notin Tasks \cup Registers \cup Calls
  /\ MaxCalls \in Nat /\ MaxRefused \in Nat /\ MaxSlow \in Nat

VARIABLES
  call,      \* the call each task makes, or made last
  answer,    \* what it returned, "running" before it has
  half,      \* the transfer of the call that is next or under way
  buf,       \* the register of which the caller's buffer has the value
  mutex,     \* i2cMutex: its holder
  complete,  \* i2cTransferComplete
  bus,       \* the transfer the controller is in
  stops,     \* stop conditions still to come of transfers it is no longer in
  pointer,   \* the register a device sends next
  made, refused, slow,
  expired,   \* history: the transfers that were given up
  excused    \* history: calls that were refused, or whose device was addressed by
             \* another task between their two transfers

control  == <<call, answer, half>>
counters == <<made, refused, slow>>
vars     == <<control, buf, mutex, complete, bus, stops, pointer, counters, expired, excused>>

NoTransfer == [task |-> None, receive |-> FALSE, dev |-> None, reg |-> None, slow |-> FALSE]

Transfers == [task : Tasks, receive : BOOLEAN, dev : Devices, reg : Registers, slow : BOOLEAN]

Init ==
  /\ call = [t \in Tasks |-> None]
  /\ answer = [t \in Tasks |-> "none"]
  /\ half = [t \in Tasks |-> 1]
  /\ buf = [t \in Tasks |-> None]
  /\ mutex = None
  /\ complete = FALSE
  /\ bus = NoTransfer
  /\ stops = 0
  /\ pointer = [d \in Devices |-> None]
  /\ made = 0 /\ refused = 0 /\ slow = 0 /\ expired = 0
  /\ excused = {}

Halves(c) == IF c.op = "read" THEN 2 ELSE 1

-----------------------------------------------------------------------------
(* The controller. *)

Busy == bus # NoTransfer

\* What the transfer does when it is carried out.
Moved ==
  IF bus.receive
  THEN /\ buf' = [buf EXCEPT ![bus.task] = pointer[bus.dev]]
       /\ UNCHANGED pointer
  ELSE /\ pointer' = [pointer EXCEPT ![bus.dev] = bus.reg]
       /\ UNCHANGED buf

NotMoved == UNCHANGED <<buf, pointer>>

\* A transfer that is cut off may have been carried out, and may or may not show a
\* stop condition later.
CutOff ==
  /\ Moved \/ NotMoved
  /\ stops' \in {stops, stops + 1}

\* i2cNotification for the stop condition at the end of a transfer.
Finish ==
  /\ Busy
  /\ Moved
  /\ bus' = NoTransfer
  /\ complete' = TRUE
  /\ UNCHANGED <<control, mutex, stops, counters, expired, excused>>

\* The device does not acknowledge: i2cNotification sets the stop condition, whose
\* interrupt completes the transfer like any other.
Refuse ==
  /\ Busy
  /\ refused < MaxRefused
  /\ refused' = refused + 1
  /\ excused' = excused \cup {bus.task}
  /\ bus' = NoTransfer
  /\ complete' = TRUE
  /\ UNCHANGED <<control, buf, mutex, stops, pointer, made, slow, expired>>

\* A late stop condition.
StopDetected ==
  /\ stops > 0
  /\ stops' = stops - 1
  /\ complete' = TRUE
  /\ UNCHANGED <<control, buf, mutex, bus, pointer, counters, expired, excused>>

\* The transfer will outlast its timeout, if it has one.
Slow ==
  /\ Busy
  /\ ~bus.slow
  /\ slow < MaxSlow
  /\ slow' = slow + 1
  /\ bus' = [bus EXCEPT !.slow = TRUE]
  /\ UNCHANGED <<control, buf, mutex, complete, stops, pointer, made, refused, expired, excused>>

-----------------------------------------------------------------------------
(* The tasks. *)

Running(t) == answer[t] = "running"

Call(t, c) ==
  /\ ~Running(t)
  /\ made < MaxCalls
  /\ made' = made + 1
  /\ call' = [call EXCEPT ![t] = c]
  /\ answer' = [answer EXCEPT ![t] = "running"]
  /\ half' = [half EXCEPT ![t] = 1]
  /\ buf' = [buf EXCEPT ![t] = None]
  /\ excused' = excused \ {t}
  /\ UNCHANGED <<mutex, complete, bus, stops, pointer, refused, slow, expired>>

TransferNoPointer(t) ==
  [task |-> t, receive |-> call[t].op = "read",
   dev |-> call[t].dev, reg |-> call[t].reg, slow |-> FALSE]

\* i2cReadReg sends the number of the register, then receives.
Transfer(t) ==
  [task |-> t, receive |-> call[t].op = "read" /\ half[t] = 2,
   dev |-> call[t].dev, reg |-> call[t].reg, slow |-> FALSE]

\* The tasks that are between their two transfers, other than t, with t's device.
BetweenHalves(t) ==
  {u \in Tasks \ {t} : Running(u) /\ half[u] = 2 /\ call[u].dev = call[t].dev}

\* The mutex is taken and the transfer started, on top of one that may still be going
\* on.
Start(t) ==
  /\ Running(t)
  /\ mutex = None
  /\ mutex' = t
  /\ bus' = Transfer(t)
  /\ \/ Busy /\ CutOff
     \/ ~Busy /\ NotMoved /\ UNCHANGED stops
  /\ excused' = excused \cup BetweenHalves(t)
  /\ UNCHANGED <<control, complete, counters, expired>>

\* Only the command manager's scan of the bus sets a limit to this wait.
MutexTimeout(t) ==
  /\ Running(t)
  /\ mutex \notin {None, t}
  /\ call[t].mutexTimeout
  /\ answer' = [answer EXCEPT ![t] = "MUTEX_TIMEOUT"]
  /\ UNCHANGED <<call, half, buf, mutex, complete, bus, stops, pointer, counters, expired, excused>>

KeepComplete == UNCHANGED complete

TakeComplete == complete' = FALSE

\* The semaphore is there: SUCCESS, or on to the second transfer.
Completed(t) ==
  /\ mutex = t
  /\ complete
  /\ TakeComplete
  /\ mutex' = None
  /\ \/ /\ half[t] < Halves(call[t])
        /\ half' = [half EXCEPT ![t] = 2]
        /\ UNCHANGED answer
     \/ /\ half[t] = Halves(call[t])
        /\ answer' = [answer EXCEPT ![t] = "SUCCESS"]
        /\ UNCHANGED half
  /\ UNCHANGED <<call, buf, bus, stops, pointer, counters, expired, excused>>

ExpiredHolding(t) ==
  /\ mutex = t
  /\ ~complete
  /\ bus.slow
  /\ call[t].transferTimeout
  /\ CutOff
  /\ bus' = NoTransfer
  /\ expired' = expired + 1
  /\ answer' = [answer EXCEPT ![t] = "I2C_TRANSFER_TIMEOUT"]
  /\ UNCHANGED <<call, half, mutex, complete, counters, excused>>

\* i2cSetStop; the transfer is no longer waited for, and nothing takes its semaphore.
Expired(t) ==
  /\ mutex = t
  /\ ~complete
  /\ bus.slow
  /\ call[t].transferTimeout
  /\ CutOff
  /\ bus' = NoTransfer
  /\ expired' = expired + 1
  /\ mutex' = None
  /\ answer' = [answer EXCEPT ![t] = "I2C_TRANSFER_TIMEOUT"]
  /\ UNCHANGED <<call, half, complete, counters, excused>>

TaskNext(t) ==
  \/ \E c \in Calls : c.task = t /\ Call(t, c)
  \/ Start(t)
  \/ MutexTimeout(t)
  \/ Completed(t)
  \/ Expired(t)

Next == Finish \/ Refuse \/ StopDetected \/ Slow \/ \E t \in Tasks : TaskNext(t)

Spec == Init /\ [][Next]_vars

\* A transfer that is not slow ends.  A ready task runs, and of those that wait for
\* the mutex each gets it in the end, as the calls of the others are periodic.
FairSpec ==
  /\ Spec
  /\ WF_vars(~bus.slow /\ Finish)
  /\ \A t \in Tasks : SF_vars(Start(t)) /\ WF_vars(Completed(t)) /\ WF_vars(Expired(t))

-----------------------------------------------------------------------------
(* Properties. *)

TypeOK ==
  /\ call \in [Tasks -> Calls \cup {None}]
  /\ answer \in [Tasks -> {"none", "running", "SUCCESS", "MUTEX_TIMEOUT", "I2C_TRANSFER_TIMEOUT"}]
  /\ half \in [Tasks -> 1 .. 2]
  /\ buf \in [Tasks -> Registers \cup {None}]
  /\ mutex \in Tasks \cup {None}
  /\ complete \in BOOLEAN
  /\ bus \in Transfers \cup {NoTransfer}
  /\ stops \in Nat
  /\ pointer \in [Devices -> Registers \cup {None}]
  /\ made \in Nat /\ refused \in Nat /\ slow \in Nat /\ expired \in Nat
  /\ excused \subseteq Tasks

One(p) == IF p THEN 1 ELSE 0

\* The completions that are on their way or not taken are at most one more than the
\* transfers that were given up, and no more than those while nobody holds the mutex:
\* as long as none was given up, a call that succeeds has waited for its own
\* transfer, and each one given up lets later calls run ahead of theirs by one.
OneAheadPerTimeout ==
  One(complete) + stops + One(Busy) <= expired + One(mutex # None)

\* As long as no transfer was given up, i2cReadReg reads the register it was asked
\* for, unless its device refused or another task came in between: i2cReadReg holds
\* the mutex for a transfer and not for the pair.
ReadsItsRegister ==
  \A t \in Tasks :
    answer[t] = "SUCCESS" /\ call[t].op = "read" /\ t \notin excused /\ expired = 0
      => buf[t] = call[t].reg

\* The holder waits without a limit for a transfer that may never end.
Hanging == \E t \in Tasks : mutex = t /\ ~call[t].transferTimeout /\ bus.slow

\* Every call returns, whatever the transfers before it did, unless the bus hangs in a
\* call without a limit (the scan of the bus), which then blocks all others.
CallsReturn == \A t \in Tasks : Running(t) ~> (~Running(t) \/ Hanging)
=============================================================================
