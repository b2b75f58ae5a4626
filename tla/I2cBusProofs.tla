----------------------------- MODULE I2cBusProofs -----------------------------
(***************************************************************************)
(* The I2C bus, for every number of tasks, devices and calls: the types,   *)
(* the bound on the completions that run ahead of their transfers, that an *)
(* undisturbed i2cReadReg reads the register it was asked for, and that no *)
(* wakeup is lost.                                                         *)
(***************************************************************************)
EXTENDS I2cBus, TLAPS

\* A call that runs is one of Calls.
CallsKnown == \A t \in Tasks : Running(t) => call[t] \in Calls

\* The transfer of task t is on the bus.
OnBus(t) ==
  /\ bus.task = t /\ bus.receive = Transfer(t).receive
  /\ bus.dev = call[t].dev /\ bus.reg = call[t].reg

\* A read that nothing came in between.
Undisturbed(t) == call[t].op = "read" /\ t \notin excused

\* Task t's current transfer is over and its completion not taken yet.
Done(t) == mutex = t /\ complete

\* While no transfer was given up, the bus works for the holder of the mutex alone: it
\* is either in its transfer or has completed it, and it is known which reads it came
\* in between.
HolderOnly ==
  /\ stops = 0
  /\ mutex = None => ~complete /\ ~Busy
  /\ mutex # None => Running(mutex) /\ (complete <=> ~Busy)
  /\ Busy => OnBus(mutex)
  /\ mutex # None => BetweenHalves(mutex) \subseteq excused

\* The pointer of the device, and then the buffer, hold what a read is about.
ReadProgress ==
  \A t \in Tasks : Running(t) /\ Undisturbed(t) =>
    /\ half[t] = 1 /\ Done(t) => pointer[call[t].dev] = call[t].reg
    /\ half[t] = 2 /\ ~Done(t) => pointer[call[t].dev] = call[t].reg
    /\ half[t] = 2 /\ Done(t) => buf[t] = call[t].reg

Orderly == expired = 0 => HolderOnly /\ ReadProgress

BusInv == TypeOK /\ CallsKnown /\ OneAheadPerTimeout /\ Orderly /\ ReadsItsRegister

-----------------------------------------------------------------------------
(* Types. *)

\* The initial state has its types, and nothing is ahead of anything.
LEMMA InitBusInv == Init => BusInv
<1>. SUFFICES ASSUME Init
             PROVE  BusInv
  OBVIOUS
<1>1. TypeOK
  <2>1. /\ call \in [Tasks -> Calls \cup {None}]
        /\ answer \in [Tasks -> {"none", "running", "SUCCESS", "MUTEX_TIMEOUT", "I2C_TRANSFER_TIMEOUT"}]
        /\ half \in [Tasks -> 1 .. 2]
        /\ buf \in [Tasks -> Registers \cup {None}]
        /\ pointer \in [Devices -> Registers \cup {None}]
    BY DEF Init
  <2>. QED
    BY <2>1 DEF Init, TypeOK
<1>2. CallsKnown /\ ReadsItsRegister /\ ReadProgress
  BY DEF Init, CallsKnown, ReadsItsRegister, ReadProgress, Running
<1>3. OneAheadPerTimeout
  BY DEF Init, OneAheadPerTimeout, One, Busy
<1>4. HolderOnly
  BY DEF Init, HolderOnly, Busy
<1>. QED
  BY <1>1, <1>2, <1>3, <1>4 DEF BusInv, Orderly

\* What the controller moves stays among the registers.
LEMMA MovedTypes ==
  ASSUME TypeOK, Busy, Moved \/ NotMoved
  PROVE  /\ buf' \in [Tasks -> Registers \cup {None}]
         /\ pointer' \in [Devices -> Registers \cup {None}]
<1>1. /\ bus.task \in Tasks /\ bus.dev \in Devices /\ bus.reg \in Registers
  BY DEF TypeOK, Busy, Transfers
<1>2. CASE Moved
  BY <1>1, <1>2 DEF TypeOK, Moved
<1>3. CASE NotMoved
  BY <1>3 DEF TypeOK, NotMoved
<1>. QED
  BY <1>2, <1>3

\* The transfer of a running call.
LEMMA TransferType ==
  ASSUME TypeOK, CallsKnown, NEW t \in Tasks, Running(t)
  PROVE  Transfer(t) \in Transfers
<1>1. call[t] \in Calls
  BY DEF CallsKnown
<1>2. call[t].dev \in Devices /\ call[t].reg \in Registers
  BY <1>1 DEF Devices, Registers
<1>. QED
  BY <1>2 DEF Transfer, Transfers

\* A slow transfer is a transfer.
LEMMA SlowIsBusy == TypeOK /\ bus.slow => Busy /\ bus \in Transfers
BY DEF TypeOK, Busy, NoTransfer

\* Every step keeps the types.
LEMMA TypeStep ==
  ASSUME TypeOK, CallsKnown, Next
  PROVE  TypeOK' /\ CallsKnown'
<1>1. CASE Finish
  BY <1>1, MovedTypes DEF Finish, TypeOK, CallsKnown, Running, control, counters
<1>2. CASE Refuse
  <2>1. bus.task \in Tasks
    BY <1>2 DEF Refuse, TypeOK, Busy, Transfers
  <2>. QED
    BY <1>2, <2>1 DEF Refuse, TypeOK, CallsKnown, Running, control
<1>3. CASE StopDetected
  BY <1>3 DEF StopDetected, TypeOK, CallsKnown, Running, control, counters
<1>4. CASE Slow
  <2>1. bus' \in Transfers
    BY <1>4 DEF Slow, Busy, TypeOK, Transfers
  <2>. QED
    BY <1>4, <2>1 DEF Slow, TypeOK, CallsKnown, Running, control
<1>5. CASE \E t \in Tasks : TaskNext(t)
  <2>. PICK t \in Tasks : TaskNext(t)
    BY <1>5
  <2>1. CASE \E c \in Calls : c.task = t /\ Call(t, c)
    BY <2>1 DEF Call, TypeOK, CallsKnown, Running
  <2>2. CASE Start(t)
    <3>1. bus' \in Transfers
      BY <2>2, TransferType DEF Start
    <3>2. /\ buf' \in [Tasks -> Registers \cup {None}]
          /\ pointer' \in [Devices -> Registers \cup {None}]
      BY <2>2, MovedTypes DEF Start, CutOff, NotMoved, TypeOK
    <3>3. stops' \in Nat
      BY <2>2 DEF Start, CutOff, TypeOK
    <3>4. excused' \subseteq Tasks
      BY <2>2 DEF Start, BetweenHalves, TypeOK
    <3>. QED
      BY <2>2, <3>1, <3>2, <3>3, <3>4 DEF Start, TypeOK, CallsKnown, Running, control, counters
  <2>3. CASE MutexTimeout(t)
    BY <2>3 DEF MutexTimeout, TypeOK, CallsKnown, Running, counters
  <2>4. CASE Completed(t)
    <3>1. half' \in [Tasks -> 1 .. 2]
      BY <2>4 DEF Completed, TypeOK
    <3>2. answer' \in [Tasks -> {"none", "running", "SUCCESS", "MUTEX_TIMEOUT",
                                 "I2C_TRANSFER_TIMEOUT"}]
      BY <2>4 DEF Completed, TypeOK
    <3>3. CallsKnown'
      BY <2>4 DEF Completed, TypeOK, CallsKnown, Running
    <3>. QED
      BY <2>4, <3>1, <3>2, <3>3 DEF Completed, TakeComplete, TypeOK, counters
  <2>5. CASE Expired(t)
    <3>1. /\ buf' \in [Tasks -> Registers \cup {None}]
          /\ pointer' \in [Devices -> Registers \cup {None}]
      BY <2>5, MovedTypes, SlowIsBusy DEF Expired, CutOff
    <3>2. stops' \in Nat /\ expired' \in Nat
      BY <2>5 DEF Expired, CutOff, TypeOK
    <3>. QED
      BY <2>5, <3>1, <3>2 DEF Expired, TypeOK, CallsKnown, Running, counters
  <2>. QED
    BY <2>1, <2>2, <2>3, <2>4, <2>5 DEF TaskNext
<1>. QED
  BY <1>1, <1>2, <1>3, <1>4, <1>5 DEF Next

-----------------------------------------------------------------------------
(* Completions ahead of their transfers. *)

\* Every step keeps the bound.
LEMMA AheadStep ==
  ASSUME TypeOK, OneAheadPerTimeout, Next
  PROVE  OneAheadPerTimeout'
<1>t. stops \in Nat /\ expired \in Nat /\ mutex \in Tasks \cup {None} /\ None \notin Tasks
  BY BusAssumption DEF TypeOK
<1>1. CASE Finish
  BY <1>1, <1>t DEF Finish, OneAheadPerTimeout, One, Busy
<1>2. CASE Refuse
  BY <1>2, <1>t DEF Refuse, OneAheadPerTimeout, One, Busy
<1>3. CASE StopDetected
  BY <1>3, <1>t DEF StopDetected, OneAheadPerTimeout, One, Busy
<1>4. CASE Slow
  BY <1>4, <1>t DEF Slow, OneAheadPerTimeout, One, Busy
<1>5. CASE \E t \in Tasks : TaskNext(t)
  <2>. PICK t \in Tasks : TaskNext(t)
    BY <1>5
  <2>1. CASE \E c \in Calls : c.task = t /\ Call(t, c)
    BY <2>1 DEF Call, OneAheadPerTimeout, One, Busy
  <2>2. CASE Start(t)
    BY <2>2, <1>t DEF Start, CutOff, OneAheadPerTimeout, One, Busy, counters
  <2>3. CASE MutexTimeout(t)
    BY <2>3 DEF MutexTimeout, OneAheadPerTimeout, One, Busy
  <2>4. CASE Completed(t)
    BY <2>4, <1>t DEF Completed, TakeComplete, OneAheadPerTimeout, One, Busy
  <2>5. CASE Expired(t)
    <3>1. Busy
      BY <2>5, SlowIsBusy DEF Expired
    <3>. QED
      BY <2>5, <3>1, <1>t DEF Expired, CutOff, OneAheadPerTimeout, One, Busy
  <2>. QED
    BY <2>1, <2>2, <2>3, <2>4, <2>5 DEF TaskNext
<1>. QED
  BY <1>1, <1>2, <1>3, <1>4, <1>5 DEF Next

-----------------------------------------------------------------------------
(* Reads. *)

\* Only Expired counts a transfer that was given up, and it never takes one back.
LEMMA ExpiredGrows ==
  ASSUME TypeOK, Next, expired' = 0
  PROVE  expired = 0 /\ ~\E t \in Tasks : Expired(t)
<1>1. ASSUME NEW t \in Tasks, Expired(t) PROVE FALSE
  BY <1>1 DEF Expired, TypeOK
<1>. QED
  BY <1>1 DEF Next, TaskNext, Finish, Refuse, StopDetected, Slow, Call, Start, MutexTimeout,
              Completed, counters

\* The holder's transfer, as long as no step of its own changed it.
LEMMA SameTransfer ==
  ASSUME NEW t \in Tasks, call'[t] = call[t], half'[t] = half[t], bus' = bus, OnBus(t)
  PROVE  OnBus(t)'
BY DEF OnBus, Transfer

\* The end of a transfer and the steps around it keep the order.
LEMMA FinishStep ==
  ASSUME TypeOK, CallsKnown, HolderOnly, ReadProgress, ReadsItsRegister, expired = 0, Finish
  PROVE  HolderOnly' /\ ReadProgress' /\ ReadsItsRegister'
<1> DEFINE h == mutex
<1>1. /\ h \in Tasks /\ Running(h) /\ OnBus(h) /\ ~complete /\ call[h] \in Calls
      /\ mutex # None
  BY DEF Finish, HolderOnly, TypeOK, CallsKnown
<1>2. HolderOnly'
  BY <1>1 DEF Finish, HolderOnly, Busy, Running, control, OnBus, BetweenHalves
<1>3. ReadProgress'
  <2>. SUFFICES ASSUME NEW t \in Tasks, Running(t), Undisturbed(t)
                PROVE  (/\ half[t] = 1 /\ Done(t) => pointer[call[t].dev] = call[t].reg
                        /\ half[t] = 2 /\ ~Done(t) => pointer[call[t].dev] = call[t].reg
                        /\ half[t] = 2 /\ Done(t) => buf[t] = call[t].reg)'
    BY DEF ReadProgress, Running, Undisturbed, Finish, control
  <2>0. half[t] \in 1 .. 2 /\ call[t].dev \in Devices /\ call[t].op = "read" /\ t \notin excused
    BY DEF TypeOK, CallsKnown, Devices, Undisturbed
  <2>u. call' = call /\ half' = half /\ mutex' = mutex /\ complete' = TRUE
    BY DEF Finish, control
  <2>1. CASE t = h
    <3>1. Done(t)' /\ ~Done(t)
      BY <1>1, <2>1, <2>u DEF Done
    <3>2. bus.receive <=> half[t] = 2
      BY <1>1, <2>0, <2>1 DEF OnBus, Transfer
    <3>3. bus.task = t /\ bus.dev = call[t].dev /\ bus.reg = call[t].reg
      BY <1>1, <2>1 DEF OnBus
    <3>4. half[t] = 1 => pointer'[call[t].dev] = call[t].reg
      BY <2>0, <3>2, <3>3 DEF Finish, Moved, TypeOK
    <3>5. half[t] = 2 => pointer[call[t].dev] = call[t].reg
      BY <3>1 DEF ReadProgress
    <3>6. half[t] = 2 => buf'[t] = call[t].reg
      BY <2>0, <3>2, <3>3, <3>5 DEF Finish, Moved, TypeOK
    <3>. QED
      BY <2>u, <3>1, <3>4, <3>6
  <2>2. CASE t # h
    <3>1. ~Done(t)' /\ ~Done(t)
      BY <2>2, <2>u DEF Done
    <3>2. half[t] = 2 => pointer[call[t].dev] = call[t].reg /\ call[t].dev # call[h].dev
      BY <1>1, <2>0, <2>2, <3>1 DEF ReadProgress, HolderOnly, BetweenHalves
    <3>3. half[t] = 2 => pointer'[call[t].dev] = call[t].reg
      BY <1>1, <2>0, <3>2 DEF Finish, Moved, OnBus, TypeOK
    <3>. QED
      BY <2>u, <3>1, <3>3
  <2>. QED
    BY <2>1, <2>2
<1>4. ReadsItsRegister'
  BY <1>1 DEF Finish, Moved, OnBus, Running, ReadsItsRegister, TypeOK, control
<1>. QED
  BY <1>2, <1>3, <1>4

\* A refused transfer completes, and its read is no longer undisturbed.
LEMMA RefuseStep ==
  ASSUME TypeOK, CallsKnown, HolderOnly, ReadProgress, ReadsItsRegister, expired = 0, Refuse
  PROVE  HolderOnly' /\ ReadProgress' /\ ReadsItsRegister'
<1>1. mutex \in Tasks /\ OnBus(mutex) /\ ~complete
  BY DEF Refuse, HolderOnly, TypeOK
<1>2. HolderOnly'
  BY <1>1 DEF Refuse, HolderOnly, Busy, Running, control, OnBus, BetweenHalves
<1>3. ReadProgress'
  <2>. SUFFICES ASSUME NEW t \in Tasks, Running(t), Undisturbed(t), t # mutex
                PROVE  (/\ half[t] = 1 /\ Done(t) => pointer[call[t].dev] = call[t].reg
                        /\ half[t] = 2 /\ ~Done(t) => pointer[call[t].dev] = call[t].reg
                        /\ half[t] = 2 /\ Done(t) => buf[t] = call[t].reg)'
    BY <1>1 DEF ReadProgress, Running, Undisturbed, Refuse, control, OnBus
  <2>. QED
    BY DEF ReadProgress, Refuse, Done, control
<1>4. ReadsItsRegister'
  BY DEF Refuse, ReadsItsRegister, control
<1>. QED
  BY <1>2, <1>3, <1>4

\* A transfer that turns out slow is still the holder's.
LEMMA SlowStep ==
  ASSUME TypeOK, CallsKnown, HolderOnly, ReadProgress, ReadsItsRegister, expired = 0, Slow
  PROVE  HolderOnly' /\ ReadProgress' /\ ReadsItsRegister'
<1>1. bus \in Transfers
  BY DEF Slow, TypeOK, Busy
<1>2. /\ Busy' /\ bus'.task = bus.task /\ bus'.receive = bus.receive /\ bus'.dev = bus.dev
      /\ bus'.reg = bus.reg
  BY <1>1 DEF Slow, Busy, Transfers, NoTransfer
<1>3. Busy /\ OnBus(mutex)'
  BY <1>2 DEF HolderOnly, OnBus, Transfer, Slow, control
<1>4. HolderOnly'
  BY <1>2, <1>3 DEF HolderOnly, Slow, control, Running, BetweenHalves
<1>5. ReadProgress' /\ ReadsItsRegister'
  BY DEF ReadProgress, ReadsItsRegister, Running, Undisturbed, Done, Slow, control
<1>. QED
  BY <1>4, <1>5

\* A new call starts from nothing, and disturbs no read.
LEMMA CallStep ==
  ASSUME TypeOK, CallsKnown, HolderOnly, ReadProgress, ReadsItsRegister, expired = 0,
         NEW t \in Tasks, NEW c \in Calls, Call(t, c)
  PROVE  HolderOnly' /\ ReadProgress' /\ ReadsItsRegister'
<1>1. t # mutex
  BY BusAssumption DEF Call, HolderOnly
<1>2. HolderOnly'
  BY <1>1 DEF Call, HolderOnly, Busy, OnBus, Transfer, Running, BetweenHalves, TypeOK
<1>3. ReadProgress'
  BY <1>1 DEF Call, ReadProgress, Running, Undisturbed, Done, TypeOK
<1>4. ReadsItsRegister'
  BY DEF Call, ReadsItsRegister, TypeOK
<1>. QED
  BY <1>2, <1>3, <1>4

\* A transfer starts on a free bus and disturbs the reads of its device.
LEMMA StartStep ==
  ASSUME TypeOK, CallsKnown, HolderOnly, ReadProgress, ReadsItsRegister, expired = 0,
         NEW t \in Tasks, Start(t)
  PROVE  HolderOnly' /\ ReadProgress' /\ ReadsItsRegister'
<1>1. ~complete /\ ~Busy /\ NotMoved /\ UNCHANGED stops /\ t # None
  BY BusAssumption DEF Start, HolderOnly
<1>2. Busy' /\ OnBus(t)'
  BY <1>1, BusAssumption DEF Start, Busy, NoTransfer, OnBus, Transfer, control
<1>3. HolderOnly'
  BY <1>1, <1>2 DEF Start, HolderOnly, Running, BetweenHalves, control
<1>4. ReadProgress'
  BY <1>1 DEF Start, NotMoved, ReadProgress, Running, Undisturbed, Done, control
<1>5. ReadsItsRegister'
  BY <1>1 DEF Start, NotMoved, ReadsItsRegister, control
<1>. QED
  BY <1>3, <1>4, <1>5

\* A call that gives up waiting for the mutex leaves the bus as it is.
LEMMA MutexTimeoutStep ==
  ASSUME TypeOK, CallsKnown, HolderOnly, ReadProgress, ReadsItsRegister, expired = 0,
         NEW t \in Tasks, MutexTimeout(t)
  PROVE  HolderOnly' /\ ReadProgress' /\ ReadsItsRegister'
<1>1. HolderOnly'
  BY DEF MutexTimeout, HolderOnly, Busy, OnBus, Transfer, Running, BetweenHalves, TypeOK
<1>2. ReadProgress'
  BY DEF MutexTimeout, ReadProgress, Running, Undisturbed, Done, TypeOK
<1>3. ReadsItsRegister'
  BY DEF MutexTimeout, ReadsItsRegister, TypeOK
<1>. QED
  BY <1>1, <1>2, <1>3

\* A completion taken is the caller's own.
LEMMA CompletedStep ==
  ASSUME TypeOK, CallsKnown, HolderOnly, ReadProgress, ReadsItsRegister, expired = 0,
         NEW t \in Tasks, Completed(t)
  PROVE  HolderOnly' /\ ReadProgress' /\ ReadsItsRegister'
<1>1. /\ mutex = t /\ t # None /\ Running(t) /\ complete /\ ~Busy /\ Done(t)
      /\ half[t] \in 1 .. 2
  BY BusAssumption DEF Completed, HolderOnly, TypeOK, Done
<1>2. HolderOnly'
  BY <1>1 DEF Completed, TakeComplete, HolderOnly, Busy
<1>3. ReadProgress'
  <2>. SUFFICES ASSUME NEW u \in Tasks, Running(u)', Undisturbed(u)'
                PROVE  /\ ~Done(u)'
                       /\ half'[u] = 2 => pointer'[call'[u].dev] = call'[u].reg
    BY DEF ReadProgress
  <2>1. ~Done(u)'
    BY DEF Completed, TakeComplete, Done
  <2>2. Running(u) /\ Undisturbed(u)
    BY <1>1 DEF Completed, Running, Undisturbed, TypeOK
  <2>3. CASE u = t
    <3>1. half'[t] = 2 => half[t] = 1
      <4>1. CASE half[t] < Halves(call[t])
        BY <1>1, <4>1 DEF Halves
      <4>2. CASE half[t] = Halves(call[t]) /\ answer' = [answer EXCEPT ![t] = "SUCCESS"]
        BY <2>3, <4>2 DEF Running, TypeOK
      <4>. QED
        BY <4>1, <4>2 DEF Completed
    <3>. QED
      BY <1>1, <2>1, <2>2, <2>3, <3>1 DEF Completed, ReadProgress
  <2>4. CASE u # t
    BY <1>1, <2>1, <2>2, <2>4 DEF Completed, ReadProgress, Done, TypeOK
  <2>. QED
    BY <2>1, <2>3, <2>4
<1>4. ReadsItsRegister'
  <2>. SUFFICES ASSUME NEW u \in Tasks, answer'[u] = "SUCCESS", call'[u].op = "read",
                       u \notin excused'
                PROVE  buf'[u] = call'[u].reg
    BY DEF ReadsItsRegister
  <2>0. call' = call /\ buf' = buf /\ excused' = excused
    BY DEF Completed
  <2>1. CASE u = t
    <3>1. half[t] = 2
      BY <1>1, <2>0, <2>1 DEF Completed, Halves, Running
    <3>. QED
      BY <1>1, <2>0, <2>1, <3>1 DEF ReadProgress, Undisturbed
  <2>2. CASE u # t
    <3>1. answer[u] = "SUCCESS"
      BY <2>2 DEF Completed, TypeOK
    <3>. QED
      BY <2>0, <3>1 DEF ReadsItsRegister
  <2>. QED
    BY <2>1, <2>2
<1>. QED
  BY <1>2, <1>3, <1>4

\* Every step keeps the order.
LEMMA OrderlyStep ==
  ASSUME BusInv, Next
  PROVE  Orderly' /\ ReadsItsRegister'
<1>. SUFFICES ASSUME expired' = 0
              PROVE  HolderOnly' /\ ReadProgress' /\ ReadsItsRegister'
  BY DEF Orderly, ReadsItsRegister
<1>1. /\ TypeOK /\ CallsKnown /\ ReadsItsRegister /\ expired = 0
      /\ ~\E t \in Tasks : Expired(t)
  BY ExpiredGrows DEF BusInv
<1>2. HolderOnly /\ ReadProgress
  BY <1>1 DEF BusInv, Orderly
<1>3. CASE Finish
  BY <1>1, <1>2, <1>3, FinishStep
<1>4. CASE Refuse
  BY <1>1, <1>2, <1>4, RefuseStep
<1>5. CASE StopDetected
  BY <1>2, <1>5 DEF StopDetected, HolderOnly
<1>6. CASE Slow
  BY <1>1, <1>2, <1>6, SlowStep
<1>7. CASE \E t \in Tasks : TaskNext(t)
  <2>. PICK t \in Tasks : TaskNext(t)
    BY <1>7
  <2>1. CASE \E c \in Calls : c.task = t /\ Call(t, c)
    BY <1>1, <1>2, <2>1, CallStep
  <2>2. CASE Start(t)
    BY <1>1, <1>2, <2>2, StartStep
  <2>3. CASE MutexTimeout(t)
    BY <1>1, <1>2, <2>3, MutexTimeoutStep
  <2>4. CASE Completed(t)
    BY <1>1, <1>2, <2>4, CompletedStep
  <2>5. CASE Expired(t)
    BY <1>1, <2>5
  <2>. QED
    BY <2>1, <2>2, <2>3, <2>4, <2>5 DEF TaskNext
<1>. QED
  BY <1>3, <1>4, <1>5, <1>6, <1>7 DEF Next

-----------------------------------------------------------------------------
(* The theorems. *)

\* All of it holds in every state.
LEMMA Invariance == Spec => []BusInv
<1>1. BusInv /\ UNCHANGED vars => BusInv'
  BY DEF BusInv, vars, control, counters, TypeOK, CallsKnown, Running, OneAheadPerTimeout, One,
         Busy, Orderly, HolderOnly, OnBus, Transfer, BetweenHalves, ReadProgress, Undisturbed,
         Done, ReadsItsRegister
<1>2. BusInv /\ Next => BusInv'
  BY TypeStep, AheadStep, OrderlyStep DEF BusInv
<1>. QED
  BY <1>1, <1>2, InitBusInv, PTL DEF Spec

\* Types.
THEOREM BusTypeCorrect == Spec => []TypeOK
<1>1. BusInv => TypeOK
  BY DEF BusInv
<1>. QED
  BY <1>1, Invariance, PTL

\* For any number of tasks and calls the completions ahead of their transfers are at most
\* as many as the transfers given up: a bus on which nothing timed out never reports
\* another transfer's completion.
THEOREM AheadCorrect == Spec => []OneAheadPerTimeout
<1>1. BusInv => OneAheadPerTimeout
  BY DEF BusInv
<1>. QED
  BY <1>1, Invariance, PTL

\* For any tasks, devices and registers: a register read that succeeds, on a bus on which
\* nothing timed out, with no refusal and no other task's transfer to the device in
\* between, has read that register.
THEOREM ReadCorrect == Spec => []ReadsItsRegister
<1>1. BusInv => ReadsItsRegister
  BY DEF BusInv
<1>. QED
  BY <1>1, Invariance, PTL
-----------------------------------------------------------------------------
(* No completion is lost. *)

\* Whoever holds the mutex has its completion, or is in a transfer that the controller
\* is still in and will complete or the task give up: it is never left waiting.
NotForsaken == mutex # None => Running(mutex) /\ (complete \/ (Busy /\ bus.task = mutex))

\* Whatever else the bus and the tasks do: late stop conditions, transfers started on top
\* of others, calls that give up.
LEMMA NotForsakenStep == ASSUME TypeOK, NotForsaken, Next PROVE NotForsaken'
<1>1. CASE Finish \/ Refuse \/ StopDetected
  BY <1>1 DEF Finish, Refuse, StopDetected, NotForsaken, Running, control
<1>2. CASE Slow
  <2>1. bus \in Transfers /\ bus' = [bus EXCEPT !.slow = TRUE]
    BY <1>2 DEF Slow, TypeOK, Busy
  <2>2. bus'.task = bus.task /\ bus'.task \in Tasks
    BY <2>1 DEF Transfers
  <2>3. Busy'
    BY <2>2, BusAssumption DEF Busy, NoTransfer
  <2>. QED
    BY <1>2, <2>2, <2>3 DEF Slow, NotForsaken, Running, control
<1>3. ASSUME NEW t \in Tasks, NEW c \in Calls, Call(t, c)
      PROVE  NotForsaken'
  <2>1. mutex' = mutex /\ UNCHANGED <<complete, bus>>
    BY <1>3 DEF Call
  <2>2. ASSUME mutex # None
        PROVE  Running(mutex)'
    <3>1. mutex # t /\ answer' = [answer EXCEPT ![t] = "running"] /\ Running(mutex)
      BY <1>3, <2>2 DEF Call, NotForsaken
    <3>. QED
      BY <2>1, <3>1 DEF Running, TypeOK
  <2>. QED
    BY <2>1, <2>2 DEF NotForsaken, Busy
<1>4. ASSUME NEW t \in Tasks, Start(t)
      PROVE  NotForsaken'
  <2>1. mutex' = t /\ bus'.task = t /\ answer' = answer /\ Running(t)
    BY <1>4 DEF Start, Transfer, control
  <2>2. Busy'
    BY <2>1, BusAssumption DEF Busy, NoTransfer
  <2>. QED
    BY <2>1, <2>2 DEF NotForsaken, Running
<1>5. ASSUME NEW t \in Tasks, MutexTimeout(t)
      PROVE  NotForsaken'
  <2>1. /\ mutex' = mutex /\ mutex # t /\ UNCHANGED <<complete, bus>>
        /\ answer' = [answer EXCEPT ![t] = "MUTEX_TIMEOUT"]
    BY <1>5 DEF MutexTimeout
  <2>2. mutex # None => answer'[mutex] = answer[mutex]
    BY <2>1 DEF TypeOK
  <2>. QED
    BY <2>1, <2>2 DEF NotForsaken, Running, Busy
<1>6. ASSUME NEW t \in Tasks, Completed(t) \/ Expired(t)
      PROVE  NotForsaken'
  BY <1>6 DEF Completed, Expired, NotForsaken
<1>. QED
  BY <1>1, <1>2, <1>3, <1>4, <1>5, <1>6 DEF Next, TaskNext

\* For any tasks, calls, timeouts and refusals no wakeup is lost: a task that waits for
\* the end of its transfer has a completion to take, or the controller is in that very
\* transfer.  (What is left to fairness is that a transfer that is not slow ends.)
THEOREM NotForsakenCorrect == Spec => []NotForsaken
<1>1. Init => NotForsaken
  BY DEF Init, NotForsaken
<1>2. TypeOK /\ NotForsaken /\ [Next]_vars => NotForsaken'
  <2>1. CASE UNCHANGED vars
    BY <2>1 DEF vars, control, NotForsaken, Running, Busy
  <2>. QED
    BY <2>1, NotForsakenStep
<1>. QED
  BY <1>1, <1>2, BusTypeCorrect, PTL DEF Spec
=============================================================================
