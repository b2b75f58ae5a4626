----------------------------- MODULE Bootloader -----------------------------
(***************************************************************************)
(* The bootloader: it reads packets from the UART, runs the command in     *)
(* each, and when none has come for a while it checks the application in   *)
(* flash and jumps to it.  The application is erased sector by sector and  *)
(* programmed cell by cell, and power may fail in the middle of either.    *)
(*                                                                         *)
(* The flash is a row of cells (of 16 bytes, the width of a bank); a cell  *)
(* is blank, holds what an image has there, or something else.  An image   *)
(* occupies the cells from 1 on; the first holds its metadata, the last    *)
(* its checksum.  The checksum is taken to tell all images and mixtures of *)
(* images apart.                                                           *)
(***************************************************************************)
EXTENDS Integers, FiniteSets

CONSTANTS
  Images,
  Length,        \* how many cells each image takes
  Factory,       \* the image the flash holds at first
  Cells,         \* how many there are
  PacketCells,   \* APP_WRITE_PACKET_SIZE in cells
  Sectors,       \* sets of cells, each erased as one, in this order
  JumpTimeout,   \* EXTENDED_ and DEFAULT_APP_JUMP_TIMEOUT, which are equal
  ReadTimeout,
  MaxTick,       \* the greatest value of blGetCurrentTick
  Blank, Garbage,
  MaxPackets, MaxResets  \* bounds

ASSUME BootAssumption ==
  /\ Length \in [Images -> 1 .. Cells]
  /\ Factory \in Images
  /\ Cells \in Nat /\ PacketCells \in Nat \ {0}
  /\ \A s \in DOMAIN Sectors : Sectors[s] \subseteq 1 .. Cells
  /\ {Blank, Garbage} \cap Images = {} /\ Blank # Garbage
  /\ JumpTimeout \in Nat /\ ReadTimeout \in Nat /\ MaxTick \in Nat

VARIABLES
  flash,
  pc,           \* what the loop is doing
  op,           \* the command it runs: the cells or sectors still to be done
  now,          \* blGetCurrentTick
  readTimeout,  \* of blUartReadBytes
  jumpToAppTimeout,
  started,      \* the image that was jumped to
  packets, resets,
  written       \* history: the image whose data each cell was given since it was erased

timeVars == <<readTimeout, jumpToAppTimeout>>
vars == <<flash, pc, op, now, timeVars, started, packets, resets, written>>

NoOp == [image |-> Blank, todo |-> {}]

Init ==
  /\ flash = [c \in 1 .. Cells |-> IF c <= Length[Factory] THEN Factory ELSE Blank]
  /\ written = [c \in 1 .. Cells |-> IF c <= Length[Factory] THEN {Factory} ELSE {}]
  /\ pc = "read" /\ op = NoOp
  /\ now = 0 /\ readTimeout = ReadTimeout /\ jumpToAppTimeout = JumpTimeout
  /\ started = Blank
  /\ packets = 0 /\ resets = 0

-----------------------------------------------------------------------------
(* Time. *)

\* The loop polls many times in a tick.  The counter of the timer is divided by 50, so
\* it falls back to zero long before a sum with it could overflow.
Tick ==
  /\ pc \in {"read", "erase", "write", "hang"}
  /\ ~(pc = "read" /\ now > readTimeout)
  /\ now' = IF now = MaxTick THEN 0 ELSE now + 1
  /\ UNCHANGED <<flash, pc, op, timeVars, started, packets, resets, written>>

\* blUartReadBytes gives up.
ReadTimedOut ==
  /\ pc = "read"
  /\ now > readTimeout
  /\ pc' = "check"
  /\ UNCHANGED <<flash, op, now, timeVars, started, packets, resets, written>>

-----------------------------------------------------------------------------
(* Commands. *)

Run(state, command) ==
  /\ pc = "read"
  /\ packets < MaxPackets
  /\ packets' = packets + 1
  /\ pc' = state
  /\ op' = command
  /\ UNCHANGED <<flash, now, timeVars, started, resets, written>>

\* Commands that change nothing: ping, the programming session, the computed checksum,
\* a corrupted or refused one.
OtherCommand == Run("done", NoOp)

EraseApp == Run("erase", [image |-> Blank, todo |-> DOMAIN Sectors])

First(s) == CHOOSE x \in s : \A y \in s : x <= y

\* The cells of packet k of an image.
Packet(i, k) == {c \in (k - 1) * PacketCells + 1 .. k * PacketCells : c <= Length[i]}

\* Data that were garbled on the way are programmed as they are.
DownloadData ==
  \E i \in Images, k \in 1 .. Cells :
    /\ Packet(i, k) # {}
    /\ \E d \in {i, Garbage} : Run("write", [image |-> d, todo |-> Packet(i, k)])

EraseSector ==
  /\ pc = "erase"
  /\ op.todo # {}
  /\ LET s == First(op.todo)
     IN  /\ flash' = [c \in 1 .. Cells |-> IF c \in Sectors[s] THEN Blank ELSE flash[c]]
         /\ written' = [c \in 1 .. Cells |-> IF c \in Sectors[s] THEN {} ELSE written[c]]
         /\ op' = [op EXCEPT !.todo = @ \ {s}]
  /\ UNCHANGED <<pc, now, timeVars, started, packets, resets>>

Programmed(old, new) == IF old \in {Blank, new} THEN new ELSE Garbage

\* A cell that is not blank keeps the bits that are already programmed, or
\* programming fails and blFlashWaitFsmStatusSuccess waits for ever.
WriteCell ==
  /\ pc = "write"
  /\ op.todo # {}
  /\ LET c == First(op.todo)
     IN  /\ flash' = [flash EXCEPT ![c] = Programmed(@, op.image)]
         /\ written' = [written EXCEPT ![c] = @ \cup {op.image}]
         /\ \/ pc' = pc /\ op' = [op EXCEPT !.todo = @ \ {c}]
            \/ flash[c] # Blank /\ pc' = "hang" /\ op' = NoOp
  /\ UNCHANGED <<now, timeVars, started, packets, resets>>

Answer ==
  /\ \/ pc = "done"
     \/ pc \in {"erase", "write"} /\ op.todo = {}
  /\ pc' = "check"
  /\ op' = NoOp
  /\ jumpToAppTimeout' = now + JumpTimeout
  /\ UNCHANGED <<flash, now, readTimeout, started, packets, resets, written>>

-----------------------------------------------------------------------------
(* The jump. *)

App == flash[1]

BlankCheckAll == \E c \in 1 .. Cells : flash[c] = Blank

BlankCheck == \E c \in 1 .. Length[App] : flash[c] = Blank

ChecksNoCrc == App \in Images /\ ~BlankCheck

\* verifyMetadata: the metadata of a whole cell say where the checksum is; those of a
\* garbled one do not have the magic number, or a checksum that fits.
Verified ==
  /\ App \in Images
  /\ ~BlankCheck
  /\ \A c \in 1 .. Length[App] : flash[c] = App

Due == now > jumpToAppTimeout

JumpToApp ==
  /\ pc = "check"
  /\ Due
  /\ Verified
  /\ pc' = "app"
  /\ started' = App
  /\ UNCHANGED <<flash, op, now, timeVars, packets, resets, written>>

ReadAgain ==
  /\ pc = "check"
  /\ ~(Due /\ Verified)
  /\ pc' = "read"
  /\ readTimeout' = now + ReadTimeout
  /\ UNCHANGED <<flash, op, now, jumpToAppTimeout, started, packets, resets, written>>

-----------------------------------------------------------------------------
\* What a cell may hold when power fails while it is changed.
Cut(c) ==
  IF \/ pc = "erase" /\ op.todo # {} /\ c \in Sectors[First(op.todo)]
     \/ pc = "write" /\ op.todo # {} /\ c = First(op.todo)
  THEN {flash[c], Garbage}
  ELSE {flash[c]}

\* A reset by command, by the watchdog, or because power fails.
Reset ==
  /\ resets < MaxResets
  /\ resets' = resets + 1
  /\ flash' \in {f \in [1 .. Cells -> Images \cup {Blank, Garbage}] :
                   \A c \in 1 .. Cells : f[c] \in Cut(c)}
  /\ pc' = "read"
  /\ op' = NoOp
  /\ now' = 0
  /\ readTimeout' = ReadTimeout
  /\ jumpToAppTimeout' = JumpTimeout
  /\ started' = Blank
  /\ UNCHANGED <<packets, written>>

Loop == ReadTimedOut \/ EraseSector \/ WriteCell \/ Answer \/ JumpToApp \/ ReadAgain

Next == Tick \/ Loop \/ OtherCommand \/ EraseApp \/ DownloadData \/ Reset

Spec == Init /\ [][Next]_vars

\* Time passes and the loop goes round; packets and resets come or do not.
FairSpec == Spec /\ WF_vars(Tick) /\ WF_vars(Loop)

-----------------------------------------------------------------------------
(* Properties. *)

TypeOK ==
  /\ flash \in [1 .. Cells -> Images \cup {Blank, Garbage}]
  /\ written \in [1 .. Cells -> SUBSET (Images \cup {Garbage})]
  /\ pc \in {"read", "erase", "write", "done", "hang", "check", "app"}
  /\ op.image \in Images \cup {Blank, Garbage}
  /\ now \in 0 .. MaxTick
  /\ readTimeout \in Nat /\ jumpToAppTimeout \in Nat
  /\ started \in Images \cup {Blank}
  /\ packets \in Nat /\ resets \in Nat

\* What starts is an image all of whose cells were given its data, and nothing else,
\* since they were last erased, in whatever order packets of several images came, were
\* repeated, went missing or were cut off by a reset.
StartsWhatWasWritten ==
  pc = "app" => \A c \in 1 .. Length[started] : written[c] = {started}

\* An image that is complete starts unless another packet comes, also when resets do,
\* provided the timeout ends before the counter falls back to zero: after that neither
\* the timeout of the jump nor that of a read which began before it ever passes.
Complete == \E i \in Images : \A c \in 1 .. Length[i] : flash[c] = i

Ready ==
  /\ pc = "read"
  /\ Complete
  /\ now <= jumpToAppTimeout
  /\ readTimeout <= jumpToAppTimeout + ReadTimeout
  /\ jumpToAppTimeout + 2 * (ReadTimeout + 1) <= MaxTick

CompleteStarts == Ready ~> (pc = "app" \/ pc \in {"erase", "write", "done"})
=============================================================================
