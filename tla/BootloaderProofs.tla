--------------------------- MODULE BootloaderProofs ---------------------------
(***************************************************************************)
(* What the bootloader starts, for every set of images, layout of the      *)
(* flash and number of packets and resets: only an image that was written  *)
(* as a whole.                                                             *)
(***************************************************************************)
EXTENDS Bootloader, TLAPS

Contents == Images \cup {Blank, Garbage}

\* The part of the types that the proof uses.
FlashTypes ==
  /\ flash \in [1 .. Cells -> Contents]
  /\ written \in [1 .. Cells -> SUBSET (Images \cup {Garbage})]
  /\ op \in [image : Contents, todo : SUBSET (1 .. Cells \cup DOMAIN Sectors)]
  /\ pc = "write" => op.image # Blank

\* A blank cell was given nothing since it was erased, and one that holds data of an
\* image nothing but these: programming only clears bits, so a cell that is given
\* anything else, or whose erasing was cut off, holds neither.
CellsTell ==
  \A c \in 1 .. Cells :
    /\ flash[c] = Blank => written[c] = {}
    /\ flash[c] \in Images => written[c] = {flash[c]}

\* The application that was started is in flash.
StartedIsThere ==
  pc = "app" =>
    /\ started \in Images
    /\ \A c \in 1 .. Length[started] : flash[c] = started

BootInv == FlashTypes /\ CellsTell /\ StartedIsThere

-----------------------------------------------------------------------------
\* The cells of an image are cells.
LEMMA ImageFits == \A i \in Images : 1 .. Length[i] \subseteq 1 .. Cells
<1>. SUFFICES ASSUME NEW i \in Images
             PROVE  1 .. Length[i] \subseteq 1 .. Cells
  OBVIOUS
<1>1. Length[i] \in 1 .. Cells /\ Cells \in Nat
  BY BootAssumption
<1>. QED
  BY <1>1

\* The factory's image was written as a whole.
LEMMA InitBootInv == Init => BootInv
<1>. SUFFICES ASSUME Init
             PROVE  BootInv
  OBVIOUS
<1>1. Factory \in Images /\ {Blank, Garbage} \cap Images = {} /\ Blank # Garbage
  BY BootAssumption
<1>2. FlashTypes
  BY <1>1 DEF Init, FlashTypes, Contents, NoOp
<1>3. CellsTell
  BY <1>1 DEF Init, CellsTell
<1>4. StartedIsThere
  BY DEF Init, StartedIsThere
<1>. QED
  BY <1>2, <1>3, <1>4 DEF BootInv

\* A new command leaves flash alone, and a packet of data is an image's or garbled.
LEMMA CommandStep ==
  ASSUME BootInv, OtherCommand \/ EraseApp \/ DownloadData
  PROVE  BootInv'
<1>0. {Blank, Garbage} \cap Images = {} /\ Blank # Garbage /\ Cells \in Nat
  BY BootAssumption
<1>1. CASE OtherCommand
  BY <1>1 DEF OtherCommand, Run, NoOp, BootInv, FlashTypes, Contents, CellsTell, StartedIsThere
<1>2. CASE EraseApp
  BY <1>2 DEF EraseApp, Run, BootInv, FlashTypes, Contents, CellsTell, StartedIsThere
<1>3. CASE DownloadData
  <2>. PICK i \in Images, k \in 1 .. Cells :
         \E d \in {i, Garbage} : Run("write", [image |-> d, todo |-> Packet(i, k)])
    BY <1>3 DEF DownloadData
  <2>1. PICK d \in {i, Garbage} : Run("write", [image |-> d, todo |-> Packet(i, k)])
    OBVIOUS
  <2>2. Packet(i, k) \subseteq 1 .. Cells
    <3>1. PacketCells \in Nat \ {0} /\ Length[i] \in 1 .. Cells
      BY BootAssumption
    <3>2. ASSUME NEW c \in Packet(i, k) PROVE c \in 1 .. Cells
      <4>1. c \in (k - 1) * PacketCells + 1 .. k * PacketCells /\ c <= Length[i]
        BY DEF Packet
      <4>2. (k - 1) * PacketCells \in Nat /\ k * PacketCells \in Nat
        BY <1>0, <3>1
      <4>. QED
        BY <1>0, <3>1, <4>1, <4>2
    <3>. QED
      BY <3>2
  <2>3. d \in Contents /\ d # Blank
    BY <1>0 DEF Contents
  <2>4. op' \in [image : Contents, todo : SUBSET (1 .. Cells \cup DOMAIN Sectors)]
    BY <2>1, <2>2, <2>3 DEF Run
  <2>. QED
    BY <2>1, <2>3, <2>4 DEF Run, BootInv, FlashTypes, CellsTell, StartedIsThere
<1>. QED
  BY <1>1, <1>2, <1>3

\* Erasing a sector forgets what its cells were given.
LEMMA EraseStep ==
  ASSUME BootInv, EraseSector
  PROVE  BootInv'
<1> DEFINE s == First(op.todo)
<1>0. {Blank, Garbage} \cap Images = {}
  BY BootAssumption
<1>1. /\ flash' = [c \in 1 .. Cells |-> IF c \in Sectors[s] THEN Blank ELSE flash[c]]
      /\ written' = [c \in 1 .. Cells |-> IF c \in Sectors[s] THEN {} ELSE written[c]]
      /\ op' = [op EXCEPT !.todo = @ \ {s}] /\ pc = "erase" /\ pc' = pc
  BY DEF EraseSector
<1>. HIDE DEF s
<1>2. FlashTypes'
  BY <1>1 DEF BootInv, FlashTypes, Contents
<1>3. CellsTell'
  BY <1>0, <1>1 DEF BootInv, CellsTell
<1>4. StartedIsThere'
  BY <1>1 DEF StartedIsThere
<1>. QED
  BY <1>2, <1>3, <1>4 DEF BootInv

\* Programming a cell.
LEMMA WriteStep ==
  ASSUME BootInv, WriteCell
  PROVE  BootInv'
<1> DEFINE w == First(op.todo)
<1>0. {Blank, Garbage} \cap Images = {} /\ Blank # Garbage
  BY BootAssumption
<1>1. /\ flash' = [flash EXCEPT ![w] = Programmed(@, op.image)]
      /\ written' = [written EXCEPT ![w] = @ \cup {op.image}]
      /\ \/ pc' = pc /\ op' = [op EXCEPT !.todo = @ \ {w}]
         \/ pc' = "hang" /\ op' = NoOp
      /\ pc = "write"
  BY DEF WriteCell
<1>. HIDE DEF w
<1>2. op.image \in Images \cup {Garbage}
  BY <1>1 DEF BootInv, FlashTypes, Contents
<1>3. FlashTypes'
  <2>1. op' \in [image : Contents, todo : SUBSET (1 .. Cells \cup DOMAIN Sectors)]
    BY <1>1 DEF BootInv, FlashTypes, NoOp, Contents
  <2>2. pc' = "write" => op'.image # Blank
    BY <1>1 DEF BootInv, FlashTypes
  <2>3. flash' \in [1 .. Cells -> Contents]
    BY <1>1, <1>2 DEF BootInv, FlashTypes, Programmed, Contents
  <2>4. written' \in [1 .. Cells -> SUBSET (Images \cup {Garbage})]
    BY <1>1, <1>2 DEF BootInv, FlashTypes
  <2>. QED
    BY <2>1, <2>2, <2>3, <2>4 DEF FlashTypes
<1>4. CellsTell'
  <2>. SUFFICES ASSUME NEW c \in 1 .. Cells
                PROVE  /\ flash'[c] = Blank => written'[c] = {}
                       /\ flash'[c] \in Images => written'[c] = {flash'[c]}
    BY DEF CellsTell
  <2>1. flash \in [1 .. Cells -> Contents] /\ written \in [1 .. Cells -> SUBSET (Images \cup {Garbage})]
    BY DEF BootInv, FlashTypes
  <2>2. CASE c = w
    <3>1. flash'[c] = Programmed(flash[c], op.image) /\ written'[c] = written[c] \cup {op.image}
      BY <1>1, <2>1, <2>2
    <3>. QED
      BY <1>0, <1>2, <3>1 DEF BootInv, CellsTell, Programmed
  <2>3. CASE c # w
    BY <1>1, <2>1, <2>3 DEF BootInv, CellsTell
  <2>. QED
    BY <2>2, <2>3
<1>5. StartedIsThere'
  BY <1>1 DEF StartedIsThere
<1>. QED
  BY <1>3, <1>4, <1>5 DEF BootInv

\* The jump goes to an image all of whose cells are in flash.
LEMMA JumpStep ==
  ASSUME BootInv, JumpToApp
  PROVE  BootInv'
BY DEF JumpToApp, Verified, BootInv, FlashTypes, CellsTell, StartedIsThere

\* A reset leaves each cell as it is, or as something that holds no image's data.
LEMMA ResetStep ==
  ASSUME BootInv, Reset
  PROVE  BootInv'
<1>0. {Blank, Garbage} \cap Images = {} /\ Blank # Garbage
  BY BootAssumption
<1>1. /\ flash' \in [1 .. Cells -> Contents]
      /\ \A c \in 1 .. Cells : flash'[c] \in {flash[c], Garbage}
      /\ written' = written /\ pc' = "read" /\ op' = NoOp
  BY DEF Reset, Cut, Contents
<1>2. FlashTypes'
  BY <1>1 DEF BootInv, FlashTypes, NoOp, Contents
<1>3. CellsTell'
  BY <1>0, <1>1 DEF BootInv, CellsTell
<1>4. StartedIsThere'
  BY <1>1 DEF StartedIsThere
<1>. QED
  BY <1>2, <1>3, <1>4 DEF BootInv

\* Time and the rest of the loop change neither flash nor what was started.
LEMMA OtherStep ==
  ASSUME BootInv, Tick \/ ReadTimedOut \/ Answer \/ ReadAgain
  PROVE  BootInv'
<1>1. CASE Tick
  BY <1>1 DEF Tick, timeVars, BootInv, FlashTypes, CellsTell, StartedIsThere
<1>2. CASE ReadTimedOut
  BY <1>2 DEF ReadTimedOut, timeVars, BootInv, FlashTypes, CellsTell, StartedIsThere
<1>3. CASE Answer
  BY <1>3 DEF Answer, NoOp, BootInv, FlashTypes, Contents, CellsTell, StartedIsThere
<1>4. CASE ReadAgain
  BY <1>4 DEF ReadAgain, BootInv, FlashTypes, CellsTell, StartedIsThere
<1>. QED
  BY <1>1, <1>2, <1>3, <1>4

\* All of it holds in every state.
LEMMA Invariance == Spec => []BootInv
<1>1. BootInv /\ Next => BootInv'
  BY CommandStep, EraseStep, WriteStep, JumpStep, ResetStep, OtherStep DEF Next, Loop
<1>2. BootInv /\ UNCHANGED vars => BootInv'
  BY DEF vars, timeVars, BootInv, FlashTypes, CellsTell, StartedIsThere
<1>. QED
  BY <1>1, <1>2, InitBootInv, PTL DEF Spec

\* For all images, sectors, packets and resets: the application that starts is an image
\* every cell of which was given that image's data, and no other, since it was erased.
THEOREM StartCorrect == Spec => []StartsWhatWasWritten
<1>1. BootInv => StartsWhatWasWritten
  BY ImageFits DEF BootInv, StartedIsThere, CellsTell, StartsWhatWasWritten
<1>. QED
  BY <1>1, Invariance, PTL
=============================================================================
