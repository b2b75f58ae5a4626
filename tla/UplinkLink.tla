----------------------------- MODULE UplinkLink -----------------------------
(***************************************************************************)
(* The uplink of the default build from byte to frame.  The ground stuffs  *)
(* a frame and fills it up with zeros to the size in which the comms       *)
(* manager reads the UART (I_FRAME_COMMS_RECV_SIZE); what the manager has  *)
(* read it pushes, up to the second flag, through the decode queue to the  *)
(* uplink decoder.  Until it uplinks again it reads nothing, and the UART   *)
(* driver drops what arrives.  On the way bytes may be lost or changed.    *)
(*                                                                         *)
(* Every frame has a number and contents of its own, so that what the      *)
(* decoder passes on can be told apart.                                    *)
(***************************************************************************)
EXTENDS UplinkDecoder, Ax25

CONSTANTS
  Frames,       \* the frames the ground sends, one after the other
  BlockSize,    \* I_FRAME_COMMS_RECV_SIZE, less than AX25_MAXIMUM_PKT_LEN
  QueueLength,  \* DECODE_DATA_QUEUE_LENGTH
  Garbles,      \* what a byte may be changed to
  MaxLost,      \* bound on the bytes lost
  MaxGarbled    \* bound on the bytes changed

ASSUME LinkAssumption ==
  /\ Frames \in Seq(Seq(0 .. 255))
  /\ \A n \in DOMAIN Frames :
       Frames[n] # <<>> /\ Stuff(Frames[n]) \in Seq(Bytes) /\ Len(Stuff(Frames[n])) <= BlockSize
  /\ \A m, n \in DOMAIN Frames : Frames[m] = Frames[n] => m = n
  /\ AX25_FLAG = Flag
  /\ BlockSize \in Nat /\ BlockSize <= AxDataSize
  /\ QueueLength \in Nat \ {0}
  /\ 0 \in Bytes /\ Garbles \subseteq Bytes
  /\ MaxLost \in Nat
  /\ MaxGarbled \in Nat

VARIABLES
  frame,    \* the frame the ground sends, stuffed
  air,      \* what the ground has sent and the UART not yet read
  block,    \* readBytes, as far as it has been read
  busy,     \* has handleUplinkingState read its block?
  pushing,  \* what it has yet to push
  queue,    \* the decode queue
  sent,     \* how many frames the ground has sent
  spoilt,   \* history: the frames that did not arrive as they were sent
  lost, garbled

linkVars == <<frame, air, block, busy, pushing, queue, sent, spoilt, lost, garbled>>
vars     == <<decoderVars, linkVars>>

Init ==
  /\ DecoderInit
  /\ frame = <<>> /\ air = <<>> /\ block = <<>> /\ busy = FALSE /\ pushing = <<>> /\ queue = <<>>
  /\ sent = 0 /\ spoilt = {} /\ lost = 0 /\ garbled = 0

Padded(s) == [k \in 1 .. BlockSize |-> IF k <= Len(s) THEN s[k] ELSE 0]

\* The ground waits for the answers to a frame, and then for the manager to uplink
\* again, or gives up on a manager that waits for the rest of a block: the first
\* bytes of the next frame are then taken for it.
Send ==
  /\ air = <<>>
  /\ ~busy
  /\ sent < Len(Frames)
  /\ sent' = sent + 1
  /\ frame' = Stuff(Frames[sent + 1])
  /\ air' = Padded(frame')
  /\ spoilt' = IF block = <<>> THEN spoilt ELSE spoilt \cup {sent + 1}
  /\ UNCHANGED <<decoderVars, block, busy, pushing, queue, lost, garbled>>

\* The zeros after the end flag belong to no frame.
Position == BlockSize - Len(air) + 1
Spoilt   == IF Position <= Len(frame) THEN spoilt \cup {sent} ELSE spoilt

Lose ==
  /\ air # <<>>
  /\ lost < MaxLost
  /\ lost' = lost + 1
  /\ spoilt' = Spoilt
  /\ air' = Tail(air)
  /\ UNCHANGED <<decoderVars, frame, block, busy, pushing, queue, sent, garbled>>

\* What a full block leaves to push: everything up to the second flag, or, where
\* there is none, more than was read, the rest of the zeroed readBytes.
PushedToFlag(s) ==
  LET ends == {k \in 1 .. Len(s) : s[k] = AX25_FLAG}
  IN  IF ends = {} THEN [k \in 1 .. AxDataSize |-> IF k <= Len(s) THEN s[k] ELSE 0]
      ELSE SubSeq(s, 1, CHOOSE k \in ends : \A j \in ends : k <= j)

Pushed(s) ==
  LET ends == {k \in 2 .. Len(s) : s[k] = AX25_FLAG}
  IN  IF ends = {} THEN [k \in 1 .. AxDataSize |-> IF k <= Len(s) THEN s[k] ELSE 0]
      ELSE SubSeq(s, 1, CHOOSE k \in ends : \A j \in ends : k <= j)

\* handleUplinkingState reads blocks of a fixed size and never looks for a start flag.
Read(b) ==
  /\ IF Len(block) + 1 < BlockSize
     THEN /\ block' = Append(block, b)
          /\ UNCHANGED <<busy, pushing>>
     ELSE /\ block' = <<>>
          /\ busy' = TRUE
          /\ pushing' = Pushed(Append(block, b))
  /\ UNCHANGED <<decoderVars, frame, queue, sent, lost>>

ReadByte ==
  /\ air # <<>>
  /\ ~busy
  /\ air' = Tail(air)
  /\ \/ Read(Head(air)) /\ UNCHANGED <<spoilt, garbled>>
     \/ /\ garbled < MaxGarbled
        /\ \E b \in Garbles \ {Head(air)} : Read(b)
        /\ garbled' = garbled + 1
        /\ spoilt' = Spoilt

\* Nobody reads: the byte is gone.
DropByte ==
  /\ air # <<>>
  /\ busy
  /\ air' = Tail(air)
  /\ UNCHANGED <<decoderVars, frame, block, busy, pushing, queue, sent, spoilt, lost, garbled>>

\* sendToDecodeDataQueue waits for room.
Push ==
  /\ pushing # <<>>
  /\ Len(queue) < QueueLength
  /\ queue' = Append(queue, Head(pushing))
  /\ pushing' = Tail(pushing)
  /\ UNCHANGED <<decoderVars, frame, air, block, busy, sent, spoilt, lost, garbled>>

\* UPLINK_FINISHED, the downlink, and DOWNLINK_FINISHED.
UplinkAgain ==
  /\ busy
  /\ pushing = <<>>
  /\ busy' = FALSE
  /\ UNCHANGED <<decoderVars, frame, air, block, pushing, queue, sent, spoilt, lost, garbled>>

Decode ==
  /\ queue # <<>>
  /\ ReceiveByte(Head(queue))
  /\ queue' = Tail(queue)
  /\ UNCHANGED <<frame, air, block, busy, pushing, sent, spoilt, lost, garbled>>

Next == Send \/ Lose \/ ReadByte \/ DropByte \/ Push \/ UplinkAgain \/ Decode

Spec == Init /\ [][Next]_vars

-----------------------------------------------------------------------------
(* Properties. *)

Quiet == air = <<>> /\ pushing = <<>> /\ queue = <<>>

\* The numbers of the frames that came through, in the order in which they did.
Decoded ==
  LET bodies == [k \in DOMAIN packets |-> Unstuff(packets[k])]
  IN  [k \in DOMAIN packets |-> {n \in DOMAIN Frames : bodies[k] = Frames[n]}]

\* ax25Unstuff takes a zero byte at the end of a frame for padding.
Decodable(n) == Frames[n][Len(Frames[n])] # 0

\* A frame that arrives as it was sent, while the manager was at the start of a
\* block, is decoded to what was stuffed into it, whatever happened before and after.
\* Or it waits in its block: zeros after it were lost, and the next frame has not yet
\* filled the block up.
Recovered ==
  Quiet =>
    \A n \in 1 .. sent :
      n \notin spoilt /\ Decodable(n)
        => IsPrefix(Stuff(Frames[n]), block) \/ \E k \in DOMAIN packets : n \in Decoded[k]

\* No frame is decoded twice, and none before an earlier one.
OnceInOrder ==
  Quiet =>
    \A j, k \in DOMAIN packets : \A m \in Decoded[j], n \in Decoded[k] : j < k => m < n

\* Stuffing keeps the flags to the ends of a frame, so the manager may stop at the
\* second one.
FlagsAtEnds ==
  air # <<>> /\ Position = 1 =>
    \A k \in 2 .. Len(frame) - 1 : frame[k] # AX25_FLAG
=============================================================================
