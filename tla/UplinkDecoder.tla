---------------------------- MODULE UplinkDecoder ----------------------------
(***************************************************************************)
(* uplink_decoder.c: the task that takes single bytes from the decode      *)
(* queue, collects them from one flag to the next in a buffer of fixed     *)
(* size, and passes what it collected to decodePacket.  The timer it       *)
(* starts with a first flag is left out: its callback clears a variable    *)
(* that nothing reads.                                                     *)
(***************************************************************************)
EXTENDS Integers, Sequences

CONSTANTS Bytes,      \* what a byte can be
          AX25_FLAG,  \* the one that delimits frames
          AxDataSize  \* sizeof(axData.data)

ASSUME DecoderAssumption ==
  /\ AX25_FLAG \in Bytes
  /\ AxDataSize \in Nat \ {0, 1, 2}

VARIABLES
  axData,             \* axData.data[0 .. axDataIndex)
  startFlagReceived,  \* was there a flag since the search started?
  received,           \* history: the bytes taken from the queue
  packets             \* history: what decodePacket was called with

decoderVars == <<axData, startFlagReceived, received, packets>>

DecoderInit ==
  /\ axData = <<>>
  /\ startFlagReceived = FALSE
  /\ received = <<>>
  /\ packets = <<>>

-----------------------------------------------------------------------------
FullLate == Len(axData) > AxDataSize

\* The buffer is found full only when the next byte comes, which is the first of
\* a new search.
Full == Len(axData) >= AxDataSize

Found   == IF Full THEN <<>> ELSE axData
Started == ~Full /\ startFlagReceived

NextSearchEmpty == <<>>

NextSearchStale == IF Len(Found) < 2 THEN <<AX25_FLAG>> ELSE Found

\* The flag at the end of a frame is also the one at the start of the next.
NextSearch == <<AX25_FLAG>>

\* "if we have start flag, end flag, and at least 1 byte of data"
Complete == Len(Found) + 1 > 2

ReceiveFlag ==
  LET data == Append(Found, AX25_FLAG)
  IN  /\ axData' = NextSearch
      /\ \/ /\ Complete
            /\ packets' = Append(packets, data)
            /\ startFlagReceived' = Started
         \/ /\ ~Complete
            /\ startFlagReceived' = TRUE
            /\ UNCHANGED packets

ReceiveData(b) ==
  /\ axData' = IF Started THEN Append(Found, b) ELSE Found
  /\ startFlagReceived' = Started
  /\ UNCHANGED packets

\* The task takes a byte from the decode queue.
ReceiveByte(b) ==
  /\ received' = Append(received, b)
  /\ \/ b = AX25_FLAG /\ ReceiveFlag
     \/ b # AX25_FLAG /\ ReceiveData(b)

DecoderNext == \E b \in Bytes : ReceiveByte(b)

DecoderSpec == DecoderInit /\ [][DecoderNext]_decoderVars

-----------------------------------------------------------------------------
(* Properties. *)

DecoderTypeOK ==
  /\ axData \in Seq(Bytes)
  /\ Len(axData) <= AxDataSize
  /\ startFlagReceived \in BOOLEAN
  /\ received \in Seq(Bytes)
  /\ packets \in Seq(Seq(Bytes))

Delimiting == INSTANCE FrameDelimiting WITH Flag <- AX25_FLAG, MaxLength <- AxDataSize

\* The task finds exactly the frames that the bytes contain, in order, although it
\* remembers no more than one buffer of them, restarts in the middle of anything
\* and notices a full buffer only with the byte after it.
FindsFrames == Delimiting!Spec
=============================================================================
