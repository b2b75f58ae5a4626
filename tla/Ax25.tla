-------------------------------- MODULE Ax25 --------------------------------
(***************************************************************************)
(* obc_gs_ax25.c: bit stuffing.  What is between the two flags of a frame  *)
(* gets a zero after every five ones, so that no byte of it is a flag, and *)
(* loses it again at the other end.  Bytes are sent from their highest bit.*)
(***************************************************************************)
EXTENDS Integers, SequencesExt

Flag == 126

\* What the bits of a byte are worth.
Worth == <<128, 64, 32, 16, 8, 4, 2, 1>>

Bits(bytes) ==
  [k \in 1 .. 8 * Len(bytes) |-> (bytes[((k - 1) \div 8) + 1] \div Worth[((k - 1) % 8) + 1]) % 2]

BitAt(bits, k) == IF k <= Len(bits) THEN bits[k] ELSE 0

\* The byte after the first n.
ByteAt(bits, n) ==
  LET bit(k) == BitAt(bits, 8 * n + k)
  IN  128 * bit(1) + 64 * bit(2) + 32 * bit(3) + 16 * bit(4) + 8 * bit(5) + 4 * bit(6) + 2 * bit(7) + bit(8)

\* Bits to bytes, the last byte filled up with zeros.
BytesOfBits(bits) == [k \in 1 .. (Len(bits) + 7) \div 8 |-> ByteAt(bits, k - 1)]

NothingYet == [bits |-> <<>>, ones |-> 0, skip |-> FALSE]

StuffedBitSixOnes(acc, b) ==
  IF b = 0 THEN [bits |-> Append(acc.bits, 0), ones |-> 0, skip |-> FALSE]
  ELSE IF acc.ones = 5 THEN [bits |-> acc.bits \o <<1, 0>>, ones |-> 0, skip |-> FALSE]
  ELSE [bits |-> Append(acc.bits, 1), ones |-> acc.ones + 1, skip |-> FALSE]

\* One bit of the frame, with the zero it calls for.
StuffedBit(acc, b) ==
  IF b = 0 THEN [bits |-> Append(acc.bits, 0), ones |-> 0, skip |-> FALSE]
  ELSE IF acc.ones = 4 THEN [bits |-> acc.bits \o <<1, 0>>, ones |-> 0, skip |-> FALSE]
  ELSE [bits |-> Append(acc.bits, 1), ones |-> acc.ones + 1, skip |-> FALSE]

\* All of them.
StuffedBits(bits) ==
  LET done[k \in 0 .. Len(bits)] == IF k = 0 THEN NothingYet ELSE StuffedBit(done[k - 1], bits[k])
  IN  done[Len(bits)].bits

\* The frame that carries body, with its flags.
Stuff(body) ==
  <<Flag>> \o BytesOfBits(StuffedBits(Bits(body))) \o <<Flag>>

\* One bit between the flags; the one after five ones is left out whatever it is.
UnstuffedBit(acc, b) ==
  IF acc.skip THEN [bits |-> acc.bits, ones |-> 0, skip |-> FALSE]
  ELSE LET ones == IF b = 0 THEN 0 ELSE acc.ones + 1
       IN  [bits |-> Append(acc.bits, b), ones |-> ones % 5, skip |-> ones = 5]

UnstuffedBits(bits) ==
  LET done[k \in 0 .. Len(bits)] == IF k = 0 THEN NothingYet ELSE UnstuffedBit(done[k - 1], bits[k])
  IN  done[Len(bits)].bits

\* What becomes of a frame: the unstuffed bytes, without the zero bytes at the end,
\* among which are the bits the last byte was filled up with.  (The code looks at
\* AX25_INFO_BYTES of them at most.)
Unstuff(frame) ==
  LET body  == SubSeq(frame, 2, Len(frame) - 1)
      bytes == BytesOfBits(UnstuffedBits(Bits(body)))
  IN  SubSeq(bytes, 1, SelectLastInSeq(bytes, LAMBDA b : b # 0))
=============================================================================
