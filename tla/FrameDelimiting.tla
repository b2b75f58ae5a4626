--------------------------- MODULE FrameDelimiting ---------------------------
(***************************************************************************)
(* What the search for frames in the uplinked bytes promises, told from    *)
(* the bytes alone: the frame that ends with a flag is everything from the *)
(* flag before it, whatever noise, lost flags or overlong data came in     *)
(* between, provided there is something between the two and it fits.       *)
(***************************************************************************)
EXTENDS Integers, Sequences

CONSTANTS Bytes, Flag, MaxLength

VARIABLES received,  \* every byte so far
          packets    \* the frames found in them, in order, with their flags

Init == received = <<>> /\ packets = <<>>

\* Position p holds the last flag of s, if there is one.
LastFlag(s, p) ==
  /\ p \in 1 .. Len(s)
  /\ s[p] = Flag
  /\ \A k \in p + 1 .. Len(s) : s[k] # Flag

\* What a flag after the bytes s completes.
Completed(s) ==
  {Append(SubSeq(s, p, Len(s)), Flag) :
     p \in {q \in 1 .. Len(s) : LastFlag(s, q) /\ Len(s) > q /\ Len(s) - q + 2 <= MaxLength}}

Accept(b) ==
  /\ received' = Append(received, b)
  /\ \/ /\ b = Flag
        /\ \E f \in Completed(received) : packets' = Append(packets, f)
     \/ /\ b # Flag \/ Completed(received) = {}
        /\ packets' = packets

Next == \E b \in Bytes : Accept(b)

Spec == Init /\ [][Next]_<<received, packets>>
=============================================================================
