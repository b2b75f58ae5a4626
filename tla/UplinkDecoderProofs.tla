-------------------------- MODULE UplinkDecoderProofs --------------------------
(***************************************************************************)
(* The search for frames, for every alphabet, buffer size and sequence of  *)
(* bytes: the types of the decoder's state, and that the decoder           *)
(* implements FrameDelimiting.  Bit stuffing, for every frame: no byte     *)
(* between the flags is a flag, and unstuffing gives back what was         *)
(* stuffed.  And the link, for every sequence of frames and whatever       *)
(* happens to their bytes: a frame that is not spoilt is recovered, and    *)
(* such frames come out in the order in which they were sent.              *)
(***************************************************************************)
EXTENDS UplinkLink, FiniteSetTheorems, SequenceTheorems, TLAPS

LastFlag(s, p) == Delimiting!LastFlag(s, p)
CompletedBy(s) == Delimiting!Completed(s)

\* What the buffer remembers of the bytes received: in a search that has found a flag
\* everything from the last flag on, before it nothing, the last flag then being too
\* long ago to be the start of a frame that fits.
Remembers ==
  /\ startFlagReceived =>
       \E p \in Nat : LastFlag(received, p) /\ axData = SubSeq(received, p, Len(received))
  /\ ~startFlagReceived =>
       /\ axData = <<>>
       /\ \A p \in Nat : LastFlag(received, p) => Len(received) - p + 2 > AxDataSize

DecoderInv == DecoderTypeOK /\ Remembers

-----------------------------------------------------------------------------
(* The last flag of a sequence that grows. *)

\* A sequence has one last flag.
LEMMA LastFlagUnique ==
  ASSUME NEW s \in Seq(Bytes), NEW p \in Nat, NEW q \in Nat, LastFlag(s, p), LastFlag(s, q)
  PROVE  p = q
BY DecoderAssumption DEF LastFlag, Delimiting!LastFlag

\* A flag that is appended is the last one.
LEMMA LastFlagOfFlag ==
  ASSUME NEW s \in Seq(Bytes), NEW q \in Nat
  PROVE  LastFlag(Append(s, AX25_FLAG), q) <=> q = Len(s) + 1
BY DecoderAssumption DEF LastFlag, Delimiting!LastFlag

\* Any other byte leaves the last flag where it was.
LEMMA LastFlagOfData ==
  ASSUME NEW s \in Seq(Bytes), NEW b \in Bytes, b # AX25_FLAG, NEW q \in Nat
  PROVE  LastFlag(Append(s, b), q) <=> LastFlag(s, q)
BY DecoderAssumption DEF LastFlag, Delimiting!LastFlag

\* The bytes from a position on, followed by one more.
LEMMA SuffixGrows ==
  ASSUME NEW s \in Seq(Bytes), NEW b \in Bytes, NEW p \in 1 .. Len(s)
  PROVE  /\ Append(SubSeq(s, p, Len(s)), b) = SubSeq(Append(s, b), p, Len(Append(s, b)))
         /\ SubSeq(s, p, Len(s)) \in Seq(Bytes)
         /\ Len(SubSeq(s, p, Len(s))) = Len(s) - p + 1
<1> DEFINE u == SubSeq(s, p, Len(s))
           v == SubSeq(Append(s, b), p, Len(Append(s, b)))
<1>1. u \in Seq(Bytes) /\ Len(u) = Len(s) - p + 1 /\ \A i \in 1 .. Len(u) : u[i] = s[p + i - 1]
  OBVIOUS
<1>2. v \in Seq(Bytes) /\ Len(v) = Len(s) - p + 2
  OBVIOUS
<1>3. \A i \in 1 .. Len(v) : v[i] = Append(s, b)[p + i - 1]
  OBVIOUS
<1>4. Append(u, b) \in Seq(Bytes) /\ Len(Append(u, b)) = Len(v)
  BY <1>1, <1>2
<1>5. \A i \in 1 .. Len(v) : Append(u, b)[i] = v[i]
  BY <1>1, <1>2, <1>3
<1>6. Append(u, b) = v
  BY <1>2, <1>4, <1>5
<1>. QED
  BY <1>1, <1>6

\* The bytes after which a flag completes nothing.
LEMMA NothingCompleted ==
  ASSUME NEW s \in Seq(Bytes),
         \A p \in Nat : LastFlag(s, p) => Len(s) <= p \/ Len(s) - p + 2 > AxDataSize
  PROVE  CompletedBy(s) = {}
<1>1. ASSUME NEW q \in 1 .. Len(s), LastFlag(s, q), Len(s) > q, Len(s) - q + 2 <= AxDataSize
      PROVE  FALSE
  BY <1>1, DecoderAssumption
<1>2. {q \in 1 .. Len(s) : LastFlag(s, q) /\ Len(s) > q /\ Len(s) - q + 2 <= AxDataSize} = {}
  BY <1>1
<1>. QED
  BY <1>2 DEF LastFlag, CompletedBy, Delimiting!Completed

\* The frame that a flag completes.
LEMMA FrameCompleted ==
  ASSUME NEW s \in Seq(Bytes), NEW p \in Nat, LastFlag(s, p),
         Len(s) > p, Len(s) - p + 2 <= AxDataSize
  PROVE  Append(SubSeq(s, p, Len(s)), AX25_FLAG) \in CompletedBy(s)
<1>1. p \in 1 .. Len(s)
  BY DEF LastFlag, Delimiting!LastFlag
<1>. QED
  BY <1>1 DEF LastFlag, CompletedBy, Delimiting!Completed

-----------------------------------------------------------------------------
(* One step of the task. *)

\* The state in which a search has found its flag.
LEMMA StartedSearch ==
  ASSUME DecoderInv, startFlagReceived
  PROVE  \E p \in 1 .. Len(received) :
           /\ LastFlag(received, p)
           /\ axData = SubSeq(received, p, Len(received))
           /\ Len(axData) = Len(received) - p + 1
<1>1. PICK p \in Nat : LastFlag(received, p) /\ axData = SubSeq(received, p, Len(received))
  BY DEF DecoderInv, Remembers
<1>2. p \in 1 .. Len(received)
  BY <1>1 DEF LastFlag, Delimiting!LastFlag
<1>3. received \in Seq(Bytes)
  BY DEF DecoderInv, DecoderTypeOK
<1>. QED
  BY <1>1, <1>2, <1>3, SuffixGrows, DecoderAssumption

\* A flag keeps the invariant, and is a step of FrameDelimiting.
LEMMA FlagStep ==
  ASSUME DecoderInv, received' = Append(received, AX25_FLAG), ReceiveFlag
  PROVE  DecoderInv' /\ Delimiting!Accept(AX25_FLAG)
<1> DEFINE data == Append(Found, AX25_FLAG)
<1>t. /\ axData \in Seq(Bytes) /\ Len(axData) <= AxDataSize /\ received \in Seq(Bytes)
      /\ packets \in Seq(Seq(Bytes)) /\ startFlagReceived \in BOOLEAN
      /\ AX25_FLAG \in Bytes /\ AxDataSize \in Nat \ {0, 1, 2}
  BY DecoderAssumption DEF DecoderInv, DecoderTypeOK
<1>f. Found \in Seq(Bytes)
  BY <1>t DEF Found
<1>a. axData' = <<AX25_FLAG>>
  BY DEF ReceiveFlag, NextSearch
<1>r. received' \in Seq(Bytes) /\ Len(received') = Len(received) + 1
  BY <1>t
<1>l. Len(received) + 1 \in Nat /\ LastFlag(received', Len(received) + 1)
  BY <1>t, LastFlagOfFlag
<1>s. axData' = SubSeq(received', Len(received) + 1, Len(received'))
  <2> DEFINE v == SubSeq(received', Len(received) + 1, Len(received'))
  <2>1. Len(v) = 1 /\ v \in Seq(Bytes)
    BY <1>t, <1>r
  <2>2. v[1] = AX25_FLAG
    BY <1>t, <1>r
  <2>. QED
    BY <1>a, <2>1, <2>2, <1>t
<1>1. CASE Complete
  <2>1. Len(axData) >= 2 /\ ~Full
    BY <1>1, <1>t DEF Complete, Found
  <2>2. startFlagReceived
    <3>1. axData # <<>>
      BY <2>1
    <3>. QED
      BY <3>1, <1>t DEF DecoderInv, Remembers
  <2>3. PICK p \in 1 .. Len(received) :
           /\ LastFlag(received, p)
           /\ axData = SubSeq(received, p, Len(received))
           /\ Len(axData) = Len(received) - p + 1
    BY <2>2, StartedSearch
  <2>4. data \in CompletedBy(received)
    <3>1. Len(received) > p /\ Len(received) - p + 2 <= AxDataSize /\ p \in Nat
      BY <2>1, <2>3, <1>t DEF Full
    <3>2. Append(SubSeq(received, p, Len(received)), AX25_FLAG) \in CompletedBy(received)
      BY <3>1, <2>3, <1>t, FrameCompleted
    <3>. QED
      BY <3>2, <2>1, <2>3 DEF Found
  <2>5. packets' = Append(packets, data) /\ startFlagReceived' = TRUE
    BY <1>1, <2>1, <2>2, <1>t DEF ReceiveFlag, Started
  <2>6. Delimiting!Accept(AX25_FLAG)
    BY <2>4, <2>5 DEF Delimiting!Accept, CompletedBy
  <2>7. Remembers'
    BY <2>5, <1>l, <1>s, <1>t DEF Remembers
  <2>8. DecoderTypeOK'
    <3>1. packets' \in Seq(Seq(Bytes))
      BY <2>5, <1>t, <1>f
    <3>. QED
      BY <3>1, <2>5, <1>a, <1>r, <1>t DEF DecoderTypeOK
  <2>. QED
    BY <2>6, <2>7, <2>8 DEF DecoderInv
<1>2. CASE ~Complete
  <2>1. packets' = packets /\ startFlagReceived' = TRUE
    BY <1>2 DEF ReceiveFlag
  <2>2. CompletedBy(received) = {}
    <3>1. SUFFICES ASSUME NEW p \in Nat, LastFlag(received, p)
                   PROVE  Len(received) <= p \/ Len(received) - p + 2 > AxDataSize
      BY <1>t, NothingCompleted
    <3>2. CASE startFlagReceived
      <4>1. PICK q \in 1 .. Len(received) :
               LastFlag(received, q) /\ Len(axData) = Len(received) - q + 1
        BY <3>2, StartedSearch
      <4>2. q = p
        BY <4>1, <3>1, <1>t, LastFlagUnique
      <4>3. CASE Full
        BY <4>1, <4>2, <4>3, <1>t DEF Full
      <4>4. CASE ~Full
        BY <4>1, <4>2, <4>4, <1>2, <1>t DEF Complete, Found
      <4>. QED
        BY <4>3, <4>4
    <3>3. CASE ~startFlagReceived
      BY <3>1, <3>3 DEF DecoderInv, Remembers
    <3>. QED
      BY <3>2, <3>3
  <2>3. Delimiting!Accept(AX25_FLAG)
    BY <2>1, <2>2 DEF Delimiting!Accept, CompletedBy
  <2>4. Remembers'
    BY <2>1, <1>l, <1>s, <1>t DEF Remembers
  <2>5. DecoderTypeOK'
    BY <2>1, <1>a, <1>r, <1>t DEF DecoderTypeOK
  <2>. QED
    BY <2>3, <2>4, <2>5 DEF DecoderInv
<1>. QED
  BY <1>1, <1>2

\* So does any other byte.
LEMMA DataStep ==
  ASSUME DecoderInv, NEW b \in Bytes, b # AX25_FLAG,
         received' = Append(received, b), ReceiveData(b)
  PROVE  DecoderInv' /\ Delimiting!Accept(b)
<1>t. /\ axData \in Seq(Bytes) /\ Len(axData) <= AxDataSize /\ received \in Seq(Bytes)
      /\ packets \in Seq(Seq(Bytes)) /\ startFlagReceived \in BOOLEAN
      /\ AX25_FLAG \in Bytes /\ AxDataSize \in Nat \ {0, 1, 2}
  BY DecoderAssumption DEF DecoderInv, DecoderTypeOK
<1>a. Delimiting!Accept(b)
  BY DEF ReceiveData, Delimiting!Accept
<1>r. received' \in Seq(Bytes) /\ Len(received') = Len(received) + 1
  BY <1>t
<1>1. CASE Started
  <2>1. /\ startFlagReceived /\ ~Full
        /\ axData' = Append(axData, b) /\ startFlagReceived' = TRUE /\ packets' = packets
    BY <1>1, <1>t DEF ReceiveData, Started, Found
  <2>2. PICK p \in 1 .. Len(received) :
           LastFlag(received, p) /\ axData = SubSeq(received, p, Len(received))
    BY <2>1, StartedSearch
  <2>3. axData' = SubSeq(received', p, Len(received'))
    BY <2>1, <2>2, <1>t, SuffixGrows
  <2>4. p \in Nat /\ LastFlag(received', p)
    BY <2>2, <1>t, LastFlagOfData
  <2>5. Remembers'
    BY <2>1, <2>3, <2>4 DEF Remembers
  <2>6. DecoderTypeOK'
    BY <2>1, <1>r, <1>t DEF DecoderTypeOK, Full
  <2>. QED
    BY <2>5, <2>6, <1>a DEF DecoderInv
<1>2. CASE ~Started
  <2>1. axData' = Found /\ startFlagReceived' = FALSE /\ packets' = packets
    BY <1>2 DEF ReceiveData
  <2>2. Found = <<>>
    BY <1>2, <1>t DEF Started, Found, DecoderInv, Remembers
  <2>3. ASSUME NEW p \in Nat, LastFlag(received', p)
        PROVE  Len(received') - p + 2 > AxDataSize
    <3>1. LastFlag(received, p)
      BY <2>3, <1>t, LastFlagOfData
    <3>2. CASE startFlagReceived
      <4>1. PICK q \in 1 .. Len(received) :
               LastFlag(received, q) /\ Len(axData) = Len(received) - q + 1
        BY <3>2, StartedSearch
      <4>2. q = p
        BY <4>1, <3>1, <1>t, LastFlagUnique
      <4>3. Full
        BY <1>2, <3>2 DEF Started
      <4>. QED
        BY <4>1, <4>2, <4>3, <1>t, <1>r DEF Full
    <3>3. CASE ~startFlagReceived
      <4>1. Len(received) - p + 2 > AxDataSize
        BY <3>1, <3>3 DEF DecoderInv, Remembers
      <4>. QED
        BY <4>1, <1>t, <1>r
    <3>. QED
      BY <3>2, <3>3
  <2>4. Remembers'
    BY <2>1, <2>2, <2>3 DEF Remembers
  <2>5. DecoderTypeOK'
    <3>1. axData' \in Seq(Bytes) /\ Len(axData') = 0
      BY <2>1, <2>2
    <3>2. Len(axData') <= AxDataSize
      BY <3>1, <1>t
    <3>3. packets' \in Seq(Seq(Bytes)) /\ startFlagReceived' \in BOOLEAN
      BY <2>1, <1>t
    <3>. QED
      BY <3>1, <3>2, <3>3, <1>r DEF DecoderTypeOK
  <2>. QED
    BY <2>4, <2>5, <1>a DEF DecoderInv
<1>. QED
  BY <1>1, <1>2

-----------------------------------------------------------------------------
(* The theorems. *)

\* The invariant holds at the start of the task.
LEMMA InitDecoderInv == DecoderInit => DecoderInv
<1>. SUFFICES ASSUME DecoderInit
             PROVE  DecoderInv
  OBVIOUS
<1>1. <<>> \in Seq(Bytes) /\ Len(<<>>) = 0 /\ <<>> \in Seq(Seq(Bytes))
  OBVIOUS
<1>2. DecoderTypeOK
  <2>1. Len(axData) <= AxDataSize
    BY <1>1, DecoderAssumption DEF DecoderInit
  <2>. QED
    BY <2>1, <1>1 DEF DecoderInit, DecoderTypeOK
<1>3. \A p \in Nat : ~LastFlag(received, p)
  BY <1>1 DEF DecoderInit, LastFlag, Delimiting!LastFlag
<1>. QED
  BY <1>2, <1>3 DEF DecoderInit, DecoderInv, Remembers

\* Every byte keeps the invariant and is accepted by FrameDelimiting.
LEMMA ByteStep ==
  ASSUME DecoderInv, DecoderNext
  PROVE  DecoderInv' /\ Delimiting!Next
<1>1. PICK b \in Bytes : ReceiveByte(b)
  BY DEF DecoderNext
<1>2. received' = Append(received, b)
  BY <1>1 DEF ReceiveByte
<1>3. DecoderInv' /\ Delimiting!Accept(b)
  BY <1>1, <1>2, FlagStep, DataStep DEF ReceiveByte
<1>. QED
  BY <1>3 DEF Delimiting!Next

\* The invariant holds whatever is received.
LEMMA Invariance == DecoderSpec => []DecoderInv
<1>1. DecoderInv /\ UNCHANGED decoderVars => DecoderInv'
  BY DEF DecoderInv, DecoderTypeOK, Remembers, decoderVars
<1>2. DecoderInv /\ [DecoderNext]_decoderVars => DecoderInv'
  BY <1>1, ByteStep
<1>. QED
  BY <1>2, InitDecoderInv, PTL DEF DecoderSpec

\* Types and the bound of the buffer, in particular: the index into axData.data never
\* passes its end, whatever is received.
THEOREM DecoderTypeCorrect == DecoderSpec => []DecoderTypeOK
<1>1. DecoderInv => DecoderTypeOK
  BY DEF DecoderInv
<1>. QED
  BY <1>1, Invariance, PTL

\* The decoder implements FrameDelimiting: for every sequence of bytes and every size
\* of the buffer it calls decodePacket for exactly the frames between two flags.
THEOREM DecoderFindsFrames == DecoderSpec => FindsFrames
<1>1. DecoderInit => Delimiting!Init
  BY DEF DecoderInit, Delimiting!Init
<1>2. DecoderInv /\ [DecoderNext]_decoderVars => [Delimiting!Next]_<<received, packets>>
  BY ByteStep DEF decoderVars
<1>. QED
  BY <1>1, <1>2, Invariance, PTL DEF DecoderSpec, FindsFrames, Delimiting!Spec

-----------------------------------------------------------------------------
(* Sequences that are worked through from the front. *)

\* Induction: a set of numbers that holds 0 and all successors holds all of them.
LEMMA NatInductionSet ==
  ASSUME NEW T, 0 \in T, \A n \in Nat : n \in T => n + 1 \in T
  PROVE  \A n \in Nat : n \in T
<1> SUFFICES ASSUME NEW w \in Nat, w \notin T
             PROVE  FALSE
  OBVIOUS
<1> DEFINE R == StrictSubsetOrdering(Nat)
           F == FiniteSubsetsOf(Nat)
           B == {U \in F : \E n \in Nat : U = 1 .. n /\ n \notin T}
<1>1. IsWellFoundedOn(R, F)
  BY FS_StrictSubsetOrderingWellFounded
<1>2. \A n \in Nat : 1 .. n \in F
  BY FS_Interval DEF FiniteSubsetsOf
<1>3. B \subseteq F /\ B # {}
  BY <1>2
<1>4. PICK U \in B : \A V \in B : <<V, U>> \notin R
  <2> HIDE DEF R, F, B
  <2> QED
    BY <1>1, <1>3, WFMin
<1>5. PICK m \in Nat : U = 1 .. m /\ m \notin T
  OBVIOUS
<1>6. m # 0 /\ m - 1 \in Nat /\ (m - 1) + 1 = m
  BY <1>5
<1>7. m - 1 \notin T
  BY <1>5, <1>6
<1>8. 1 .. (m - 1) \in B
  BY <1>2, <1>6, <1>7
<1>9. <<1 .. (m - 1), U>> \in R
  <2>1. 1 .. (m - 1) \subseteq 1 .. m /\ m \in 1 .. m /\ m \notin 1 .. (m - 1)
    BY <1>6
  <2>2. 1 .. (m - 1) \in SUBSET Nat /\ 1 .. m \in SUBSET Nat
    BY <1>6
  <2>3. QED
    BY <1>5, <2>1, <2>2 DEF StrictSubsetOrdering
<1>10. QED
  BY <1>4, <1>8, <1>9

\* A sequence given by its elements.
LEMMA Listed ==
  ASSUME NEW S, NEW n \in Nat, NEW f \in [1 .. n -> S]
  PROVE  f \in Seq(S) /\ Len(f) = n
BY SeqDef

\* What holds before the first element, and after each if before it, holds to the end.
LEMMA FromTheFront ==
  ASSUME NEW N \in Nat, NEW T, 0 \in T, \A k \in 1 .. N : k - 1 \in T => k \in T
  PROVE  \A k \in 0 .. N : k \in T
<1> DEFINE U == {n \in Nat : n <= N => n \in T}
<1>1. 0 \in U
  OBVIOUS
<1>2. \A n \in Nat : n \in U => n + 1 \in U
  <2>1. SUFFICES ASSUME NEW n \in Nat, n \in U, n + 1 <= N
                 PROVE  n + 1 \in T
    OBVIOUS
  <2>2. n \in T /\ n + 1 \in 1 .. N /\ (n + 1) - 1 = n
    BY <2>1
  <2>3. QED
    BY <2>2
<1> HIDE DEF U
<1>3. \A n \in Nat : n \in U
  BY <1>1, <1>2, NatInductionSet
<1>4. QED
  BY <1>3 DEF U

\* What there is after each element, when step leads from one to the next.
Runs(step, a, s, g) ==
  g[0] = a /\ \A k \in 1 .. Len(s) : g[k] = step[<<g[k - 1], s[k]>>]

\* There is such a run for every step and sequence.
LEMMA RunExists ==
  ASSUME NEW A, NEW B, NEW step \in [A \X B -> A], NEW a \in A, NEW s \in Seq(B)
  PROVE  \E g \in [0 .. Len(s) -> A] : Runs(step, a, s, g)
<1> DEFINE N       == Len(s)
           To(n,g) == g[0] = a /\ \A k \in 1 .. n : g[k] = step[<<g[k - 1], s[k]>>]
           T       == {n \in Nat : \E g \in [0 .. N -> A] : To(n, g)}
<1>0. N \in Nat /\ \A k \in 1 .. N : s[k] \in B
  BY ElementOfSeq, LenProperties
<1>1. 0 \in T
  <2>1. [k \in 0 .. N |-> a] \in [0 .. N -> A] /\ To(0, [k \in 0 .. N |-> a])
    BY <1>0
  <2>2. QED
    BY <2>1
<1>2. ASSUME NEW n \in 1 .. N, n - 1 \in T
      PROVE  n \in T
  <2>1. PICK g \in [0 .. N -> A] : To(n - 1, g)
    BY <1>2
  <2> DEFINE v == step[<<g[n - 1], s[n]>>]
             h == [g EXCEPT ![n] = v]
  <2>2. n \in 0 .. N /\ n - 1 \in 0 .. N /\ n # 0 /\ n - 1 # n /\ n \in Nat
    BY <1>0
  <2>3. v \in A
    BY <1>0, <2>2
  <2>4. h \in [0 .. N -> A] /\ h[n] = v /\ \A k \in 0 .. N : k # n => h[k] = g[k]
    <3> HIDE DEF v
    <3>1. QED
      BY <2>2, <2>3
  <2> HIDE DEF h
  <2>5. h[0] = a
    BY <1>0, <2>1, <2>2, <2>4
  <2>6. ASSUME NEW k \in 1 .. n
        PROVE  h[k] = step[<<h[k - 1], s[k]>>]
    <3>1. k - 1 \in 0 .. N /\ k - 1 # n /\ k \in 0 .. N
      BY <1>0, <2>2
    <3>2. h[k - 1] = g[k - 1]
      BY <2>4, <3>1
    <3>3. CASE k = n
      BY <2>4, <3>2, <3>3
    <3>4. CASE k # n
      <4>1. k \in 1 .. n - 1
        BY <3>4
      <4>2. h[k] = g[k]
        BY <2>4, <3>1, <3>4
      <4>3. QED
        BY <2>1, <3>2, <4>1, <4>2
    <3>5. QED
      BY <3>3, <3>4
  <2>7. To(n, h)
    BY <2>5, <2>6
  <2>8. QED
    BY <2>2, <2>4, <2>7
<1> HIDE DEF T
<1>3. N \in T
  <2>1. \A k \in 0 .. N : k \in T
    BY <1>0, <1>1, <1>2, FromTheFront
  <2>2. QED
    BY <1>0, <2>1
<1>4. QED
  BY <1>3 DEF T, Runs

-----------------------------------------------------------------------------
(* Bit stuffing. *)

Bit  == {0, 1}
Accs == [bits : Seq(Bit), ones : 0 .. 4, skip : BOOLEAN]

StuffStep   == [x \in Accs \X Bit |-> StuffedBit(x[1], x[2])]
UnstuffStep == [x \in Accs \X Bit |-> UnstuffedBit(x[1], x[2])]

\* What has been stuffed of a frame is bits, and the ones at its end.
LEMMA StuffedBitTyped ==
  ASSUME NEW acc \in Accs, NEW b \in Bit
  PROVE  StuffedBit(acc, b) \in Accs
<1>1. acc.bits \in Seq(Bit) /\ acc.ones \in 0 .. 4
  BY DEF Accs
<1>2. Append(acc.bits, 0) \in Seq(Bit) /\ Append(acc.bits, 1) \in Seq(Bit)
  BY <1>1, AppendProperties DEF Bit
<1>3. acc.bits \o <<1, 0>> \in Seq(Bit)
  <2>1. <<1, 0>> \in Seq(Bit)
    BY DEF Bit
  <2>2. QED
    BY <1>1, <2>1, ConcatProperties
<1>4. acc.ones # 4 => acc.ones + 1 \in 0 .. 4
  BY <1>1
<1>5. QED
  BY <1>2, <1>3, <1>4 DEF StuffedBit, Accs

\* So is what has been unstuffed, and whether the next one is left out.
LEMMA UnstuffedBitTyped ==
  ASSUME NEW acc \in Accs, NEW b \in Bit
  PROVE  UnstuffedBit(acc, b) \in Accs
<1>1. acc.bits \in Seq(Bit) /\ acc.ones \in 0 .. 4
  BY DEF Accs
<1>2. Append(acc.bits, b) \in Seq(Bit)
  BY <1>1, AppendProperties
<1> DEFINE n == IF b = 0 THEN 0 ELSE acc.ones + 1
<1>3. n % 5 \in 0 .. 4
  BY <1>1
<1>4. (n = 5) \in BOOLEAN
  OBVIOUS
<1> HIDE DEF n
<1>5. /\ [bits |-> Append(acc.bits, b), ones |-> n % 5, skip |-> n = 5] \in Accs
      /\ [bits |-> acc.bits, ones |-> 0, skip |-> FALSE] \in Accs
  BY <1>1, <1>2, <1>3, <1>4 DEF Accs
<1>6. QED
  BY <1>5 DEF UnstuffedBit, n

\* The steps as functions.
LEMMA Steps ==
  /\ StuffStep \in [Accs \X Bit -> Accs] /\ UnstuffStep \in [Accs \X Bit -> Accs]
  /\ \A acc \in Accs, b \in Bit :
       StuffStep[<<acc, b>>] = StuffedBit(acc, b) /\ UnstuffStep[<<acc, b>>] = UnstuffedBit(acc, b)
BY StuffedBitTyped, UnstuffedBitTyped DEF StuffStep, UnstuffStep

\* Before the first bit there is nothing.
LEMMA NothingTyped == NothingYet \in Accs
BY EmptySeq DEF NothingYet, Accs

\* StuffedBits is the end of a run.
LEMMA StuffRun ==
  ASSUME NEW s \in Seq(Bit)
  PROVE  \E g \in [0 .. Len(s) -> Accs] :
           Runs(StuffStep, NothingYet, s, g) /\ StuffedBits(s) = g[Len(s)].bits
<1> DEFINE P(f) == f = [k \in 0 .. Len(s) |-> IF k = 0 THEN NothingYet ELSE StuffedBit(f[k - 1], s[k])]
           g    == CHOOSE f : P(f)
<1>0. Len(s) \in Nat /\ \A k \in 1 .. Len(s) : s[k] \in Bit
  BY ElementOfSeq, LenProperties
<1>1. \E f : P(f)
  <2>1. StuffStep \in [Accs \X Bit -> Accs]
    BY Steps
  <2>2. PICK f \in [0 .. Len(s) -> Accs] : Runs(StuffStep, NothingYet, s, f)
    BY <2>1, NothingTyped, RunExists
  <2>3. \A k \in 0 .. Len(s) : f[k] = IF k = 0 THEN NothingYet ELSE StuffedBit(f[k - 1], s[k])
    <3>1. SUFFICES ASSUME NEW k \in 1 .. Len(s)
                   PROVE  f[k] = StuffedBit(f[k - 1], s[k])
      BY <1>0, <2>2 DEF Runs
    <3>2. f[k - 1] \in Accs /\ s[k] \in Bit
      BY <1>0, <2>2
    <3>3. f[k] = StuffStep[<<f[k - 1], s[k]>>]
      BY <2>2 DEF Runs
    <3>4. QED
      BY <3>2, <3>3, Steps
  <2>4. P(f)
    BY <2>2, <2>3
  <2>5. QED
    BY <2>4
<1>2. P(g)
  BY <1>1, Zenon
<1>3. StuffedBits(s) = g[Len(s)].bits
  BY Zenon DEF StuffedBits
<1> HIDE DEF g
<1>4. /\ g[0] = NothingYet
      /\ \A k \in 1 .. Len(s) : g[k] = StuffedBit(g[k - 1], s[k])
  BY <1>0, <1>2
<1> DEFINE T == {k \in 0 .. Len(s) : g[k] \in Accs}
<1>5. 0 \in T
  BY <1>0, <1>4, NothingTyped
<1>6. \A k \in 1 .. Len(s) : k - 1 \in T => k \in T
  BY <1>0, <1>4, StuffedBitTyped
<1> HIDE DEF T
<1>7. \A k \in 0 .. Len(s) : g[k] \in Accs
  <2>1. \A k \in 0 .. Len(s) : k \in T
    BY <1>0, <1>5, <1>6, FromTheFront
  <2>2. QED
    BY <2>1 DEF T
<1>8. g \in [0 .. Len(s) -> Accs]
  BY <1>2, <1>7
<1>9. Runs(StuffStep, NothingYet, s, g)
  <2>1. \A k \in 1 .. Len(s) : g[k - 1] \in Accs /\ s[k] \in Bit
    BY <1>0, <1>7
  <2>2. QED
    BY <1>4, <2>1, Steps DEF Runs
<1>10. QED
  BY <1>3, <1>8, <1>9

\* UnstuffedBits likewise.
LEMMA UnstuffRun ==
  ASSUME NEW s \in Seq(Bit)
  PROVE  \E g \in [0 .. Len(s) -> Accs] :
           Runs(UnstuffStep, NothingYet, s, g) /\ UnstuffedBits(s) = g[Len(s)].bits
<1> DEFINE P(f) == f = [k \in 0 .. Len(s) |-> IF k = 0 THEN NothingYet ELSE UnstuffedBit(f[k - 1], s[k])]
           g    == CHOOSE f : P(f)
<1>0. Len(s) \in Nat /\ \A k \in 1 .. Len(s) : s[k] \in Bit
  BY ElementOfSeq, LenProperties
<1>1. \E f : P(f)
  <2>1. UnstuffStep \in [Accs \X Bit -> Accs]
    BY Steps
  <2>2. PICK f \in [0 .. Len(s) -> Accs] : Runs(UnstuffStep, NothingYet, s, f)
    BY <2>1, NothingTyped, RunExists
  <2>3. \A k \in 0 .. Len(s) : f[k] = IF k = 0 THEN NothingYet ELSE UnstuffedBit(f[k - 1], s[k])
    <3>1. SUFFICES ASSUME NEW k \in 1 .. Len(s)
                   PROVE  f[k] = UnstuffedBit(f[k - 1], s[k])
      BY <1>0, <2>2 DEF Runs
    <3>2. f[k - 1] \in Accs /\ s[k] \in Bit
      BY <1>0, <2>2
    <3>3. f[k] = UnstuffStep[<<f[k - 1], s[k]>>]
      BY <2>2 DEF Runs
    <3>4. QED
      BY <3>2, <3>3, Steps
  <2>4. P(f)
    BY <2>2, <2>3
  <2>5. QED
    BY <2>4
<1>2. P(g)
  BY <1>1, Zenon
<1>3. UnstuffedBits(s) = g[Len(s)].bits
  BY Zenon DEF UnstuffedBits
<1> HIDE DEF g
<1>4. /\ g[0] = NothingYet
      /\ \A k \in 1 .. Len(s) : g[k] = UnstuffedBit(g[k - 1], s[k])
  BY <1>0, <1>2
<1> DEFINE T == {k \in 0 .. Len(s) : g[k] \in Accs}
<1>5. 0 \in T
  BY <1>0, <1>4, NothingTyped
<1>6. \A k \in 1 .. Len(s) : k - 1 \in T => k \in T
  BY <1>0, <1>4, UnstuffedBitTyped
<1> HIDE DEF T
<1>7. \A k \in 0 .. Len(s) : g[k] \in Accs
  <2>1. \A k \in 0 .. Len(s) : k \in T
    BY <1>0, <1>5, <1>6, FromTheFront
  <2>2. QED
    BY <2>1 DEF T
<1>8. g \in [0 .. Len(s) -> Accs]
  BY <1>2, <1>7
<1>9. Runs(UnstuffStep, NothingYet, s, g)
  <2>1. \A k \in 1 .. Len(s) : g[k - 1] \in Accs /\ s[k] \in Bit
    BY <1>0, <1>7
  <2>2. QED
    BY <1>4, <2>1, Steps DEF Runs
<1>10. QED
  BY <1>3, <1>8, <1>9

-----------------------------------------------------------------------------
(* No flag within a frame. *)

\* Of six bits in a row one is zero,
Spaced(s) == \A i \in Nat \ {0} : i + 5 <= Len(s) => \E j \in i .. i + 5 : s[j] = 0

\* and the ones at the end have been counted.
Counted(acc) ==
  acc.ones < Len(acc.bits) => acc.bits[Len(acc.bits) - acc.ones] = 0

\* Six bits in a row of a longer sequence are those of the shorter one, or the last.
LEMMA SpacedGrows ==
  ASSUME NEW s \in Seq(Bit), Spaced(s), NEW r \in Seq(Bit), Len(r) = Len(s) + 1,
         \A j \in 1 .. Len(s) : r[j] = s[j],
         Len(r) > 5 => \E j \in Len(r) - 5 .. Len(r) : r[j] = 0
  PROVE  Spaced(r)
<1>1. SUFFICES ASSUME NEW i \in Nat \ {0}, i + 5 <= Len(r)
               PROVE  \E j \in i .. i + 5 : r[j] = 0
  BY DEF Spaced
<1>2. Len(s) \in Nat
  BY LenProperties
<1>3. CASE i + 5 <= Len(s)
  <2>1. PICK j \in i .. i + 5 : s[j] = 0
    BY <1>1, <1>3 DEF Spaced
  <2>2. j \in 1 .. Len(s)
    BY <1>1, <1>2, <1>3, <2>1
  <2>3. QED
    BY <2>1, <2>2
<1>4. CASE i + 5 = Len(r)
  <2>1. i = Len(r) - 5 /\ Len(r) > 5
    BY <1>1, <1>2, <1>4
  <2>2. QED
    BY <1>4, <2>1
<1>5. QED
  BY <1>1, <1>2, <1>3, <1>4

\* A bit that is stuffed leaves it so.
LEMMA StuffedBitSpaced ==
  ASSUME NEW acc \in Accs, NEW b \in Bit, Spaced(acc.bits), Counted(acc)
  PROVE  Spaced(StuffedBit(acc, b).bits) /\ Counted(StuffedBit(acc, b))
<1> DEFINE s == acc.bits
           n == acc.ones
<1>1. s \in Seq(Bit) /\ n \in 0 .. 4 /\ Len(s) \in Nat
  BY LenProperties DEF Accs
<1>2. n < Len(s) => s[Len(s) - n] = 0
  BY DEF Counted
<1>3. \A x \in Bit : /\ Append(s, x) \in Seq(Bit) /\ Len(Append(s, x)) = Len(s) + 1
                     /\ Append(s, x)[Len(s) + 1] = x
                     /\ \A j \in 1 .. Len(s) : Append(s, x)[j] = s[j]
  BY <1>1, AppendProperties
<1>4. Spaced(s) /\ 0 \in Bit /\ 1 \in Bit
  BY DEF Bit
<1> HIDE DEF s, n
<1>5. CASE b = 0
  <2> DEFINE r == Append(s, 0)
  <2>1. StuffedBit(acc, b) = [bits |-> r, ones |-> 0, skip |-> FALSE]
    BY <1>5 DEF StuffedBit, s
  <2>2. r \in Seq(Bit) /\ Len(r) = Len(s) + 1 /\ r[Len(s) + 1] = 0 /\ \A j \in 1 .. Len(s) : r[j] = s[j]
    BY <1>3, <1>4
  <2> HIDE DEF r
  <2>3. Spaced(r)
    <3>1. Len(r) > 5 => Len(r) \in Len(r) - 5 .. Len(r) /\ r[Len(r)] = 0
      BY <1>1, <2>2
    <3>2. QED
      BY <1>1, <1>4, <2>2, <3>1, SpacedGrows
  <2>4. QED
    BY <1>1, <2>1, <2>2, <2>3 DEF Counted
<1>6. CASE b # 0 /\ n = 4
  <2> DEFINE r == s \o <<1, 0>>
             q == Append(s, 1)
  <2>1. StuffedBit(acc, b) = [bits |-> r, ones |-> 0, skip |-> FALSE]
    BY <1>6 DEF StuffedBit, s, n
  <2>2. /\ q \in Seq(Bit) /\ Len(q) = Len(s) + 1 /\ q[Len(s) + 1] = 1
        /\ \A j \in 1 .. Len(s) : q[j] = s[j]
    BY <1>3, <1>4
  <2>3. /\ r \in Seq(Bit) /\ Len(r) = Len(s) + 2 /\ r[Len(s) + 1] = 1 /\ r[Len(s) + 2] = 0
        /\ \A j \in 1 .. Len(s) : r[j] = s[j]
    <3> DEFINE t == <<1, 0>>
    <3>1. t \in Seq(Bit) /\ Len(t) = 2 /\ t[1] = 1 /\ t[2] = 0
      BY <1>4
    <3> HIDE DEF t
    <3>2. /\ r \in Seq(Bit) /\ Len(r) = Len(s) + Len(t)
          /\ \A j \in 1 .. Len(r) : r[j] = IF j <= Len(s) THEN s[j] ELSE t[j - Len(s)]
      BY <1>1, <3>1, ConcatProperties DEF t
    <3> HIDE DEF r
    <3>3. QED
      BY <1>1, <3>1, <3>2
  <2> HIDE DEF r, q
  <2>4. Spaced(q)
    <3>1. Len(q) > 5 => /\ Len(s) - n \in Len(q) - 5 .. Len(q) /\ Len(s) - n \in 1 .. Len(s)
                        /\ s[Len(s) - n] = 0
      BY <1>1, <1>2, <1>6, <2>2
    <3>2. Len(q) > 5 => \E j \in Len(q) - 5 .. Len(q) : q[j] = 0
      BY <2>2, <3>1
    <3>3. QED
      BY <1>1, <1>4, <2>2, <3>2, SpacedGrows
  <2>5. Spaced(r)
    <3>1. Len(r) = Len(q) + 1 /\ \A j \in 1 .. Len(q) : r[j] = q[j]
      <4>1. \A j \in 1 .. Len(q) : j \in 1 .. Len(s) \/ j = Len(s) + 1
        BY <1>1, <2>2
      <4>2. QED
        BY <1>1, <2>2, <2>3, <4>1
    <3>2. Len(r) > 5 => Len(r) \in Len(r) - 5 .. Len(r) /\ r[Len(r)] = 0
      BY <1>1, <2>3
    <3>3. QED
      BY <2>2, <2>3, <2>4, <3>1, <3>2, SpacedGrows
  <2>6. QED
    BY <1>1, <2>1, <2>3, <2>5 DEF Counted
<1>7. CASE b # 0 /\ n # 4
  <2> DEFINE r == Append(s, 1)
  <2>1. StuffedBit(acc, b) = [bits |-> r, ones |-> n + 1, skip |-> FALSE]
    BY <1>7 DEF StuffedBit, s, n
  <2>2. /\ r \in Seq(Bit) /\ Len(r) = Len(s) + 1 /\ r[Len(s) + 1] = 1
        /\ \A j \in 1 .. Len(s) : r[j] = s[j]
    BY <1>3, <1>4
  <2> HIDE DEF r
  <2>4. Spaced(r)
    <3>1. Len(r) > 5 => /\ Len(s) - n \in Len(r) - 5 .. Len(r) /\ Len(s) - n \in 1 .. Len(s)
                        /\ s[Len(s) - n] = 0
      BY <1>1, <1>2, <1>7, <2>2
    <3>2. Len(r) > 5 => \E j \in Len(r) - 5 .. Len(r) : r[j] = 0
      BY <2>2, <3>1
    <3>3. QED
      BY <1>1, <1>4, <2>2, <3>2, SpacedGrows
  <2>5. n + 1 < Len(r) => r[Len(r) - (n + 1)] = 0
    <3>1. n + 1 < Len(r) => n < Len(s) /\ Len(r) - (n + 1) = Len(s) - n /\ Len(s) - n \in 1 .. Len(s)
      BY <1>1, <2>2
    <3>2. QED
      BY <1>2, <2>2, <3>1
  <2>6. QED
    BY <2>1, <2>4, <2>5 DEF Counted
<1>8. QED
  BY <1>5, <1>6, <1>7

\* Of a stuffed frame no six bits in a row are ones.
LEMMA StuffedBitsSpaced ==
  ASSUME NEW s \in Seq(Bit)
  PROVE  StuffedBits(s) \in Seq(Bit) /\ Spaced(StuffedBits(s))
<1>1. PICK g \in [0 .. Len(s) -> Accs] :
        Runs(StuffStep, NothingYet, s, g) /\ StuffedBits(s) = g[Len(s)].bits
  BY StuffRun
<1>2. Len(s) \in Nat /\ \A k \in 1 .. Len(s) : s[k] \in Bit
  BY ElementOfSeq, LenProperties
<1> DEFINE T == {k \in 0 .. Len(s) : Spaced(g[k].bits) /\ Counted(g[k])}
<1>3. 0 \in T
  <2>1. g[0].bits = <<>> /\ Len(<<>>) = 0 /\ g[0].ones = 0
    BY <1>1, EmptySeq DEF Runs, NothingYet
  <2>2. Spaced(g[0].bits) /\ Counted(g[0])
    BY <2>1 DEF Spaced, Counted
  <2>3. QED
    BY <1>2, <2>2
<1>4. ASSUME NEW k \in 1 .. Len(s), k - 1 \in T
      PROVE  k \in T
  <2>1. g[k - 1] \in Accs /\ s[k] \in Bit /\ k \in 0 .. Len(s) /\ k - 1 \in 0 .. Len(s)
    BY <1>2
  <2>2. g[k] = StuffedBit(g[k - 1], s[k])
    BY <1>1, <2>1, Steps DEF Runs
  <2>3. Spaced(g[k].bits) /\ Counted(g[k])
    BY <1>4, <2>1, <2>2, StuffedBitSpaced
  <2>4. QED
    BY <2>1, <2>3
<1> HIDE DEF T
<1>5. Len(s) \in T
  <2>1. \A k \in 0 .. Len(s) : k \in T
    BY <1>2, <1>3, <1>4, FromTheFront
  <2>2. QED
    BY <1>2, <2>1
<1>6. Spaced(g[Len(s)].bits)
  BY <1>5 DEF T
<1>7. g[Len(s)].bits \in Seq(Bit)
  <2>1. g[Len(s)] \in Accs
    BY <1>2
  <2>2. QED
    BY <2>1 DEF Accs
<1>8. QED
  BY <1>1, <1>6, <1>7

\* Bits of which no six in a row are ones give no byte that is a flag.
LEMMA NoFlag ==
  ASSUME NEW s \in Seq(Bit), Spaced(s), NEW n \in Nat
  PROVE  ByteAt(s, n) # Flag
<1> SUFFICES ASSUME ByteAt(s, n) = 126
             PROVE  FALSE
  BY DEF Flag
<1>1. \A k \in Nat \ {0} : BitAt(s, k) \in Bit /\ (BitAt(s, k) = 1 => k <= Len(s) /\ s[k] = 1)
  <2>1. \A k \in 1 .. Len(s) : s[k] \in Bit
    BY ElementOfSeq
  <2>2. Len(s) \in Nat
    BY LenProperties
  <2>3. QED
    BY <2>1, <2>2 DEF BitAt, Bit
<1>2. /\ 8 * n + 1 \in Nat \ {0} /\ 8 * n + 2 \in Nat \ {0} /\ 8 * n + 3 \in Nat \ {0}
      /\ 8 * n + 4 \in Nat \ {0} /\ 8 * n + 5 \in Nat \ {0} /\ 8 * n + 6 \in Nat \ {0}
      /\ 8 * n + 7 \in Nat \ {0} /\ 8 * n + 8 \in Nat \ {0}
  OBVIOUS
<1>3. /\ BitAt(s, 8 * n + 2) = 1 /\ BitAt(s, 8 * n + 3) = 1 /\ BitAt(s, 8 * n + 4) = 1
      /\ BitAt(s, 8 * n + 5) = 1 /\ BitAt(s, 8 * n + 6) = 1 /\ BitAt(s, 8 * n + 7) = 1
  <2> DEFINE a == BitAt(s, 8 * n + 1)
             b == BitAt(s, 8 * n + 2)
             c == BitAt(s, 8 * n + 3)
             d == BitAt(s, 8 * n + 4)
             e == BitAt(s, 8 * n + 5)
             f == BitAt(s, 8 * n + 6)
             g == BitAt(s, 8 * n + 7)
             h == BitAt(s, 8 * n + 8)
  <2>1. a \in Bit /\ b \in Bit /\ c \in Bit /\ d \in Bit /\ e \in Bit /\ f \in Bit /\ g \in Bit /\ h \in Bit
    BY <1>1, <1>2
  <2>2. 128 * a + 64 * b + 32 * c + 16 * d + 8 * e + 4 * f + 2 * g + h = 126
    BY DEF ByteAt
  <2> HIDE DEF a, b, c, d, e, f, g, h
  <2>3. b = 1 /\ c = 1 /\ d = 1 /\ e = 1 /\ f = 1 /\ g = 1
    BY <2>1, <2>2 DEF Bit
  <2>4. QED
    BY <2>3 DEF b, c, d, e, f, g
<1>4. 8 * n + 7 <= Len(s) /\ \A j \in 8 * n + 2 .. 8 * n + 7 : s[j] = 1
  <2>1. /\ 8 * n + 7 <= Len(s) /\ s[8 * n + 2] = 1 /\ s[8 * n + 3] = 1 /\ s[8 * n + 4] = 1
        /\ s[8 * n + 5] = 1 /\ s[8 * n + 6] = 1 /\ s[8 * n + 7] = 1
    BY <1>1, <1>2, <1>3
  <2>2. \A j \in 8 * n + 2 .. 8 * n + 7 :
          j \in {8 * n + 2, 8 * n + 3, 8 * n + 4, 8 * n + 5, 8 * n + 6, 8 * n + 7}
    OBVIOUS
  <2>3. QED
    BY <2>1, <2>2
<1>5. 8 * n + 2 \in Nat \ {0} /\ (8 * n + 2) + 5 = 8 * n + 7
  OBVIOUS
<1>6. \E j \in 8 * n + 2 .. 8 * n + 7 : s[j] = 0
  BY <1>4, <1>5 DEF Spaced
<1>7. QED
  BY <1>4, <1>6

\* Bytes have eight bits each,
LEMMA BitsTyped ==
  ASSUME NEW bytes \in Seq(0 .. 255)
  PROVE  Bits(bytes) \in Seq(Bit) /\ Len(Bits(bytes)) = 8 * Len(bytes)
<1>1. Len(bytes) \in Nat /\ \A k \in 1 .. Len(bytes) : bytes[k] \in 0 .. 255
  BY ElementOfSeq, LenProperties
<1>2. ASSUME NEW k \in 1 .. 8 * Len(bytes)
      PROVE  (bytes[((k - 1) \div 8) + 1] \div Worth[((k - 1) % 8) + 1]) % 2 \in Bit
  <2>1. ((k - 1) \div 8) + 1 \in 1 .. Len(bytes) /\ ((k - 1) % 8) + 1 \in 1 .. 8
    BY <1>1
  <2>2. \A j \in 1 .. 8 : Worth[j] \in {128, 64, 32, 16, 8, 4, 2, 1}
    BY DEF Worth
  <2> DEFINE x == bytes[((k - 1) \div 8) + 1]
             w == Worth[((k - 1) % 8) + 1]
  <2>3. x \in 0 .. 255 /\ w \in {128, 64, 32, 16, 8, 4, 2, 1}
    BY <1>1, <2>1, <2>2
  <2> HIDE DEF x, w
  <2>4. x \div w \in Int
    BY <2>3
  <2>5. (x \div w) % 2 \in Bit
    BY <2>4 DEF Bit
  <2>6. QED
    BY <2>5 DEF x, w
<1>3. Bits(bytes) \in [1 .. 8 * Len(bytes) -> Bit] /\ 8 * Len(bytes) \in Nat
  BY <1>1, <1>2 DEF Bits
<1>4. QED
  BY <1>3, Listed

\* and eight bits, or fewer and zeros, are a byte.
LEMMA BytesTyped ==
  ASSUME NEW s \in Seq(Bit)
  PROVE  /\ \A n \in Nat : ByteAt(s, n) \in 0 .. 255
         /\ BytesOfBits(s) \in Seq(0 .. 255)
         /\ Len(BytesOfBits(s)) = (Len(s) + 7) \div 8
<1>1. Len(s) \in Nat /\ \A k \in 1 .. Len(s) : s[k] \in Bit
  BY ElementOfSeq, LenProperties
<1>2. ASSUME NEW n \in Nat
      PROVE  ByteAt(s, n) \in 0 .. 255
  <2> DEFINE a == BitAt(s, 8 * n + 1)
             b == BitAt(s, 8 * n + 2)
             c == BitAt(s, 8 * n + 3)
             d == BitAt(s, 8 * n + 4)
             e == BitAt(s, 8 * n + 5)
             f == BitAt(s, 8 * n + 6)
             g == BitAt(s, 8 * n + 7)
             h == BitAt(s, 8 * n + 8)
  <2>1. \A k \in Nat \ {0} : BitAt(s, k) \in Bit
    BY <1>1 DEF BitAt, Bit
  <2>2. a \in Bit /\ b \in Bit /\ c \in Bit /\ d \in Bit /\ e \in Bit /\ f \in Bit /\ g \in Bit /\ h \in Bit
    BY <2>1
  <2>3. ByteAt(s, n) = 128 * a + 64 * b + 32 * c + 16 * d + 8 * e + 4 * f + 2 * g + h
    BY DEF ByteAt
  <2> HIDE DEF a, b, c, d, e, f, g, h
  <2>4. QED
    BY <2>2, <2>3 DEF Bit
<1> DEFINE N == (Len(s) + 7) \div 8
<1>3. N \in Nat
  BY <1>1
<1>4. BytesOfBits(s) = [k \in 1 .. N |-> ByteAt(s, k - 1)]
  BY DEF BytesOfBits
<1> HIDE DEF N
<1>5. \A k \in 1 .. N : k - 1 \in Nat
  BY <1>3
<1>6. BytesOfBits(s) \in [1 .. N -> 0 .. 255]
  BY <1>2, <1>4, <1>5
<1>7. BytesOfBits(s) \in Seq(0 .. 255) /\ Len(BytesOfBits(s)) = N
  BY <1>3, <1>6, Listed
<1>8. QED
  BY <1>2, <1>7 DEF N

\* What is between the flags of a stuffed frame.
LEMMA StuffedBody ==
  ASSUME NEW body \in Seq(0 .. 255)
  PROVE  LET s == StuffedBits(Bits(body))
         IN  /\ s \in Seq(Bit) /\ Spaced(s)
             /\ Stuff(body) \in Seq(0 .. 255)
             /\ Len(Stuff(body)) = (Len(s) + 7) \div 8 + 2
             /\ \A k \in 1 .. (Len(s) + 7) \div 8 : Stuff(body)[k + 1] = ByteAt(s, k - 1)
<1> DEFINE s == StuffedBits(Bits(body))
           m == BytesOfBits(s)
           t == <<Flag>>
           u == t \o m
<1>1. s \in Seq(Bit) /\ Spaced(s)
  BY BitsTyped, StuffedBitsSpaced
<1>2. t \in Seq(0 .. 255) /\ Len(t) = 1
  BY DEF Flag
<1>3. Stuff(body) = u \o t
  BY DEF Stuff
<1> HIDE DEF s
<1>4. /\ m \in Seq(0 .. 255) /\ Len(m) = (Len(s) + 7) \div 8 /\ Len(m) \in Nat
      /\ \A k \in 1 .. Len(m) : m[k] = ByteAt(s, k - 1)
  BY <1>1, BytesTyped, LenProperties DEF BytesOfBits
<1> HIDE DEF t, m
<1>5. /\ u \in Seq(0 .. 255) /\ Len(u) = 1 + Len(m)
      /\ \A k \in 1 .. Len(u) : u[k] = IF k <= 1 THEN t[k] ELSE m[k - 1]
  BY <1>2, <1>4, ConcatProperties
<1> HIDE DEF u
<1>6. /\ u \o t \in Seq(0 .. 255) /\ Len(u \o t) = Len(m) + 2
      /\ \A k \in 1 .. Len(u) : (u \o t)[k] = u[k]
  <2>1. /\ u \o t \in Seq(0 .. 255) /\ Len(u \o t) = Len(u) + Len(t)
        /\ \A k \in 1 .. Len(u) + Len(t) : (u \o t)[k] = IF k <= Len(u) THEN u[k] ELSE t[k - Len(u)]
    BY <1>2, <1>5, ConcatProperties
  <2>2. Len(u) + Len(t) = Len(m) + 2 /\ Len(u) \in Nat
    BY <1>2, <1>4, <1>5
  <2>3. \A k \in 1 .. Len(u) : k \in 1 .. Len(u) + Len(t) /\ k <= Len(u)
    BY <1>2, <2>2
  <2>4. QED
    BY <2>1, <2>2, <2>3
<1>7. ASSUME NEW k \in 1 .. Len(m)
      PROVE  Stuff(body)[k + 1] = ByteAt(s, k - 1)
  <2>1. k + 1 \in 1 .. Len(u) /\ ~(k + 1 <= 1) /\ (k + 1) - 1 = k
    BY <1>4, <1>5
  <2>2. (u \o t)[k + 1] = m[k]
    BY <1>5, <1>6, <2>1
  <2>3. QED
    BY <1>3, <1>4, <2>2
<1>8. QED
  BY <1>1, <1>3, <1>4, <1>6, <1>7 DEF s

\* No byte of it is a flag.
LEMMA StuffedNoFlag ==
  ASSUME NEW body \in Seq(0 .. 255), NEW k \in 2 .. Len(Stuff(body)) - 1
  PROVE  Stuff(body)[k] # Flag
<1> DEFINE s == StuffedBits(Bits(body))
           N == (Len(s) + 7) \div 8
<1>1. /\ s \in Seq(Bit) /\ Spaced(s) /\ Len(Stuff(body)) = N + 2
      /\ \A i \in 1 .. N : Stuff(body)[i + 1] = ByteAt(s, i - 1)
  BY StuffedBody
<1>2. Len(s) \in Nat
  BY <1>1, LenProperties
<1> HIDE DEF s
<1>3. N \in Nat
  BY <1>2
<1> HIDE DEF N
<1>4. k - 1 \in 1 .. N /\ (k - 1) + 1 = k /\ (k - 1) - 1 \in Nat
  BY <1>1, <1>3
<1>5. Stuff(body)[k] = ByteAt(s, (k - 1) - 1)
  BY <1>1, <1>4
<1>6. QED
  BY <1>1, <1>4, <1>5, NoFlag

-----------------------------------------------------------------------------
\* The frame on its way is one the ground has stuffed.
FrameStuffed ==
  /\ sent \in 0 .. Len(Frames)
  /\ frame = <<>> \/ \E n \in 1 .. Len(Frames) : frame = Stuff(Frames[n])

\* A frame is put on the way by Send alone, and is the stuffing of the next body.
LEMMA FrameStuffedNext == ASSUME FrameStuffed, [Next]_vars PROVE FrameStuffed'
<1>1. CASE Send
  <2>1. sent + 1 \in 1 .. Len(Frames) /\ sent' = sent + 1 /\ frame' = Stuff(Frames[sent + 1])
    <3>1. Len(Frames) \in Nat
      BY LinkAssumption, LenProperties
    <3>2. QED
      BY <1>1, <3>1 DEF Send, FrameStuffed
  <2>2. QED
    BY <2>1 DEF FrameStuffed
<1>2. CASE UNCHANGED <<sent, frame>>
  BY <1>2 DEF FrameStuffed
<1>3. CASE Lose
  BY <1>2, <1>3 DEF Lose
<1>4. CASE ReadByte
  BY <1>2, <1>4 DEF ReadByte, Read
<1>5. CASE DropByte
  BY <1>2, <1>5 DEF DropByte
<1>6. CASE Push
  BY <1>2, <1>6 DEF Push
<1>7. CASE UplinkAgain
  BY <1>2, <1>7 DEF UplinkAgain
<1>8. CASE Decode
  BY <1>2, <1>8 DEF Decode
<1>9. CASE UNCHANGED vars
  BY <1>2, <1>9 DEF vars, linkVars
<1>10. QED
  BY <1>1, <1>3, <1>4, <1>5, <1>6, <1>7, <1>8, <1>9 DEF Next

\* Whatever bytes the ground stuffs, no flag is within the frame, so the comms manager
\* may stop pushing at the second one.
THEOREM FlagsAtEndsCorrect == Spec => []FlagsAtEnds
<1>1. Init => FrameStuffed
  <2>1. Len(Frames) \in Nat
    BY LinkAssumption, LenProperties
  <2>2. QED
    BY <2>1 DEF Init, FrameStuffed
<1>2. FrameStuffed /\ [Next]_vars => FrameStuffed'
  BY FrameStuffedNext
<1>3. FrameStuffed => FlagsAtEnds
  <2> SUFFICES ASSUME FrameStuffed, NEW k \in 2 .. Len(frame) - 1
               PROVE  frame[k] # AX25_FLAG
    BY DEF FlagsAtEnds
  <2>1. CASE frame = <<>>
    <3>1. Len(frame) = 0
      BY <2>1, EmptySeq
    <3>2. QED
      BY <3>1
  <2>2. CASE \E n \in 1 .. Len(Frames) : frame = Stuff(Frames[n])
    <3>1. PICK n \in 1 .. Len(Frames) : frame = Stuff(Frames[n])
      BY <2>2
    <3>2. Frames[n] \in Seq(0 .. 255)
      BY LinkAssumption, ElementOfSeq
    <3>3. QED
      BY <3>1, <3>2, StuffedNoFlag, LinkAssumption
  <2>3. QED
    BY <2>1, <2>2 DEF FrameStuffed
<1>4. QED
  BY <1>1, <1>2, <1>3, PTL DEF Spec

-----------------------------------------------------------------------------
(* Unstuffing takes out what stuffing put in. *)

\* The bits of the bytes made of bits are those bits, and zeros.
LEMMA BitsOfBytes ==
  ASSUME NEW s \in Seq(Bit)
  PROVE  LET t == Bits(BytesOfBits(s))
         IN  /\ t \in Seq(Bit) /\ Len(t) = 8 * ((Len(s) + 7) \div 8)
             /\ \A k \in 1 .. Len(t) : t[k] = BitAt(s, k)
<1> DEFINE m == BytesOfBits(s)
           t == Bits(m)
           N == (Len(s) + 7) \div 8
<1>1. m \in Seq(0 .. 255) /\ Len(m) = N /\ \A k \in 1 .. N : m[k] = ByteAt(s, k - 1)
  BY BytesTyped DEF BytesOfBits
<1>2. Len(s) \in Nat /\ N \in Nat /\ \A k \in Nat \ {0} : BitAt(s, k) \in Bit
  <2>1. Len(s) \in Nat /\ \A k \in 1 .. Len(s) : s[k] \in Bit
    BY ElementOfSeq, LenProperties
  <2>2. QED
    BY <2>1 DEF BitAt, Bit
<1> HIDE DEF m, N
<1>3. t \in Seq(Bit) /\ Len(t) = 8 * N
  BY <1>1, BitsTyped
<1>4. ASSUME NEW k \in 1 .. 8 * N
      PROVE  t[k] = BitAt(s, k)
  <2> DEFINE n == (k - 1) \div 8
             j == ((k - 1) % 8) + 1
  <2>1. n \in Nat /\ n + 1 \in 1 .. N /\ (n + 1) - 1 = n /\ j \in 1 .. 8 /\ 8 * n + j = k
    BY <1>2
  <2>2. t[k] = (m[n + 1] \div Worth[j]) % 2
    BY <1>1, <1>2 DEF Bits
  <2> HIDE DEF n, j
  <2>3. t[k] = (ByteAt(s, n) \div Worth[j]) % 2
    BY <1>1, <2>1, <2>2
  <2>4. (ByteAt(s, n) \div Worth[j]) % 2 = BitAt(s, 8 * n + j)
    <3> DEFINE a == BitAt(s, 8 * n + 1)
               b == BitAt(s, 8 * n + 2)
               c == BitAt(s, 8 * n + 3)
               d == BitAt(s, 8 * n + 4)
               e == BitAt(s, 8 * n + 5)
               f == BitAt(s, 8 * n + 6)
               g == BitAt(s, 8 * n + 7)
               h == BitAt(s, 8 * n + 8)
               x == 128 * a + 64 * b + 32 * c + 16 * d + 8 * e + 4 * f + 2 * g + h
    <3>1. /\ 8 * n + 1 \in Nat \ {0} /\ 8 * n + 2 \in Nat \ {0} /\ 8 * n + 3 \in Nat \ {0}
          /\ 8 * n + 4 \in Nat \ {0} /\ 8 * n + 5 \in Nat \ {0} /\ 8 * n + 6 \in Nat \ {0}
          /\ 8 * n + 7 \in Nat \ {0} /\ 8 * n + 8 \in Nat \ {0}
      BY <2>1
    <3>2. a \in Bit /\ b \in Bit /\ c \in Bit /\ d \in Bit /\ e \in Bit /\ f \in Bit /\ g \in Bit /\ h \in Bit
      BY <1>2, <3>1
    <3>3. ByteAt(s, n) = x
      BY DEF ByteAt
    <3>4. /\ Worth[1] = 128 /\ Worth[2] = 64 /\ Worth[3] = 32 /\ Worth[4] = 16
          /\ Worth[5] = 8 /\ Worth[6] = 4 /\ Worth[7] = 2 /\ Worth[8] = 1
      BY DEF Worth
    <3> HIDE DEF a, b, c, d, e, f, g, h
    <3>5. (x \div 128) % 2 = a /\ (x \div 64) % 2 = b
      BY <3>2 DEF Bit
    <3>6. (x \div 32) % 2 = c /\ (x \div 16) % 2 = d
      BY <3>2 DEF Bit
    <3>7. (x \div 8) % 2 = e /\ (x \div 4) % 2 = f
      BY <3>2 DEF Bit
    <3>8. (x \div 2) % 2 = g /\ (x \div 1) % 2 = h
      BY <3>2 DEF Bit
    <3>9. CASE j = 1 \/ j = 2
      BY <3>3, <3>4, <3>5, <3>9 DEF a, b
    <3>10. CASE j = 3 \/ j = 4
      BY <3>3, <3>4, <3>6, <3>10 DEF c, d
    <3>11. CASE j = 5 \/ j = 6
      BY <3>3, <3>4, <3>7, <3>11 DEF e, f
    <3>12. CASE j = 7 \/ j = 8
      BY <3>3, <3>4, <3>8, <3>12 DEF g, h
    <3>13. QED
      BY <2>1, <3>9, <3>10, <3>11, <3>12
  <2>5. QED
    BY <2>1, <2>3, <2>4
<1>5. QED
  BY <1>3, <1>4 DEF m, N

\* A byte is what its bits are worth.
LEMMA ByteOfBits ==
  ASSUME NEW x \in 0 .. 255
  PROVE  x =   128 * ((x \div 128) % 2) + 64 * ((x \div 64) % 2) + 32 * ((x \div 32) % 2)
             + 16 * ((x \div 16) % 2) + 8 * ((x \div 8) % 2) + 4 * ((x \div 4) % 2)
             + 2 * ((x \div 2) % 2) + ((x \div 1) % 2)
OBVIOUS

\* The bytes made of the bits of bytes and zeros are those bytes and zeros.
LEMMA BytesOfBitsOfBytes ==
  ASSUME NEW body \in Seq(0 .. 255), NEW t \in Seq(Bit), 8 * Len(body) <= Len(t),
         \A k \in 1 .. Len(t) : t[k] = IF k <= 8 * Len(body) THEN Bits(body)[k] ELSE 0
  PROVE  LET m == BytesOfBits(t)
         IN  /\ m \in Seq(0 .. 255) /\ Len(body) <= Len(m)
             /\ \A k \in 1 .. Len(m) : m[k] = IF k <= Len(body) THEN body[k] ELSE 0
<1> DEFINE m == BytesOfBits(t)
           L == Len(body)
           N == (Len(t) + 7) \div 8
<1>1. m \in Seq(0 .. 255) /\ Len(m) = N /\ \A k \in 1 .. N : m[k] = ByteAt(t, k - 1)
  BY BytesTyped DEF BytesOfBits
<1>2. L \in Nat /\ Len(t) \in Nat /\ \A k \in 1 .. L : body[k] \in 0 .. 255
  BY ElementOfSeq, LenProperties
<1>3. N \in Nat /\ L <= N
  BY <1>2
<1>4. ASSUME NEW k \in 1 .. 8 * L
      PROVE  BitAt(t, k) = (body[((k - 1) \div 8) + 1] \div Worth[((k - 1) % 8) + 1]) % 2
  <2>1. k \in 1 .. Len(t) /\ k <= 8 * L /\ k <= Len(t)
    BY <1>2
  <2>2. BitAt(t, k) = Bits(body)[k]
    BY <2>1 DEF BitAt
  <2>3. QED
    BY <2>2 DEF Bits
<1>5. ASSUME NEW k \in Nat \ {0}, k > 8 * L
      PROVE  BitAt(t, k) = 0
  <2>1. k <= Len(t) => k \in 1 .. Len(t) /\ ~(k <= 8 * L)
    BY <1>2, <1>5
  <2>2. QED
    BY <2>1 DEF BitAt
<1> HIDE DEF m, N
<1>6. ASSUME NEW k \in 1 .. N
      PROVE  m[k] = IF k <= L THEN body[k] ELSE 0
  <2> DEFINE n == k - 1
  <2>1. n \in Nat
    BY <1>3
  <2>2. m[k] =   128 * BitAt(t, 8 * n + 1) + 64 * BitAt(t, 8 * n + 2) + 32 * BitAt(t, 8 * n + 3)
               + 16 * BitAt(t, 8 * n + 4) + 8 * BitAt(t, 8 * n + 5) + 4 * BitAt(t, 8 * n + 6)
               + 2 * BitAt(t, 8 * n + 7) + BitAt(t, 8 * n + 8)
    BY <1>1 DEF ByteAt
  <2>3. CASE k <= L
    <3> DEFINE x == body[k]
    <3>1. /\ Worth[1] = 128 /\ Worth[2] = 64 /\ Worth[3] = 32 /\ Worth[4] = 16
          /\ Worth[5] = 8 /\ Worth[6] = 4 /\ Worth[7] = 2 /\ Worth[8] = 1
      BY DEF Worth
    <3>2. ASSUME NEW j \in {1, 2, 3, 4, 5, 6, 7, 8}
          PROVE  BitAt(t, 8 * n + j) = (x \div Worth[j]) % 2
      <4>2. n + 1 = k /\ n < L
        BY <1>2, <1>3, <2>3
      <4> HIDE DEF n
      <4>1. 8 * n + j \in 1 .. 8 * L /\ ((8 * n + j) - 1) \div 8 = n /\ (((8 * n + j) - 1) % 8) + 1 = j
        BY <1>2, <2>1, <4>2
      <4>3. QED
        BY <1>4, <4>1, <4>2
    <3>3. x \in 0 .. 255
      BY <1>2, <1>3, <2>3
    <3> HIDE DEF x, n
    <3>4. m[k] =   128 * ((x \div 128) % 2) + 64 * ((x \div 64) % 2) + 32 * ((x \div 32) % 2)
                 + 16 * ((x \div 16) % 2) + 8 * ((x \div 8) % 2) + 4 * ((x \div 4) % 2)
                 + 2 * ((x \div 2) % 2) + ((x \div 1) % 2)
      <4> DEFINE a == BitAt(t, 8 * n + 1)
                 b == BitAt(t, 8 * n + 2)
                 c == BitAt(t, 8 * n + 3)
                 d == BitAt(t, 8 * n + 4)
                 e == BitAt(t, 8 * n + 5)
                 f == BitAt(t, 8 * n + 6)
                 g == BitAt(t, 8 * n + 7)
                 h == BitAt(t, 8 * n + 8)
      <4>1. /\ a = (x \div 128) % 2 /\ b = (x \div 64) % 2 /\ c = (x \div 32) % 2 /\ d = (x \div 16) % 2
            /\ e = (x \div 8) % 2 /\ f = (x \div 4) % 2 /\ g = (x \div 2) % 2 /\ h = (x \div 1) % 2
        BY <3>1, <3>2
      <4>2. m[k] = 128 * a + 64 * b + 32 * c + 16 * d + 8 * e + 4 * f + 2 * g + h
        BY <2>2
      <4> HIDE DEF a, b, c, d, e, f, g, h
      <4>3. QED
        BY <4>1, <4>2
    <3>5. m[k] = x
      BY <3>3, <3>4, ByteOfBits
    <3>6. QED
      BY <2>3, <3>5 DEF x
  <2>4. CASE ~(k <= L)
    <3>1. ASSUME NEW j \in {1, 2, 3, 4, 5, 6, 7, 8}
          PROVE  BitAt(t, 8 * n + j) = 0
      <4>1. 8 * n + j \in Nat \ {0} /\ 8 * n + j > 8 * L
        BY <1>2, <2>1, <2>4
      <4> HIDE DEF n
      <4>2. QED
        BY <1>5, <4>1
    <3> HIDE DEF n
    <3>2. m[k] = 0
      BY <2>2, <3>1
    <3>3. QED
      BY <2>4, <3>2
  <2>5. QED
    BY <2>3, <2>4
<1>7. QED
  BY <1>1, <1>3, <1>6 DEF m

\* A run goes from element to element.
LEMMA StuffRunStep ==
  ASSUME NEW s \in Seq(Bit), NEW g \in [0 .. Len(s) -> Accs], Runs(StuffStep, NothingYet, s, g),
         NEW k \in 1 .. Len(s)
  PROVE  /\ s[k] \in Bit /\ g[k - 1] \in Accs /\ g[k] \in Accs
         /\ g[k] = StuffedBit(g[k - 1], s[k])
<1>1. Len(s) \in Nat /\ s[k] \in Bit
  BY ElementOfSeq, LenProperties
<1>2. k - 1 \in 0 .. Len(s) /\ k \in 0 .. Len(s)
  BY <1>1
<1>3. QED
  BY <1>1, <1>2, Steps DEF Runs

\* So does one that unstuffs.
LEMMA UnstuffRunStep ==
  ASSUME NEW s \in Seq(Bit), NEW g \in [0 .. Len(s) -> Accs], Runs(UnstuffStep, NothingYet, s, g),
         NEW k \in 1 .. Len(s)
  PROVE  /\ s[k] \in Bit /\ g[k - 1] \in Accs /\ g[k] \in Accs
         /\ g[k] = UnstuffedBit(g[k - 1], s[k])
<1>1. Len(s) \in Nat /\ s[k] \in Bit
  BY ElementOfSeq, LenProperties
<1>2. k - 1 \in 0 .. Len(s) /\ k \in 0 .. Len(s)
  BY <1>1
<1>3. QED
  BY <1>1, <1>2, Steps DEF Runs

\* What one bit adds to a stuffed frame: itself, and a zero after the fifth one.
LEMMA StuffedBitAdds ==
  ASSUME NEW acc \in Accs, NEW b \in Bit
  PROVE  LET r == StuffedBit(acc, b)
         IN  /\ \A j \in 1 .. Len(acc.bits) : r.bits[j] = acc.bits[j]
             /\ r.bits[Len(acc.bits) + 1] = b
             /\ \/ /\ Len(r.bits) = Len(acc.bits) + 1 /\ b = 0 /\ r.ones = 0
                \/ /\ Len(r.bits) = Len(acc.bits) + 1 /\ b = 1 /\ acc.ones < 4 /\ r.ones = acc.ones + 1
                \/ /\ Len(r.bits) = Len(acc.bits) + 2 /\ b = 1 /\ acc.ones = 4 /\ r.ones = 0
                   /\ r.bits[Len(acc.bits) + 2] = 0
<1> DEFINE s == acc.bits
           n == acc.ones
<1>1. s \in Seq(Bit) /\ n \in 0 .. 4 /\ Len(s) \in Nat
  BY LenProperties DEF Accs
<1>2. \A x \in Bit : /\ Len(Append(s, x)) = Len(s) + 1
                     /\ Append(s, x)[Len(s) + 1] = x
                     /\ \A j \in 1 .. Len(s) : Append(s, x)[j] = s[j]
  BY <1>1, AppendProperties
<1>3. 0 \in Bit /\ 1 \in Bit
  BY DEF Bit
<1> HIDE DEF s, n
<1>4. CASE b = 0
  <2> DEFINE r == Append(s, 0)
  <2>1. StuffedBit(acc, b) = [bits |-> r, ones |-> 0, skip |-> FALSE]
    BY <1>4 DEF StuffedBit, s
  <2>2. Len(r) = Len(s) + 1 /\ r[Len(s) + 1] = 0 /\ \A j \in 1 .. Len(s) : r[j] = s[j]
    BY <1>2, <1>3
  <2> HIDE DEF r
  <2>3. QED
    BY <1>4, <2>1, <2>2 DEF s
<1>5. CASE b # 0 /\ n = 4
  <2> DEFINE r == s \o <<1, 0>>
  <2>1. StuffedBit(acc, b) = [bits |-> r, ones |-> 0, skip |-> FALSE]
    BY <1>5 DEF StuffedBit, s, n
  <2>2. /\ Len(r) = Len(s) + 2 /\ r[Len(s) + 1] = 1 /\ r[Len(s) + 2] = 0
        /\ \A j \in 1 .. Len(s) : r[j] = s[j]
    <3> DEFINE t == <<1, 0>>
    <3>1. t \in Seq(Bit) /\ Len(t) = 2 /\ t[1] = 1 /\ t[2] = 0
      BY <1>3
    <3> HIDE DEF t
    <3>2. /\ Len(r) = Len(s) + Len(t)
          /\ \A j \in 1 .. Len(r) : r[j] = IF j <= Len(s) THEN s[j] ELSE t[j - Len(s)]
      BY <1>1, <3>1, ConcatProperties DEF t
    <3> HIDE DEF r
    <3>3. QED
      BY <1>1, <3>1, <3>2
  <2> HIDE DEF r
  <2>3. b = 1 /\ n = acc.ones
    BY <1>5 DEF Bit, n
  <2>4. QED
    BY <1>5, <2>1, <2>2, <2>3 DEF s
<1>6. CASE b # 0 /\ n # 4
  <2> DEFINE r == Append(s, 1)
  <2>1. StuffedBit(acc, b) = [bits |-> r, ones |-> n + 1, skip |-> FALSE]
    BY <1>6 DEF StuffedBit, s, n
  <2>2. Len(r) = Len(s) + 1 /\ r[Len(s) + 1] = 1 /\ \A j \in 1 .. Len(s) : r[j] = s[j]
    BY <1>2, <1>3
  <2> HIDE DEF r
  <2>3. b = 1 /\ n < 4 /\ n = acc.ones
    BY <1>1, <1>6 DEF Bit, n
  <2>4. QED
    BY <2>1, <2>2, <2>3 DEF s
<1>7. QED
  BY <1>4, <1>5, <1>6

\* The state of unstuffing when it has given the first k bits of s,
Gave(h, s, k) ==
  /\ h.bits \in Seq(Bit) /\ Len(h.bits) = k
  /\ \A i \in 1 .. k : h.bits[i] = s[i]

\* and stuffing is as far.
Taken(h, s, k, ones) == Gave(h, s, k) /\ h.ones = ones /\ h.skip = FALSE

\* or stuffing has put a zero after them.
Skips(h, s, k) == Gave(h, s, k) /\ h.skip = TRUE

\* One bit that is not left out.
LEMMA TakenBit ==
  ASSUME NEW h \in Accs, NEW s \in Seq(Bit), NEW k \in 1 .. Len(s), NEW n, Taken(h, s, k - 1, n),
         NEW o, o = (IF s[k] = 0 THEN 0 ELSE n + 1),
         NEW r, r = UnstuffedBit(h, s[k])
  PROVE  /\ o # 5 => Taken(r, s, k, o % 5)
         /\ o = 5 => Skips(r, s, k)
<1> DEFINE u == Append(h.bits, s[k])
<1>1. r = [bits |-> u, ones |-> o % 5, skip |-> o = 5]
  BY DEF UnstuffedBit, Taken
<1>2. k \in Nat /\ h.bits \in Seq(Bit) /\ Len(h.bits) = k - 1 /\ s[k] \in Bit
  BY ElementOfSeq, LenProperties DEF Taken, Gave
<1>3. /\ u \in Seq(Bit) /\ Len(u) = (k - 1) + 1 /\ u[(k - 1) + 1] = s[k]
      /\ \A i \in 1 .. k - 1 : u[i] = h.bits[i]
  BY <1>2, AppendProperties
<1> HIDE DEF u
<1>4. Len(u) = k /\ u[k] = s[k] /\ \A i \in 1 .. k - 1 : u[i] = s[i]
  BY <1>2, <1>3 DEF Taken, Gave
<1>5. \A i \in 1 .. k : u[i] = s[i]
  <2>1. \A i \in 1 .. k : i = k \/ i \in 1 .. k - 1
    BY <1>2
  <2>2. QED
    BY <1>4, <2>1
<1>6. CASE o = 5
  <2>1. (o = 5) = TRUE
    BY <1>6, Zenon
  <2>2. r = [bits |-> u, ones |-> o % 5, skip |-> TRUE]
    BY <1>1, <2>1, Zenon
  <2>3. QED
    BY <1>3, <1>4, <1>5, <1>6, <2>2 DEF Skips, Gave
<1>7. CASE o # 5
  <2>1. (o = 5) = FALSE
    BY <1>7, Zenon
  <2>2. r = [bits |-> u, ones |-> o % 5, skip |-> FALSE]
    BY <1>1, <2>1, Zenon
  <2>3. QED
    BY <1>3, <1>4, <1>5, <1>7, <2>2 DEF Taken, Gave
<1>8. QED
  BY <1>6, <1>7

\* Bits that begin with stuffed ones are unstuffed to these first.
LEMMA Untaken ==
  ASSUME NEW s \in Seq(Bit), NEW g \in [0 .. Len(s) -> Accs], Runs(StuffStep, NothingYet, s, g),
         NEW t \in Seq(Bit), NEW h \in [0 .. Len(t) -> Accs], Runs(UnstuffStep, NothingYet, t, h),
         Len(g[Len(s)].bits) <= Len(t),
         \A j \in 1 .. Len(g[Len(s)].bits) : t[j] = g[Len(s)].bits[j]
  PROVE  Taken(h[Len(g[Len(s)].bits)], s, Len(s), g[Len(s)].ones)
<1> DEFINE N    == Len(s)
           L(k) == Len(g[k].bits)
           T    == {k \in 0 .. N : L(k) <= Len(t) /\ (\A j \in 1 .. L(k) : t[j] = g[k].bits[j])
                                     => Taken(h[L(k)], s, k, g[k].ones)}
<1>1. N \in Nat /\ Len(t) \in Nat
  BY LenProperties
<1>2. 0 \in T
  <2>1. g[0] = NothingYet /\ h[0] = NothingYet /\ NothingYet.bits = <<>> /\ NothingYet.ones = 0
        /\ NothingYet.skip = FALSE
    BY DEF Runs, NothingYet
  <2>2. L(0) = 0 /\ <<>> \in Seq(Bit) /\ Len(<<>>) = 0
    BY <2>1, EmptySeq
  <2>3. Taken(h[0], s, 0, 0)
    BY <2>1, <2>2 DEF Taken, Gave
  <2>4. Taken(h[L(0)], s, 0, g[0].ones)
    BY <2>1, <2>2, <2>3
  <2>5. QED
    BY <1>1, <2>4
<1>3. ASSUME NEW k \in 1 .. N, k - 1 \in T
      PROVE  k \in T
  <2> DEFINE p == g[k - 1]
             q == g[k]
             l == Len(p.bits)
             b == s[k]
  <2>1. b \in Bit /\ p \in Accs /\ q \in Accs /\ q = StuffedBit(p, b)
    BY StuffRunStep
  <2>2. l \in Nat /\ p.ones \in 0 .. 4
    BY <2>1, LenProperties DEF Accs
  <2>3. /\ \A j \in 1 .. l : q.bits[j] = p.bits[j]
        /\ q.bits[l + 1] = b
        /\ \/ Len(q.bits) = l + 1 /\ b = 0 /\ q.ones = 0
           \/ Len(q.bits) = l + 1 /\ b = 1 /\ p.ones < 4 /\ q.ones = p.ones + 1
           \/ Len(q.bits) = l + 2 /\ b = 1 /\ p.ones = 4 /\ q.ones = 0 /\ q.bits[l + 2] = 0
    <3> HIDE DEF p, q, b
    <3>1. QED
      BY <2>1, StuffedBitAdds
  <2>4. SUFFICES ASSUME Len(q.bits) <= Len(t), \A j \in 1 .. Len(q.bits) : t[j] = q.bits[j]
                 PROVE  Taken(h[Len(q.bits)], s, k, q.ones)
    BY <1>1
  <2>5. l + 1 <= Len(q.bits) /\ l + 1 \in 1 .. Len(t) /\ l + 1 \in 1 .. Len(q.bits)
    BY <1>1, <2>2, <2>3, <2>4
  <2>6. Taken(h[l], s, k - 1, p.ones)
    <3>1. \A j \in 1 .. l : j \in 1 .. Len(q.bits)
      BY <2>2, <2>3
    <3>2. \A j \in 1 .. l : t[j] = p.bits[j]
      BY <2>3, <2>4, <3>1
    <3>3. l <= Len(t)
      BY <1>1, <2>2, <2>5
    <3>4. QED
      BY <1>3, <3>2, <3>3
  <2>7. t[l + 1] = b
    BY <2>3, <2>4, <2>5
  <2>8. /\ h[l] \in Accs /\ h[l + 1] \in Accs
        /\ h[l + 1] = UnstuffedBit(h[l], b)
    <3>1. (l + 1) - 1 = l
      BY <2>2
    <3>2. QED
      BY <2>5, <2>7, <3>1, UnstuffRunStep
  <2> DEFINE r == h[l + 1]
             o == IF b = 0 THEN 0 ELSE p.ones + 1
  <2>9. (o # 5 => Taken(r, s, k, o % 5)) /\ (o = 5 => Skips(r, s, k))
    <3> DEFINE n == p.ones
               e == h[l]
    <3>1. e \in Accs /\ Taken(e, s, k - 1, n) /\ r = UnstuffedBit(e, s[k])
          /\ o = (IF s[k] = 0 THEN 0 ELSE n + 1)
      BY <2>6, <2>8
    <3> HIDE DEF n, e, r, T
    <3> HIDE DEF o
    <3>2. QED
      BY <3>1, TakenBit
  <2> HIDE DEF p, q, r, l, b, T
  <2>10. CASE Len(q.bits) = l + 1 /\ b = 0 /\ q.ones = 0
    <3>1. o % 5 = 0 /\ o # 5
      BY <2>10
    <3>2. QED
      BY <2>9, <2>10, <3>1 DEF r
  <2>11. CASE Len(q.bits) = l + 1 /\ b = 1 /\ p.ones < 4 /\ q.ones = p.ones + 1
    <3>1. o % 5 = q.ones /\ o # 5
      BY <2>2, <2>11
    <3>2. QED
      BY <2>9, <2>11, <3>1 DEF r
  <2>12. CASE Len(q.bits) = l + 2 /\ b = 1 /\ p.ones = 4 /\ q.ones = 0 /\ q.bits[l + 2] = 0
    <3>1. o = 5
      BY <2>12
    <3>2. Gave(r, s, k) /\ r.skip = TRUE
      BY <2>9, <3>1 DEF Skips
    <3>3. l + 2 \in 1 .. Len(t) /\ (l + 2) - 1 = l + 1
      BY <1>1, <2>2, <2>4, <2>12
    <3>4. h[l + 2] = UnstuffedBit(r, t[l + 2])
      BY <3>3, UnstuffRunStep DEF r
    <3>5. h[l + 2] = [bits |-> r.bits, ones |-> 0, skip |-> FALSE]
      BY <3>2, <3>4 DEF UnstuffedBit
    <3>6. QED
      BY <2>12, <3>2, <3>5 DEF Taken, Gave
  <2>13. QED
    BY <2>3, <2>10, <2>11, <2>12
<1> HIDE DEF T
<1>4. N \in T
  <2>1. \A k \in 0 .. N : k \in T
    BY <1>1, <1>2, <1>3, FromTheFront
  <2>2. QED
    BY <1>1, <2>1
<1>5. QED
  BY <1>4 DEF T

\* The state of unstuffing when it has given s and i zeros.
WithZeros(h, s, i) ==
  /\ h.bits \in Seq(Bit) /\ Len(h.bits) = Len(s) + i
  /\ \A j \in 1 .. Len(s) + i : h.bits[j] = IF j <= Len(s) THEN s[j] ELSE 0

\* One more zero.
LEMMA ZeroGiven ==
  ASSUME NEW h \in Accs, NEW s \in Seq(Bit), NEW i \in Nat, WithZeros(h, s, i), h.skip = FALSE
  PROVE  LET r == UnstuffedBit(h, 0) IN WithZeros(r, s, i + 1) /\ r.skip = FALSE
<1> DEFINE u == Append(h.bits, 0)
           r == UnstuffedBit(h, 0)
<1>1. r = [bits |-> u, ones |-> 0, skip |-> FALSE]
  <2>1. 0 % 5 = 0 /\ (0 = 5) = FALSE
    OBVIOUS
  <2>2. UnstuffedBit(h, 0) = [bits |-> u, ones |-> 0 % 5, skip |-> 0 = 5]
    BY DEF UnstuffedBit
  <2>3. QED
    BY <2>1, <2>2
<1>2. Len(s) \in Nat /\ 0 \in Bit /\ h.bits \in Seq(Bit) /\ Len(h.bits) = Len(s) + i
  BY LenProperties DEF Bit, WithZeros
<1>3. /\ u \in Seq(Bit) /\ Len(u) = Len(s) + i + 1 /\ u[Len(s) + i + 1] = 0
      /\ \A j \in 1 .. Len(s) + i : u[j] = h.bits[j]
  BY <1>2, AppendProperties
<1> HIDE DEF u, r
<1>4. \A j \in 1 .. Len(s) + i : u[j] = IF j <= Len(s) THEN s[j] ELSE 0
  BY <1>3 DEF WithZeros
<1>5. \A j \in 1 .. Len(s) + (i + 1) : u[j] = IF j <= Len(s) THEN s[j] ELSE 0
  <2>1. \A j \in 1 .. Len(s) + (i + 1) : j \in 1 .. Len(s) + i \/ (j = Len(s) + i + 1 /\ ~(j <= Len(s)))
    BY <1>2
  <2>2. QED
    BY <1>3, <1>4, <2>1
<1>6. Len(u) = Len(s) + (i + 1)
  BY <1>2, <1>3
<1>7. QED
  BY <1>1, <1>3, <1>5, <1>6 DEF WithZeros, r

\* What follows the stuffed bits are zeros, and gives zeros.
LEMMA ZerosGiven ==
  ASSUME NEW s \in Seq(Bit), NEW t \in Seq(Bit),
         NEW h \in [0 .. Len(t) -> Accs], Runs(UnstuffStep, NothingYet, t, h),
         NEW p \in 0 .. Len(t), NEW n, Taken(h[p], s, Len(s), n),
         \A j \in p + 1 .. Len(t) : t[j] = 0
  PROVE  WithZeros(h[Len(t)], s, Len(t) - p)
<1> DEFINE M == Len(t) - p
           T == {i \in 0 .. M : WithZeros(h[p + i], s, i) /\ h[p + i].skip = FALSE}
<1>1. Len(t) \in Nat /\ Len(s) \in Nat /\ p \in Nat /\ M \in Nat /\ p + M = Len(t)
  <2>1. Len(t) \in Nat /\ Len(s) \in Nat
    BY LenProperties
  <2>2. QED
    BY <2>1
<1>2. 0 \in T
  <2>1. p + 0 = p /\ Len(s) + 0 = Len(s) /\ 0 \in 0 .. M
    BY <1>1
  <2>2. \A j \in 1 .. Len(s) : j <= Len(s)
    BY <1>1
  <2>3. WithZeros(h[p], s, 0) /\ h[p].skip = FALSE
    BY <2>1, <2>2 DEF Taken, Gave, WithZeros
  <2>4. QED
    BY <2>1, <2>3
<1>3. ASSUME NEW i \in 1 .. M, i - 1 \in T
      PROVE  i \in T
  <2>1. p + i \in 1 .. Len(t) /\ p + i \in p + 1 .. Len(t) /\ (p + i) - 1 = p + (i - 1)
        /\ i - 1 \in Nat /\ (i - 1) + 1 = i /\ i \in 0 .. M
    BY <1>1
  <2>2. t[p + i] = 0
    BY <2>1
  <2>3. h[p + (i - 1)] \in Accs /\ h[p + i] = UnstuffedBit(h[p + (i - 1)], 0)
    BY <2>1, <2>2, UnstuffRunStep
  <2>4. WithZeros(h[p + (i - 1)], s, i - 1) /\ h[p + (i - 1)].skip = FALSE
    BY <1>3
  <2> DEFINE e == h[p + (i - 1)]
             r == h[p + i]
             k == i - 1
  <2>5. e \in Accs /\ r = UnstuffedBit(e, 0) /\ WithZeros(e, s, k) /\ e.skip = FALSE /\ k \in Nat /\ k + 1 = i
    BY <2>1, <2>3, <2>4
  <2> HIDE DEF e, r, k, T, M
  <2>6. WithZeros(r, s, k + 1) /\ r.skip = FALSE
    BY <2>5, ZeroGiven
  <2>7. QED
    BY <2>1, <2>5, <2>6 DEF T, r
<1> HIDE DEF T, M
<1>4. M \in T
  <2>1. \A i \in 0 .. M : i \in T
    BY <1>1, <1>2, <1>3, FromTheFront
  <2>2. QED
    BY <1>1, <2>1
<1>5. WithZeros(h[p + M], s, M)
  BY <1>4 DEF T
<1>6. QED
  BY <1>1, <1>5 DEF M

\* Bits stuffed, made bytes and unstuffed are those bits, and zeros.
LEMMA BitsRecovered ==
  ASSUME NEW s \in Seq(Bit)
  PROVE  LET u == UnstuffedBits(Bits(BytesOfBits(StuffedBits(s))))
         IN  /\ u \in Seq(Bit) /\ Len(s) <= Len(u)
             /\ \A j \in 1 .. Len(u) : u[j] = IF j <= Len(s) THEN s[j] ELSE 0
<1> DEFINE b == StuffedBits(s)
           t == Bits(BytesOfBits(b))
           u == UnstuffedBits(t)
<1>1. PICK g \in [0 .. Len(s) -> Accs] : Runs(StuffStep, NothingYet, s, g) /\ b = g[Len(s)].bits
  BY StuffRun
<1>2. b \in Seq(Bit)
  BY StuffedBitsSpaced
<1> HIDE DEF b
<1>3. t \in Seq(Bit) /\ Len(t) = 8 * ((Len(b) + 7) \div 8) /\ \A k \in 1 .. Len(t) : t[k] = BitAt(b, k)
  BY <1>2, BitsOfBytes
<1>4. Len(s) \in Nat /\ Len(b) \in Nat /\ Len(t) \in Nat
  BY <1>2, <1>3, LenProperties
<1> HIDE DEF t
<1>5. PICK h \in [0 .. Len(t) -> Accs] : Runs(UnstuffStep, NothingYet, t, h) /\ u = h[Len(t)].bits
  BY <1>3, UnstuffRun
<1>6. Len(b) <= Len(t) /\ Len(b) \in 0 .. Len(t)
  BY <1>3, <1>4
<1>7. \A j \in 1 .. Len(b) : t[j] = b[j]
  <2>1. \A j \in 1 .. Len(b) : j \in 1 .. Len(t) /\ j <= Len(b)
    BY <1>4, <1>6
  <2>2. QED
    BY <1>3, <2>1 DEF BitAt
<1>8. \A j \in Len(b) + 1 .. Len(t) : t[j] = 0
  <2>1. \A j \in Len(b) + 1 .. Len(t) : j \in 1 .. Len(t) /\ ~(j <= Len(b))
    BY <1>4, <1>6
  <2>2. QED
    BY <1>3, <2>1 DEF BitAt
<1>9. Taken(h[Len(b)], s, Len(s), g[Len(s)].ones)
  BY <1>1, <1>3, <1>5, <1>6, <1>7, Untaken
<1>10. WithZeros(h[Len(t)], s, Len(t) - Len(b))
  BY <1>3, <1>5, <1>6, <1>8, <1>9, ZerosGiven
<1> DEFINE d == Len(t) - Len(b)
<1>11. d \in Nat
  BY <1>4, <1>6
<1> HIDE DEF d, u
<1>12. u \in Seq(Bit) /\ Len(u) = Len(s) + d
       /\ \A j \in 1 .. Len(s) + d : u[j] = IF j <= Len(s) THEN s[j] ELSE 0
  BY <1>5, <1>10 DEF WithZeros, d
<1>13. Len(s) <= Len(u)
  BY <1>4, <1>11, <1>12
<1>14. QED
  BY <1>12, <1>13 DEF u, t, b

-----------------------------------------------------------------------------
(* Parts of sequences, and sequences of parts. *)

\* A part of a sequence is a sequence,
LEMMA PartOfSeq ==
  ASSUME NEW S, NEW s \in Seq(S), NEW m \in Nat \ {0}, NEW n \in Nat, n <= Len(s), m <= n + 1
  PROVE  /\ SubSeq(s, m, n) \in Seq(S) /\ Len(SubSeq(s, m, n)) = n - m + 1
         /\ \A i \in 1 .. n - m + 1 : SubSeq(s, m, n)[i] = s[m + i - 1]
<1>1. Len(s) \in Nat /\ \A i \in 1 .. Len(s) : s[i] \in S
  BY ElementOfSeq, LenProperties
<1>2. \A i \in m .. n : i \in 1 .. Len(s)
  BY <1>1
<1>3. \A i \in m .. n : s[i] \in S
  BY <1>1, <1>2
<1>4. /\ SubSeq(s, m, n) \in Seq(S)
      /\ Len(SubSeq(s, m, n)) = IF m <= n THEN n - m + 1 ELSE 0
      /\ \A i \in 1 .. n - m + 1 : SubSeq(s, m, n)[i] = s[m + i - 1]
  BY <1>3, SubSeqProperties
<1>5. QED
  BY <1>4

\* and two make one.
LEMMA JoinedSeq ==
  ASSUME NEW S, NEW s \in Seq(S), NEW t \in Seq(S)
  PROVE  /\ s \o t \in Seq(S) /\ Len(s \o t) = Len(s) + Len(t)
         /\ \A i \in 1 .. Len(s) : (s \o t)[i] = s[i]
         /\ \A i \in 1 .. Len(t) : (s \o t)[Len(s) + i] = t[i]
<1>1. Len(s) \in Nat /\ Len(t) \in Nat
  BY LenProperties
<1>2. /\ s \o t \in Seq(S) /\ Len(s \o t) = Len(s) + Len(t)
      /\ \A i \in 1 .. Len(s) + Len(t) : (s \o t)[i] = IF i <= Len(s) THEN s[i] ELSE t[i - Len(s)]
  BY ConcatProperties
<1> DEFINE u == s \o t
<1> HIDE DEF u
<1>3. u \in Seq(S) /\ Len(u) = Len(s) + Len(t)
      /\ \A i \in 1 .. Len(s) + Len(t) : u[i] = IF i <= Len(s) THEN s[i] ELSE t[i - Len(s)]
  BY <1>2 DEF u
<1>4. ASSUME NEW i \in 1 .. Len(s)
      PROVE  u[i] = s[i]
  <2>1. i \in 1 .. Len(s) + Len(t) /\ i <= Len(s)
    BY <1>1
  <2>2. QED
    BY <1>3, <2>1
<1>5. ASSUME NEW i \in 1 .. Len(t)
      PROVE  u[Len(s) + i] = t[i]
  <2>1. Len(s) + i \in 1 .. Len(s) + Len(t) /\ ~(Len(s) + i <= Len(s)) /\ (Len(s) + i) - Len(s) = i
    BY <1>1
  <2>2. QED
    BY <1>3, <2>1
<1>6. QED
  BY <1>3, <1>4, <1>5 DEF u

\* A frame is unstuffed to what was stuffed into it, for all bodies of any length that
\* do not end with a zero byte.
THEOREM StuffedIsRecovered ==
  ASSUME NEW body \in Seq(0 .. 255), body # <<>>, body[Len(body)] # 0
  PROVE  Unstuff(Stuff(body)) = body
<1> DEFINE s == Bits(body)
           a == BytesOfBits(StuffedBits(s))
           f == Stuff(body)
           u == UnstuffedBits(Bits(a))
           m == BytesOfBits(u)
           L == Len(body)
<1>1. s \in Seq(Bit) /\ Len(s) = 8 * L /\ L \in Nat \ {0} /\ a \in Seq(0 .. 255) /\ Len(a) \in Nat
  <2>1. s \in Seq(Bit) /\ Len(s) = 8 * L
    BY BitsTyped
  <2>2. a \in Seq(0 .. 255)
    BY <2>1, StuffedBitsSpaced, BytesTyped
  <2>3. QED
    BY <2>1, <2>2, LenProperties, EmptySeq
<1>2. SubSeq(f, 2, Len(f) - 1) = a
  <2> DEFINE t == <<Flag>>
             v == t \o a
             w == SubSeq(f, 2, Len(f) - 1)
  <2>0. t \in Seq(0 .. 255) /\ a \in Seq(0 .. 255)
    BY <1>1 DEF Flag
  <2>1. Len(t) = 1 /\ Len(a) \in Nat
    BY <1>1
  <2>2. f = v \o t
    BY DEF Stuff
  <2> HIDE DEF a, t, f
  <2>3. /\ v \in Seq(0 .. 255) /\ Len(v) = Len(t) + Len(a)
        /\ \A i \in 1 .. Len(a) : v[Len(t) + i] = a[i]
    BY <2>0, JoinedSeq
  <2> HIDE DEF v
  <2>a. v \in Seq(0 .. 255)
    BY <2>3
  <2>4. /\ f \in Seq(0 .. 255) /\ Len(f) = Len(v) + Len(t)
        /\ \A i \in 1 .. Len(v) : f[i] = v[i]
    BY <2>0, <2>2, <2>a, JoinedSeq
  <2>5. \A i \in 1 .. Len(a) : Len(t) + i \in 1 .. Len(v) /\ Len(t) + i = 2 + i - 1
    BY <2>1, <2>3
  <2>6. Len(f) - 1 \in Nat /\ Len(f) - 1 <= Len(f) /\ 2 <= (Len(f) - 1) + 1 /\ (Len(f) - 1) - 2 + 1 = Len(a)
    BY <2>1, <2>3, <2>4
  <2>7. w \in Seq(0 .. 255) /\ Len(w) = Len(a) /\ \A i \in 1 .. Len(a) : w[i] = f[2 + i - 1]
    <3> DEFINE n == Len(f) - 1
    <3>1. f \in Seq(0 .. 255)
      BY <2>4
    <3>2. n \in Nat /\ n <= Len(f) /\ 2 <= n + 1 /\ 2 \in Nat \ {0}
      BY <2>6
    <3> HIDE DEF n
    <3> DEFINE S == 0 .. 255
               o == 2
    <3>3. f \in Seq(S) /\ o \in Nat \ {0} /\ n \in Nat /\ n <= Len(f) /\ o <= n + 1
      BY <3>1, <3>2
    <3> HIDE DEF S, o
    <3>4. /\ SubSeq(f, o, n) \in Seq(S) /\ Len(SubSeq(f, o, n)) = n - o + 1
          /\ \A i \in 1 .. n - o + 1 : SubSeq(f, o, n)[i] = f[o + i - 1]
      BY <3>3, PartOfSeq
    <3>5. QED
      BY <2>6, <3>4 DEF n, S, o
  <2> HIDE DEF w
  <2>8. \A i \in 1 .. Len(a) : w[i] = a[i]
    BY <2>3, <2>4, <2>5, <2>7
  <2>9. w = a
    <3>1. Len(w) = Len(a) /\ \A i \in 1 .. Len(w) : w[i] = a[i]
      BY <2>1, <2>7, <2>8
    <3>2. w \in Seq(0 .. 255)
      BY <2>7
    <3>3. QED
      BY <2>0, <3>1, <3>2, SeqEqual
  <2>10. QED
    BY <2>9 DEF w
<1>3. /\ u \in Seq(Bit) /\ 8 * L <= Len(u)
      /\ \A j \in 1 .. Len(u) : u[j] = IF j <= 8 * L THEN Bits(body)[j] ELSE 0
  BY <1>1, BitsRecovered
<1> HIDE DEF u
<1>4. /\ m \in Seq(0 .. 255) /\ L <= Len(m)
      /\ \A k \in 1 .. Len(m) : m[k] = IF k <= L THEN body[k] ELSE 0
  BY <1>3, BytesOfBitsOfBytes
<1>5. Len(m) \in Nat
  BY <1>4, LenProperties
<1> HIDE DEF m
<1>6. SelectLastInSeq(m, LAMBDA b : b # 0) = L
  <2> DEFINE I == {i \in 1 .. Len(m) : m[i] # 0}
  <2>1. L \in I /\ \A i \in I : i <= L
    <3>1. L \in 1 .. Len(m) /\ m[L] # 0
      BY <1>1, <1>4, <1>5
    <3>2. \A i \in 1 .. Len(m) : ~(i <= L) => m[i] = 0
      BY <1>4
    <3>3. QED
      BY <3>1, <3>2
  <2>2. I \subseteq Int
    BY <1>5
  <2>3. SelectLastInSeq(m, LAMBDA b : b # 0) = Max(I)
    BY <2>1 DEF SelectLastInSeq
  <2>4. Max(I) = L
    <3> HIDE DEF I, L
    <3>1. \A y \in I : L >= y
      BY <2>1, <2>2
    <3>2. \A x \in I : (\A y \in I : x >= y) => x = L
      BY <2>1, <2>2
    <3>3. QED
      BY <2>1, <3>1, <3>2 DEF Max
  <2>5. QED
    BY <2>3, <2>4
<1>7. Unstuff(f) = SubSeq(m, 1, L)
  BY <1>2, <1>6 DEF Unstuff, m, u
<1>8. SubSeq(m, 1, L) = body
  <2> DEFINE w == SubSeq(m, 1, L)
  <2>1. w \in Seq(0 .. 255) /\ Len(w) = L /\ \A i \in 1 .. L : w[i] = m[i]
    <3>1. L <= Len(m) /\ 1 <= L + 1 /\ L - 1 + 1 = L /\ \A i \in 1 .. L : 1 + i - 1 = i
      BY <1>1, <1>4
    <3>2. m \in Seq(0 .. 255) /\ L \in Nat
      BY <1>1, <1>4
    <3> HIDE DEF L
    <3> DEFINE S == 0 .. 255
               o == 1
    <3>3. m \in Seq(S) /\ o \in Nat \ {0} /\ L \in Nat /\ L <= Len(m) /\ o <= L + 1
      BY <3>1, <3>2
    <3> HIDE DEF S, o
    <3>4. /\ SubSeq(m, o, L) \in Seq(S) /\ Len(SubSeq(m, o, L)) = L - o + 1
          /\ \A i \in 1 .. L - o + 1 : SubSeq(m, o, L)[i] = m[o + i - 1]
      BY <3>3, PartOfSeq
    <3>5. QED
      BY <3>1, <3>4 DEF S, o
  <2>2. \A i \in 1 .. L : i \in 1 .. Len(m) /\ i <= L
    BY <1>1, <1>4, <1>5
  <2>3. \A i \in 1 .. L : w[i] = body[i]
    BY <1>4, <2>1, <2>2
  <2> HIDE DEF w
  <2>4. w = body
    BY <2>1, <2>3, SeqEqual
  <2>5. QED
    BY <2>4 DEF w
<1>9. QED
  BY <1>7, <1>8

-----------------------------------------------------------------------------
(* A frame on its way to the decoder: first it begins a block, then it     *)
(* occurs in what is pushed.                                               *)

Begins(f, s) == Len(f) <= Len(s) /\ \A i \in 1 .. Len(f) : s[i] = f[i]

\* f stands in s after the first p bytes.
StandsAt(f, s, p) == p + Len(f) <= Len(s) /\ \A i \in 1 .. Len(f) : s[p + i] = f[i]

\* A frame has flags at its ends and nowhere else, and is not too long.
WellFormed(f) ==
  /\ f \in Seq(Bytes) /\ Len(f) >= 3 /\ Len(f) <= BlockSize
  /\ f[1] = AX25_FLAG /\ f[Len(f)] = AX25_FLAG
  /\ \A k \in 2 .. Len(f) - 1 : f[k] # AX25_FLAG

\* Numbers have a least one.
LEMMA LeastOf ==
  ASSUME NEW S \in SUBSET Nat, S # {}
  PROVE  \E k \in S : \A j \in S : k <= j
<1> SUFFICES ASSUME \A k \in S : \E j \in S : ~(k <= j)
             PROVE  FALSE
  OBVIOUS
<1> DEFINE T == {n \in Nat : \A k \in S : k >= n}
<1>1. 0 \in T
  OBVIOUS
<1>2. \A n \in Nat : n \in T => n + 1 \in T
  <2>1. SUFFICES ASSUME NEW n \in Nat, n \in T, NEW k \in S
                 PROVE  k >= n + 1
    OBVIOUS
  <2>2. PICK j \in S : ~(k <= j)
    OBVIOUS
  <2>3. j >= n /\ j \in Nat /\ k \in Nat
    BY <2>1
  <2>4. QED
    BY <2>2, <2>3
<1> HIDE DEF T
<1>3. \A n \in Nat : n \in T
  BY <1>1, <1>2, NatInductionSet
<1>4. PICK k \in S : TRUE
  OBVIOUS
<1>5. k \in Nat /\ k + 1 \in T
  BY <1>3
<1>6. k >= k + 1
  BY <1>5 DEF T
<1>7. QED
  BY <1>5, <1>6

\* Whatever the ground stuffs is well formed.
LEMMA FramesWellFormed == ASSUME NEW n \in 1 .. Len(Frames) PROVE WellFormed(Stuff(Frames[n]))
<1> DEFINE body == Frames[n]
           f    == Stuff(body)
           s    == StuffedBits(Bits(body))
<1>1. body \in Seq(0 .. 255) /\ body # <<>> /\ f \in Seq(Bytes) /\ Len(f) <= BlockSize /\ AX25_FLAG = Flag
  <2>1. Frames \in Seq(Seq(0 .. 255))
    BY LinkAssumption
  <2>2. DOMAIN Frames = 1 .. Len(Frames)
    BY <2>1, LenProperties
  <2>3. Frames[n] \in Seq(0 .. 255)
    BY <2>1, ElementOfSeq
  <2>4. QED
    BY <2>2, <2>3, LinkAssumption
<1>2. s \in Seq(Bit) /\ Len(f) = (Len(s) + 7) \div 8 + 2
  BY <1>1, StuffedBody
<1>3. Len(s) >= 1
  <2> DEFINE b == Bits(body)
  <2>1. b \in Seq(Bit) /\ Len(b) = 8 * Len(body) /\ Len(body) \in Nat \ {0}
    BY <1>1, BitsTyped, EmptySeq
  <2> HIDE DEF b
  <2>2. PICK g \in [0 .. Len(b) -> Accs] : Runs(StuffStep, NothingYet, b, g) /\ s = g[Len(b)].bits
    BY <2>1, StuffRun DEF b
  <2> DEFINE k == Len(b)
             p == g[k - 1]
             q == g[k]
  <2>3. k \in 1 .. Len(b)
    BY <2>1
  <2> HIDE DEF k
  <2>4. b[k] \in Bit /\ p \in Accs /\ q = StuffedBit(p, b[k])
    BY <2>1, <2>2, <2>3, StuffRunStep
  <2> HIDE DEF p, q
  <2>5. Len(q.bits) = Len(p.bits) + 1 \/ Len(q.bits) = Len(p.bits) + 2
    BY <2>4, StuffedBitAdds
  <2>6. Len(p.bits) \in Nat
    BY <2>4, LenProperties DEF Accs
  <2>7. QED
    BY <2>2, <2>5, <2>6 DEF q, k
<1>4. Len(s) \in Nat
  BY <1>2, LenProperties
<1>5. Len(f) >= 3
  BY <1>2, <1>3, <1>4
<1>6. f[1] = Flag /\ f[Len(f)] = Flag
  <2> DEFINE S == 0 .. 255
             t == <<Flag>>
             a == BytesOfBits(s)
             v == t \o a
             o == 1
  <2>1. t \in Seq(S) /\ a \in Seq(S)
    BY <1>2, BytesTyped DEF Flag
  <2>2. Len(t) = 1 /\ t[1] = Flag
    OBVIOUS
  <2>3. f = v \o t
    BY DEF Stuff
  <2> HIDE DEF S, t, a, f
  <2>4. /\ v \in Seq(S) /\ Len(v) = Len(t) + Len(a)
        /\ \A i \in 1 .. Len(t) : v[i] = t[i]
    BY <2>1, JoinedSeq
  <2> HIDE DEF v
  <2>5. v \in Seq(S)
    BY <2>4
  <2>6. /\ Len(f) = Len(v) + Len(t)
        /\ \A i \in 1 .. Len(v) : f[i] = v[i]
        /\ \A i \in 1 .. Len(t) : f[Len(v) + i] = t[i]
    BY <2>1, <2>3, <2>5, JoinedSeq
  <2>7. Len(a) \in Nat
    BY <2>1, LenProperties
  <2>8. o \in 1 .. Len(t) /\ o \in 1 .. Len(v) /\ Len(v) + o = Len(f) /\ t[o] = Flag
    BY <2>2, <2>4, <2>6, <2>7
  <2> HIDE DEF o
  <2>9. f[o] = Flag /\ f[Len(f)] = Flag
    BY <2>4, <2>6, <2>8
  <2>10. QED
    BY <2>9 DEF o
<1>7. \A k \in 2 .. Len(f) - 1 : f[k] # Flag
  BY <1>1, StuffedNoFlag
<1>8. QED
  BY <1>1, <1>5, <1>6, <1>7 DEF WellFormed

\* What is pushed are bytes,
LEMMA PushedTyped == ASSUME NEW s \in Seq(Bytes) PROVE Pushed(s) \in Seq(Bytes)
<1> DEFINE ends == {k \in 2 .. Len(s) : s[k] = AX25_FLAG}
           e    == CHOOSE k \in ends : \A j \in ends : k <= j
<1>1. Len(s) \in Nat /\ \A k \in 1 .. Len(s) : s[k] \in Bytes
  BY ElementOfSeq, LenProperties
<1>2. CASE ends = {}
  <2> DEFINE r == [k \in 1 .. AxDataSize |-> IF k <= Len(s) THEN s[k] ELSE 0]
  <2>1. AxDataSize \in Nat /\ 0 \in Bytes
    BY DecoderAssumption, LinkAssumption
  <2>2. r \in [1 .. AxDataSize -> Bytes]
    BY <1>1, <2>1
  <2>3. r \in Seq(Bytes)
    BY <2>1, <2>2, Listed
  <2>4. QED
    BY <1>2, <2>3 DEF Pushed
<1>3. CASE ends # {}
  <2>1. ends \in SUBSET Nat
    BY <1>1
  <2>2. e \in ends
    <3> HIDE DEF ends
    <3>1. QED
      BY <1>3, <2>1, LeastOf
  <2>3. e \in Nat /\ e <= Len(s) /\ 1 <= e + 1
    BY <1>1, <2>2
  <2>4. Pushed(s) = SubSeq(s, 1, e)
    BY <1>3 DEF Pushed
  <2> DEFINE o == 1
  <2>5. o \in Nat \ {0} /\ o <= e + 1
    BY <2>3
  <2> HIDE DEF e, o, ends
  <2>6. SubSeq(s, o, e) \in Seq(Bytes)
    BY <2>3, <2>5, PartOfSeq
  <2>7. QED
    BY <2>4, <2>6 DEF o, e
<1>4. QED
  BY <1>2, <1>3

\* and of a block that begins with a frame, that frame.
LEMMA PushedWhole ==
  ASSUME NEW s \in Seq(Bytes), NEW f, WellFormed(f), Begins(f, s)
  PROVE  Pushed(s) = f
<1> DEFINE ends == {k \in 2 .. Len(s) : s[k] = AX25_FLAG}
           e    == CHOOSE k \in ends : \A j \in ends : k <= j
           L    == Len(f)
           o    == 1
<1>1. /\ f \in Seq(Bytes) /\ L \in Nat /\ L >= 3 /\ f[L] = AX25_FLAG
      /\ \A k \in 2 .. L - 1 : f[k] # AX25_FLAG
  BY LenProperties DEF WellFormed
<1>2. Len(s) \in Nat /\ L <= Len(s) /\ \A i \in 1 .. L : s[i] = f[i]
  BY LenProperties DEF Begins
<1> HIDE DEF L
<1>3. L \in ends
  BY <1>1, <1>2
<1>4. \A j \in ends : L <= j
  <2>1. SUFFICES ASSUME NEW j \in ends, ~(L <= j)
                 PROVE  FALSE
    OBVIOUS
  <2>2. j \in 2 .. L - 1 /\ j \in 1 .. L /\ s[j] = AX25_FLAG
    BY <1>1, <1>2, <2>1
  <2>3. QED
    BY <1>1, <1>2, <2>2
<1>5. e = L
  <2>1. ends \in SUBSET Nat
    BY <1>2
  <2> HIDE DEF ends
  <2>2. e \in ends /\ \A j \in ends : e <= j
    BY <1>3, <1>4
  <2>3. e <= L /\ L <= e /\ e \in Nat
    BY <1>3, <1>4, <2>1, <2>2
  <2>4. QED
    BY <1>1, <2>3
<1>6. Pushed(s) = SubSeq(s, 1, L)
  BY <1>3, <1>5 DEF Pushed
<1>7. o \in Nat \ {0} /\ o <= L + 1
  BY <1>1
<1>8. \A i \in 1 .. L : o + i - 1 = i
  BY <1>1
<1>9. L - o + 1 = L
  BY <1>1
<1> HIDE DEF o
<1> DEFINE w == SubSeq(s, o, L)
<1>10. /\ w \in Seq(Bytes) /\ Len(w) = L - o + 1
       /\ \A i \in 1 .. L - o + 1 : w[i] = s[o + i - 1]
  BY <1>1, <1>2, <1>7, PartOfSeq
<1> HIDE DEF w
<1>11. Len(w) = Len(f) /\ \A i \in 1 .. Len(w) : w[i] = f[i]
  BY <1>2, <1>8, <1>9, <1>10 DEF L
<1>12. w = f
  BY <1>1, <1>10, <1>11, SeqEqual
<1>13. QED
  BY <1>6, <1>12 DEF w, o

\* What stands in bytes stands there when more follow,
LEMMA StandsStill ==
  ASSUME NEW f, Len(f) \in Nat, NEW s \in Seq(Bytes), NEW t \in Seq(Bytes),
         NEW p \in Nat, StandsAt(f, s, p)
  PROVE  StandsAt(f, s \o t, p)
<1> DEFINE u == s \o t
<1>1. Len(s) \in Nat /\ Len(t) \in Nat
  BY LenProperties
<1>2. Len(u) = Len(s) + Len(t) /\ \A i \in 1 .. Len(s) : u[i] = s[i]
  BY JoinedSeq
<1> HIDE DEF u
<1>3. p + Len(f) <= Len(s) /\ \A i \in 1 .. Len(f) : s[p + i] = f[i]
  BY DEF StandsAt
<1>4. \A i \in 1 .. Len(f) : p + i \in 1 .. Len(s)
  BY <1>1, <1>3
<1>5. \A i \in 1 .. Len(f) : u[p + i] = f[i]
  BY <1>2, <1>3, <1>4
<1>6. p + Len(f) <= Len(u)
  BY <1>1, <1>2, <1>3
<1>7. QED
  BY <1>5, <1>6 DEF StandsAt, u

\* and what follows stands at the end.
LEMMA StandsAtEnd ==
  ASSUME NEW f \in Seq(Bytes), NEW s \in Seq(Bytes)
  PROVE  StandsAt(f, s \o f, Len(s))
<1> DEFINE u == s \o f
<1>1. Len(s) \in Nat /\ Len(f) \in Nat
  BY LenProperties
<1>2. Len(u) = Len(s) + Len(f) /\ \A i \in 1 .. Len(f) : u[Len(s) + i] = f[i]
  BY JoinedSeq
<1> HIDE DEF u
<1>3. Len(s) + Len(f) <= Len(u)
  BY <1>1, <1>2
<1>4. QED
  BY <1>2, <1>3 DEF StandsAt, u

\* A block begins as before when a byte comes.
LEMMA BeginsStill ==
  ASSUME NEW f, Len(f) \in Nat, NEW s \in Seq(Bytes), NEW b \in Bytes, Begins(f, s)
  PROVE  Begins(f, Append(s, b))
<1> DEFINE u == Append(s, b)
<1>1. Len(s) \in Nat
  BY LenProperties
<1>2. Len(u) = Len(s) + 1 /\ \A i \in 1 .. Len(s) : u[i] = s[i]
  BY AppendProperties
<1> HIDE DEF u
<1>3. Len(f) <= Len(s) /\ \A i \in 1 .. Len(f) : i \in 1 .. Len(s) /\ s[i] = f[i]
  BY <1>1 DEF Begins
<1>4. QED
  BY <1>1, <1>2, <1>3 DEF Begins, u

-----------------------------------------------------------------------------
(* The link. *)

LinkTypeOK ==
  /\ block \in Seq(Bytes) /\ air \in Seq(Bytes) /\ pushing \in Seq(Bytes) /\ queue \in Seq(Bytes)
  /\ busy \in BOOLEAN
  /\ ~busy => pushing = <<>>
  /\ sent \in 0 .. Len(Frames)
  /\ sent > 0 => frame = Stuff(Frames[sent])

\* What the manager has pushed or will push of the blocks it has read, in order.
Uplinked == (received \o queue) \o pushing

\* So far the block is the frame that the ground sends, and the rest of it is to come.
Arriving(n) ==
  /\ n = sent
  /\ ~busy
  /\ Len(block) < Len(frame) /\ Len(block) + Len(air) = BlockSize
  /\ \A i \in 1 .. Len(block) : block[i] = frame[i]
  /\ \A i \in 1 .. Len(air) : air[i] = Padded(frame)[Len(block) + i]

Stuffed(n) == Stuff(Frames[n])

\* The frame is in the block, or arrives there.
Coming(n) == Begins(Stuffed(n), block) \/ Arriving(n)

\* Frames stand in what was uplinked, in their order and apart; at is where.
Placed(at) ==
  /\ at \in [DOMAIN at -> Nat] /\ DOMAIN at \subseteq 1 .. sent
  /\ \A n \in DOMAIN at : StandsAt(Stuffed(n), Uplinked, at[n])
  /\ \A l, n \in DOMAIN at : l < n => at[l] + Len(Stuffed(l)) <= at[n]

\* What arrives as it was sent and stands nowhere yet: one frame at most, behind the others.
Due(at)     == (1 .. sent) \ (spoilt \cup DOMAIN at)
NextDue(at) == \A n \in Due(at) : Coming(n) /\ \A l \in DOMAIN at \cup Due(at) : l <= n

\* Of frames none of which was spoilt nothing else is uplinked, and no byte is left over.
Tight(at) ==
  spoilt = {} =>
    /\ \A i \in 1 .. Len(Uplinked) : \E n \in DOMAIN at : at[n] < i /\ i <= at[n] + Len(Stuffed(n))
    /\ Len(block) + Len(air) <= IF Due(at) = {} THEN 0 ELSE BlockSize

InLine(at) == Placed(at) /\ NextDue(at) /\ Tight(at)

LinkInv == LinkTypeOK /\ DecoderInv /\ \E at : InLine(at)

\* Frames stay where they are in a step that uplinks nothing and takes no frame from
\* its way.
LEMMA LineStays ==
  ASSUME LinkTypeOK, LinkTypeOK', \E at : InLine(at),
         Uplinked' = Uplinked, sent' = sent, spoilt \subseteq spoilt',
         \A n \in 1 .. sent : n \notin spoilt' /\ Coming(n) => Coming(n)',
         Len(block') + Len(air') <= Len(block) + Len(air)
  PROVE  (\E at : InLine(at))'
<1>1. PICK at : InLine(at)
  OBVIOUS
<1>2. Placed(at)'
  BY <1>1 DEF InLine, Placed
<1>3. Due(at)' \subseteq Due(at)
  BY DEF Due
<1>4. NextDue(at)'
  <2>1. ASSUME NEW n \in Due(at)'
        PROVE  Coming(n)' /\ \A l \in DOMAIN at \cup Due(at)' : l <= n
    <3>1. n \in Due(at) /\ n \in 1 .. sent /\ n \notin spoilt'
      BY <1>3, <2>1 DEF Due
    <3>2. Coming(n) /\ \A l \in DOMAIN at \cup Due(at) : l <= n
      BY <1>1, <3>1 DEF InLine, NextDue
    <3>3. QED
      BY <1>3, <3>1, <3>2
  <2>2. QED
    BY <2>1 DEF NextDue
<1>5. Tight(at)'
  <2>1. SUFFICES ASSUME spoilt' = {}
                 PROVE  Tight(at)'
    BY DEF Tight
  <2>2. spoilt = {} /\ Due(at)' = Due(at)
    BY <2>1 DEF Due
  <2> DEFINE a == Len(block) + Len(air)
             b == Len(block') + Len(air')
             c == IF Due(at) = {} THEN 0 ELSE BlockSize
  <2>3. a \in Nat /\ b \in Nat /\ c \in Nat /\ b <= a
    BY LenProperties, LinkAssumption DEF LinkTypeOK
  <2>4. a <= c
    BY <1>1, <2>2 DEF InLine, Tight
  <2> HIDE DEF a, b, c
  <2>5. b <= c
    BY <2>3, <2>4
  <2>6. QED
    BY <1>1, <2>2, <2>5 DEF InLine, Tight, b, c
<1>6. QED
  BY <1>2, <1>4, <1>5 DEF InLine

\* The bytes pushed are bytes.
LEMMA UplinkedTyped == ASSUME LinkInv PROVE Uplinked \in Seq(Bytes)
<1>1. received \in Seq(Bytes) /\ queue \in Seq(Bytes) /\ pushing \in Seq(Bytes)
  BY DEF LinkInv, LinkTypeOK, DecoderInv, DecoderTypeOK
<1>2. received \o queue \in Seq(Bytes)
  BY <1>1, ConcatProperties
<1>3. QED
  BY <1>1, <1>2, ConcatProperties DEF Uplinked

\* At the start nothing has been sent.
LEMMA LinkInit == ASSUME Init PROVE LinkInv
<1>1. <<>> \in Seq(Bytes)
  BY EmptySeq
<1>2. Len(Frames) \in Nat
  BY LinkAssumption, LenProperties
<1>3. LinkTypeOK
  <2>1. /\ block = <<>> /\ air = <<>> /\ pushing = <<>> /\ queue = <<>> /\ busy = FALSE
        /\ sent = 0
    BY DEF Init
  <2>2. sent \in 0 .. Len(Frames) /\ ~(sent > 0)
    BY <1>2, <2>1
  <2>3. QED
    BY <1>1, <2>1, <2>2 DEF LinkTypeOK
<1>4. DecoderInv
  BY InitDecoderInv DEF Init
<1>5. InLine(<<>>)
  <2>1. sent = 0 /\ 1 .. sent = {} /\ block = <<>> /\ air = <<>> /\ Len(<<>>) = 0
    BY EmptySeq DEF Init
  <2>2. Uplinked = <<>>
    BY <1>1, ConcatEmptySeq DEF Init, DecoderInit, Uplinked
  <2>3. DOMAIN <<>> = {} /\ <<>> \in [{} -> Nat]
    BY EmptySeq, LenProperties, <1>1
  <2>4. Due(<<>>) = {}
    BY <2>1 DEF Due
  <2>5. Placed(<<>>)
    BY <2>3 DEF Placed
  <2>6. NextDue(<<>>)
    BY <2>4 DEF NextDue
  <2>7. Tight(<<>>)
    BY <2>1, <2>2, <2>4 DEF Tight
  <2>8. QED
    BY <2>5, <2>6, <2>7 DEF InLine
<1>6. QED
  BY <1>3, <1>4, <1>5 DEF LinkInv

\* The decoder is left alone by every step but its own.
LEMMA DecoderStays == ASSUME DecoderInv, UNCHANGED decoderVars PROVE DecoderInv'
BY DEF DecoderInv, DecoderTypeOK, Remembers, decoderVars

\* A frame that is sent at the start of a block arrives from its first byte on.
LEMMA SendInv == ASSUME LinkInv, Send PROVE LinkInv'
<1> DEFINE f == Stuff(Frames[sent + 1])
<1>1. LinkTypeOK /\ DecoderInv
  BY DEF LinkInv
<1>2. /\ air = <<>> /\ ~busy /\ sent < Len(Frames) /\ sent' = sent + 1
      /\ frame' = f /\ air' = Padded(f)
      /\ spoilt' = IF block = <<>> THEN spoilt ELSE spoilt \cup {sent + 1}
      /\ UNCHANGED <<decoderVars, block, busy, pushing, queue>>
  BY DEF Send
<1>3. sent \in Nat /\ sent + 1 \in 1 .. Len(Frames) /\ Len(Frames) \in Nat
  <2>1. Len(Frames) \in Nat
    BY LinkAssumption, LenProperties
  <2>2. QED
    BY <1>1, <1>2, <2>1 DEF LinkTypeOK
<1>4. WellFormed(f)
  BY <1>3, FramesWellFormed
<1> HIDE DEF f
<1>5. /\ f \in Seq(Bytes) /\ Len(f) \in Nat /\ Len(f) >= 3 /\ Len(f) <= BlockSize
      /\ BlockSize \in Nat
  BY <1>4, LenProperties, LinkAssumption DEF WellFormed
<1>6. Padded(f) \in Seq(Bytes) /\ Len(Padded(f)) = BlockSize
  <2>1. \A k \in 1 .. Len(f) : f[k] \in Bytes
    BY <1>5, ElementOfSeq
  <2>2. 0 \in Bytes
    BY LinkAssumption
  <2>3. Padded(f) \in [1 .. BlockSize -> Bytes]
    BY <1>5, <2>1, <2>2 DEF Padded
  <2>4. QED
    BY <1>5, <2>3, Listed
<1>7. LinkTypeOK'
  <2>1. sent' \in 0 .. Len(Frames) /\ sent' > 0 /\ frame' = Stuff(Frames[sent'])
    BY <1>2, <1>3 DEF f
  <2>2. QED
    BY <1>1, <1>2, <1>6, <2>1 DEF LinkTypeOK
<1>8. DecoderInv'
  BY <1>1, <1>2, DecoderStays
<1>9. PICK at : InLine(at)
  BY DEF LinkInv
<1>10. ASSUME NEW n \in 1 .. sent
       PROVE  ~Arriving(n)
  <2>1. SUFFICES ASSUME Arriving(n)
                 PROVE  FALSE
    OBVIOUS
  <2>2. Len(air) = 0 /\ Len(block) \in Nat
    BY <1>1, <1>2, EmptySeq, LenProperties DEF LinkTypeOK
  <2>3. frame = Stuff(Frames[sent]) /\ sent \in 1 .. Len(Frames)
    BY <1>1, <1>3 DEF LinkTypeOK
  <2>4. Len(frame) \in Nat /\ Len(frame) <= BlockSize
    BY <2>3, FramesWellFormed, LenProperties DEF WellFormed
  <2>5. QED
    BY <1>5, <2>1, <2>2, <2>4 DEF Arriving
<1>11. Uplinked' = Uplinked
  BY <1>2 DEF Uplinked, decoderVars
<1>12. PICK w \in Nat : w = sent + 1
  BY <1>3
<1>13. 1 .. sent' = 1 .. sent \cup {w} /\ w \notin 1 .. sent /\ w = sent'
  BY <1>2, <1>3, <1>12
<1>14. Placed(at)'
  BY <1>9, <1>11, <1>13 DEF InLine, Placed
<1>15. CASE block = <<>>
  <2>1. Len(block) = 0 /\ block' = <<>> /\ Len(block') = 0
    BY <1>2, <1>15, EmptySeq
  <2>2. Due(at) = {}
    <3>1. SUFFICES ASSUME NEW n \in Due(at)
                   PROVE  FALSE
      OBVIOUS
    <3>2. n \in 1 .. sent /\ n \in 1 .. Len(Frames) /\ Coming(n)
      BY <1>3, <1>9, <3>1 DEF Due, InLine, NextDue
    <3>3. Len(Stuffed(n)) \in Nat /\ Len(Stuffed(n)) >= 3
      BY <3>2, FramesWellFormed, LenProperties DEF WellFormed, Stuffed
    <3>4. QED
      BY <1>10, <2>1, <3>2, <3>3 DEF Coming, Begins
  <2>3. spoilt' = spoilt /\ w \notin DOMAIN at
    BY <1>2, <1>9, <1>13, <1>15 DEF InLine, Placed
  <2>4. Due(at)' \subseteq {w}
    BY <1>13, <2>2, <2>3 DEF Due
  <2>5. Coming(w)'
    <3>1. \A i \in 1 .. Len(air') : air'[i] = Padded(f)[0 + i]
      BY <1>2, <1>5, <1>6
    <3>2. Arriving(w)'
      BY <1>2, <1>5, <1>6, <1>13, <2>1, <3>1 DEF Arriving
    <3>3. QED
      BY <3>2 DEF Coming
  <2>6. NextDue(at)'
    <3>1. \A l \in DOMAIN at \cup Due(at)' : l <= w
      BY <1>3, <1>9, <1>12, <2>4 DEF InLine, Placed
    <3>2. QED
      BY <2>4, <2>5, <3>1 DEF NextDue
  <2>7. Tight(at)'
    <3>1. SUFFICES ASSUME spoilt = {}
                   PROVE  Tight(at)'
      BY <2>3 DEF Tight
    <3>2. Due(at)' # {}
      BY <1>13, <2>3, <3>1 DEF Due
    <3>3. Len(block') + Len(air') <= BlockSize
      BY <1>2, <1>5, <1>6, <2>1
    <3>4. QED
      BY <1>9, <1>11, <2>3, <3>1, <3>2, <3>3 DEF InLine, Tight
  <2>8. QED
    BY <1>7, <1>8, <1>14, <2>6, <2>7 DEF LinkInv, InLine
<1>16. CASE block # <<>>
  <2>1. spoilt' = spoilt \cup {w}
    BY <1>2, <1>12, <1>16
  <2>2. Due(at)' = Due(at)
    BY <1>13, <2>1 DEF Due
  <2>3. NextDue(at)'
    <3>1. ASSUME NEW n \in Due(at)
          PROVE  Coming(n)'
      <4>1. Coming(n) /\ n \in 1 .. sent
        BY <1>9, <3>1 DEF InLine, NextDue, Due
      <4>2. QED
        BY <1>2, <1>10, <4>1 DEF Coming, Begins
    <3>2. QED
      BY <1>9, <2>2, <3>1 DEF InLine, NextDue
  <2>4. Tight(at)'
    BY <2>1 DEF Tight
  <2>5. QED
    BY <1>7, <1>8, <1>14, <2>3, <2>4 DEF LinkInv, InLine
<1>17. QED
  BY <1>15, <1>16

\* A frame that arrives is spoilt by what happens to its bytes.
LEMMA ArrivingSpoilt ==
  ASSUME LinkInv, air # <<>>, NEW n \in 1 .. sent, Arriving(n)
  PROVE  n \in Spoilt
<1>1. Len(air) \in Nat /\ Len(block) \in Nat /\ BlockSize \in Nat
  BY LenProperties, LinkAssumption DEF LinkInv, LinkTypeOK
<1>2. frame = Stuff(Frames[sent]) /\ sent \in 1 .. Len(Frames)
  BY LinkAssumption, LenProperties DEF LinkInv, LinkTypeOK
<1>3. Len(frame) \in Nat
  BY <1>2, FramesWellFormed, LenProperties DEF WellFormed
<1>4. Position = Len(block) + 1 /\ Len(block) < Len(frame) /\ n = sent
  <2>1. Len(block) < Len(frame) /\ n = sent /\ Len(block) + Len(air) = BlockSize
    BY DEF Arriving
  <2>2. BlockSize - Len(air) + 1 = Len(block) + 1
    BY <1>1, <2>1
  <2>3. QED
    BY <2>1, <2>2 DEF Position
<1>5. Position <= Len(frame)
  BY <1>1, <1>3, <1>4
<1>6. QED
  BY <1>4, <1>5 DEF Spoilt

\* What is left of some bytes without the first.
LEMMA TailShorter ==
  ASSUME NEW s \in Seq(Bytes), s # <<>>, NEW r \in Seq(Bytes)
  PROVE  Len(r) + Len(Tail(s)) <= Len(r) + Len(s)
<1>1. Len(Tail(s)) = Len(s) - 1 /\ Tail(s) \in Seq(Bytes)
  BY HeadTailProperties
<1>2. Len(s) \in Nat /\ Len(r) \in Nat
  BY LenProperties
<1>3. QED
  BY <1>1, <1>2

\* A byte that is lost spoils the frame that arrives, or comes after it.
LEMMA LoseInv == ASSUME LinkInv, Lose PROVE LinkInv'
<1>1. LinkTypeOK /\ DecoderInv
  BY DEF LinkInv
<1>2. /\ air # <<>> /\ spoilt' = Spoilt /\ air' = Tail(air)
      /\ UNCHANGED <<decoderVars, frame, block, busy, pushing, queue, sent>>
  BY DEF Lose
<1>3. Tail(air) \in Seq(Bytes)
  BY <1>1, <1>2, HeadTailProperties DEF LinkTypeOK
<1>4. LinkTypeOK'
  BY <1>1, <1>2, <1>3 DEF LinkTypeOK
<1>5. DecoderInv'
  BY <1>1, <1>2, DecoderStays
<1>6. ASSUME NEW n \in 1 .. sent, n \notin spoilt', Coming(n)
      PROVE  Coming(n)'
  <2>1. ~Arriving(n)
    BY <1>2, <1>6, ArrivingSpoilt
  <2>2. QED
    BY <1>2, <1>6, <2>1 DEF Coming
<1>7. spoilt \subseteq spoilt' /\ Uplinked' = Uplinked
  BY <1>2 DEF Spoilt, Uplinked, decoderVars
<1>8. Len(block') + Len(air') <= Len(block) + Len(air)
  BY <1>1, <1>2, TailShorter DEF LinkTypeOK
<1>9. (\E at : InLine(at))'
  BY <1>1, <1>2, <1>4, <1>6, <1>7, <1>8, LineStays DEF LinkInv
<1>10. QED
  BY <1>4, <1>5, <1>9 DEF LinkInv

\* A byte goes into the block.
LEMMA ReadTypes ==
  ASSUME LinkInv, ~busy, air # <<>>, air' = Tail(air), NEW b \in Bytes, Read(b)
  PROVE  /\ LinkTypeOK' /\ DecoderInv'
         /\ Append(block, b) \in Seq(Bytes)
         /\ \/ block' = Append(block, b) /\ Len(block) + 1 < BlockSize /\ busy' = busy /\ Uplinked' = Uplinked
            \/ /\ block' = <<>> /\ ~(Len(block) + 1 < BlockSize)
               /\ Uplinked' = Uplinked \o Pushed(Append(block, b))
<1> DEFINE blk == Append(block, b)
<1>1. LinkTypeOK /\ DecoderInv
  BY DEF LinkInv
<1>2. Tail(air) \in Seq(Bytes)
  BY <1>1, HeadTailProperties DEF LinkTypeOK
<1>3. blk \in Seq(Bytes)
  BY <1>1, AppendProperties DEF LinkTypeOK
<1> HIDE DEF blk
<1>4. Pushed(blk) \in Seq(Bytes) /\ <<>> \in Seq(Bytes)
  BY <1>3, PushedTyped, EmptySeq
<1>5. pushing = <<>>
  BY <1>1 DEF LinkTypeOK
<1>6. UNCHANGED <<decoderVars, frame, queue, sent>>
  BY DEF Read
<1>7. DecoderInv'
  BY <1>1, <1>6, DecoderStays
<1>8. CASE Len(block) + 1 < BlockSize
  <2>1. block' = blk /\ UNCHANGED <<busy, pushing>>
    BY <1>8 DEF Read, blk
  <2>2. LinkTypeOK'
    BY <1>1, <1>2, <1>3, <1>6, <2>1 DEF LinkTypeOK
  <2>3. Uplinked' = Uplinked
    BY <1>6, <2>1 DEF Uplinked, decoderVars
  <2>4. QED
    BY <1>3, <1>7, <1>8, <2>1, <2>2, <2>3 DEF blk
<1>9. CASE ~(Len(block) + 1 < BlockSize)
  <2>1. block' = <<>> /\ busy' = TRUE /\ pushing' = Pushed(blk)
    BY <1>9 DEF Read, blk
  <2>2. LinkTypeOK'
    BY <1>1, <1>2, <1>4, <1>6, <2>1 DEF LinkTypeOK
  <2>3. Uplinked' = Uplinked \o Pushed(blk)
    <3>1. received \in Seq(Bytes) /\ queue \in Seq(Bytes)
      BY <1>1 DEF LinkTypeOK, DecoderInv, DecoderTypeOK
    <3> DEFINE u == received \o queue
    <3>2. u \in Seq(Bytes)
      BY <3>1, ConcatProperties
    <3> HIDE DEF u
    <3>3. u \o <<>> = u
      BY <3>2, ConcatEmptySeq
    <3>4. Uplinked = u
      BY <1>5, <3>3 DEF Uplinked, u
    <3>5. Uplinked' = u \o Pushed(blk)
      BY <1>6, <2>1 DEF Uplinked, decoderVars, u
    <3>6. QED
      BY <3>4, <3>5
  <2>4. QED
    BY <1>3, <1>7, <1>9, <2>1, <2>2, <2>3 DEF blk
<1>10. QED
  BY <1>8, <1>9

\* A byte that does not spoil the frame brings it further, or the block is that frame.
LEMMA ReadComing ==
  ASSUME LinkInv, ~busy, air # <<>>, air' = Tail(air), NEW b \in Bytes, Read(b),
         NEW n \in 1 .. sent, Coming(n), Arriving(n) => b = Head(air)
  PROVE  IF Len(block) + 1 < BlockSize THEN Coming(n)' ELSE Pushed(Append(block, b)) = Stuffed(n)
<1> DEFINE f   == Stuffed(n)
           blk == Append(block, b)
<1>1. LinkTypeOK /\ n \in 1 .. Len(Frames) /\ sent \in Nat
  <2>1. Len(Frames) \in Nat
    BY LinkAssumption, LenProperties
  <2>2. QED
    BY <2>1 DEF LinkInv, LinkTypeOK
<1>2. WellFormed(f)
  BY <1>1, FramesWellFormed DEF Stuffed
<1>3. /\ blk \in Seq(Bytes)
      /\ Len(block) + 1 < BlockSize => block' = blk /\ busy' = busy
  BY ReadTypes
<1>5. frame' = frame /\ sent' = sent
  BY DEF Read
<1>6. /\ block \in Seq(Bytes) /\ Len(block) \in Nat /\ air \in Seq(Bytes) /\ Len(air) \in Nat
      /\ BlockSize \in Nat
  BY <1>1, LenProperties, LinkAssumption DEF LinkTypeOK
<1>7. Len(blk) = Len(block) + 1 /\ blk[Len(block) + 1] = b
      /\ \A i \in 1 .. Len(block) : blk[i] = block[i]
  BY <1>6, AppendProperties
<1> HIDE DEF f, blk
<1>8. f \in Seq(Bytes) /\ Len(f) \in Nat /\ Len(f) <= BlockSize
  BY <1>2, LenProperties DEF WellFormed
<1>9. CASE Begins(f, blk)
  <2>1. Pushed(blk) = f
    BY <1>2, <1>3, <1>9, PushedWhole
  <2>2. QED
    BY <1>3, <1>9, <2>1 DEF Coming, f, blk
<1>11. CASE Begins(f, block)
  <2>1. Begins(f, blk)
    BY <1>6, <1>8, <1>11, BeginsStill DEF blk
  <2>2. QED
    BY <1>9, <2>1
<1>12. CASE Arriving(n)
  <2>1. /\ n = sent /\ b = Head(air) /\ frame = f
        /\ Len(block) < Len(f) /\ Len(block) + Len(air) = BlockSize
        /\ \A i \in 1 .. Len(block) : block[i] = f[i]
        /\ \A i \in 1 .. Len(air) : air[i] = Padded(f)[Len(block) + i]
    <3>1. n = sent /\ frame = f
      BY <1>1, <1>12 DEF Arriving, LinkTypeOK, f, Stuffed
    <3>2. QED
      BY <1>12, <3>1 DEF Arriving
  <2>2. /\ Len(Tail(air)) = Len(air) - 1 /\ \A i \in 1 .. Len(Tail(air)) : Tail(air)[i] = air[i + 1]
    BY <1>6, HeadTailProperties
  <2>3. Head(air) = air[1]
    BY <1>6
  <2>4. 1 \in 1 .. Len(air) /\ Len(block) + 1 \in 1 .. BlockSize /\ Len(block) + 1 <= Len(f)
    BY <1>6, <1>8, <2>1
  <2>5. b = f[Len(block) + 1]
    BY <2>1, <2>3, <2>4 DEF Padded
  <2>6. \A i \in 1 .. Len(blk) : blk[i] = f[i]
    <3>1. \A i \in 1 .. Len(blk) : i \in 1 .. Len(block) \/ i = Len(block) + 1
      BY <1>6, <1>7
    <3>2. QED
      BY <1>7, <2>1, <2>5, <3>1
  <2>7. CASE Len(blk) = Len(f)
    <3>1. Begins(f, blk)
      BY <1>8, <2>6, <2>7 DEF Begins
    <3>2. QED
      BY <1>9, <3>1
  <2>8. CASE Len(blk) # Len(f)
    <3>1. Len(blk) < Len(f) /\ Len(block) + 1 < BlockSize
      BY <1>6, <1>7, <1>8, <2>1, <2>8
    <3>2. block' = blk /\ busy' = busy
      BY <1>3, <3>1
    <3>3. Len(blk) + Len(Tail(air)) = BlockSize
      <4>1. Len(Tail(air)) = Len(air) - 1 /\ Len(blk) = Len(block) + 1 /\ Len(block) + Len(air) = BlockSize
        BY <1>7, <2>1, <2>2
      <4>2. QED
        BY <1>6, <4>1
    <3>4. \A i \in 1 .. Len(Tail(air)) : Tail(air)[i] = Padded(f)[Len(blk) + i]
      <4>1. \A i \in 1 .. Len(Tail(air)) : i + 1 \in 1 .. Len(air) /\ Len(block) + (i + 1) = Len(blk) + i
        <5>1. Len(Tail(air)) = Len(air) - 1 /\ Len(blk) = Len(block) + 1
          BY <1>7, <2>2
        <5> DEFINE c == Len(air)
                   d == Len(Tail(air))
                   e == Len(block)
                   h == Len(blk)
        <5>2. c \in Nat /\ e \in Nat /\ d = c - 1 /\ h = e + 1
          BY <1>6, <5>1
        <5> HIDE DEF c, d, e, h
        <5>3. \A i \in 1 .. d : i + 1 \in 1 .. c /\ e + (i + 1) = h + i
          BY <5>2
        <5>4. QED
          BY <5>3 DEF c, d, e, h
      <4>2. QED
        BY <2>1, <2>2, <4>1
    <3>5. Arriving(n)'
      BY <1>5, <2>1, <2>6, <3>1, <3>2, <3>3, <3>4 DEF Arriving
    <3>6. QED
      BY <3>1, <3>5 DEF Coming
  <2>9. QED
    BY <2>7, <2>8
<1>13. QED
  BY <1>11, <1>12 DEF Coming, f

\* A byte for the block leaves the frames in line, or puts the one that is due behind them.
LEMMA ReadLine ==
  ASSUME LinkInv, ~busy, air # <<>>, air' = Tail(air), NEW b \in Bytes, Read(b),
         spoilt \subseteq spoilt',
         \A n \in 1 .. sent : n \notin spoilt' /\ Arriving(n) => b = Head(air)
  PROVE  (\E at : InLine(at))'
<1> DEFINE blk == Append(block, b)
           u   == Uplinked
           P   == Pushed(blk)
<1>1. LinkTypeOK /\ LinkTypeOK' /\ blk \in Seq(Bytes)
  BY ReadTypes DEF LinkInv
<1>2. sent' = sent
  BY DEF Read
<1>3. ASSUME NEW n \in 1 .. sent, n \notin spoilt', Coming(n)
      PROVE  IF Len(block) + 1 < BlockSize THEN Coming(n)' ELSE P = Stuffed(n)
  BY <1>3, ReadComing
<1>4. Len(blk) = Len(block) + 1 /\ Len(Tail(air)) = Len(air) - 1
  BY <1>1, AppendProperties, HeadTailProperties DEF LinkTypeOK
<1>5. Len(block) \in Nat /\ Len(air) \in Nat /\ BlockSize \in Nat /\ Len(air) # 0
  BY <1>1, LenProperties, EmptySeq, LinkAssumption DEF LinkTypeOK
<1>6. u \in Seq(Bytes) /\ P \in Seq(Bytes)
  BY <1>1, UplinkedTyped, PushedTyped
<1>7. CASE Len(block) + 1 < BlockSize
  <2>1. block' = blk /\ Uplinked' = Uplinked
    BY <1>7, ReadTypes
  <2> HIDE DEF blk
  <2>2. Len(block') + Len(air') <= Len(block) + Len(air)
    BY <1>4, <1>5, <2>1
  <2>3. QED
    BY <1>1, <1>2, <1>3, <1>7, <2>1, <2>2, LineStays DEF LinkInv
<1>8. CASE ~(Len(block) + 1 < BlockSize)
  <2>1. block' = <<>> /\ Uplinked' = u \o P
    BY <1>8, ReadTypes
  <2> HIDE DEF blk, P
  <2>2. PICK at : InLine(at)
    BY DEF LinkInv
  <2> DEFINE D == DOMAIN at
  <2>3. /\ at \in [D -> Nat] /\ D \subseteq 1 .. sent /\ D \subseteq Nat
        /\ \A n \in D : StandsAt(Stuffed(n), u, at[n])
        /\ \A l, n \in D : l < n => at[l] + Len(Stuffed(l)) <= at[n]
    BY <2>2 DEF InLine, Placed
  <2>4. \A n \in D : Len(Stuffed(n)) \in Nat /\ at[n] \in Nat
    <3>1. ASSUME NEW n \in D PROVE n \in 1 .. Len(Frames)
      BY <1>1, <2>3, LinkAssumption, LenProperties DEF LinkTypeOK
    <3>2. QED
      BY <2>3, <3>1, FramesWellFormed, LenProperties DEF WellFormed, Stuffed
  <2>5. \A n \in D : StandsAt(Stuffed(n), Uplinked', at[n])
    BY <1>6, <2>1, <2>3, <2>4, StandsStill
  <2>6. /\ Len(Uplinked') = Len(u) + Len(P) /\ Len(u) \in Nat /\ Len(P) \in Nat
    BY <1>6, <2>1, JoinedSeq, LenProperties
  <2>7. CASE Due(at) \ spoilt' = {}
    <3>1. Due(at)' = {}
      BY <1>2, <2>7 DEF Due
    <3>2. Placed(at)'
      BY <1>2, <2>3, <2>5 DEF Placed
    <3>3. NextDue(at)'
      BY <3>1 DEF NextDue
    <3>4. spoilt' # {}
      <4>1. SUFFICES ASSUME spoilt' = {}
                     PROVE  FALSE
        OBVIOUS
      <4>2. spoilt = {} /\ Due(at) = {}
        BY <2>7, <4>1
      <4>3. Len(block) + Len(air) <= 0
        BY <2>2, <4>2 DEF InLine, Tight
      <4>4. QED
        BY <1>5, <4>3
    <3>5. QED
      BY <3>2, <3>3, <3>4 DEF InLine, Tight
  <2>8. ASSUME NEW w \in Due(at), w \notin spoilt'
        PROVE  (\E q : InLine(q))'
    <3>0. PICK q : q = [n \in D \cup {w} |-> IF n = w THEN Len(u) ELSE at[n]]
      OBVIOUS
    <3>1. /\ w \in 1 .. sent /\ w \notin D /\ w \in Nat
          /\ \A l \in D \cup Due(at) : l <= w
      BY <2>2, <2>8 DEF Due, InLine, NextDue
    <3>2. P = Stuffed(w)
      BY <1>3, <1>8, <2>2, <2>8, <3>1 DEF InLine, NextDue
    <3>3. DOMAIN q = D \cup {w} /\ q \in [D \cup {w} -> Nat] /\ q[w] = Len(u)
          /\ \A n \in D : q[n] = at[n]
      BY <2>4, <2>6, <3>0, <3>1
    <3>4. StandsAt(Stuffed(w), Uplinked', q[w])
      BY <1>6, <2>1, <3>2, <3>3, StandsAtEnd
    <3>5. \A n \in D : at[n] + Len(Stuffed(n)) <= Len(u)
      BY <2>3 DEF StandsAt
    <3>6. \A l, n \in D \cup {w} : l < n => q[l] + Len(Stuffed(l)) <= q[n]
      <4>1. SUFFICES ASSUME NEW l \in D \cup {w}, NEW n \in D \cup {w}, l < n
                     PROVE  q[l] + Len(Stuffed(l)) <= q[n]
        OBVIOUS
      <4>2. l # w
        BY <2>3, <3>1, <4>1
      <4>3. QED
        BY <2>3, <3>3, <3>5, <4>1, <4>2
    <3>7. Placed(q)'
      BY <1>2, <2>3, <2>5, <3>1, <3>3, <3>4, <3>6 DEF Placed
    <3>8. Due(q)' = {}
      <4>1. SUFFICES ASSUME NEW n \in Due(q)'
                     PROVE  FALSE
        OBVIOUS
      <4>2. n \in Due(at) /\ n # w /\ n \in Nat
        BY <1>2, <3>3, <4>1 DEF Due
      <4>3. n <= w /\ w <= n
        BY <2>2, <2>8, <4>2 DEF InLine, NextDue
      <4>4. QED
        BY <3>1, <4>2, <4>3
    <3>9. NextDue(q)'
      BY <3>8 DEF NextDue
    <3>10. ASSUME spoilt' = {}
           PROVE  /\ \A i \in 1 .. Len(Uplinked') :
                       \E n \in DOMAIN q : q[n] < i /\ i <= q[n] + Len(Stuffed(n))
                  /\ Len(block') + Len(air') <= 0
      <4>1. /\ \A i \in 1 .. Len(u) : \E n \in D : at[n] < i /\ i <= at[n] + Len(Stuffed(n))
            /\ Len(block) + Len(air) <= BlockSize
        <5>1. spoilt = {} /\ Due(at) # {}
          BY <2>8, <3>10
        <5>2. QED
          BY <2>2, <5>1 DEF InLine, Tight
      <4>2. ASSUME NEW i \in 1 .. Len(Uplinked')
            PROVE  \E n \in DOMAIN q : q[n] < i /\ i <= q[n] + Len(Stuffed(n))
        <5>1. CASE i \in 1 .. Len(u)
          BY <3>3, <4>1, <5>1
        <5>2. CASE i \notin 1 .. Len(u)
          <6>1. q[w] < i /\ i <= q[w] + Len(Stuffed(w))
            BY <2>6, <3>2, <3>3, <4>2, <5>2
          <6>2. QED
            BY <3>3, <6>1
        <5>3. QED
          BY <5>1, <5>2
      <4>3. Len(block') = 0
        BY <2>1, EmptySeq
      <4>4. QED
        BY <1>4, <1>5, <1>8, <4>1, <4>2, <4>3
    <3>11. Tight(q)'
      BY <3>8, <3>10 DEF Tight
    <3>12. QED
      BY <3>7, <3>9, <3>11 DEF InLine
  <2>9. QED
    BY <2>7, <2>8
<1>9. QED
  BY <1>7, <1>8

\* A byte that is read brings the frame that arrives further, or spoils it.
LEMMA ReadByteInv == ASSUME LinkInv, ReadByte PROVE LinkInv'
<1>1. air # <<>> /\ ~busy /\ air' = Tail(air)
  BY DEF ReadByte
<1>2. Head(air) \in Bytes /\ Garbles \subseteq Bytes
  BY <1>1, HeadTailProperties, LinkAssumption DEF LinkInv, LinkTypeOK
<1>3. CASE Read(Head(air)) /\ UNCHANGED spoilt
  <2>1. LinkTypeOK' /\ DecoderInv'
    BY <1>1, <1>2, <1>3, ReadTypes
  <2>2. (\E at : InLine(at))'
    BY <1>1, <1>2, <1>3, ReadLine
  <2>3. QED
    BY <2>1, <2>2 DEF LinkInv
<1>4. CASE \E b \in Garbles \ {Head(air)} : Read(b) /\ spoilt' = Spoilt
  <2>1. PICK b \in Bytes : Read(b) /\ spoilt' = Spoilt
    BY <1>2, <1>4
  <2>2. LinkTypeOK' /\ DecoderInv'
    BY <1>1, <2>1, ReadTypes
  <2>3. spoilt \subseteq spoilt'
    BY <2>1 DEF Spoilt
  <2>4. \A n \in 1 .. sent : n \notin spoilt' => ~Arriving(n)
    BY <1>1, <2>1, ArrivingSpoilt
  <2>5. (\E at : InLine(at))'
    BY <1>1, <2>1, <2>3, <2>4, ReadLine
  <2>6. QED
    BY <2>2, <2>5 DEF LinkInv
<1>5. QED
  BY <1>3, <1>4 DEF ReadByte

\* Bytes are dropped while no frame arrives.
LEMMA DropByteInv == ASSUME LinkInv, DropByte PROVE LinkInv'
<1>1. LinkTypeOK /\ DecoderInv
  BY DEF LinkInv
<1>2. /\ air # <<>> /\ busy /\ air' = Tail(air)
      /\ UNCHANGED <<decoderVars, frame, block, busy, pushing, queue, sent, spoilt>>
  BY DEF DropByte
<1>3. Tail(air) \in Seq(Bytes)
  BY <1>1, <1>2, HeadTailProperties DEF LinkTypeOK
<1>4. LinkTypeOK'
  BY <1>1, <1>2, <1>3 DEF LinkTypeOK
<1>5. DecoderInv'
  BY <1>1, <1>2, DecoderStays
<1>6. ASSUME NEW n \in 1 .. sent, Coming(n)
      PROVE  Coming(n)'
  BY <1>2, <1>6 DEF Coming, Arriving
<1>7. Uplinked' = Uplinked
  BY <1>2 DEF Uplinked, decoderVars
<1>8. Len(block') + Len(air') <= Len(block) + Len(air)
  BY <1>1, <1>2, TailShorter DEF LinkTypeOK
<1>9. (\E at : InLine(at))'
  BY <1>1, <1>2, <1>4, <1>6, <1>7, <1>8, LineStays DEF LinkInv
<1>10. QED
  BY <1>4, <1>5, <1>9 DEF LinkInv

\* The manager uplinks again when all is pushed.
LEMMA UplinkAgainInv == ASSUME LinkInv, UplinkAgain PROVE LinkInv'
<1>1. LinkTypeOK /\ DecoderInv
  BY DEF LinkInv
<1>2. /\ busy /\ pushing = <<>> /\ busy' = FALSE
      /\ UNCHANGED <<decoderVars, frame, air, block, pushing, queue, sent, spoilt>>
  BY DEF UplinkAgain
<1>3. LinkTypeOK'
  BY <1>1, <1>2 DEF LinkTypeOK
<1>4. DecoderInv'
  BY <1>1, <1>2, DecoderStays
<1>5. Uplinked' = Uplinked
  BY <1>2 DEF Uplinked, decoderVars
<1>6. ASSUME NEW n \in 1 .. sent, Coming(n)
      PROVE  Coming(n)'
  BY <1>2, <1>6 DEF Coming, Arriving
<1>7. Len(block') + Len(air') <= Len(block) + Len(air)
  BY <1>1, <1>2, LenProperties DEF LinkTypeOK
<1>8. (\E at : InLine(at))'
  BY <1>1, <1>2, <1>3, <1>5, <1>6, <1>7, LineStays DEF LinkInv
<1>9. QED
  BY <1>3, <1>4, <1>8 DEF LinkInv

\* What is appended to a sequence comes before what follows it.
LEMMA Moves ==
  ASSUME NEW S, NEW r \in Seq(S), NEW s \in Seq(S), s # <<>>
  PROVE  Append(r, Head(s)) \o Tail(s) = r \o s
<1> DEFINE h == Head(s)
           t == Tail(s)
           o == <<h>>
<1>1. h \in S /\ t \in Seq(S) /\ Len(t) = Len(s) - 1 /\ \A i \in 1 .. Len(t) : t[i] = s[i + 1]
  BY HeadTailProperties
<1>2. h = s[1]
  OBVIOUS
<1>3. o \in Seq(S) /\ Len(o) = 1 /\ o[1] = h
  BY <1>1
<1> HIDE DEF h, t, o
<1>4. Append(r, h) = r \o o
  BY <1>1, AppendIsConcat DEF o
<1>5. o \in Seq(S) /\ t \in Seq(S)
  BY <1>1, <1>3
<1>6. (r \o o) \o t = r \o (o \o t)
  BY <1>5, ConcatAssociative
<1>7. o \o t = s
  <2> DEFINE u == o \o t
  <2>1. /\ u \in Seq(S) /\ Len(u) = Len(o) + Len(t)
        /\ \A i \in 1 .. Len(o) : u[i] = o[i]
        /\ \A i \in 1 .. Len(t) : u[Len(o) + i] = t[i]
    BY <1>5, JoinedSeq
  <2> HIDE DEF u
  <2>2. Len(s) \in Nat /\ Len(t) \in Nat
    BY <1>5, LenProperties
  <2>3. Len(u) = Len(s)
    BY <1>1, <1>3, <2>1, <2>2
  <2>4. ASSUME NEW i \in 1 .. Len(u)
        PROVE  u[i] = s[i]
    <3>1. CASE i = 1
      BY <1>2, <1>3, <2>1, <3>1
    <3>2. CASE i # 1
      <4>1. i - 1 \in 1 .. Len(t) /\ Len(o) + (i - 1) = i /\ (i - 1) + 1 = i
        BY <1>1, <1>3, <2>2, <2>3, <3>2
      <4>2. QED
        BY <1>1, <2>1, <4>1
    <3>3. QED
      BY <3>1, <3>2
  <2>5. u \in Seq(S)
    BY <2>1
  <2>6. QED
    BY <2>3, <2>4, <2>5, SeqEqual DEF u
<1>8. QED
  BY <1>4, <1>6, <1>7 DEF h, t

\* A byte that is pushed keeps its place,
LEMMA PushInv == ASSUME LinkInv, Push PROVE LinkInv'
<1>1. LinkTypeOK /\ DecoderInv
  BY DEF LinkInv
<1>2. /\ pushing # <<>> /\ queue' = Append(queue, Head(pushing)) /\ pushing' = Tail(pushing)
      /\ UNCHANGED <<decoderVars, frame, air, block, busy, sent, spoilt>>
  BY DEF Push
<1>3. received \in Seq(Bytes) /\ queue \in Seq(Bytes) /\ pushing \in Seq(Bytes) /\ busy
  BY <1>1, <1>2 DEF LinkTypeOK, DecoderInv, DecoderTypeOK
<1>4. Head(pushing) \in Bytes /\ Tail(pushing) \in Seq(Bytes)
  BY <1>2, <1>3, HeadTailProperties
<1>5. Append(queue, Head(pushing)) \in Seq(Bytes)
  BY <1>3, <1>4, AppendProperties
<1>6. LinkTypeOK'
  BY <1>1, <1>2, <1>3, <1>4, <1>5 DEF LinkTypeOK
<1>7. DecoderInv'
  BY <1>1, <1>2, DecoderStays
<1>8. Uplinked' = Uplinked
  <2> DEFINE h == Head(pushing)
             u == received \o queue
  <2>1. /\ received \o Append(queue, h) = Append(u, h)
    <3>1. <<h>> \in Seq(Bytes)
      BY <1>4
    <3>2. Append(queue, h) = queue \o <<h>> /\ u \in Seq(Bytes)
      BY <1>3, <1>4, AppendIsConcat, ConcatProperties
    <3>3. Append(u, h) = u \o <<h>>
      BY <1>4, <3>2, AppendIsConcat
    <3>4. u \o <<h>> = received \o (queue \o <<h>>)
      BY <1>3, <3>1, ConcatAssociative
    <3>5. QED
      BY <3>2, <3>3, <3>4
  <2>2. u \in Seq(Bytes)
    BY <1>3, ConcatProperties
  <2> HIDE DEF u
  <2>3. Append(u, h) \o Tail(pushing) = u \o pushing
    BY <1>2, <1>3, <2>2, Moves
  <2>4. Uplinked' = (received \o Append(queue, h)) \o Tail(pushing)
    BY <1>2 DEF Uplinked, decoderVars
  <2>5. QED
    BY <2>1, <2>3, <2>4 DEF Uplinked, u
<1>9. ASSUME NEW n \in 1 .. sent, Coming(n)
      PROVE  Coming(n)'
  BY <1>3, <1>2, <1>9 DEF Coming, Arriving
<1>10. Len(block') + Len(air') <= Len(block) + Len(air)
  BY <1>1, <1>2, LenProperties DEF LinkTypeOK
<1>11. (\E at : InLine(at))'
  BY <1>1, <1>2, <1>6, <1>8, <1>9, <1>10, LineStays DEF LinkInv
<1>12. QED
  BY <1>6, <1>7, <1>11 DEF LinkInv

\* Decoding is a step of the decoder.
LEMMA DecodeStep == ASSUME LinkInv, Decode PROVE DecoderNext
<1>1. queue \in Seq(Bytes) /\ queue # <<>>
  BY DEF LinkInv, LinkTypeOK, Decode
<1>2. Head(queue) \in Bytes
  BY <1>1, HeadTailProperties
<1>3. QED
  BY <1>2 DEF Decode, DecoderNext

\* and one that is decoded.
LEMMA DecodeInv == ASSUME LinkInv, Decode PROVE LinkInv'
<1>1. LinkTypeOK /\ DecoderInv
  BY DEF LinkInv
<1>2. /\ queue # <<>> /\ queue' = Tail(queue) /\ received' = Append(received, Head(queue))
      /\ UNCHANGED <<frame, air, block, busy, pushing, sent, spoilt>>
  BY DEF Decode, ReceiveByte
<1>3. received \in Seq(Bytes) /\ queue \in Seq(Bytes) /\ pushing \in Seq(Bytes)
  BY <1>1 DEF LinkTypeOK, DecoderInv, DecoderTypeOK
<1>4. Tail(queue) \in Seq(Bytes)
  BY <1>2, <1>3, HeadTailProperties
<1>5. LinkTypeOK'
  BY <1>1, <1>2, <1>4 DEF LinkTypeOK
<1>6. DecoderInv'
  BY <1>1, DecodeStep, ByteStep
<1>7. Uplinked' = Uplinked
  <2>1. Append(received, Head(queue)) \o Tail(queue) = received \o queue
    BY <1>2, <1>3, Moves
  <2>2. QED
    BY <1>2, <2>1 DEF Uplinked
<1>8. ASSUME NEW n \in 1 .. sent, Coming(n)
      PROVE  Coming(n)'
  BY <1>2, <1>8 DEF Coming, Arriving, Padded
<1>9. Len(block') + Len(air') <= Len(block) + Len(air)
  BY <1>1, <1>2, LenProperties DEF LinkTypeOK
<1>10. (\E at : InLine(at))'
  BY <1>1, <1>2, <1>5, <1>7, <1>8, <1>9, LineStays DEF LinkInv
<1>11. QED
  BY <1>5, <1>6, <1>10 DEF LinkInv

\* Every step keeps the invariant, and for the decoder is a step of its own or none.
LEMMA LinkNext == ASSUME LinkInv, [Next]_vars PROVE LinkInv' /\ [DecoderNext]_decoderVars
<1>1. CASE Send
  BY <1>1, SendInv DEF Send
<1>2. CASE Lose
  BY <1>2, LoseInv DEF Lose
<1>3. CASE ReadByte
  <2>1. UNCHANGED decoderVars
    BY <1>3 DEF ReadByte, Read
  <2>2. QED
    BY <1>3, <2>1, ReadByteInv
<1>4. CASE DropByte
  BY <1>4, DropByteInv DEF DropByte
<1>5. CASE Push
  BY <1>5, PushInv DEF Push
<1>6. CASE UplinkAgain
  BY <1>6, UplinkAgainInv DEF UplinkAgain
<1>7. CASE Decode
  BY <1>7, DecodeInv, DecodeStep
<1>8. CASE UNCHANGED vars
  <2>1. UNCHANGED <<decoderVars, frame, air, block, busy, pushing, queue, sent, spoilt>>
    BY <1>8 DEF vars, linkVars
  <2>2. LinkTypeOK' /\ DecoderInv'
    BY <2>1, DecoderStays DEF LinkInv, LinkTypeOK
  <2>3. ASSUME NEW n \in 1 .. sent, Coming(n)
        PROVE  Coming(n)'
    BY <2>1, <2>3 DEF Coming, Arriving, Padded
  <2>4. Uplinked' = Uplinked /\ LinkTypeOK
    BY <2>1 DEF Uplinked, decoderVars, LinkInv
  <2>5. Len(block') + Len(air') <= Len(block) + Len(air)
    BY <2>1, <2>4, LenProperties DEF LinkTypeOK
  <2>6. (\E at : InLine(at))'
    BY <2>1, <2>2, <2>3, <2>4, <2>5, LineStays DEF LinkInv
  <2>7. QED
    BY <1>8, <2>1, <2>2, <2>6 DEF LinkInv, vars
<1>9. QED
  BY <1>1, <1>2, <1>3, <1>4, <1>5, <1>6, <1>7, <1>8 DEF Next

-----------------------------------------------------------------------------
(* The frames found. *)

\* The bytes of s from p to q are a frame.
FrameAt(s, p, q) ==
  /\ p + 1 < q /\ q - p + 1 <= AxDataSize
  /\ s[p] = AX25_FLAG /\ s[q] = AX25_FLAG
  /\ \A k \in p + 1 .. q - 1 : s[k] # AX25_FLAG

\* What decodePacket was called with is the frames, each once, in the order of their ends.
InTurn(ends) ==
  /\ ends \in [1 .. Len(packets) -> 1 .. Len(received)]
  /\ \A j, k \in 1 .. Len(packets) : j < k => ends[j] < ends[k]
  /\ \A k \in 1 .. Len(packets) : \E p \in 1 .. Len(received) :
       FrameAt(received, p, ends[k]) /\ packets[k] = SubSeq(received, p, ends[k])
  /\ \A p, q \in 1 .. Len(received) :
       FrameAt(received, p, q) => \E k \in 1 .. Len(packets) : ends[k] = q

AllFound == \E ends : InTurn(ends)

\* A frame that the last byte ends is the one that byte completes.
LEMMA FrameEnds ==
  ASSUME NEW s \in Seq(Bytes), NEW p \in 1 .. Len(s), NEW b \in Bytes,
         FrameAt(Append(s, b), p, Len(s) + 1)
  PROVE  /\ b = AX25_FLAG
         /\ CompletedBy(s) = {SubSeq(Append(s, b), p, Len(s) + 1)}
<1> DEFINE t == Append(s, b)
<1>1. Len(s) \in Nat /\ AxDataSize \in Nat
  BY LenProperties, DecoderAssumption
<1>2. t \in Seq(Bytes) /\ Len(t) = Len(s) + 1 /\ t[Len(s) + 1] = b /\ \A i \in 1 .. Len(s) : t[i] = s[i]
  BY AppendProperties
<1>3. Append(SubSeq(s, p, Len(s)), b) = SubSeq(t, p, Len(t))
  BY SuffixGrows
<1> HIDE DEF t
<1>4. /\ p + 1 < Len(s) + 1 /\ (Len(s) + 1) - p + 1 <= AxDataSize
      /\ t[p] = AX25_FLAG /\ t[Len(s) + 1] = AX25_FLAG
      /\ \A k \in p + 1 .. (Len(s) + 1) - 1 : t[k] # AX25_FLAG
  BY DEF FrameAt, t
<1>5. b = AX25_FLAG
  BY <1>2, <1>4
<1>6. LastFlag(s, p)
  <2>1. \A k \in p + 1 .. Len(s) : k \in p + 1 .. (Len(s) + 1) - 1 /\ k \in 1 .. Len(s)
    BY <1>1
  <2>2. \A k \in p + 1 .. Len(s) : s[k] # AX25_FLAG
    BY <1>2, <1>4, <2>1
  <2>3. s[p] = AX25_FLAG
    BY <1>2, <1>4
  <2>4. QED
    BY <2>2, <2>3 DEF LastFlag, Delimiting!LastFlag
<1>7. Len(s) > p /\ Len(s) - p + 2 <= AxDataSize
  BY <1>1, <1>4
<1>8. {q \in 1 .. Len(s) : LastFlag(s, q) /\ Len(s) > q /\ Len(s) - q + 2 <= AxDataSize} = {p}
  <2>1. \A q \in 1 .. Len(s) : LastFlag(s, q) => q = p
    BY <1>1, <1>6, LastFlagUnique
  <2>2. QED
    BY <1>6, <1>7, <2>1
<1>9. CompletedBy(s) = {Append(SubSeq(s, p, Len(s)), AX25_FLAG)}
  <2>1. CompletedBy(s) = {Append(SubSeq(s, q, Len(s)), AX25_FLAG) :
          q \in {q \in 1 .. Len(s) : LastFlag(s, q) /\ Len(s) > q /\ Len(s) - q + 2 <= AxDataSize}}
    BY DEF CompletedBy, Delimiting!Completed, LastFlag
  <2>2. QED
    BY <1>8, <2>1
<1>10. QED
  BY <1>2, <1>3, <1>5, <1>9 DEF t

\* And what a byte completes is a frame that it ends.
LEMMA CompletedEnds ==
  ASSUME NEW s \in Seq(Bytes), NEW f \in CompletedBy(s)
  PROVE  \E p \in 1 .. Len(s) :
           FrameAt(Append(s, AX25_FLAG), p, Len(s) + 1) /\ f = SubSeq(Append(s, AX25_FLAG), p, Len(s) + 1)
<1> DEFINE t == Append(s, AX25_FLAG)
<1>1. PICK p \in 1 .. Len(s) : /\ LastFlag(s, p) /\ Len(s) > p /\ Len(s) - p + 2 <= AxDataSize
                               /\ f = Append(SubSeq(s, p, Len(s)), AX25_FLAG)
  BY DEF CompletedBy, Delimiting!Completed, LastFlag
<1>2. Len(s) \in Nat /\ AxDataSize \in Nat /\ AX25_FLAG \in Bytes
  BY LenProperties, DecoderAssumption
<1>3. Len(t) = Len(s) + 1 /\ t[Len(s) + 1] = AX25_FLAG /\ \A i \in 1 .. Len(s) : t[i] = s[i]
  BY <1>2, AppendProperties
<1>4. f = SubSeq(t, p, Len(t))
  BY <1>1, <1>2, SuffixGrows
<1> HIDE DEF t
<1>5. s[p] = AX25_FLAG /\ \A k \in p + 1 .. Len(s) : s[k] # AX25_FLAG
  BY <1>1 DEF LastFlag, Delimiting!LastFlag
<1>6. \A k \in p + 1 .. (Len(s) + 1) - 1 : k \in 1 .. Len(s) /\ k \in p + 1 .. Len(s)
  BY <1>2
<1>7. p + 1 < Len(s) + 1 /\ (Len(s) + 1) - p + 1 <= AxDataSize
  BY <1>1, <1>2
<1>8. FrameAt(t, p, Len(s) + 1)
  BY <1>3, <1>5, <1>6, <1>7 DEF FrameAt
<1>9. QED
  BY <1>3, <1>4, <1>8 DEF t

\* A frame in bytes stays one when another byte comes.
LEMMA FrameStays ==
  ASSUME NEW s \in Seq(Bytes), NEW b \in Bytes, NEW p \in 1 .. Len(s), NEW q \in 1 .. Len(s)
  PROVE  /\ FrameAt(Append(s, b), p, q) <=> FrameAt(s, p, q)
         /\ FrameAt(s, p, q) => SubSeq(Append(s, b), p, q) = SubSeq(s, p, q)
<1> DEFINE t == Append(s, b)
<1>1. Len(s) \in Nat
  BY LenProperties
<1>2. t \in Seq(Bytes) /\ Len(t) = Len(s) + 1 /\ \A i \in 1 .. Len(s) : t[i] = s[i]
  BY AppendProperties
<1> HIDE DEF t
<1>3. \A k \in p + 1 .. q - 1 : k \in 1 .. Len(s)
  BY <1>1
<1>4. FrameAt(t, p, q) <=> FrameAt(s, p, q)
  BY <1>2, <1>3 DEF FrameAt
<1>5. ASSUME FrameAt(s, p, q)
      PROVE  SubSeq(t, p, q) = SubSeq(s, p, q)
  <2> DEFINE v == SubSeq(t, p, q)
             w == SubSeq(s, p, q)
  <2>1. p \in Nat \ {0} /\ q \in Nat /\ p <= q + 1 /\ q <= Len(s) /\ q <= Len(t)
    BY <1>1, <1>2, <1>5 DEF FrameAt
  <2>2. /\ w \in Seq(Bytes) /\ Len(w) = q - p + 1
        /\ \A i \in 1 .. q - p + 1 : w[i] = s[p + i - 1]
    BY <2>1, PartOfSeq
  <2>3. /\ v \in Seq(Bytes) /\ Len(v) = q - p + 1
        /\ \A i \in 1 .. q - p + 1 : v[i] = t[p + i - 1]
    BY <1>2, <2>1, PartOfSeq
  <2>4. \A i \in 1 .. q - p + 1 : p + i - 1 \in 1 .. Len(s)
    BY <1>1, <2>1
  <2> HIDE DEF v, w
  <2>5. \A i \in 1 .. Len(v) : v[i] = w[i]
    BY <1>2, <2>2, <2>3, <2>4
  <2>6. v \in Seq(Bytes) /\ w \in Seq(Bytes) /\ Len(v) = Len(w)
    BY <2>2, <2>3
  <2>7. v = w
    BY <2>5, <2>6, SeqEqual
  <2>8. QED
    BY <2>7 DEF v, w
<1>6. QED
  BY <1>4, <1>5 DEF t

\* Every byte leaves all frames so far found, in turn.
LEMMA AllFoundNext ==
  ASSUME DecoderInv, AllFound, DecoderNext
  PROVE  AllFound'
<1>1. PICK b \in Bytes : Delimiting!Accept(b)
  BY ByteStep DEF Delimiting!Next
<1>2. received \in Seq(Bytes) /\ packets \in Seq(Seq(Bytes))
  BY DEF DecoderInv, DecoderTypeOK
<1>3. received' = Append(received, b)
  BY <1>1 DEF Delimiting!Accept
<1> DEFINE R == Len(received)
           N == Len(packets)
<1>4. Len(received') = R + 1 /\ R \in Nat /\ N \in Nat
  BY <1>2, <1>3, AppendProperties, LenProperties
<1>5. PICK ends : InTurn(ends)
  BY DEF AllFound
<1>6. /\ ends \in [1 .. N -> 1 .. R]
      /\ \A j, k \in 1 .. N : j < k => ends[j] < ends[k]
      /\ \A k \in 1 .. N : \E p \in 1 .. R :
           FrameAt(received, p, ends[k]) /\ packets[k] = SubSeq(received, p, ends[k])
      /\ \A p, q \in 1 .. R : FrameAt(received, p, q) => \E k \in 1 .. N : ends[k] = q
  BY <1>5 DEF InTurn
<1>7. \A k \in 1 .. N : \E p \in 1 .. R :
        FrameAt(received', p, ends[k]) /\ packets[k] = SubSeq(received', p, ends[k])
  <2>1. ASSUME NEW k \in 1 .. N
        PROVE  \E p \in 1 .. R : FrameAt(received', p, ends[k]) /\ packets[k] = SubSeq(received', p, ends[k])
    <3>1. PICK p \in 1 .. R : FrameAt(received, p, ends[k]) /\ packets[k] = SubSeq(received, p, ends[k])
      BY <1>6, <2>1
    <3>2. ends[k] \in 1 .. R
      BY <1>6, <2>1
    <3>3. QED
      BY <1>2, <1>3, <3>1, <3>2, FrameStays
  <2>2. QED
    BY <2>1
<1>8. ASSUME NEW p \in 1 .. R + 1, NEW q \in 1 .. R + 1, FrameAt(received', p, q)
      PROVE  (\E k \in 1 .. N : ends[k] = q) \/ (p \in 1 .. R /\ q = R + 1)
  <2>1. p \in 1 .. R
    BY <1>4, <1>8 DEF FrameAt
  <2>2. CASE q \in 1 .. R
    BY <1>2, <1>3, <1>6, <1>8, <2>1, <2>2, FrameStays
  <2>3. QED
    BY <1>4, <1>8, <2>1, <2>2
<1>9. CASE /\ b = AX25_FLAG
           /\ \E f \in CompletedBy(received) : packets' = Append(packets, f)
  <2>1. PICK f \in CompletedBy(received) : packets' = Append(packets, f)
    BY <1>9
  <2>2. PICK p0 \in 1 .. R : FrameAt(received', p0, R + 1) /\ f = SubSeq(received', p0, R + 1)
    BY <1>2, <1>3, <1>9, CompletedEnds
  <2>3. Len(packets') = N + 1 /\ packets'[N + 1] = f /\ \A k \in 1 .. N : packets'[k] = packets[k]
    <3> DEFINE S == Seq(Bytes)
    <3>1. packets \in Seq(S) /\ N \in Nat
      BY <1>2, <1>4
    <3> HIDE DEF S
    <3>2. QED
      BY <2>1, <3>1
  <2>e. PICK e : e = [k \in 1 .. N + 1 |-> IF k = N + 1 THEN R + 1 ELSE ends[k]]
    OBVIOUS
  <2>c. R \in Nat /\ N \in Nat /\ ends \in [1 .. N -> 1 .. R]
    BY <1>4, <1>6
  <2> HIDE DEF R, N
  <2>4. /\ e \in [1 .. N + 1 -> 1 .. R + 1] /\ e[N + 1] = R + 1
        /\ \A k \in 1 .. N : e[k] = ends[k] /\ ends[k] \in 1 .. R
    BY <2>e, <2>c
  <2>5. R \in Nat /\ N \in Nat /\ 1 .. N + 1 = 1 .. N \cup {N + 1} /\ 1 .. R \subseteq 1 .. R + 1
    BY <1>4
  <2>6. \A j, k \in 1 .. N + 1 : j < k => e[j] < e[k]
    <3>1. SUFFICES ASSUME NEW j \in 1 .. N + 1, NEW k \in 1 .. N + 1, j < k
                   PROVE  e[j] < e[k]
      OBVIOUS
    <3>2. j \in 1 .. N /\ e[j] = ends[j] /\ ends[j] \in 1 .. R
      BY <2>4, <2>5, <3>1
    <3>3. CASE k = N + 1
      BY <2>4, <2>5, <3>2, <3>3
    <3>4. CASE k \in 1 .. N
      BY <1>6, <2>4, <3>1, <3>2, <3>4
    <3>5. QED
      BY <2>5, <3>3, <3>4
  <2>7. \A k \in 1 .. N + 1 : \E p \in 1 .. R + 1 :
          FrameAt(received', p, e[k]) /\ packets'[k] = SubSeq(received', p, e[k])
    BY <1>7, <2>2, <2>3, <2>4, <2>5
  <2>8. \A p, q \in 1 .. R + 1 : FrameAt(received', p, q) => \E k \in 1 .. N + 1 : e[k] = q
    BY <1>8, <2>4, <2>5
  <2>9. InTurn(e)'
    BY <1>4, <2>3, <2>4, <2>6, <2>7, <2>8 DEF InTurn
  <2>10. QED
    BY <2>9 DEF AllFound
<1>10. CASE /\ b # AX25_FLAG \/ CompletedBy(received) = {}
            /\ packets' = packets
  <2>1. ASSUME NEW p \in 1 .. R + 1, NEW q \in 1 .. R + 1, FrameAt(received', p, q)
        PROVE  \E k \in 1 .. N : ends[k] = q
    <3>1. SUFFICES ASSUME p \in 1 .. R, q = R + 1
                   PROVE  FALSE
      BY <1>8, <2>1
    <3>2. b = AX25_FLAG /\ CompletedBy(received) # {}
      BY <1>2, <1>3, <2>1, <3>1, FrameEnds
    <3>3. QED
      BY <1>10, <3>2
  <2> HIDE DEF R, N
  <2>2. 1 .. R \subseteq 1 .. R + 1
    BY <1>4
  <2>3. ends \in [1 .. N -> 1 .. R + 1]
    BY <1>6, <2>2
  <2>4. InTurn(ends)'
    BY <1>4, <1>6, <1>7, <1>10, <2>1, <2>2, <2>3 DEF InTurn, N
  <2>5. QED
    BY <2>4 DEF AllFound
<1>11. QED
  BY <1>1, <1>9, <1>10 DEF Delimiting!Accept, CompletedBy

\* A frame that stands in what the decoder was given was passed to decodePacket, in its turn.
LEMMA StandingFound ==
  ASSUME NEW f, WellFormed(f), NEW m \in Nat, StandsAt(f, received, m), received \in Seq(Bytes),
         NEW ends, InTurn(ends)
  PROVE  \E k \in 1 .. Len(packets) : packets[k] = f /\ ends[k] = m + Len(f)
<1> DEFINE L == Len(f)
<1>1. m + L <= Len(received) /\ \A i \in 1 .. L : received[m + i] = f[i]
  BY DEF StandsAt
<1>2. /\ f \in Seq(Bytes) /\ L \in Nat /\ L >= 3 /\ L <= AxDataSize
      /\ Len(received) \in Nat
  BY LenProperties, LinkAssumption, DecoderAssumption DEF WellFormed
<1> DEFINE p == m + 1
           q == m + L
<1>3. p \in 1 .. Len(received) /\ q \in 1 .. Len(received) /\ p + 1 < q /\ q - p + 1 = L
  BY <1>1, <1>2
<1>4. FrameAt(received, p, q)
  <2>1. 1 \in 1 .. L /\ L \in 1 .. L
    BY <1>2
  <2>2. received[p] = AX25_FLAG /\ received[q] = AX25_FLAG
    BY <1>1, <2>1 DEF WellFormed
  <2>3. ASSUME NEW k \in p + 1 .. q - 1
        PROVE  received[k] # AX25_FLAG
    <3>1. k - m \in 2 .. L - 1 /\ k - m \in 1 .. L /\ m + (k - m) = k
      BY <1>2, <2>3
    <3>2. received[k] = f[k - m]
      BY <1>1, <3>1
    <3>3. QED
      BY <3>1, <3>2 DEF WellFormed
  <2>4. QED
    BY <1>2, <1>3, <2>2, <2>3 DEF FrameAt
<1>5. PICK k \in 1 .. Len(packets) : ends[k] = q
  BY <1>3, <1>4 DEF InTurn
<1>6. PICK r \in 1 .. Len(received) : FrameAt(received, r, q) /\ packets[k] = SubSeq(received, r, q)
  BY <1>5 DEF InTurn
<1>7. r = p
  <2> HIDE DEF p, q
  <2>1. /\ p \in Int /\ q \in Int /\ r \in Int /\ p + 1 < q /\ r + 1 < q
        /\ received[p] = AX25_FLAG /\ received[r] = AX25_FLAG
        /\ \A i \in p + 1 .. q - 1 : received[i] # AX25_FLAG
        /\ \A i \in r + 1 .. q - 1 : received[i] # AX25_FLAG
    BY <1>3, <1>4, <1>6 DEF FrameAt
  <2>2. r \notin p + 1 .. q - 1 /\ p \notin r + 1 .. q - 1
    BY <2>1
  <2>3. QED
    BY <2>1, <2>2
<1>8. SubSeq(received, p, q) = f
  <2> DEFINE w == SubSeq(received, p, q)
  <2>1. p \in Nat \ {0} /\ q \in Nat /\ q <= Len(received) /\ p <= q + 1
    BY <1>2, <1>3
  <2>2. \A i \in 1 .. L : p + i - 1 = m + i
    OBVIOUS
  <2> HIDE DEF p, q
  <2>3. /\ w \in Seq(Bytes) /\ Len(w) = q - p + 1
        /\ \A i \in 1 .. q - p + 1 : w[i] = received[p + i - 1]
    BY <2>1, PartOfSeq
  <2> HIDE DEF w
  <2>4. Len(w) = Len(f) /\ \A i \in 1 .. Len(w) : w[i] = f[i]
    BY <1>1, <1>3, <2>2, <2>3
  <2>5. w \in Seq(Bytes)
    BY <2>3
  <2>6. w = f
    BY <1>2, <2>4, <2>5, SeqEqual
  <2>7. QED
    BY <2>6 DEF w
<1>9. packets[k] = f /\ ends[k] = q
  BY <1>5, <1>6, <1>7, <1>8
<1>10. QED
  BY <1>9

\* The invariants of the link.
LEMMA LinkInvariance == Spec => [](LinkInv /\ AllFound)
<1>1. Init => LinkInv /\ AllFound
  <2>1. ASSUME Init PROVE AllFound
    <3>1. 1 .. Len(received) = {} /\ 1 .. Len(packets) = {}
      BY <2>1, EmptySeq DEF Init, DecoderInit
    <3> DEFINE e == [k \in {} |-> 0]
    <3>2. e \in [{} -> {}]
      OBVIOUS
    <3> HIDE DEF e
    <3>3. InTurn(e)
      BY <3>1, <3>2 DEF InTurn
    <3>4. QED
      BY <3>3 DEF AllFound
  <2>2. QED
    BY <2>1, LinkInit
<1>2. LinkInv /\ AllFound /\ [Next]_vars => (LinkInv /\ AllFound)'
  <2>1. ASSUME LinkInv, AllFound, [Next]_vars PROVE AllFound'
    <3>1. CASE DecoderNext
      BY <2>1, <3>1, AllFoundNext DEF LinkInv
    <3>2. CASE UNCHANGED decoderVars
      BY <2>1, <3>2 DEF AllFound, InTurn, decoderVars
    <3>3. QED
      BY <2>1, <3>1, <3>2, LinkNext
  <2>2. QED
    BY <2>1, LinkNext
<1>3. QED
  BY <1>1, <1>2, PTL DEF Spec

\* In the link the decoder runs as it does for itself, so that what is proved of it
\* holds there, whatever is lost or changed on the way.
THEOREM LinkRunsDecoder == Spec => DecoderSpec
<1>1. Init => DecoderInit
  BY DEF Init
<1>2. LinkInv /\ [Next]_vars => [DecoderNext]_decoderVars
  BY LinkNext
<1>3. QED
  BY <1>1, <1>2, LinkInvariance, PTL DEF Spec, DecoderSpec

\* The types of the decoder and what it finds, in the link.
THEOREM LinkFindsFrames == Spec => []DecoderTypeOK /\ FindsFrames
BY LinkRunsDecoder, DecoderTypeCorrect, DecoderFindsFrames

-----------------------------------------------------------------------------
(* What comes out of the decoder. *)

\* When all is quiet the decoder has received everything.
LEMMA QuietUplinked == ASSUME DecoderInv, Quiet PROVE Uplinked = received
<1>1. queue = <<>> /\ pushing = <<>> /\ received \in Seq(Bytes)
  BY DEF Quiet, DecoderInv, DecoderTypeOK
<1>2. received \o <<>> = received
  BY <1>1, ConcatEmptySeq
<1>3. QED
  BY <1>1, <1>2 DEF Uplinked

\* Frames that were sent are long enough.
LEMMA SentLength ==
  ASSUME LinkInv, NEW n \in 1 .. sent
  PROVE  n \in DOMAIN Frames /\ Len(Stuffed(n)) \in Nat /\ Len(Stuffed(n)) >= 3
<1>1. n \in 1 .. Len(Frames) /\ DOMAIN Frames = 1 .. Len(Frames)
  BY LinkAssumption, LenProperties DEF LinkInv, LinkTypeOK
<1>2. QED
  BY <1>1, FramesWellFormed, LenProperties DEF WellFormed, Stuffed

\* A frame that stands in what was uplinked has been passed on when all is quiet, in its turn.
LEMMA StandingDecoded ==
  ASSUME LinkInv, Quiet, NEW at, InLine(at), NEW ends, InTurn(ends), NEW n \in DOMAIN at
  PROVE  \E k \in 1 .. Len(packets) : packets[k] = Stuffed(n) /\ ends[k] = at[n] + Len(Stuffed(n))
<1>1. received \in Seq(Bytes) /\ sent \in 0 .. Len(Frames) /\ Len(Frames) \in Nat
  BY LinkAssumption, LenProperties DEF LinkInv, LinkTypeOK, DecoderInv, DecoderTypeOK
<1>2. n \in 1 .. Len(Frames) /\ at[n] \in Nat /\ StandsAt(Stuffed(n), Uplinked, at[n])
  BY <1>1 DEF InLine, Placed
<1>3. WellFormed(Stuffed(n))
  BY <1>2, FramesWellFormed DEF Stuffed
<1>4. Uplinked = received
  BY <1>1, QuietUplinked DEF LinkInv
<1>5. QED
  BY <1>1, <1>2, <1>3, <1>4, StandingFound

\* An unspoilt frame stands there, or waits in its block.
LEMMA StandsWhenQuiet ==
  ASSUME LinkInv, Quiet, NEW at, InLine(at), NEW n \in 1 .. sent, n \notin spoilt,
         ~IsPrefix(Stuff(Frames[n]), block)
  PROVE  n \in DOMAIN at
<1> DEFINE f == Stuff(Frames[n])
<1>1. sent \in 0 .. Len(Frames) /\ Len(Frames) \in Nat /\ block \in Seq(Bytes)
  BY LinkAssumption, LenProperties DEF LinkInv, LinkTypeOK
<1>2. WellFormed(f)
  BY <1>1, FramesWellFormed
<1> HIDE DEF f
<1>3. f \in Seq(Bytes) /\ Len(f) \in Nat
  BY <1>2, LenProperties DEF WellFormed
<1>4. ~Begins(f, block)
  <2>1. SUFFICES ASSUME Begins(f, block)
                 PROVE  IsPrefix(f, block)
    BY DEF f
  <2> DEFINE o == 1
             v == SubSeq(f, o, Len(f))
             w == SubSeq(block, o, Len(f))
  <2>2. /\ Len(f) <= Len(block) /\ Len(f) <= Len(f) /\ o \in Nat \ {0} /\ o <= Len(f) + 1
        /\ Len(f) - o + 1 = Len(f) /\ \A i \in 1 .. Len(f) : o + i - 1 = i /\ block[i] = f[i]
    BY <1>3, <2>1 DEF Begins
  <2> HIDE DEF o
  <2>3. /\ v \in Seq(Bytes) /\ Len(v) = Len(f) - o + 1
        /\ \A i \in 1 .. Len(f) - o + 1 : v[i] = f[o + i - 1]
    BY <1>3, <2>2, PartOfSeq
  <2>4. /\ w \in Seq(Bytes) /\ Len(w) = Len(f) - o + 1
        /\ \A i \in 1 .. Len(f) - o + 1 : w[i] = block[o + i - 1]
    BY <1>1, <1>3, <2>2, PartOfSeq
  <2> HIDE DEF v, w
  <2>5. Len(v) = Len(w) /\ \A i \in 1 .. Len(v) : v[i] = w[i]
    BY <2>2, <2>3, <2>4
  <2>6. v \in Seq(Bytes) /\ w \in Seq(Bytes)
    BY <2>3, <2>4
  <2>7. v = w
    BY <2>5, <2>6, SeqEqual
  <2>8. QED
    BY <2>2, <2>7 DEF IsPrefix, v, w, o
<1>5. ~Arriving(n)
  <2>1. SUFFICES ASSUME Arriving(n)
                 PROVE  FALSE
    OBVIOUS
  <2>2. Len(air) = 0 /\ Len(block) \in Nat /\ BlockSize \in Nat
    BY <1>1, EmptySeq, LenProperties, LinkAssumption DEF Quiet
  <2>3. frame = f /\ Len(f) <= BlockSize
    BY <1>1, <1>2, <2>1 DEF Arriving, LinkInv, LinkTypeOK, f, WellFormed
  <2>4. Len(block) < Len(f) /\ Len(block) + Len(air) = BlockSize
    BY <2>1, <2>3 DEF Arriving
  <2>5. QED
    BY <1>3, <2>2, <2>3, <2>4
<1>6. n \notin Due(at)
  BY <1>4, <1>5 DEF InLine, NextDue, Coming, Stuffed, f
<1>7. QED
  BY <1>6 DEF Due

\* A frame that can be decoded is told from its packet.
LEMMA Recognised ==
  ASSUME LinkInv, NEW n \in 1 .. sent, Decodable(n), NEW k \in 1 .. Len(packets),
         packets[k] = Stuffed(n)
  PROVE  k \in DOMAIN packets /\ n \in Decoded[k]
<1>1. sent \in 0 .. Len(Frames) /\ Len(Frames) \in Nat /\ packets \in Seq(Seq(Bytes))
  BY LinkAssumption, LenProperties DEF LinkInv, LinkTypeOK, DecoderInv, DecoderTypeOK
<1>2. Frames \in Seq(Seq(0 .. 255)) /\ n \in 1 .. Len(Frames)
  BY <1>1, LinkAssumption
<1>3. Frames[n] \in Seq(0 .. 255) /\ DOMAIN Frames = 1 .. Len(Frames)
  BY <1>2, ElementOfSeq, LenProperties
<1>4. Unstuff(Stuffed(n)) = Frames[n]
  BY <1>2, <1>3, LinkAssumption, StuffedIsRecovered DEF Decodable, Stuffed
<1>5. k \in DOMAIN packets
  BY <1>1, LenProperties
<1>6. QED
  BY <1>2, <1>3, <1>4, <1>5 DEF Decoded

\* A frame that arrives as it was sent, while the manager was at the start of a block,
\* comes out as what was stuffed into it, or waits in its block for the bytes lost.
THEOREM RecoveredCorrect == Spec => []Recovered
<1>1. LinkInv /\ AllFound => Recovered
  <2>1. SUFFICES ASSUME LinkInv, AllFound, Quiet, NEW n \in 1 .. sent, n \notin spoilt, Decodable(n),
                        ~IsPrefix(Stuff(Frames[n]), block)
                 PROVE  \E k \in DOMAIN packets : n \in Decoded[k]
    BY DEF Recovered
  <2>2. PICK at : InLine(at)
    BY <2>1 DEF LinkInv
  <2>3. PICK ends : InTurn(ends)
    BY <2>1 DEF AllFound
  <2>4. n \in DOMAIN at
    BY <2>1, <2>2, StandsWhenQuiet
  <2>5. PICK k \in 1 .. Len(packets) : packets[k] = Stuffed(n)
    BY <2>1, <2>2, <2>3, <2>4, StandingDecoded
  <2>6. QED
    BY <2>1, <2>5, Recognised
<1>2. QED
  BY <1>1, LinkInvariance, PTL

\* Frames that arrive as they were sent come out in the order in which they were sent,
\* whatever happened to others before, after and between them.
Came(n) == n \notin spoilt /\ Decodable(n) /\ ~IsPrefix(Stuff(Frames[n]), block)

ArrivedInOrder ==
  Quiet =>
    \A m, n \in 1 .. sent :
      m < n /\ Came(m) /\ Came(n)
        => \E j, k \in DOMAIN packets : j < k /\ m \in Decoded[j] /\ n \in Decoded[k]

\* The decoder passes frames on in the order in which the manager pushed them.
THEOREM ArrivedInOrderCorrect == Spec => []ArrivedInOrder
<1>1. LinkInv /\ AllFound => ArrivedInOrder
  <2>1. SUFFICES ASSUME LinkInv, AllFound, Quiet, NEW m \in 1 .. sent, NEW n \in 1 .. sent,
                        m < n, Came(m), Came(n)
                 PROVE  \E j, k \in DOMAIN packets : j < k /\ m \in Decoded[j] /\ n \in Decoded[k]
    BY DEF ArrivedInOrder
  <2>2. PICK at : InLine(at)
    BY <2>1 DEF LinkInv
  <2>3. PICK ends : InTurn(ends)
    BY <2>1 DEF AllFound
  <2>4. m \in DOMAIN at /\ n \in DOMAIN at
    BY <2>1, <2>2, StandsWhenQuiet DEF Came
  <2>5. PICK j \in 1 .. Len(packets) : packets[j] = Stuffed(m) /\ ends[j] = at[m] + Len(Stuffed(m))
    BY <2>1, <2>2, <2>3, <2>4, StandingDecoded
  <2>6. PICK k \in 1 .. Len(packets) : packets[k] = Stuffed(n) /\ ends[k] = at[n] + Len(Stuffed(n))
    BY <2>1, <2>2, <2>3, <2>4, StandingDecoded
  <2>7. at[m] + Len(Stuffed(m)) <= at[n] /\ at[n] \in Nat /\ at[m] \in Nat
    BY <2>1, <2>2, <2>4 DEF InLine, Placed
  <2>8. Len(Stuffed(n)) \in Nat /\ Len(Stuffed(n)) >= 3 /\ Len(Stuffed(m)) \in Nat
    BY <2>1, SentLength
  <2>9. ends[j] < ends[k] /\ ends[j] \in Int /\ ends[k] \in Int
    BY <2>5, <2>6, <2>7, <2>8
  <2>10. j < k
    <3>1. ~(k < j) /\ k # j
      BY <2>3, <2>9 DEF InTurn
    <3>2. QED
      BY <3>1
  <2>11. QED
    BY <2>1, <2>5, <2>6, <2>10, Recognised DEF Came
<1>2. QED
  BY <1>1, LinkInvariance, PTL

\* No frame is what is left of another when that one's zeros at the end are taken for padding.
Told == \A m, n \in DOMAIN Frames : Unstuff(Stuff(Frames[m])) = Frames[n] => m = n

\* So it is when no frame ends with a zero byte.
LEMMA DecodableTold == (\A n \in DOMAIN Frames : Decodable(n)) => Told
<1>1. SUFFICES ASSUME NEW m \in DOMAIN Frames, NEW n \in DOMAIN Frames, Decodable(m),
                      Unstuff(Stuff(Frames[m])) = Frames[n]
               PROVE  m = n
  BY DEF Told
<1>2. Frames \in Seq(Seq(0 .. 255))
  BY LinkAssumption
<1>3. Frames[m] \in Seq(0 .. 255) /\ Frames[m] # <<>>
  BY <1>2, ElementOfSeq, LenProperties, LinkAssumption
<1>4. Unstuff(Stuff(Frames[m])) = Frames[m]
  BY <1>1, <1>3, StuffedIsRecovered DEF Decodable
<1>5. QED
  BY <1>1, <1>4, LinkAssumption

\* Of frames none of which was spoilt, all that is found are the frames, each in its turn:
\* what is between two flags is a frame or the nothing between two frames.
LEMMA OnlyFrames ==
  ASSUME LinkInv, Quiet, NEW at, InLine(at), NEW ends, InTurn(ends), spoilt = {},
         NEW k \in 1 .. Len(packets)
  PROVE  \E n \in DOMAIN at : packets[k] = Stuffed(n) /\ ends[k] = at[n] + Len(Stuffed(n))
<1> DEFINE r == received
           q == ends[k]
           L(n) == Len(Stuffed(n))
           D == DOMAIN at
<1>1. r \in Seq(Bytes) /\ sent \in 0 .. Len(Frames) /\ Len(Frames) \in Nat /\ Uplinked = r
  BY LinkAssumption, LenProperties, QuietUplinked DEF LinkInv, LinkTypeOK, DecoderInv, DecoderTypeOK
<1>2. PICK p \in 1 .. Len(r) : FrameAt(r, p, q) /\ q \in 1 .. Len(r)
  BY DEF InTurn
<1>3. /\ p \in Nat /\ q \in Nat /\ p + 1 < q /\ r[p] = AX25_FLAG /\ r[q] = AX25_FLAG
      /\ \A i \in p + 1 .. q - 1 : r[i] # AX25_FLAG
      /\ p + 1 \in p + 1 .. q - 1 /\ p + 1 \in 1 .. Len(r) /\ Len(r) \in Nat
  <2>1. Len(r) \in Nat
    BY <1>1, LenProperties
  <2>2. QED
    BY <1>2, <2>1 DEF FrameAt
<1>4. /\ \A i \in 1 .. Len(r) : \E n \in D : at[n] < i /\ i <= at[n] + L(n)
      /\ \A n \in D : n \in 1 .. Len(Frames) /\ n \in Nat /\ at[n] \in Nat /\ StandsAt(Stuffed(n), r, at[n])
      /\ \A l, n \in D : l < n => at[l] + L(l) <= at[n]
  BY <1>1 DEF InLine, Placed, Tight
<1>5. ASSUME NEW n \in D
      PROVE  /\ WellFormed(Stuffed(n)) /\ L(n) \in Nat /\ L(n) >= 3
             /\ at[n] + L(n) <= Len(r)
             /\ r[at[n] + 1] = AX25_FLAG /\ r[at[n] + L(n)] = AX25_FLAG
             /\ \A i \in Nat : at[n] + 1 < i /\ i < at[n] + L(n) => r[i] # AX25_FLAG
  <2>1. WellFormed(Stuffed(n))
    BY <1>4, FramesWellFormed DEF Stuffed
  <2> DEFINE f == Stuffed(n)
             a == at[n]
             c == L(n)
  <2>2. /\ c \in Nat /\ c >= 3 /\ f[1] = AX25_FLAG /\ f[c] = AX25_FLAG
        /\ \A i \in 2 .. c - 1 : f[i] # AX25_FLAG
    BY <2>1, LenProperties DEF WellFormed
  <2>3. a \in Nat /\ a + c <= Len(r) /\ \A i \in 1 .. c : r[a + i] = f[i]
    BY <1>4 DEF StandsAt
  <2> HIDE DEF f, a, c
  <2>4. 1 \in 1 .. c /\ c \in 1 .. c
    BY <2>2
  <2>5. ASSUME NEW i \in Nat, a + 1 < i, i < a + c
        PROVE  r[i] # AX25_FLAG
    <3>1. i - a \in 2 .. c - 1 /\ i - a \in 1 .. c /\ a + (i - a) = i
      BY <2>2, <2>3, <2>5
    <3>2. QED
      BY <2>2, <2>3, <3>1
  <2>6. r[a + 1] = AX25_FLAG /\ r[a + c] = AX25_FLAG
    BY <2>2, <2>3, <2>4
  <2>7. QED
    BY <2>1, <2>2, <2>3, <2>5, <2>6 DEF f, a, c
<1>6. PICK n \in D : at[n] < p /\ p <= at[n] + L(n)
  BY <1>2, <1>4
<1>7. PICK l \in D : at[l] < p + 1 /\ p + 1 <= at[l] + L(l)
  BY <1>3, <1>4
<1> HIDE DEF r, q, L, D
<1>8. p = at[n] + 1
  <2>1. SUFFICES ASSUME p # at[n] + 1
                 PROVE  FALSE
    OBVIOUS
  <2>2. at[n] \in Nat /\ L(n) \in Nat /\ at[l] \in Nat /\ L(l) \in Nat /\ n \in Nat /\ l \in Nat
    BY <1>4, <1>5
  <2>3. p = at[n] + L(n)
    <3>1. ~(at[n] + 1 < p /\ p < at[n] + L(n))
      BY <1>3, <1>5
    <3>2. QED
      BY <1>3, <1>6, <2>1, <2>2, <3>1
  <2>4. p + 1 # at[l] + 1
    BY <1>3, <1>5
  <2>5. at[l] < p
    BY <1>3, <1>7, <2>2, <2>4
  <2>6. ~(l < n) /\ ~(n < l)
    <3>1. (l < n => at[l] + L(l) <= at[n]) /\ (n < l => at[n] + L(n) <= at[l])
      BY <1>4
    <3>2. at[n] < p /\ p + 1 <= at[l] + L(l) /\ p \in Nat
      BY <1>3, <1>6, <1>7
    <3>3. QED
      BY <2>2, <2>3, <2>5, <3>1, <3>2
  <2>7. l = n
    BY <2>2, <2>6
  <2>8. QED
    BY <1>3, <1>7, <2>2, <2>3, <2>7
<1>9. q = at[n] + L(n)
  <2>1. at[n] \in Nat /\ L(n) \in Nat /\ L(n) >= 3 /\ r[at[n] + L(n)] = AX25_FLAG
        /\ \A i \in Nat : at[n] + 1 < i /\ i < at[n] + L(n) => r[i] # AX25_FLAG
    BY <1>4, <1>5
  <2>2. p \in Nat /\ q \in Nat /\ p + 1 < q
    BY <1>3
  <2>3. ~(q < at[n] + L(n))
    BY <1>3, <1>8, <2>1, <2>2
  <2>4. at[n] + L(n) \notin p + 1 .. q - 1
    BY <1>3, <2>1
  <2>5. PICK e \in Nat : e = at[n] + L(n) /\ e >= at[n] + 3
    BY <2>1
  <2>6. e \notin p + 1 .. q - 1 /\ ~(q < e) /\ e >= p + 2
    BY <1>8, <2>1, <2>3, <2>4, <2>5
  <2>7. q = e
    BY <2>2, <2>6
  <2>8. QED
    BY <2>5, <2>7
<1>10. PICK j \in 1 .. Len(packets) : packets[j] = Stuffed(n) /\ ends[j] = q
  BY <1>9, StandingDecoded DEF D, L
<1>11. j = k
  <2>1. ~(ends[j] < ends[k]) /\ ~(ends[k] < ends[j])
    BY <1>3, <1>10 DEF q
  <2>2. ~(j < k) /\ ~(k < j)
    BY <2>1 DEF InTurn
  <2>3. QED
    BY <2>2
<1>12. QED
  BY <1>9, <1>10, <1>11 DEF D, L, q

\* As long as every frame arrived as it was sent, none is decoded twice and none before
\* an earlier one, also where a frame is cut short because it ends with zeros.
THEOREM OnceInOrderCorrect ==
  ASSUME Told
  PROVE  Spec => [](spoilt = {} => OnceInOrder)
<1>1. LinkInv /\ AllFound => (spoilt = {} => OnceInOrder)
  <2>1. SUFFICES ASSUME LinkInv, AllFound, spoilt = {}, Quiet,
                        NEW j \in DOMAIN packets, NEW k \in DOMAIN packets,
                        NEW m \in Decoded[j], NEW n \in Decoded[k], j < k
                 PROVE  m < n
    BY DEF OnceInOrder
  <2>2. PICK at : InLine(at)
    BY <2>1 DEF LinkInv
  <2>3. PICK ends : InTurn(ends)
    BY <2>1 DEF AllFound
  <2>4. j \in 1 .. Len(packets) /\ k \in 1 .. Len(packets)
    BY LenProperties DEF LinkInv, DecoderInv, DecoderTypeOK
  <2>5. PICK a \in DOMAIN at : packets[j] = Stuffed(a) /\ ends[j] = at[a] + Len(Stuffed(a))
    BY <2>1, <2>2, <2>3, <2>4, OnlyFrames
  <2>6. PICK b \in DOMAIN at : packets[k] = Stuffed(b) /\ ends[k] = at[b] + Len(Stuffed(b))
    BY <2>1, <2>2, <2>3, <2>4, OnlyFrames
  <2>7. /\ a \in 1 .. sent /\ b \in 1 .. sent /\ at[a] \in Nat /\ at[b] \in Nat
        /\ b < a => at[b] + Len(Stuffed(b)) <= at[a]
    BY <2>2 DEF InLine, Placed
  <2>8. /\ Len(Stuffed(a)) \in Nat /\ Len(Stuffed(b)) \in Nat /\ Len(Stuffed(a)) >= 3
        /\ a \in DOMAIN Frames /\ b \in DOMAIN Frames
    BY <2>1, <2>7, SentLength
  <2>9. ends[j] < ends[k]
    BY <2>1, <2>3, <2>4 DEF InTurn
  <2>10. ~(b < a) /\ a # b /\ a \in Int /\ b \in Int
    BY <2>5, <2>6, <2>7, <2>8, <2>9
  <2>11. m = a /\ n = b
    <3>1. /\ m \in DOMAIN Frames /\ Unstuff(packets[j]) = Frames[m]
          /\ n \in DOMAIN Frames /\ Unstuff(packets[k]) = Frames[n]
      BY <2>1 DEF Decoded
    <3>2. QED
      BY <2>5, <2>6, <2>8, <3>1 DEF Told, Stuffed
  <2>12. QED
    BY <2>10, <2>11
<1>2. QED
  BY <1>1, LinkInvariance, PTL
=============================================================================
