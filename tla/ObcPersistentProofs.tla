-------------------------- MODULE ObcPersistentProofs --------------------------
(***************************************************************************)
(* A section of the persistent storage is a register, for data of every    *)
(* size: proofs of the properties of ObcPersistent.                        *)
(***************************************************************************)
EXTENDS ObcPersistent, TLAPS

\* Where the call in progress has got to: what it has written, or read, so far.
\* Before the first header is written there is no checksum either.
Progress ==
  /\ header.sized \/ header.crc = Torn
  /\ pc = "writeData" => header = [sized |-> TRUE, crc |-> buff]
  /\ pc = "success"   => header = [sized |-> TRUE, crc |-> buff] /\ data = buff
  /\ pc = "readData"  => header.sized /\ readCrc = header.crc

IInv == TypeOK /\ Progress

\* A transfer cut short yields data of the same size.
LEMMA WrittenType ==
  ASSUME NEW old \in Values, NEW new \in Values, NEW n \in Nat
  PROVE  Written(old, new, n) \in Values
  BY DEF Values, Written

\* A complete one yields the new data.
LEMMA WrittenWhole ==
  ASSUME NEW old \in Values, NEW new \in Values
  PROVE  Written(old, new, Words) = new
<1>1. \A k \in 1 .. Words : k <= Words
  BY PersistentAssumption
<1> QED
  BY <1>1 DEF Values, Written

\* So does a read that fails and stores a byte nobody sent.
LEMMA ReadInPartType ==
  ASSUME NEW old \in Values, NEW new \in Values, NEW n \in Nat, NEW s \in Symbols
  PROVE  ReadInPart(old, new, n, s) \in Values
  BY DEF Values, ReadInPart

\* A header cut short is a header, and its checksum is old, new or torn.
LEMMA CutHeadersType ==
  ASSUME header \in [sized : BOOLEAN, crc : Values \cup {Torn}],
         NEW v \in Values, NEW h \in CutHeaders(v)
  PROVE  /\ h \in [sized : BOOLEAN, crc : Values \cup {Torn}]
         /\ \/ h = header
            \/ h.sized /\ h.crc \in {header.crc, v}
            \/ h.sized /\ h.crc = Torn /\ header.crc # v
  BY DEF CutHeaders

LEMMA InvInit == ASSUME Init PROVE IInv
  BY DEF Init, IInv, TypeOK, Progress

LEMMA InvNext == ASSUME IInv, [Next]_vars PROVE IInv'
<1> USE DEF IInv, TypeOK, Progress
<1>1. ASSUME NEW v \in Values, Set(v) PROVE IInv'
  BY <1>1 DEF Set
<1>2. CASE WriteHeader
  <2>1. CASE header' = [sized |-> TRUE, crc |-> buff] /\ pc' = "writeData"
    BY <1>2, <2>1 DEF WriteHeader
  <2>2. CASE header' \in CutHeaders(buff) /\ pc' = "failed"
    <3>1. /\ header' \in [sized : BOOLEAN, crc : Values \cup {Torn}]
          /\ header' = header \/ header'.sized
      BY <2>2, CutHeadersType
    <3> QED
      BY <1>2, <2>2, <3>1 DEF WriteHeader
  <2> QED
    BY <1>2, <2>1, <2>2 DEF WriteHeader
<1>3. CASE WriteData
  <2>1. CASE data' = Written(data, buff, Words) /\ pc' = "success"
    BY <1>3, <2>1, WrittenWhole DEF WriteData
  <2>2. CASE (\E n \in 0 .. Words : data' = Written(data, buff, n)) /\ pc' = "failed"
    <3>1. data' \in Values
      BY <2>2, WrittenType, PersistentAssumption
    <3> QED
      BY <1>3, <2>2, <3>1 DEF WriteData
  <2> QED
    BY <1>3, <2>1, <2>2 DEF WriteData
<1>4. CASE Return
  BY <1>4 DEF Return
<1>5. CASE ReadHeader
  BY <1>5 DEF ReadHeader
<1>6. CASE ReadData
  <2>1. CASE buff' = data /\ result' = IF Matches(readCrc, buff') THEN buff' ELSE Corrupt
    BY <1>6, <2>1 DEF ReadData
  <2>2. CASE /\ \E n \in 0 .. Words, s \in Symbols : buff' = ReadInPart(buff, data, n, s)
             /\ result' = None
    <3>1. buff' \in Values
      BY <2>2, ReadInPartType, PersistentAssumption
    <3> QED
      BY <1>6, <2>2, <3>1 DEF ReadData
  <2> QED
    BY <1>6, <2>1, <2>2 DEF ReadData
<1>7. CASE Reset
  BY <1>7 DEF Reset
<1>8. CASE UNCHANGED vars
  BY <1>8 DEF vars
<1> QED
  BY <1>1, <1>2, <1>3, <1>4, <1>5, <1>6, <1>7, <1>8 DEF Next

\* Every variable keeps its type: no transfer writes past the data of the section.
THEOREM TypeCorrect == Spec => []TypeOK
<1>1. Init => IInv
  BY InvInit
<1>2. IInv /\ [Next]_vars => IInv'
  BY InvNext
<1>3. IInv => TypeOK
  BY DEF IInv
<1> QED
  BY <1>1, <1>2, <1>3, PTL DEF Spec

-----------------------------------------------------------------------------
(* The refinement: each step of the transfers is a step of the register. *)

LEMMA RefinesInit == ASSUME Init PROVE Register!Init
  BY PersistentAssumption DEF Init, Register!Init, Stored, Setting

LEMMA RefinesNext ==
  ASSUME IInv, [Next]_vars
  PROVE  [Register!Next]_<<Stored, Setting, result>>
<1> USE DEF IInv, TypeOK, Progress
<1>0. \A v \in Values : v # Torn /\ v # Corrupt /\ v # None
  BY PersistentAssumption
<1>1. ASSUME NEW v \in Values, Set(v) PROVE Register!BeginSet(v)
  BY <1>1 DEF Set, Register!BeginSet, Stored, Setting
<1>2. CASE WriteHeader
  <2>1. UNCHANGED <<Setting, result>> /\ Setting = buff /\ Setting # None
    BY <1>0, <1>2 DEF WriteHeader, Setting
  <2>2. Stored = buff => Stored' # Corrupt
    <3>1. SUFFICES ASSUME Stored = buff, Stored' = Corrupt PROVE FALSE
      OBVIOUS
    <3>2. header.sized /\ header.crc = buff /\ data = buff
      BY <1>0, <3>1 DEF Stored, Matches
    <3>3. header'.sized /\ header'.crc = buff /\ data' = buff
      BY <1>2, <3>2, CutHeadersType DEF WriteHeader
    <3> QED
      BY <1>0, <1>2, <3>1, <3>3 DEF WriteHeader, Stored, Matches
  <2>3. Stored' \in {Stored, buff, Corrupt}
    <3>1. \/ header' = header
          \/ header'.sized /\ header'.crc \in {header.crc, buff}
          \/ header'.sized /\ header'.crc = Torn
      BY <1>2, CutHeadersType DEF WriteHeader
    <3> QED
      BY <1>0, <1>2, <3>1 DEF WriteHeader, Stored, Matches
  <2> QED
    BY <2>1, <2>2, <2>3 DEF Register!Next, Register!Settle
<1>3. CASE WriteData
  <2>1. UNCHANGED <<Setting, result>> /\ Setting = buff /\ Setting # None
    BY <1>0, <1>3 DEF WriteData, Setting
  <2>2. data' \in Values
    BY <1>3, WrittenType, PersistentAssumption DEF WriteData
  <2>3. Stored' \in {buff, Corrupt}
    BY <1>3, <2>2 DEF WriteData, Stored, Matches
  <2>4. Stored = buff => Stored' = buff
    <3>1. SUFFICES ASSUME data = buff PROVE data' = buff
      BY <1>0, <1>3 DEF WriteData, Stored, Matches
    <3>2. \A n \in 0 .. Words : Written(data, buff, n) = buff
      BY <3>1 DEF Values, Written
    <3> QED
      BY <1>3, <3>2, PersistentAssumption DEF WriteData
  <2> QED
    BY <1>0, <2>1, <2>3, <2>4 DEF Register!Next, Register!Settle
<1>4. CASE Return
  <2>1. CASE pc = "success"
    BY <1>0, <1>4, <2>1 DEF Return, Register!Next, Register!EndSet, Stored, Setting, Matches
  <2>2. CASE pc = "failed"
    BY <1>4, <2>2 DEF Return, Register!Next, Register!AbortSet, Stored, Setting
  <2> QED
    BY <1>4, <2>1, <2>2 DEF Return
<1>5. CASE ReadHeader
  <2>1. Setting = None /\ Setting' = None /\ Stored' = Stored
    BY <1>5 DEF ReadHeader, Setting, Stored
  <2>2. result' \in {result, Stored, None}
    BY <1>5 DEF ReadHeader, Stored
  <2> QED
    BY <2>1, <2>2 DEF Register!Next, Register!Get
<1>6. CASE ReadData
  <2>1. Setting = None /\ Setting' = None /\ Stored' = Stored
    BY <1>6 DEF ReadData, Setting, Stored
  <2>2. result' \in {Stored, None}
    BY <1>6 DEF ReadData, Stored
  <2> QED
    BY <2>1, <2>2 DEF Register!Next, Register!Get
<1>7. CASE Reset
  BY <1>7 DEF Reset, Register!Next, Register!AbortSet, Stored, Setting
<1>8. CASE UNCHANGED vars
  BY <1>8 DEF vars, Stored, Setting
<1> QED
  BY <1>1, <1>2, <1>3, <1>4, <1>5, <1>6, <1>7, <1>8 DEF Next, Register!Next

\* Whatever transfer fails and whenever the computer resets, a section behaves as
\* the register: a set that succeeded is remembered, and no get succeeds with data
\* that was not set as a whole.
THEOREM ImplementsCorrect == Spec => Implements
<1>1. Init => IInv
  BY InvInit
<1>2. IInv /\ [Next]_vars => IInv'
  BY InvNext
<1>3. Init => Register!Init
  BY RefinesInit
<1>4. IInv /\ [Next]_vars => [Register!Next]_<<Stored, Setting, result>>
  BY RefinesNext
<1> QED
  BY <1>1, <1>2, <1>3, <1>4, PTL DEF Spec, Implements, Register!Spec
=============================================================================
