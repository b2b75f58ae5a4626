---------------------------- MODULE ObcPersistent ----------------------------
(***************************************************************************)
(* obc_persistent.c: a section of the FRAM, a header with the size of the  *)
(* section and a checksum, and the data after it.  They are written, and   *)
(* read, in two FRAM transfers, each of which may fail or be cut short by  *)
(* a reset after any number of bytes.                                      *)
(*                                                                         *)
(* The functions do "not manage concurrent accesses of the same section",  *)
(* so one task uses it here.  A checksum identifies the data it was        *)
(* computed from; a checksum that was written in part matches none.        *)
(***************************************************************************)
EXTENDS Integers

CONSTANTS Words,    \* how many pieces of data a transfer can be cut between
          Symbols,  \* what a piece can hold
          Torn,     \* a checksum written in part
          Corrupt,  \* OBC_ERR_CODE_PERSISTENT_CORRUPTED
          None      \* no data: a transfer failed, or nothing is being set

Values == [1 .. Words -> Symbols]

ASSUME PersistentAssumption ==
  /\ Words \in Nat \ {0}
  /\ Torn \notin Values
  /\ Corrupt \notin Values
  /\ None \notin Values \cup {Corrupt}

VARIABLES
  header,   \* the header in the FRAM: is sectionSize right, and crc32
  data,     \* the data in the FRAM
  pc,       \* the next FRAM transfer of the call in progress
  buff,     \* what is being set, or what was read
  readCrc,  \* header.crc32 as read
  result    \* history: the answer to the last get

vars == <<header, data, pc, buff, readCrc, result>>

\* The FRAM was never written: neither its size nor its checksum fit, whatever the data.
Init ==
  /\ header = [sized |-> FALSE, crc |-> Torn]
  /\ data \in Values
  /\ pc = "idle"
  /\ buff = data
  /\ readCrc = Torn
  /\ result = None

-----------------------------------------------------------------------------
(* Transfers. *)

WrittenPast(old, new, n) == [k \in 1 .. n + 1 |-> IF k <= Words THEN new[k] ELSE new[Words]]

\* The first n pieces of the new data over the old ones.
Written(old, new, n) == [k \in 1 .. Words |-> IF k <= n THEN new[k] ELSE old[k]]

\* What a header write that does not complete may leave: the size comes first, and
\* a checksum over which a part of itself is written stays what it is.
CutHeaders(v) ==
  {header} \cup [sized : {TRUE}, crc : {header.crc, v, IF header.crc = v THEN v ELSE Torn}]

\* What a read that fails at piece n + 1 leaves: there, the program stores a byte
\* that was never received.
ReadInPart(old, new, n, s) ==
  [k \in 1 .. Words |-> IF k <= n THEN new[k] ELSE IF k = n + 1 THEN s ELSE old[k]]

ChecksNothing(crc, d) == TRUE

Matches(crc, d) == crc = d

-----------------------------------------------------------------------------
(* setPersistentDataByIndex. *)

Set(v) ==
  /\ pc = "idle"
  /\ pc' = "writeHeader"
  /\ buff' = v
  /\ UNCHANGED <<header, data, readCrc, result>>

WriteHeader ==
  /\ pc = "writeHeader"
  /\ \/ /\ header' = [sized |-> TRUE, crc |-> buff]
        /\ pc' = "writeData"
     \/ /\ header' \in CutHeaders(buff)
        /\ pc' = "failed"
  /\ UNCHANGED <<data, buff, readCrc, result>>

WriteData ==
  /\ pc = "writeData"
  /\ \/ /\ data' = Written(data, buff, Words)
        /\ pc' = "success"
     \/ /\ \E n \in 0 .. Words : data' = Written(data, buff, n)
        /\ pc' = "failed"
  /\ UNCHANGED <<header, buff, readCrc, result>>

\* The call returns, with OBC_ERR_CODE_SUCCESS or an error.
Return ==
  /\ pc \in {"success", "failed"}
  /\ pc' = "idle"
  /\ UNCHANGED <<header, data, buff, readCrc, result>>

-----------------------------------------------------------------------------
(* getPersistentDataByIndex. *)

ReadHeader ==
  /\ pc = "idle"
  /\ \/ /\ header.sized
        /\ readCrc' = header.crc
        /\ pc' = "readData"
        /\ UNCHANGED result
     \/ /\ ~header.sized
        /\ result' = Corrupt
        /\ UNCHANGED <<readCrc, pc>>
     \/ /\ result' = None       \* the transfer fails
        /\ UNCHANGED <<readCrc, pc>>
  /\ UNCHANGED <<header, data, buff>>

ReadData ==
  /\ pc = "readData"
  /\ pc' = "idle"
  /\ \/ /\ buff' = data
        /\ result' = IF Matches(readCrc, buff') THEN buff' ELSE Corrupt
     \/ /\ \E n \in 0 .. Words, s \in Symbols : buff' = ReadInPart(buff, data, n, s)
        /\ result' = None       \* the transfer fails
  /\ UNCHANGED <<header, data, readCrc>>

\* A reset cuts any call short; only the FRAM survives.
Reset ==
  /\ pc' = "idle"
  /\ UNCHANGED <<header, data, buff, readCrc, result>>

-----------------------------------------------------------------------------
Next == \/ \E v \in Values : Set(v)
        \/ WriteHeader
        \/ WriteData
        \/ Return
        \/ ReadHeader
        \/ ReadData
        \/ Reset

Spec == Init /\ [][Next]_vars

-----------------------------------------------------------------------------
(* Properties. *)

\* Every variable has its type: no transfer writes past the data of its section.
TypeOK ==
  /\ header \in [sized : BOOLEAN, crc : Values \cup {Torn}]
  /\ data \in Values
  /\ pc \in {"idle", "writeHeader", "writeData", "success", "failed", "readData"}
  /\ buff \in Values
  /\ readCrc \in Values \cup {Torn}
  /\ result \in Values \cup {Corrupt, None}

Stored  == IF header.sized /\ Matches(header.crc, data) THEN data ELSE Corrupt
Setting == IF pc \in {"writeHeader", "writeData", "success", "failed"} THEN buff ELSE None

Register == INSTANCE PersistentRegister WITH value <- Stored, setting <- Setting

\* Whatever transfer fails and whenever the computer resets, a section is a
\* register: a set that succeeded is remembered, and no get succeeds with data
\* that was not set as a whole.
Implements == Register!Spec
=============================================================================
