------------------------- MODULE PersistentRegister -------------------------
(***************************************************************************)
(* What a section of the persistent storage promises the one task that     *)
(* uses it: a register that may lose its value while it is being set, but  *)
(* that never answers with anything but the value last set in full or the  *)
(* one whose setting was interrupted, and that a set reported as           *)
(* successful is remembered across resets.                                 *)
(***************************************************************************)
CONSTANTS Values, Corrupt, None

VARIABLES value,    \* what a get would answer
          setting,  \* the value being set, or None
          result    \* the answer to the last get: a value, Corrupt or None

Init == value = Corrupt /\ setting = None /\ result = None

BeginSet(v) ==
  /\ setting = None
  /\ setting' = v
  /\ UNCHANGED <<value, result>>

\* Until the set returns, the register goes from its old value over none at all
\* to the new one, or stays where it is.
Settle ==
  /\ setting # None
  /\ \/ value' = Corrupt /\ value # setting
     \/ value' = setting
  /\ UNCHANGED <<setting, result>>

\* A set that reports success has stored its value.
EndSet ==
  /\ setting # None
  /\ value = setting
  /\ setting' = None
  /\ UNCHANGED <<value, result>>

\* One that fails, or is cut short by a reset, leaves whatever there is.
AbortSet ==
  /\ setting' = None
  /\ UNCHANGED <<value, result>>

Get ==
  /\ setting = None
  /\ result' \in {value, None}
  /\ UNCHANGED <<value, setting>>

Next == (\E v \in Values : BeginSet(v)) \/ Settle \/ EndSet \/ AbortSet \/ Get

Spec == Init /\ [][Next]_<<value, setting, result>>
=============================================================================
