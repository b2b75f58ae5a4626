--------------------------- MODULE MCAlarmHandler ---------------------------
(* Instances of AlarmHandler for TLC. *)
EXTENDS AlarmHandler, TLC

\* Sound for safety: no other constant tells commands apart.
CommandSymmetry == Permutations(Commands)
=============================================================================
