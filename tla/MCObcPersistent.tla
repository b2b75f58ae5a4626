--------------------------- MODULE MCObcPersistent ---------------------------
(* Instances of ObcPersistent for TLC. *)
EXTENDS ObcPersistent
=============================================================================
