--------------------------- MODULE MCWorkEngine ---------------------------
(* Small instances of the work engine for TLC. *)
EXTENDS WorkEngine, TLC
=============================================================================
