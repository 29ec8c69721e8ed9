---------------------------- MODULE MCModelCache ----------------------------
(* Small instances of ModelCache for TLC. *)
EXTENDS ModelCache

CONSTANTS first, second, third, model
=============================================================================
