--------------------------- MODULE MCResponseChain ---------------------------
(* Small instances of ResponseChain for TLC. *)
EXTENDS ResponseChain

CONSTANT Newest

ResponseIds == 1..Newest
=============================================================================
