------------------------- MODULE MCResponsesSocket -------------------------
(* Instances of ResponsesSocket for TLC.                                     *)
EXTENDS ResponsesSocket

CONSTANTS c1, c2
=============================================================================
