--------------------------- MODULE MCTurnGateway ---------------------------
(* Small instances of TurnGateway for TLC. *)
EXTENDS TurnGateway, TLC

CONSTANTS q1, q2, q3

\* The requests that continue a session are interchangeable.
Later == Permutations(Requests \ {First})
=============================================================================
