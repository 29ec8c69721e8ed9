---------------------------- MODULE MCTurnStream ----------------------------
(* Small instances of TurnStream for TLC. *)
EXTENDS TurnStream

CONSTANTS f, g, c

\* A function whose arguments are streamed, and a tool whose are not.
TwoTools == f :> "function" @@ g :> "strict"
ThreeTools == f :> "function" @@ g :> "function" @@ c :> "custom"

Session(bytes, hide, named, opaque) ==
    [limit |-> bytes, hide |-> hide, named |-> named, opaque |-> opaque]

\* Named blocks in full, unnamed ones in full, hidden ones, and a limit that a
\* turn can reach.
MixedSessions ==
    {Session(9, FALSE, TRUE, FALSE), Session(9, FALSE, FALSE, FALSE),
     Session(9, TRUE, FALSE, TRUE), Session(2, FALSE, FALSE, TRUE)}

OneSession == {Session(9, FALSE, TRUE, FALSE)}
=============================================================================
