--------------------------- MODULE MCToolBroker ---------------------------
(* Small instances of ToolBroker for TLC. *)
EXTENDS ToolBroker, TLC

CONSTANTS r1, h1, h2, c1, c2, b1, k1, k2, s1, e

\* One turn whose SDK invokes two handlers.
TwoHandlers == (h1 :> r1 @@ h2 :> r1)

\* Batches and call ids are uuids, clients are requests: any two of a kind are
\* interchangeable.
Minted == Permutations(Batches) \cup Permutations(CallIds)
Rivals == Minted \cup Permutations(Clients) \cup Permutations(Handlers)
=============================================================================
