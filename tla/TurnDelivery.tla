---------------------------- MODULE TurnDelivery ----------------------------
(* What a client may rely on when it follows a turn: what it has been shown  *)
(* of an item is never taken back, and when it is told that the turn is      *)
(* complete, what it was shown is what was saved of the turn, and all of it. *)
EXTENDS Sequences, SequencesExt

VARIABLES
    shown,   \* what the client has of each item it knows of
    saved,   \* <<what is saved of each item it may see>>; <<>> before the save
    outcome  \* "open", "completed", "failed" or "cut"

Init ==
    /\ shown = <<>>
    /\ saved = <<>>
    /\ outcome = "open"

Grows ==
    /\ DOMAIN shown \subseteq DOMAIN shown'
    /\ \A id \in DOMAIN shown : IsPrefix(shown[id], shown'[id])

Show ==
    /\ outcome = "open"
    /\ Grows
    /\ UNCHANGED <<saved, outcome>>

Save ==
    /\ outcome = "open" /\ saved = <<>>
    /\ Len(saved') = 1
    /\ UNCHANGED <<shown, outcome>>

\* A client that is gone does not learn of the save.
SaveUnseen ==
    /\ outcome # "open" /\ saved = <<>>
    /\ UNCHANGED <<shown, outcome>>

Complete ==
    /\ outcome = "open" /\ saved # <<>>
    /\ Grows
    /\ shown' = saved[1]
    /\ outcome' = "completed"
    /\ UNCHANGED saved

Fail ==
    /\ outcome = "open"
    /\ Grows
    /\ outcome' \in {"failed", "cut"}
    /\ UNCHANGED saved

\* The next turn, for the request that continues this one.
NextTurn ==
    /\ outcome # "open"
    /\ shown' = <<>> /\ saved' = <<>> /\ outcome' = "open"

Next == Show \/ Save \/ SaveUnseen \/ Complete \/ Fail \/ NextTurn

Spec == Init /\ [][Next]_<<shown, saved, outcome>>
=============================================================================
