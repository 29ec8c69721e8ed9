--------------------------- MODULE ResponseLife ---------------------------
(* What the response store promises its callers and its clients, whatever      *)
(* deletes, prunes, crashes and half-done operations happen in between: a      *)
(* response is published once, a deleted one never comes back, and the SDK     *)
(* session a stored response is resumed from stays open as long as the         *)
(* response is stored.                                                         *)
CONSTANTS Responses, Sessions, None

VARIABLES
    life,   \* life[r]: "new", "live", "deleted" (a tombstone) or "gone"
    home,   \* home[r]: the session a live response is resumed from
    open    \* the session directories that exist

vars == <<life, home, open>>

Kept(r) == life[r] = "live" => home[r] \in open

\* A store that is opened may hold responses of an earlier process.
Init == /\ life \in [Responses -> {"new", "live"}]
        /\ home \in [Responses -> Sessions \cup {None}]
        /\ open \in SUBSET Sessions
        /\ \A r \in Responses : Kept(r) /\ (life[r] = "new" => home[r] = None)

Open(s) == /\ open' = open \cup {s}
           /\ UNCHANGED <<life, home>>

\* Only a session that no live response needs may be closed.
Close(s) == /\ \A r \in Responses : life[r] = "live" => home[r] # s
            /\ open' = open \ {s}
            /\ UNCHANGED <<life, home>>

\* A response is published on, or moved to, a session that is open.
Publish(r, s) == /\ life[r] \in {"new", "live"}
                 /\ s \in open
                 /\ life' = [life EXCEPT ![r] = "live"]
                 /\ home' = [home EXCEPT ![r] = s]
                 /\ UNCHANGED open

Delete(r) == /\ life[r] = "live"
             /\ life' = [life EXCEPT ![r] = "deleted"]
             /\ home' = [home EXCEPT ![r] = None]
             /\ UNCHANGED open

\* Retention forgets a response, or its tombstone.
Retire(r) == /\ life[r] \in {"live", "deleted"}
             /\ life' = [life EXCEPT ![r] = "gone"]
             /\ home' = [home EXCEPT ![r] = None]
             /\ UNCHANGED open

Next == \/ \E s \in Sessions : Open(s) \/ Close(s)
        \/ \E r \in Responses : Delete(r) \/ Retire(r)
        \/ \E r \in Responses, s \in Sessions : Publish(r, s)

Spec == Init /\ [][Next]_vars
=============================================================================
