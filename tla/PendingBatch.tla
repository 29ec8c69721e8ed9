---------------------------- MODULE PendingBatch ----------------------------
(* What a tool-call batch promises, without the broker, the locks, the timer *)
(* or the goroutines.                                                        *)
(*                                                                           *)
(* A batch is the set of tool calls one model turn planned and the client    *)
(* must execute. It is open until exactly one of two things happens: a       *)
(* client hands over an output for every call it has (it is completed, and   *)
(* every one of those calls is answered), or it is closed for any other      *)
(* reason - TTL, cancelled request, shutdown - and every call it has fails.  *)
(* Calls announced after that belong to neither outcome.                     *)
EXTENDS Naturals

CONSTANTS Batches,   \* identities of batches, over the life of the gateway
          CallIds    \* client-visible tool-call ids, minted by the proxy

VARIABLES status,    \* where each batch is in its life
          owes,      \* the calls each batch has
          accepted,  \* the calls a client has supplied outputs for
          result     \* what became of each call

vars == <<status, owes, accepted, result>>

Init ==
    /\ status   = [b \in Batches |-> "absent"]
    /\ owes     = [b \in Batches |-> {}]
    /\ accepted = [b \in Batches |-> {}]
    /\ result   = [k \in CallIds |-> "pending"]

Begin(b) ==
    /\ status[b] = "absent"
    /\ status' = [status EXCEPT ![b] = "open"]
    /\ UNCHANGED <<owes, accepted, result>>

\* A call is announced. It belongs to one batch only, for good.
Announce(b, k) ==
    /\ status[b] # "absent"
    /\ \A c \in Batches : k \notin owes[c]
    /\ owes' = [owes EXCEPT ![b] = @ \cup {k}]
    /\ UNCHANGED <<status, accepted, result>>

\* The client supplied an output for every call: all or nothing.
Complete(b) ==
    /\ status[b] = "open"
    /\ status' = [status EXCEPT ![b] = "completed"]
    /\ accepted' = [accepted EXCEPT ![b] = owes[b]]
    /\ UNCHANGED <<owes, result>>

\* The outputs reach the calls of a completed batch, every one of them.
Answer(b) ==
    /\ status[b] = "completed"
    /\ \A k \in accepted[b] : result[k] = "pending"
    /\ result' = [k \in CallIds |-> IF k \in accepted[b] THEN "answered" ELSE result[k]]
    /\ UNCHANGED <<status, owes, accepted>>

\* The batch closes without outputs: every call it has fails with it.
Expire(b) ==
    /\ status[b] = "open"
    /\ status' = [status EXCEPT ![b] = "expired"]
    /\ result' = [k \in CallIds |-> IF k \in owes[b] THEN "failed" ELSE result[k]]
    /\ UNCHANGED <<owes, accepted>>

Next ==
    \E b \in Batches :
        \/ Begin(b)
        \/ \E k \in CallIds : Announce(b, k)
        \/ Complete(b)
        \/ Answer(b)
        \/ Expire(b)

Spec == Init /\ [][Next]_vars
=============================================================================
