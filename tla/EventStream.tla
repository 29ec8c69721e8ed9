---------------------------- MODULE EventStream ----------------------------
(* What a turn runner may rely on when it reads the events of its session:   *)
(* it gets every event, in the order the SDK reported them, until the stream *)
(* breaks. A stream that breaks under load says so: its last event is        *)
(* Overflow. One that breaks because the runner is done says nothing.        *)
EXTENDS Naturals, Sequences

CONSTANTS
    Events,   \* bound: how many events the SDK reports
    Overflow  \* the terminal error

VARIABLES
    reported, \* events the SDK reported
    queue,    \* events on their way
    broken,   \* the stream takes no more events
    done      \* the runner is done

Init ==
    /\ reported = 0
    /\ queue = <<>>
    /\ broken = FALSE
    /\ done = FALSE

Report ==
    /\ reported < Events
    /\ reported' = reported + 1
    /\ \/ ~broken /\ queue' = Append(queue, reported + 1) /\ UNCHANGED broken
       \/ ~broken /\ queue' = Append(queue, Overflow) /\ broken' = TRUE
       \/ broken /\ UNCHANGED <<queue, broken>>
    /\ UNCHANGED done

Take ==
    /\ queue # <<>>
    /\ queue' = Tail(queue)
    /\ UNCHANGED <<reported, broken, done>>

RunnerDone ==
    /\ ~done
    /\ done' = TRUE
    /\ UNCHANGED <<reported, queue, broken>>

\* The tail of the stream is lost.
Break ==
    /\ done
    /\ broken' = TRUE
    /\ \E n \in 0..Len(queue) : queue' = SubSeq(queue, 1, n)
    /\ UNCHANGED <<reported, done>>

Next == Report \/ Take \/ RunnerDone \/ Break

Spec == Init /\ [][Next]_<<reported, queue, broken, done>>
=============================================================================
