----------------------------- MODULE EventSink -----------------------------
(* sessionEventSink (internal/copilotgw/session_events.go): a channel to the *)
(* turn runner, a spill buffer behind it, and a goroutine that moves events  *)
(* from one to the other, so that the SDK's callback never waits.            *)
(*                                                                           *)
(* A sink may collect events long before a runner attaches: a warm session   *)
(* has none until a later request uses it.                                   *)
EXTENDS Integers, Sequences, FiniteSets

CONSTANTS
    Events,    \* bound: how many events the SDK reports
    Buffer,    \* sessionEventBuffer (256 in the code)
    SpillCap,  \* sessionEventOverflow (1024 in the code)
    Overflow   \* the terminal SessionError

ASSUME EventsAssumption   == Events \in Nat
ASSUME BufferAssumption   == Buffer \in Nat \ {0}
ASSUME SpillAssumption    == SpillCap \in Nat \ {0}
ASSUME OverflowAssumption == Overflow \notin Nat

VARIABLES
    reported,  \* events the SDK reported
    ch,        \* the buffer of s.ch
    pending,   \* the spill buffer
    attached,  \* whether done is set
    flushing, stopped, dropped,
    flush,     \* the flusher: none, at its lock, sending, or discarding
    moving,    \* the event it sends, as a sequence of at most one
    taken,     \* events the runner took
    done       \* whether the runner has closed

sinkVars == <<ch, pending, attached, flushing, stopped, dropped, flush, moving>>
vars == <<reported, sinkVars, taken, done>>

Event == 1..Events \cup {Overflow}

TypeOK ==
    /\ reported \in 0..Events
    /\ ch \in Seq(Event) /\ Len(ch) <= Buffer
    /\ pending \in Seq(Event) /\ Len(pending) <= SpillCap + 1
    /\ attached \in BOOLEAN /\ flushing \in BOOLEAN /\ stopped \in BOOLEAN /\ done \in BOOLEAN
    /\ dropped \in Nat
    /\ flush \in {"none", "lock", "send", "discard"}
    /\ moving \in Seq(Event) /\ Len(moving) <= 1
    /\ taken \in Seq(Event)

Init ==
    /\ reported = 0
    /\ ch = <<>> /\ pending = <<>>
    /\ attached = FALSE /\ flushing = FALSE /\ stopped = FALSE /\ dropped = 0
    /\ flush = "none" /\ moving = <<>>
    /\ taken = <<>> /\ done = FALSE

\* startFlushLocked, with the spill buffer as it is now.
StartFlush(spill) ==
    IF ~flushing /\ attached /\ spill # <<>>
    THEN flushing' = TRUE /\ flush' = "lock"
    ELSE UNCHANGED <<flushing, flush>>

\* Mutant: an event is published directly whenever the channel has room.
Direct_Overtakes == Len(ch) < Buffer

\* A spilled event stays ahead of a new one.
Direct == ~flushing /\ pending = <<>> /\ Len(ch) < Buffer

Publish ==
    /\ ~stopped /\ Direct
    /\ ch' = Append(ch, reported + 1)
    /\ UNCHANGED <<pending, flushing, stopped, dropped, flush>>

Spill ==
    /\ ~stopped /\ ~Direct
    /\ Len(pending) < SpillCap
    /\ pending' = Append(pending, reported + 1)
    /\ StartFlush(pending')
    /\ UNCHANGED <<ch, stopped, dropped>>

\* Mutant: the event that finds the spill buffer full is dropped, and no more.
GiveUp_Silently ==
    /\ ~stopped /\ ~Direct
    /\ Len(pending) >= SpillCap
    /\ stopped' = TRUE
    /\ dropped' = dropped + 1
    /\ UNCHANGED <<ch, pending, flushing, flush>>

\* The event that finds the spill buffer full is replaced by the terminal error.
GiveUp ==
    /\ ~stopped /\ ~Direct
    /\ Len(pending) >= SpillCap
    /\ stopped' = TRUE
    /\ pending' = Append(pending, Overflow)
    /\ dropped' = dropped + 1
    /\ StartFlush(pending')
    /\ UNCHANGED ch

Refuse ==
    /\ stopped
    /\ dropped' = dropped + 1
    /\ UNCHANGED <<ch, pending, flushing, stopped, flush>>

\* The SDK's callback.
Send ==
    /\ reported < Events
    /\ reported' = reported + 1
    /\ Publish \/ Spill \/ GiveUp \/ Refuse
    /\ UNCHANGED <<attached, moving, taken, done>>

\* Mutant: a runner that attaches leaves it to the next event to start the flush.
Attach_NoFlush ==
    /\ ~attached
    /\ attached' = TRUE
    /\ UNCHANGED <<reported, ch, pending, flushing, stopped, dropped, flush, moving, taken, done>>

\* A runner attaches (newTurnRunner), and what was buffered starts to move.
Attach ==
    /\ ~attached
    /\ attached' = TRUE
    /\ IF ~flushing /\ pending # <<>>
       THEN flushing' = TRUE /\ flush' = "lock"
       ELSE UNCHANGED <<flushing, flush>>
    /\ UNCHANGED <<reported, ch, pending, stopped, dropped, moving, taken, done>>

\* The flusher takes the oldest spilled event, or ends.
FlushTake ==
    /\ flush = "lock"
    /\ IF pending = <<>>
       THEN /\ flushing' = FALSE
            /\ flush' = "none"
            /\ UNCHANGED <<pending, moving>>
       ELSE /\ moving' = <<Head(pending)>>
            /\ pending' = Tail(pending)
            /\ flush' = "send"
            /\ UNCHANGED flushing
    /\ UNCHANGED <<reported, ch, attached, stopped, dropped, taken, done>>

FlushSend ==
    /\ flush = "send"
    /\ Len(ch) < Buffer
    /\ ch' = ch \o moving
    /\ moving' = <<>>
    /\ flush' = "lock"
    /\ UNCHANGED <<reported, pending, attached, flushing, stopped, dropped, taken, done>>

\* The other branch of its select.
FlushGivesUp ==
    /\ flush = "send"
    /\ done
    /\ flush' = "discard"
    /\ UNCHANGED <<reported, ch, pending, attached, flushing, stopped, dropped, moving, taken, done>>

\* The spill buffer is abandoned, the event in the flusher's hands with it.
Discard ==
    /\ flush = "discard"
    /\ dropped' = dropped + 1 + Len(pending)
    /\ pending' = <<>>
    /\ moving' = <<>>
    /\ flushing' = FALSE
    /\ stopped' = TRUE
    /\ flush' = "none"
    /\ UNCHANGED <<reported, ch, attached, taken, done>>

\* The runner's loop reads an event, or has closed (having attached, or, when
\* the gateway refuses it, at once).
Take ==
    /\ attached /\ ~done
    /\ ch # <<>>
    /\ taken' = Append(taken, Head(ch))
    /\ ch' = Tail(ch)
    /\ UNCHANGED <<reported, pending, attached, flushing, stopped, dropped, flush, moving, done>>

RunnerDone ==
    /\ attached /\ ~done
    /\ done' = TRUE
    /\ UNCHANGED <<reported, sinkVars, taken>>

Flusher == FlushTake \/ FlushSend \/ FlushGivesUp \/ Discard

Next == Send \/ Attach \/ Flusher \/ Take \/ RunnerDone

Spec == Init /\ [][Next]_vars

\* The flusher and the loop are scheduled; nobody has to report, attach or end.
FairSpec == Spec /\ WF_vars(Flusher) /\ WF_vars(Take)

----------------------------------------------------------------------------
(* Properties.                                                               *)

\* Everything that is on its way to the runner, in order.
OnTheWay == ch \o moving \o pending

\* No event is lost in silence: while the runner lives, either every event
\* reported was taken or is on its way, in order, or the terminal error follows
\* the ones that were, as the last event (send).
NoSilentLoss ==
    ~done => LET all == taken \o OnTheWay IN
        \/ all = [n \in 1..reported |-> n]
        \/ /\ Len(all) > 0 /\ Len(all) <= reported
           /\ all = [n \in 1..Len(all) |-> IF n = Len(all) THEN Overflow ELSE n]

\* The sink implements the event stream (EventStream).
Stream == INSTANCE EventStream WITH queue <- OnTheWay, broken <- stopped
ImplementsEventStream == Stream!Spec

\* What was spilled reaches a runner that keeps reading, although no further
\* event comes (startFlushLocked).
SpillIsDelivered == []<>(attached => pending \o moving = <<>> \/ done)
=============================================================================
