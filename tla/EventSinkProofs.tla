-------------------------- MODULE EventSinkProofs --------------------------
(* Proofs about EventSink, for any number of events and any sizes of the     *)
(* channel and of the spill buffer.                                          *)
EXTENDS EventSink, SequenceTheorems, TLAPS

USE DEF vars, sinkVars

----------------------------------------------------------------------------
(* Sequences.                                                                *)

LEMMA HeadThenTail ==
  ASSUME NEW S, NEW s \in Seq(S), s # <<>>
  PROVE  <<Head(s)>> \o Tail(s) = s
  <1>1. Len(s) \in Nat \ {0}
    BY EmptySeq
  <1>2. s = SubSeq(s, 1, Len(s))
    BY SubSeqFull
  <1>3. SubSeq(s, 1, Len(s)) = <<s[1]>> \o SubSeq(s, 2, Len(s))
    BY <1>1, SubSeqRecursiveFirst
  <1>4. Tail(s) = SubSeq(s, 2, Len(s)) /\ Head(s) = s[1]
    BY <1>1, TailIsSubSeq
  <1> QED
    BY <1>2, <1>3, <1>4

LEMMA TakeFromConcat ==
  ASSUME NEW S, NEW s \in Seq(S), NEW t \in Seq(S), s # <<>>
  PROVE  /\ s \o t # <<>>
         /\ Head(s \o t) = Head(s)
         /\ Tail(s \o t) = Tail(s) \o t
  <1>1. Head(s) \in S /\ Tail(s) \in Seq(S)
    BY HeadTailProperties
  <1>2. <<Head(s)>> \in Seq(S) /\ <<Head(s)>> # <<>>
    BY <1>1
  <1>3. s \o t = <<Head(s)>> \o (Tail(s) \o t)
    BY <1>1, <1>2, HeadThenTail, ConcatAssociative
  <1>4. Tail(s) \o t \in Seq(S)
    BY <1>1, ConcatProperties
  <1>5. \A u \in Seq(S) : /\ <<Head(s)>> \o u # <<>>
                          /\ Head(<<Head(s)>> \o u) = Head(s)
                          /\ Tail(<<Head(s)>> \o u) = u
    <2> SUFFICES ASSUME NEW u \in Seq(S)
                 PROVE  /\ <<Head(s)>> \o u # <<>>
                        /\ Head(<<Head(s)>> \o u) = Head(s)
                        /\ Tail(<<Head(s)>> \o u) = u
      OBVIOUS
    <2> DEFINE w == <<Head(s)>> \o u
    <2>1. w \in Seq(S) /\ Len(w) = 1 + Len(u) /\ \A i \in 1 .. 1 + Len(u) : w[i] = IF i <= 1 THEN Head(s) ELSE u[i - 1]
      BY <1>2, ConcatProperties
    <2>2. Len(u) \in Nat
      BY LenProperties
    <2> HIDE DEF w
    <2>3. w # <<>> /\ Head(w) = Head(s)
      BY <2>1, <2>2
    <2>4. Tail(w) \in Seq(S) /\ Len(Tail(w)) = Len(u) /\ \A i \in 1 .. Len(u) : Tail(w)[i] = w[i + 1]
      BY <2>1, <2>2, <2>3, HeadTailProperties
    <2>5. \A i \in 1 .. Len(u) : Tail(w)[i] = u[i]
      BY <2>1, <2>2, <2>4
    <2>6. Tail(w) = u
      BY <2>4, <2>5, SeqEqual
    <2> QED
      BY <2>3, <2>6 DEF w
  <1> QED
    BY <1>3, <1>4, <1>5

LEMMA AppendToConcat ==
  ASSUME NEW S, NEW s \in Seq(S), NEW t \in Seq(S), NEW e \in S
  PROVE  s \o Append(t, e) = Append(s \o t, e)
  <1>1. <<e>> \in Seq(S)
    OBVIOUS
  <1>2. Append(t, e) = t \o <<e>> /\ Append(s \o t, e) = (s \o t) \o <<e>>
    BY ConcatProperties, AppendIsConcat
  <1> QED
    BY <1>1, <1>2, ConcatAssociative

----------------------------------------------------------------------------
(* The invariant: what the flusher's state says of the sink's.               *)

Flushing ==
    /\ flushing <=> flush # "none"
    /\ flush \in {"send", "discard"} <=> moving # <<>>
    /\ flush = "discard" => done
    /\ ~stopped => Len(pending) <= SpillCap

SinkInv == TypeOK /\ Flushing

LEMMA SinkInvInit == Init => SinkInv
  <1> SUFFICES ASSUME Init PROVE SinkInv
    OBVIOUS
  <1>1. <<>> \in Seq(Event) /\ Len(<<>>) = 0
    BY EmptySeq
  <1>2. attached \in BOOLEAN /\ flushing \in BOOLEAN /\ stopped \in BOOLEAN /\ done \in BOOLEAN
    BY Zenon DEF Init
  <1>3. TypeOK
    BY <1>1, <1>2, EventsAssumption, BufferAssumption, SpillAssumption DEF Init, TypeOK
  <1>4. Flushing
    BY <1>1, SpillAssumption DEF Init, Flushing
  <1> QED
    BY <1>3, <1>4 DEF SinkInv

LEMMA SendKeepsSinkInv ==
  ASSUME SinkInv, Send
  PROVE  SinkInv'
  <1> USE BufferAssumption, SpillAssumption, EventsAssumption DEF SinkInv
  <1>1. reported + 1 \in Event /\ Overflow \in Event /\ reported' \in 0..Events
    BY DEF Send, TypeOK, Event
  <1>2. CASE Publish
    <2>1. ch' \in Seq(Event) /\ Len(ch') = Len(ch) + 1 /\ Len(ch) < Buffer
      BY <1>1, <1>2, AppendProperties DEF Publish, Direct, TypeOK
    <2> QED
      BY <1>1, <1>2, <2>1 DEF Send, Publish, TypeOK, Flushing
  <1>3. CASE Spill \/ GiveUp
    <2>1. /\ pending' \in Seq(Event) /\ pending' # <<>>
          /\ Len(pending') = Len(pending) + 1 /\ Len(pending') <= SpillCap + 1
      <3>1. PICK e \in Event : pending' = Append(pending, e)
        BY <1>1, <1>3 DEF Spill, GiveUp
      <3>2. Len(pending) \in Nat /\ Len(pending) <= SpillCap
        BY <1>3, LenProperties DEF Spill, GiveUp, TypeOK, Flushing
      <3> QED
        BY <3>1, <3>2, AppendProperties DEF TypeOK
    <2>2. \/ UNCHANGED <<flushing, flush>>
          \/ ~flushing /\ flushing' /\ flush' = "lock"
      BY <1>3, Zenon DEF Spill, GiveUp, StartFlush
    <2>5. Spill => UNCHANGED stopped /\ Len(pending) < SpillCap
      BY DEF Spill
    <2>6. GiveUp => stopped'
      BY DEF GiveUp
    <2>7. UNCHANGED <<ch, attached, moving, taken, done>>
      BY <1>3 DEF Send, Spill, GiveUp
    <2>8. dropped' \in Nat
      BY <1>3 DEF Spill, GiveUp, TypeOK
    <2>3. TypeOK'
      <3>1. flushing' \in BOOLEAN
        BY <1>3, Zenon DEF Spill, GiveUp, StartFlush, TypeOK
      <3>2. stopped' \in BOOLEAN
        BY <1>3, Zenon DEF Spill, GiveUp, TypeOK
      <3> QED
        BY <1>1, <2>1, <2>2, <2>7, <2>8, <3>1, <3>2 DEF TypeOK
    <2>4. Flushing'
      <3>1. ~stopped' => Len(pending') <= SpillCap
        <4>1. Len(pending) \in Nat
          BY LenProperties DEF TypeOK
        <4> QED
          BY <1>3, <2>1, <2>5, <2>6, <4>1
      <3> QED
        BY <2>2, <2>7, <3>1 DEF Flushing
    <2> QED
      BY <2>3, <2>4
  <1>4. CASE Refuse
    BY <1>1, <1>4 DEF Send, Refuse, TypeOK, Flushing
  <1> QED
    BY <1>2, <1>3, <1>4 DEF Send

LEMMA SinkInvNext == SinkInv /\ [Next]_vars => SinkInv'
  <1> SUFFICES ASSUME SinkInv, [Next]_vars PROVE SinkInv'
    OBVIOUS
  <1> USE BufferAssumption, SpillAssumption, EventsAssumption DEF SinkInv, TypeOK, Flushing
  <1>1. CASE Send
    BY <1>1, SendKeepsSinkInv
  <1>2. CASE Attach
    BY <1>2 DEF Attach
  <1>3. CASE FlushTake
    <2>1. CASE pending = <<>>
      BY <1>3, <2>1 DEF FlushTake
    <2>2. CASE pending # <<>>
      <3>1. Head(pending) \in Event /\ pending' \in Seq(Event) /\ Len(pending') = Len(pending) - 1
        <4>1. pending \in Seq(Event) /\ pending' = Tail(pending)
          BY <1>3, <2>2 DEF FlushTake
        <4> QED
          BY <2>2, <4>1, HeadTailProperties
      <3>2. moving' \in Seq(Event) /\ Len(moving') = 1 /\ moving' # <<>>
        <4>1. moving' = <<Head(pending)>>
          BY <1>3, <2>2 DEF FlushTake
        <4> QED
          BY <3>1, <4>1
      <3>3. Len(pending) \in Nat
        BY LenProperties
      <3> QED
        BY <1>3, <2>2, <3>1, <3>2, <3>3 DEF FlushTake
    <2> QED
      BY <2>1, <2>2
  <1>4. CASE FlushSend
    <2>1. ch' \in Seq(Event) /\ Len(ch') = Len(ch) + Len(moving)
      BY <1>4, ConcatProperties DEF FlushSend
    <2>2. Len(ch) \in Nat /\ Len(moving) \in Nat
      BY LenProperties
    <2> QED
      BY <1>4, <2>1, <2>2, EmptySeq DEF FlushSend
  <1>5. CASE FlushGivesUp
    BY <1>5 DEF FlushGivesUp
  <1>6. CASE Discard
    <2>1. Len(pending) \in Nat
      BY LenProperties
    <2>2. <<>> \in Seq(Event) /\ Len(<<>>) = 0
      BY EmptySeq
    <2>3. flushing' \in BOOLEAN /\ stopped' \in BOOLEAN
      BY <1>6, Zenon DEF Discard
    <2> QED
      BY <1>6, <2>1, <2>2, <2>3 DEF Discard
  <1>7. CASE Take
    <2>1. Head(ch) \in Event /\ ch' \in Seq(Event) /\ Len(ch') = Len(ch) - 1
      BY <1>7, HeadTailProperties DEF Take
    <2>2. Len(ch) \in Nat
      BY LenProperties
    <2>3. taken' \in Seq(Event)
      BY <1>7, <2>1, AppendProperties DEF Take
    <2>4. UNCHANGED <<reported, pending, attached, flushing, stopped, dropped, flush, moving, done>>
      BY <1>7 DEF Take
    <2> QED
      BY <2>1, <2>2, <2>3, <2>4
  <1>8. CASE RunnerDone
    BY <1>8 DEF RunnerDone
  <1>9. CASE UNCHANGED vars
    BY <1>9
  <1> QED
    BY <1>1, <1>2, <1>3, <1>4, <1>5, <1>6, <1>7, <1>8, <1>9 DEF Next, Flusher

\* The types, and the sizes of the channel's buffer and of the spill buffer
\* (sessionEventBuffer, sessionEventOverflow and its one terminal error).
THEOREM SinkTypeCorrect == Spec => []TypeOK
  <1>1. SinkInv => TypeOK
    BY DEF SinkInv
  <1> QED
    BY <1>1, SinkInvInit, SinkInvNext, PTL DEF Spec

----------------------------------------------------------------------------
(* The refinement: what is in the channel, in the flusher's hands and in the *)
(* spill buffer is one queue.                                                *)

LEMMA OnTheWayType ==
  ASSUME TypeOK
  PROVE  OnTheWay \in Seq(Event)
  BY ConcatProperties DEF OnTheWay, TypeOK

LEMMA SendAppends ==
  ASSUME SinkInv, Send
  PROVE  \/ ~stopped /\ stopped' = stopped /\ OnTheWay' = Append(OnTheWay, reported + 1)
         \/ ~stopped /\ stopped' /\ OnTheWay' = Append(OnTheWay, Overflow)
         \/ stopped /\ UNCHANGED <<stopped, OnTheWay>>
  <1>1. reported + 1 \in Event /\ Overflow \in Event
    BY EventsAssumption DEF Send, SinkInv, TypeOK, Event
  <1>2. ch \in Seq(Event) /\ moving \in Seq(Event) /\ pending \in Seq(Event) /\ ch \o moving \in Seq(Event)
    BY ConcatProperties DEF SinkInv, TypeOK
  <1>3. CASE Publish
    <2>1. ch' = Append(ch, reported + 1) /\ ~stopped /\ UNCHANGED <<pending, moving, stopped>>
      BY <1>3 DEF Send, Publish
    <2>2. moving = <<>> /\ pending = <<>>
      BY <1>3 DEF Publish, Direct, SinkInv, TypeOK, Flushing
    <2>3. OnTheWay = ch
      BY <1>2, <2>2, ConcatEmptySeq DEF OnTheWay
    <2>4. Append(ch, reported + 1) \in Seq(Event)
      BY <1>1, <1>2, AppendProperties
    <2>5. OnTheWay' = ch'
      BY <2>1, <2>2, <2>4, ConcatEmptySeq DEF OnTheWay
    <2> QED
      BY <2>1, <2>3, <2>5
  <1>4. CASE Spill
    <2>1. pending' = Append(pending, reported + 1) /\ ~stopped /\ UNCHANGED <<ch, moving, stopped>>
      BY <1>4 DEF Send, Spill
    <2>2. (ch \o moving) \o Append(pending, reported + 1) = Append((ch \o moving) \o pending, reported + 1)
      BY <1>1, <1>2, AppendToConcat
    <2>3. OnTheWay' = Append(OnTheWay, reported + 1)
      BY <2>1, <2>2 DEF OnTheWay
    <2> QED
      BY <2>1, <2>3
  <1>5. CASE GiveUp
    <2>1. pending' = Append(pending, Overflow) /\ ~stopped /\ stopped' /\ UNCHANGED <<ch, moving>>
      BY <1>5 DEF Send, GiveUp
    <2>2. (ch \o moving) \o Append(pending, Overflow) = Append((ch \o moving) \o pending, Overflow)
      BY <1>1, <1>2, AppendToConcat
    <2>3. OnTheWay' = Append(OnTheWay, Overflow)
      BY <2>1, <2>2 DEF OnTheWay
    <2> QED
      BY <2>1, <2>3
  <1>6. CASE Refuse
    BY <1>6 DEF Send, Refuse, OnTheWay
  <1> QED
    BY <1>3, <1>4, <1>5, <1>6 DEF Send

LEMMA FlusherMoves ==
  ASSUME SinkInv, FlushTake \/ FlushSend
  PROVE  UNCHANGED OnTheWay
  <1>1. /\ ch \in Seq(Event) /\ moving \in Seq(Event) /\ pending \in Seq(Event)
        /\ ch \o moving \in Seq(Event) /\ <<>> \in Seq(Event)
    BY ConcatProperties, EmptySeq DEF SinkInv, TypeOK
  <1>2. CASE FlushTake /\ pending = <<>>
    BY <1>2 DEF FlushTake, OnTheWay
  <1>3. CASE FlushTake /\ pending # <<>>
    <2>1. moving' = <<Head(pending)>> /\ pending' = Tail(pending) /\ ch' = ch
      BY <1>3 DEF FlushTake
    <2>2. moving = <<>>
      BY <1>3 DEF FlushTake, SinkInv, TypeOK, Flushing
    <2>3. Head(pending) \in Event /\ Tail(pending) \in Seq(Event)
      BY <1>1, <1>3, HeadTailProperties
    <2>4. <<Head(pending)>> \in Seq(Event)
      BY <2>3
    <2>5. (ch \o <<Head(pending)>>) \o Tail(pending) = ch \o pending
      BY <1>1, <1>3, <2>3, <2>4, ConcatAssociative, HeadThenTail
    <2>6. ch \o moving = ch
      BY <1>1, <2>2, ConcatEmptySeq
    <2> QED
      BY <2>1, <2>5, <2>6 DEF OnTheWay
  <1>4. CASE FlushSend
    <2>1. ch' = ch \o moving /\ moving' = <<>> /\ pending' = pending
      BY <1>4 DEF FlushSend
    <2>2. ch' \o moving' = ch'
      BY <1>1, <2>1, ConcatEmptySeq
    <2> QED
      BY <2>1, <2>2 DEF OnTheWay
  <1> QED
    BY <1>2, <1>3, <1>4

LEMMA DiscardCuts ==
  ASSUME SinkInv, Discard
  PROVE  \E n \in 0..Len(OnTheWay) : OnTheWay' = SubSeq(OnTheWay, 1, n)
  <1>1. ch \in Seq(Event) /\ moving \in Seq(Event) /\ pending \in Seq(Event)
    BY DEF SinkInv, TypeOK
  <1>2. ch' = ch /\ moving' = <<>> /\ pending' = <<>>
    BY DEF Discard
  <1>3. OnTheWay' = ch
    BY <1>1, <1>2, ConcatEmptySeq DEF OnTheWay
  <1>4. OnTheWay = ch \o (moving \o pending) /\ moving \o pending \in Seq(Event)
    BY <1>1, ConcatAssociative, ConcatProperties DEF OnTheWay
  <1>5. Len(ch) \in Nat /\ Len(moving \o pending) \in Nat /\ Len(OnTheWay) = Len(ch) + Len(moving \o pending)
    BY <1>1, <1>4, LenProperties, ConcatProperties
  <1>6. CASE Len(ch) = 0
    <2>1. ch = <<>>
      BY <1>1, <1>6, EmptySeq
    <2>2. SubSeq(OnTheWay, 1, 0) = <<>>
      BY SubSeqEmpty
    <2> QED
      BY <1>3, <1>5, <2>1, <2>2
  <1>7. CASE Len(ch) # 0
    <2>1. SubSeq(OnTheWay, 1, Len(ch)) = SubSeq(ch, 1, Len(ch))
      BY <1>1, <1>4, <1>5, <1>7, SubSeqOfConcat1
    <2>2. SubSeq(ch, 1, Len(ch)) = ch
      BY <1>1, SubSeqFull
    <2>3. Len(ch) \in 0..Len(OnTheWay)
      BY <1>5
    <2> QED
      BY <1>3, <2>1, <2>2, <2>3
  <1> QED
    BY <1>6, <1>7

LEMMA TakeTakesFirst ==
  ASSUME SinkInv, Take
  PROVE  /\ OnTheWay # <<>> /\ OnTheWay' = Tail(OnTheWay)
         /\ taken' = Append(taken, Head(OnTheWay))
  <1>1. /\ ch \in Seq(Event) /\ moving \in Seq(Event) /\ pending \in Seq(Event)
        /\ moving \o pending \in Seq(Event) /\ ch # <<>>
    BY ConcatProperties DEF SinkInv, TypeOK, Take
  <1>2. ch' = Tail(ch) /\ moving' = moving /\ pending' = pending /\ taken' = Append(taken, Head(ch))
    BY DEF Take
  <1>3. OnTheWay = ch \o (moving \o pending)
    BY <1>1, ConcatAssociative DEF OnTheWay
  <1>4. Tail(ch) \in Seq(Event)
    BY <1>1, HeadTailProperties
  <1>5. OnTheWay' = Tail(ch) \o (moving \o pending)
    <2>1. OnTheWay' = Tail(ch) \o moving \o pending
      BY <1>2 DEF OnTheWay
    <2>2. Tail(ch) \o (moving \o pending) = Tail(ch) \o moving \o pending
      BY <1>1, <1>4, ConcatAssociative
    <2> QED
      BY <2>1, <2>2
  <1> QED
    BY <1>1, <1>2, <1>3, <1>5, TakeFromConcat

----------------------------------------------------------------------------
(* What the runner may rely on.                                              *)

\* A turn runner gets every event of its session, in the order in which the SDK
\* reported them, or the terminal error as the last one: however the callback,
\* the flusher and the runner interleave (send, flush).
THEOREM SinkImplementsStream == Spec => ImplementsEventStream
  <1>1. Init => Stream!Init
    <2> SUFFICES ASSUME Init PROVE Stream!Init
      OBVIOUS
    <2>1. OnTheWay = <<>>
      BY EmptySeq, ConcatEmptySeq DEF Init, OnTheWay
    <2> QED
      BY <2>1 DEF Init, Stream!Init
  <1>2. SinkInv /\ [Next]_vars => [Stream!Next]_<<reported, OnTheWay, stopped, done>>
    <2> SUFFICES ASSUME SinkInv, [Next]_vars
                 PROVE  Stream!Next \/ UNCHANGED <<reported, OnTheWay, stopped, done>>
      OBVIOUS
    <2>1. CASE Send
      <3>1. reported < Events /\ reported' = reported + 1 /\ done' = done
        BY <2>1 DEF Send
      <3>2. Stream!Report
        BY <2>1, <3>1, SendAppends DEF Stream!Report
      <3> QED
        BY <3>2 DEF Stream!Next
    <2>2. CASE FlushTake \/ FlushSend
      <3>1. UNCHANGED <<reported, stopped, done>>
        BY <2>2 DEF FlushTake, FlushSend
      <3> QED
        BY <2>2, <3>1, FlusherMoves
    <2>3. CASE Attach \/ FlushGivesUp
      BY <2>3 DEF Attach, FlushGivesUp, OnTheWay
    <2>4. CASE Discard
      <3>1. done /\ stopped' = TRUE /\ UNCHANGED <<reported, done>>
        BY <2>4 DEF Discard, SinkInv, Flushing
      <3>2. Stream!Break
        BY <2>4, <3>1, DiscardCuts DEF Stream!Break
      <3> QED
        BY <3>2 DEF Stream!Next
    <2>5. CASE Take
      <3>1. UNCHANGED <<reported, stopped, done>>
        BY <2>5 DEF Take
      <3>2. Stream!Take
        BY <2>5, <3>1, TakeTakesFirst DEF Stream!Take
      <3> QED
        BY <3>2 DEF Stream!Next
    <2>6. CASE RunnerDone
      <3>1. Stream!RunnerDone
        BY <2>6 DEF RunnerDone, OnTheWay, Stream!RunnerDone
      <3> QED
        BY <3>1 DEF Stream!Next
    <2>7. CASE UNCHANGED vars
      BY <2>7 DEF OnTheWay
    <2> QED
      BY <2>1, <2>2, <2>3, <2>4, <2>5, <2>6, <2>7 DEF Next, Flusher
  <1> QED
    BY <1>1, <1>2, SinkInvInit, SinkInvNext, PTL DEF Spec, ImplementsEventStream, Stream!Spec

----------------------------------------------------------------------------
\* What was reported up to r, in order.
UpTo(r) == [n \in 1..r |-> n]

LEMMA UpToType ==
  ASSUME NEW r \in 0..Events
  PROVE  UpTo(r) \in Seq(Event) /\ Len(UpTo(r)) = r
  <1>1. r \in Nat /\ UpTo(r) \in [1..r -> Event]
    BY EventsAssumption DEF UpTo, Event
  <1>2. UpTo(r) \in Seq(Event)
    BY <1>1, SeqDef
  <1> QED
    BY <1>1, <1>2, LenProperties

LEMMA UpToNext ==
  ASSUME NEW r \in 0..Events, NEW e \in Event
  PROVE  Append(UpTo(r), e) = [n \in 1..(r + 1) |-> IF n = r + 1 THEN e ELSE n]
  <1>1. r \in Nat /\ UpTo(r) \in Seq(Event) /\ Len(UpTo(r)) = r
    BY UpToType, EventsAssumption
  <1> DEFINE s == [n \in 1..(r + 1) |-> IF n = r + 1 THEN e ELSE n]
             a == Append(UpTo(r), e)
  <1>2. s \in [1..(r + 1) -> Event] /\ r + 1 \in Nat
    BY <1>1, EventsAssumption DEF Event
  <1>3. s \in Seq(Event)
    BY <1>2, SeqDef
  <1>4. Len(s) = r + 1
    BY <1>2, <1>3, LenProperties
  <1>5. a \in Seq(Event) /\ Len(a) = r + 1 /\ a[r + 1] = e /\ \A i \in 1..r : a[i] = UpTo(r)[i]
    BY <1>1, AppendProperties
  <1>6. \A i \in 1..(r + 1) : s[i] = IF i = r + 1 THEN e ELSE i
    BY <1>1
  <1>7. \A i \in 1..r : UpTo(r)[i] = i
    BY DEF UpTo
  <1> HIDE DEF s, a
  <1>8. \A i \in 1..(r + 1) : a[i] = s[i]
    BY <1>1, <1>5, <1>6, <1>7
  <1>9. a = s
    BY <1>3, <1>4, <1>5, <1>8, SeqEqual
  <1> QED
    BY <1>9 DEF a, s

\* NoSilentLoss, with what says which of its two cases it is.
Fifo ==
    LET all == taken \o OnTheWay IN
    ~done => IF stopped
             THEN \E r \in 0..Events : r < reported /\ all = Append(UpTo(r), Overflow)
             ELSE all = UpTo(reported)

LEMMA FifoInit == Init => Fifo
  <1> SUFFICES ASSUME Init PROVE Fifo
    OBVIOUS
  <1>1. <<>> \in Seq(Event)
    BY EmptySeq
  <1>2. taken \o OnTheWay = <<>>
    BY <1>1, ConcatEmptySeq DEF Init, OnTheWay
  <1>3. UpTo(0) \in Seq(Event) /\ Len(UpTo(0)) = 0
    BY UpToType, EventsAssumption
  <1>4. UpTo(0) = <<>>
    BY <1>3, EmptySeq
  <1> QED
    BY <1>2, <1>4 DEF Init, Fifo

LEMMA FifoNext ==
  ASSUME SinkInv, Fifo, [Next]_vars
  PROVE  Fifo'
  <1> DEFINE all == taken \o OnTheWay
  <1>1. taken \in Seq(Event) /\ OnTheWay \in Seq(Event) /\ all \in Seq(Event) /\ reported \in 0..Events
    BY OnTheWayType, ConcatProperties DEF SinkInv, TypeOK
  <1>2. CASE Send
    <2>1. /\ reported + 1 \in Event /\ Overflow \in Event /\ reported \in Nat
          /\ reported' = reported + 1 /\ UNCHANGED <<taken, done>>
      BY <1>1, <1>2, EventsAssumption DEF Send, Event
    <2>2. CASE ~stopped /\ stopped' = stopped /\ OnTheWay' = Append(OnTheWay, reported + 1)
      <3>1. all' = Append(all, reported + 1)
        BY <1>1, <2>1, <2>2, AppendToConcat
      <3>2. Append(UpTo(reported), reported + 1) = UpTo(reported + 1)
        BY <1>1, <2>1, UpToNext DEF UpTo
      <3> QED
        BY <2>1, <2>2, <3>1, <3>2 DEF Fifo
    <2>3. CASE ~stopped /\ stopped' /\ OnTheWay' = Append(OnTheWay, Overflow)
      <3>1. all' = Append(all, Overflow)
        BY <1>1, <2>1, <2>3, AppendToConcat
      <3> QED
        <4> SUFFICES ASSUME ~done PROVE \E r \in 0..Events : r < reported' /\ all' = Append(UpTo(r), Overflow)
          BY <2>1, <2>3, Zenon DEF Fifo
        <4>1. all = UpTo(reported)
          BY <2>3 DEF Fifo
        <4>2. reported < reported'
          BY <2>1
        <4> QED
          BY <1>1, <3>1, <4>1, <4>2
    <2>4. CASE stopped /\ UNCHANGED <<stopped, OnTheWay>>
      BY <1>1, <2>1, <2>4 DEF Fifo
    <2> QED
      BY <1>2, <2>2, <2>3, <2>4, SendAppends
  <1>3. CASE FlushTake \/ FlushSend
    <2>1. UNCHANGED <<reported, stopped, done, taken>>
      BY <1>3 DEF FlushTake, FlushSend
    <2> QED
      BY <1>3, <2>1, FlusherMoves DEF Fifo
  <1>4. CASE Attach \/ FlushGivesUp
    <2>1. UNCHANGED <<reported, stopped, done, taken, OnTheWay>>
      BY <1>4 DEF Attach, FlushGivesUp, OnTheWay
    <2> QED
      BY <2>1 DEF Fifo
  <1>5. CASE Discard \/ RunnerDone
    BY <1>5 DEF Discard, RunnerDone, SinkInv, Flushing, Fifo
  <1>6. CASE Take
    <2>1. UNCHANGED <<reported, stopped, done>>
      BY <1>6 DEF Take
    <2>2. /\ OnTheWay # <<>> /\ OnTheWay' = Tail(OnTheWay)
          /\ taken' = Append(taken, Head(OnTheWay))
      BY <1>6, TakeTakesFirst
    <2>3. Head(OnTheWay) \in Event /\ Tail(OnTheWay) \in Seq(Event)
      BY <1>1, <2>2, HeadTailProperties
    <2>4. <<Head(OnTheWay)>> \in Seq(Event) /\ taken' = taken \o <<Head(OnTheWay)>>
      BY <1>1, <2>2, <2>3, AppendIsConcat
    <2>5. (taken \o <<Head(OnTheWay)>>) \o Tail(OnTheWay) = taken \o (<<Head(OnTheWay)>> \o Tail(OnTheWay))
      BY <1>1, <2>3, <2>4, ConcatAssociative
    <2>6. all' = all
      BY <1>1, <2>2, <2>4, <2>5, HeadThenTail
    <2> QED
      BY <2>1, <2>6 DEF Fifo
  <1>7. CASE UNCHANGED vars
    BY <1>7 DEF Fifo, OnTheWay
  <1> QED
    BY <1>2, <1>3, <1>4, <1>5, <1>6, <1>7 DEF Next, Flusher

\* While the runner lives no event is lost in silence (send, flush).
THEOREM NothingIsLost == Spec => []NoSilentLoss
  <1>1. SinkInv /\ Fifo => NoSilentLoss
    <2> SUFFICES ASSUME SinkInv, Fifo, ~done PROVE NoSilentLoss
      BY DEF NoSilentLoss
    <2> DEFINE all == taken \o OnTheWay
    <2>1. CASE ~stopped
      BY <2>1 DEF Fifo, NoSilentLoss, UpTo
    <2>2. CASE stopped
      <3>1. PICK r \in 0..Events : r < reported /\ all = Append(UpTo(r), Overflow)
        BY <2>2 DEF Fifo
      <3>2. Overflow \in Event /\ r \in Nat /\ reported \in Nat
        BY EventsAssumption DEF Event, SinkInv, TypeOK
      <3>3. all = [n \in 1..(r + 1) |-> IF n = r + 1 THEN Overflow ELSE n]
        BY <3>1, <3>2, UpToNext
      <3>4. Len(all) = r + 1
        BY <3>1, <3>2, UpToType, AppendProperties
      <3> HIDE DEF all
      <3>5. Len(all) > 0 /\ Len(all) <= reported /\ all = [n \in 1..Len(all) |-> IF n = Len(all) THEN Overflow ELSE n]
        BY <3>1, <3>2, <3>3, <3>4
      <3> QED
        BY <3>5 DEF NoSilentLoss, all
    <2> QED
      BY <2>1, <2>2
  <1> QED
    BY <1>1, SinkInvInit, SinkInvNext, FifoInit, FifoNext, PTL DEF Spec
=============================================================================
