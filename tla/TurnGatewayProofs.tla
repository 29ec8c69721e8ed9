------------------------- MODULE TurnGatewayProofs -------------------------
(* Proofs about TurnGateway: what holds for any number of requests and       *)
(* parked turns, and for any capacity of r.updates.                          *)
EXTENDS TurnGateway, FiniteSetTheorems, TLAPS

----------------------------------------------------------------------------
(* The inductive invariant, part by part.                                    *)

\* The loop has a result that nobody has seen yet.
Emitting == {"persist", "persistHook", "save", "capture", "publish"}

LoopType ==
    /\ loop \in {"new", "select", "persist", "persistHook", "save", "capture", "publish", "send",
                 "fail", "failSend", "abort", "disconnect", "exit", "finish", "ended"}
    /\ after \in {"exit", "fail", "disconnect", "abort"}

DataType ==
    /\ item \in Items \cup {NoItem}
    /\ cb \in Requests \cup {None}
    /\ turn \in Turns
    /\ held \in Requests \cup {None}
    /\ updates \in Seq(Items)
    /\ closed \in BOOLEAN

RunType ==
    /\ sink \in Requests \cup {None} /\ onResult \in Requests \cup {None}
    /\ gen \in Nat /\ detached \in BOOLEAN
    /\ abort \in {"no", "signalled", "cancelled", "done"}
    /\ sdk \in {"quiet", "busy"}

BatchType ==
    /\ batch \in [Batches -> {"none", "open", "completed", "expired"}]
    /\ closing \in [Batches -> {"no", "abort", "hooks", "done"}]

RegistryType ==
    /\ hooked \subseteq Batches /\ tracked \subseteq Batches /\ pending \subseteq Batches
    /\ pendingClosed \in BOOLEAN /\ active \in BOOLEAN
    /\ activeClosed \in BOOLEAN /\ brokerClosed \in BOOLEAN

StopType ==
    /\ stop \in {"no", "pending", "cancel", "abort", "wait", "done"}
    /\ snapshot \in BOOLEAN

AskType ==
    /\ rpc \in [Requests -> {"idle", "attach", "complete", "setup", "deliver", "forget", "open",
                             "waiting", "remember", "hook", "answered", "refused"}]
    /\ mode \in [Requests -> {"json", "stream"}]
    /\ target \in [Requests -> Turns]
    /\ runner \in [Requests -> BOOLEAN]
    /\ got \in [Requests -> Items \cup {NoItem}]

WatchType ==
    /\ ctxDone \subseteq Requests /\ early \subseteq Requests
    /\ watch \in [Requests -> {"none", "armed", "firing", "gone"}]
    /\ watchGen \in [Requests -> Nat]

DrainType == drain \in [Requests -> {"none", "starting", "waiting", "gone", "missed"}]

FlowType ==
    /\ evs \in [Requests -> Seq(Items)]
    /\ chan \in [Requests -> {"none", "open", "closed"}]

TypeOK ==
    /\ LoopType /\ DataType /\ RunType /\ BatchType /\ RegistryType /\ StopType
    /\ AskType /\ WatchType /\ DrainType /\ FlowType

\* The loop publishes the result of the turn it is in; an error ends it.
LoopOK ==
    /\ loop \in Emitting => /\ item \in Items /\ item.turn = turn
                            /\ item.kind \in {"calls", "stop"}
                            /\ item.kind = "calls" => turn < Parks
    /\ loop \in {"persist", "persistHook"} => item.kind = "calls"
    /\ loop = "send" => /\ item \in Items /\ item.kind \in {"calls", "stop"}
                        /\ item.kind = "calls" => item.turn + 1 = turn
                        /\ item.kind = "stop" => item.turn = turn
    /\ loop = "abort" => after \in {"fail", "exit"}
    /\ loop \in {"fail", "failSend"} => after \in {"exit", "disconnect", "abort"}

\* Whoever has the pending calls of a turn has them of a turn that is over.
Told(i) == i.kind = "calls" => i.turn < turn

ToldOK ==
    /\ \A q \in Requests : Told(got[q]) /\ \A n \in 1..Len(evs[q]) : Told(evs[q][n])
    /\ \A n \in 1..Len(updates) : Told(updates[n])
    /\ \A q \in Requests : rpc[q] \in {"remember", "hook"} => got[q].kind = "calls"

TypeInv == TypeOK /\ LoopOK /\ ToldOK

\* The course of the session: batches are captured in order, at most one of
\* them is open, and the model is quiet until its calls are answered or fail.
CourseOK ==
    /\ \A b \in Batches : /\ b <= turn => batch[b] # "none"
                          /\ b > turn + 1 => batch[b] = "none"
                          /\ b = turn + 1 /\ loop \in {"new", "select", "send"} => batch[b] = "none"
                          /\ b = turn + 1 /\ loop \in Emitting =>
                                (item.kind = "calls" <=> batch[b] # "none")
                          /\ batch[b] = "open" => sdk = "quiet"
                          /\ closing[b] # "no" => batch[b] = "expired"
    /\ \A b, c \in Batches : b < c /\ batch[c] # "none" => batch[b] # "open"

Continuing == {"complete", "setup", "deliver", "forget"}

\* One request at a time has completed a batch and not yet delivered: it is the
\* last batch, and nothing happens in the session meanwhile.
TargetsOK ==
    \A q \in Requests : /\ target[q] <= turn
                        /\ rpc[q] \in Continuing => target[q] \in Batches
                        /\ rpc[q] = "forget" => batch[target[q]] = "completed"

SetupOK ==
    \A q \in Requests : rpc[q] \in {"setup", "deliver"} =>
          /\ target[q] = turn /\ batch[turn] = "completed" /\ sdk = "quiet"
          /\ \A b \in Batches : b > turn => batch[b] = "none"
          /\ \A p \in Requests : p # q => rpc[p] \notin {"setup", "deliver"}

FirstOK ==
    /\ \A q \in Requests : rpc[q] = "attach" => q = First
    /\ rpc[First] \notin Continuing /\ target[First] = 0
    /\ rpc[First] \in {"idle", "attach"} =>
          turn = 0 /\ sdk = "quiet" /\ sink = None /\ \A b \in Batches : batch[b] = "none"

TurnsOK == TargetsOK /\ SetupOK /\ FirstOK

\* The session's loop is launched once.
LaunchOK == rpc[First] = "idle" => loop = "new"

\* The stream that is attached, and the one a result is being sent to, are those
\* of the turn that is running or being sent.
SinkOK ==
    /\ held # None => loop \in {"publish", "send"} /\ target[held] = item.turn
    /\ held # None /\ item.kind = "calls" => sink # held
    /\ sink # None => target[sink] = turn
    /\ loop = "publish" /\ item.kind = "calls" => sink = None

Fresh == {"idle", "attach", "complete", "setup"}

\* A stream is empty until its result is sent, and then no longer attached
\* except to a loop that ends.
EventsOK ==
    /\ \A q \in Requests : rpc[q] \in Fresh => chan[q] = "none" /\ evs[q] = <<>>
    /\ \A q \in Requests : evs[q] # <<>> =>
          held # q /\ (sink = q => loop \in {"disconnect", "exit"})

StreamOK == StreamsOpen /\ StreamedOwnTurn /\ SinkOK /\ EventsOK

Kept(b) == batch[b] = "open" /\ ~pendingClosed => b \in pending

\* Batch b is in an answer, or on a stream that may not have been handed out yet.
Shown(b) ==
    \E q \in Requests :
        \/ rpc[q] = "answered" /\ got[q] = [turn |-> b - 1, kind |-> "calls"]
        \/ \E n \in 1..Len(evs[q]) : evs[q][n] = [turn |-> b - 1, kind |-> "calls"]

ShownIsKept == \A b \in Batches : Shown(b) /\ batch[b] = "open" /\ ~pendingClosed => b \in pending

RunnersOK == \A q \in Requests : runner[q] \/ pendingClosed

\* A turn that streams has a callback, which registers the runner before the
\* loop goes on.
CallbackOK == (loop = "select" \/ (loop = "send" /\ item.kind = "calls")) /\ sink # None => onResult # None

ResultKept ==
    /\ loop \in {"persistHook", "save"} /\ item.kind = "calls" => Kept(item.turn + 1)
    /\ loop = "capture" /\ item.kind = "calls" /\ sink # None => Kept(item.turn + 1)
    /\ loop \in {"publish", "send"} /\ item.kind = "calls" /\ held # None => Kept(item.turn + 1)

HookKept == \A q \in Requests : rpc[q] = "hook" => Kept(got[q].turn + 1)

RegistryOK == ShownIsKept /\ RunnersOK /\ CallbackOK /\ ResultKept /\ HookKept

WatchOK ==
    /\ CancellationStaysHome
    /\ \A q \in Requests : /\ rpc[q] \in Fresh => watch[q] = "none"
                           /\ watchGen[q] <= gen
                           /\ q \in ctxDone => rpc[q] # "idle" /\ (target[q] >= turn => q \in early)
                           /\ watch[q] = "armed" /\ watchGen[q] = gen /\ ~detached => target[q] = turn
    /\ loop = "publish" /\ item.kind = "calls" => detached

\* Stop closes one registry after the other; what is closed stays empty.
ClosedOK ==
    /\ stop # "no" => activeClosed
    /\ stop \in {"cancel", "abort", "wait", "done"} => pendingClosed
    /\ stop \in {"abort", "wait", "done"} => brokerClosed
    /\ pendingClosed => pending = {}

OpenOK ==
    /\ brokerClosed => OpenBatches = {}
    /\ OpenBatches \subseteq tracked

ActiveOK ==
    /\ active <=> loop \notin {"new", "ended"}
    /\ activeClosed /\ active => snapshot
    /\ snapshot /\ stop \in {"wait", "done"} => abort = "done"

StopOK == ClosedOK /\ OpenOK /\ ActiveOK

USE DEF loopData, loopVars, runVars, batchVars, regVars, stopVars, reqVars

----------------------------------------------------------------------------
(* Types. First the pieces the actions share.                                *)

LEMMA TurnArithmetic ==
  /\ \A b \in Batches : b \in Nat /\ b \in Turns /\ b - 1 \in Turns /\ b > 0
  /\ \A n \in Turns : n \in Nat /\ n <= Parks /\ (n < Parks => n + 1 \in Batches)
  BY ParksAssumption DEF Batches, Turns

LEMMA ItemParts ==
  /\ \A i \in Items : i.turn \in Turns /\ i.kind \in {"calls", "stop", "error"}
  /\ \A n \in Turns, k \in {"calls", "stop", "error"} : [turn |-> n, kind |-> k] \in Items
  /\ NoItem.kind = "none"
  BY DEF Items, NoItem

LEMMA TypeFrames ==
  ASSUME TypeOK
  PROVE  /\ UNCHANGED <<loop, after>> => LoopType'
         /\ UNCHANGED <<item, cb, turn, held, updates, closed>> => DataType'
         /\ UNCHANGED <<sink, onResult, gen, detached, abort, sdk>> => RunType'
         /\ UNCHANGED <<batch, closing>> => BatchType'
         /\ UNCHANGED <<hooked, tracked, pending, pendingClosed, active, activeClosed, brokerClosed>> =>
                RegistryType'
         /\ UNCHANGED <<stop, snapshot>> => StopType'
         /\ UNCHANGED <<rpc, mode, target, runner, got>> => AskType'
         /\ UNCHANGED <<ctxDone, early, watch, watchGen>> => WatchType'
         /\ UNCHANGED drain => DrainType'
         /\ UNCHANGED <<evs, chan>> => FlowType'
  BY DEF TypeOK, LoopType, DataType, RunType, BatchType, RegistryType, StopType, AskType, WatchType,
         DrainType, FlowType

LEMMA AnswerType ==
  ASSUME AskType, NEW q \in Requests, NEW i \in Items, Answer(q, i), UNCHANGED <<mode, target, runner>>
  PROVE  AskType'
  BY DEF Answer, AskType

LEMMA ReceiveType ==
  ASSUME AskType, DataType, NEW q \in Requests, Receive(q),
         UNCHANGED <<mode, target, runner, item, cb, turn, held, closed>>
  PROVE  AskType' /\ DataType'
  <1>1. CASE updates = <<>>
    BY <1>1 DEF Receive, AskType, DataType
  <1>2. CASE updates # <<>>
    <2>1. Head(updates) \in Items /\ Tail(updates) \in Seq(Items)
      BY <1>2 DEF DataType
    <2>2. Answer(q, Head(updates)) /\ updates' = Tail(updates)
      BY <1>2 DEF Receive
    <2> QED
      BY <2>1, <2>2, AnswerType DEF DataType
  <1> QED
    BY <1>1, <1>2

LEMMA SendUpdateType ==
  ASSUME AskType, DataType, DrainType, NEW i \in Items, SendUpdate(i), UNCHANGED <<mode, target, runner>>
  PROVE  AskType' /\ DrainType' /\ updates' \in Seq(Items)
  <1>1. CASE \E q \in Waiting : /\ IF rpc[q] = "waiting"
                                   THEN Answer(q, i) /\ UNCHANGED drain
                                   ELSE drain' = [drain EXCEPT ![q] = "gone"] /\ UNCHANGED <<rpc, got>>
                                /\ UNCHANGED updates
    <2>1. PICK q \in Requests : /\ \/ Answer(q, i) /\ UNCHANGED drain
                                   \/ drain' = [drain EXCEPT ![q] = "gone"] /\ UNCHANGED <<rpc, got>>
                                /\ UNCHANGED updates
      BY <1>1 DEF Waiting
    <2>2. CASE Answer(q, i) /\ UNCHANGED drain
      BY <2>1, <2>2, AnswerType DEF DrainType, DataType
    <2>3. CASE drain' = [drain EXCEPT ![q] = "gone"] /\ UNCHANGED <<rpc, got>>
      BY <2>1, <2>3 DEF AskType, DrainType, DataType
    <2> QED
      BY <2>1, <2>2, <2>3
  <1>2. CASE updates' = Append(updates, i) /\ UNCHANGED <<rpc, got, drain>>
    BY <1>2 DEF AskType, DrainType, DataType
  <1> QED
    BY <1>1, <1>2 DEF SendUpdate

LEMMA AttachStreamType ==
  ASSUME RunType, FlowType, NEW q \in Requests, AttachStream(q), UNCHANGED evs
  PROVE  sink' \in Requests \cup {None} /\ onResult' \in Requests \cup {None} /\ FlowType'
  BY DEF AttachStream, RunType, FlowType

LEMMA WatchContextType ==
  ASSUME WatchType, NEW q \in Requests, NEW g \in Nat, WatchContext(q, g), UNCHANGED <<ctxDone, early>>
  PROVE  WatchType'
  BY DEF WatchContext, WatchType

LEMMA CloseBatchesType ==
  ASSUME BatchType, RunType, NEW bs, NEW next \in {"abort", "hooks"}, CloseBatches(bs, next)
  PROVE  BatchType' /\ sdk' \in {"quiet", "busy"}
  <1>1. \A b \in Batches : batch[b] \in {"none", "open", "completed", "expired"}
                           /\ closing[b] \in {"no", "abort", "hooks", "done"}
    BY DEF BatchType
  <1> QED
    BY <1>1 DEF CloseBatches, BatchType, RunType

LEMMA PutPendingType ==
  ASSUME RegistryType, NEW b \in Batches, PutPending(b),
         UNCHANGED <<hooked, tracked, pendingClosed, active, activeClosed, brokerClosed>>
  PROVE  RegistryType'
  BY DEF PutPending, RegistryType

LEMMA HookExpiryType ==
  ASSUME RegistryType, NEW b \in Batches, HookExpiry(b),
         UNCHANGED <<tracked, pendingClosed, active, activeClosed, brokerClosed>>
  PROVE  RegistryType'
  BY DEF HookExpiry, RegistryType

\* The events a stream is sent.
LEMMA SendType ==
  ASSUME FlowType, NEW q \in Requests \cup {None}, NEW i \in Items, NEW close \in BOOLEAN,
         \/ Delivered(q, i) /\ (chan' = chan \/ chan' = [chan EXCEPT ![q] = "closed"])
         \/ Undelivered(q) /\ UNCHANGED chan
  PROVE  FlowType'
  <1>1. evs' \in [Requests -> Seq(Items)]
    <2>1. CASE q # None /\ evs' = [evs EXCEPT ![q] = Append(evs[q], i)]
      <3>1. q \in Requests /\ evs[q] \in Seq(Items)
        BY <2>1 DEF FlowType
      <3>2. Append(evs[q], i) \in Seq(Items)
        BY <3>1
      <3> QED
        BY <2>1, <3>2 DEF FlowType
    <2>2. CASE UNCHANGED evs
      BY <2>2 DEF FlowType
    <2> QED
      BY <2>1, <2>2 DEF Delivered, Undelivered
  <1>2. chan' \in [Requests -> {"none", "open", "closed"}]
    BY DEF FlowType
  <1> QED
    BY <1>1, <1>2 DEF FlowType

LEMMA TypeInit == Init => TypeInv
  <1> SUFFICES ASSUME Init PROVE TypeInv
    OBVIOUS
  <1>1. LoopType /\ RunType /\ RegistryType /\ StopType
    BY DEF Init, LoopType, RunType, RegistryType, StopType
  <1>5. DataType
    <2>1. <<>> \in Seq(Items) /\ 0 \in Turns
      BY ParksAssumption DEF Turns
    <2> QED
      BY <2>1 DEF Init, DataType
  <1>6. BatchType
    BY DEF Init, BatchType
  <1>2. AskType /\ WatchType /\ DrainType /\ FlowType
    BY ParksAssumption DEF Init, AskType, WatchType, DrainType, FlowType, Turns
  <1>3. LoopOK
    BY DEF Init, LoopOK, Emitting
  <1>4. ToldOK
    BY DEF Init, ToldOK, Told, NoItem
  <1> QED
    BY <1>1, <1>2, <1>3, <1>4, <1>5, <1>6 DEF TypeInv, TypeOK

LEMMA TypeNext == TypeInv /\ [Next]_vars => TypeOK'
  <1> SUFFICES ASSUME TypeOK, LoopOK, ToldOK, [Next]_vars PROVE TypeOK'
    BY DEF TypeInv
  <1> USE TypeFrames DEF TypeOK
  <1>1. ASSUME NEW q \in Requests, NEW m \in {"json", "stream"}, Launch(q, m) PROVE TypeOK'
    <2>1. LoopType' /\ AskType' /\ RegistryType'
      BY <1>1 DEF Launch, LoopType, AskType, RegistryType
    <2>2. DataType' /\ RunType'
      BY <1>1 DEF Launch, DataType, RunType
    <2> QED
      BY <1>1, <2>1, <2>2 DEF Launch
  <1>2. ASSUME NEW q \in Requests, NEW m \in {"json", "stream"}, NEW b \in Batches, Find(q, b, m) PROVE TypeOK'
    <2>1. b \in Turns
      BY TurnArithmetic
    <2>2. rpc' \in [Requests -> {"idle", "attach", "complete", "setup", "deliver", "forget", "open",
                               "waiting", "remember", "hook", "answered", "refused"}]
      BY <1>2 DEF Find, AskType
    <2>3. mode' \in [Requests -> {"json", "stream"}] /\ target' \in [Requests -> Turns]
      BY <1>2, <2>1 DEF Find, AskType
    <2>4. runner' \in [Requests -> BOOLEAN] /\ got' \in [Requests -> Items \cup {NoItem}]
      <3>1. got' = got /\ (runner' = runner \/ runner' = [runner EXCEPT ![q] = b \in pending])
        BY <1>2 DEF Find
      <3>2. (b \in pending) \in BOOLEAN
        OBVIOUS
      <3>3. \A v \in BOOLEAN : [runner EXCEPT ![q] = v] \in [Requests -> BOOLEAN]
        BY DEF AskType
      <3> QED
        BY <3>1, <3>2, <3>3, Zenon DEF AskType
    <2>5. AskType'
      BY <2>2, <2>3, <2>4 DEF AskType
    <2> QED
      BY <1>2, <2>5 DEF Find
  <1>3. ASSUME NEW q \in Requests, Attach(q) PROVE TypeOK'
    <2>1. sink' \in Requests \cup {None} /\ onResult' \in Requests \cup {None} /\ FlowType'
      BY <1>3, AttachStreamType DEF Attach
    <2>2. RunType'
      BY <1>3, <2>1 DEF Attach, RunType
    <2>3. WatchType'
      BY <1>3, WatchContextType DEF Attach, RunType
    <2>4. AskType' /\ DataType' /\ DrainType'
      <3>1. CASE mode[q] = "stream"
        BY <1>3, <3>1 DEF Attach, AskType, DataType, DrainType
      <3>2. CASE mode[q] # "stream"
        BY <1>3, <3>2, ReceiveType DEF Attach
      <3> QED
        BY <3>1, <3>2
    <2> QED
      BY <1>3, <2>1, <2>2, <2>3, <2>4 DEF Attach
  <1>4. ASSUME NEW q \in Requests, Complete(q) PROVE TypeOK'
    <2>1. AskType'
      BY <1>4 DEF Complete, AskType
    <2>2. BatchType'
      BY <1>4 DEF Complete, BatchType
    <2> QED
      BY <1>4, <2>1, <2>2 DEF Complete
  <1>5. ASSUME NEW q \in Requests, Discard(q) PROVE TypeOK'
    <2>1. BatchType' /\ sdk' \in {"quiet", "busy"}
      BY <1>5, CloseBatchesType DEF Discard
    <2>2. RunType'
      BY <1>5, <2>1 DEF Discard, RunType
    <2>3. AskType' /\ RegistryType'
      BY <1>5 DEF Discard, AskType, RegistryType
    <2> QED
      BY <1>5, <2>1, <2>2, <2>3 DEF Discard
  <1>6. ASSUME NEW q \in Requests, Setup(q) PROVE TypeOK'
    <2>1. sink' \in Requests \cup {None} /\ onResult' \in Requests \cup {None} /\ FlowType'
      BY <1>6, AttachStreamType DEF Setup
    <2>2. RunType'
      <3>1. gen' \in Nat /\ UNCHANGED <<abort, sdk>>
        BY <1>6 DEF Setup, RunType
      <3>2. detached' \in BOOLEAN
        BY <1>6, Zenon DEF Setup
      <3> QED
        BY <2>1, <3>1, <3>2 DEF RunType
    <2>3. WatchType'
      BY <1>6, WatchContextType DEF Setup, RunType
    <2>4. AskType'
      BY <1>6 DEF Setup, AskType
    <2> QED
      BY <1>6, <2>1, <2>2, <2>3, <2>4 DEF Setup
  <1>7. ASSUME NEW q \in Requests, Deliver(q) \/ Leave(q) PROVE TypeOK'
    <2>1. AskType' /\ RunType'
      BY <1>7 DEF Deliver, Leave, AskType, RunType
    <2> QED
      BY <1>7, <2>1 DEF Deliver, Leave
  <1>8. ASSUME NEW q \in Requests, Forget(q) PROVE TypeOK'
    <2>1. RegistryType'
      BY <1>8 DEF Forget, RegistryType
    <2>2. AskType' /\ DataType' /\ DrainType'
      <3>1. CASE mode[q] = "stream"
        BY <1>8, <3>1 DEF Forget, AskType, DataType, DrainType
      <3>2. CASE mode[q] # "stream"
        BY <1>8, <3>2, ReceiveType DEF Forget
      <3> QED
        BY <3>1, <3>2
    <2> QED
      BY <1>8, <2>1, <2>2 DEF Forget
  <1>9. ASSUME NEW q \in Requests, Remember(q) \/ Hook(q) PROVE TypeOK'
    <2>1. got[q].turn + 1 \in Batches
      <3>1. got[q] \in Items \cup {NoItem} /\ got[q].kind = "calls" /\ got[q].turn < turn
        BY <1>9 DEF Remember, Hook, ToldOK, Told, AskType
      <3>2. got[q].turn \in Turns /\ turn \in Turns
        BY <3>1, ItemParts DEF DataType
      <3> QED
        BY <3>1, <3>2, TurnArithmetic, ParksAssumption DEF Turns
    <2>2. RegistryType'
      BY <1>9, <2>1, PutPendingType, HookExpiryType DEF Remember, Hook
    <2>3. AskType'
      BY <1>9 DEF Remember, Hook, AskType
    <2> QED
      BY <1>9, <2>2, <2>3 DEF Remember, Hook
  <1>10. ASSUME NEW q \in Requests, StartDrain(q) PROVE TypeOK'
    <2>1. DrainType'
      BY <1>10 DEF StartDrain, DrainType
    <2>2. updates' \in Seq(Items)
      <3>1. updates # <<>> => Tail(updates) \in Seq(Items)
        BY DEF DataType
      <3> QED
        BY <1>10, <3>1 DEF StartDrain, DataType
    <2>3. DataType'
      BY <1>10, <2>2 DEF StartDrain, DataType
    <2> QED
      BY <1>10, <2>1, <2>3 DEF StartDrain
  <1>11. ASSUME NEW q \in Requests, DrainEnds(q) PROVE TypeOK'
    <2>1. DrainType'
      BY <1>11 DEF DrainEnds, DrainType
    <2> QED
      BY <1>11, <2>1 DEF DrainEnds
  <1>12. ASSUME NEW q \in Requests, WatchCheck(q) \/ WatchEnds(q) \/ CancelContext(q) PROVE TypeOK'
    <2>1. WatchType'
      BY <1>12 DEF WatchCheck, WatchEnds, CancelContext, WatchType
    <2> QED
      BY <1>12, <2>1 DEF WatchCheck, WatchEnds, CancelContext
  <1>13. CASE LoopAborted \/ PersistSaved \/ PersistFails \/ Disconnected
    <2>1. LoopType'
      BY <1>13 DEF LoopAborted, PersistSaved, PersistFails, Fails, Disconnected, LoopType
    <2> QED
      BY <1>13, <2>1 DEF LoopAborted, PersistSaved, PersistFails, Fails, Disconnected
  <1>14. CASE CaptureStreams \/ CloseStreams \/ Finish
    <2>1. LoopType' /\ DataType'
      BY <1>14 DEF CaptureStreams, CloseStreams, Finish, LoopType, DataType, RunType
    <2>2. RunType' /\ RegistryType'
      <3>1. CASE CaptureStreams
        BY <3>1 DEF CaptureStreams, RunType
      <3>2. CASE CloseStreams
        BY <3>2 DEF CloseStreams, RunType
      <3>3. CASE Finish
        BY <3>3 DEF Finish, RegistryType
      <3> QED
        BY <1>14, <3>1, <3>2, <3>3
    <2>3. FlowType'
      BY <1>14 DEF CaptureStreams, CloseStreams, Finish, FlowType
    <2> QED
      BY <1>14, <2>1, <2>2, <2>3 DEF CaptureStreams, CloseStreams, Finish
  <1>15. CASE PersistPending \/ PersistHook
    <2>1. item.turn + 1 \in Batches
      BY <1>15, TurnArithmetic DEF PersistPending, PersistHook, LoopOK, DataType, Emitting
    <2>2. RegistryType'
      BY <1>15, <2>1, PutPendingType, HookExpiryType DEF PersistPending, PersistHook
    <2>3. LoopType'
      BY <1>15 DEF PersistPending, PersistHook, LoopType
    <2> QED
      BY <1>15, <2>2, <2>3 DEF PersistPending, PersistHook
  <1>16. CASE PublishResult
    <2>1. item \in Items /\ turn' \in Turns
      BY <1>16, ParksAssumption DEF PublishResult, LoopOK, DataType, Emitting, Turns
    <2>2. AskType' /\ DrainType' /\ updates' \in Seq(Items)
      BY <1>16, <2>1, SendUpdateType DEF PublishResult
    <2>3. LoopType' /\ DataType'
      BY <1>16, <2>1, <2>2 DEF PublishResult, LoopType, DataType
    <2> QED
      BY <1>16, <2>2, <2>3 DEF PublishResult
  <1>17. CASE SendResult
    <2>1. item \in Items /\ held \in Requests \cup {None}
      BY <1>17 DEF SendResult, LoopOK, DataType
    <2>2. FlowType'
      BY <1>17, <2>1, SendType DEF SendResult
    <2>3. LoopType' /\ DataType'
      BY <1>17 DEF SendResult, LoopType, DataType
    <2> QED
      BY <1>17, <2>2, <2>3 DEF SendResult
  <1>18. CASE PublishError
    <2>1. [turn |-> turn, kind |-> "error"] \in Items
      BY ItemParts DEF DataType
    <2>2. AskType' /\ DrainType' /\ updates' \in Seq(Items)
      BY <1>18, <2>1, SendUpdateType DEF PublishError
    <2>3. LoopType' /\ DataType'
      BY <1>18, <2>2 DEF PublishError, LoopType, DataType
    <2> QED
      BY <1>18, <2>2, <2>3 DEF PublishError
  <1>19. CASE SendError
    <2>1. [turn |-> turn, kind |-> "error"] \in Items /\ sink \in Requests \cup {None}
      BY ItemParts DEF DataType, RunType
    <2>2. FlowType'
      BY <1>19, <2>1, SendType DEF SendError
    <2>3. LoopType' /\ DataType' /\ RunType'
      BY <1>19 DEF SendError, LoopType, DataType, RunType
    <2> QED
      BY <1>19, <2>2, <2>3 DEF SendError
  <1>20. CASE TurnParks
    <2>1. turn + 1 \in Batches /\ [turn |-> turn, kind |-> "calls"] \in Items
      BY <1>20, TurnArithmetic, ItemParts DEF TurnParks, DataType
    <2>2. BatchType' /\ RegistryType'
      BY <1>20, <2>1 DEF TurnParks, BatchType, RegistryType
    <2>3. LoopType' /\ DataType' /\ RunType'
      BY <1>20, <2>1 DEF TurnParks, LoopType, DataType, RunType
    <2> QED
      BY <1>20, <2>2, <2>3 DEF TurnParks
  <1>21. CASE TurnEnds
    <2>1. [turn |-> turn, kind |-> "stop"] \in Items
      BY ItemParts DEF DataType
    <2>2. LoopType' /\ DataType' /\ RunType'
      BY <1>21, <2>1 DEF TurnEnds, LoopType, DataType, RunType
    <2> QED
      BY <1>21, <2>2 DEF TurnEnds
  <1>22. CASE SessionFails \/ EventRefused \/ Aborted \/ RequestDone \/ IdleTimeout
    <2>1. LoopType'
      BY <1>22 DEF SessionFails, EventRefused, Aborted, RequestDone, IdleTimeout, Fails, LoopType
    <2> QED
      BY <1>22, <2>1 DEF SessionFails, EventRefused, Aborted, RequestDone, IdleTimeout, Fails
  <1>23. CASE SignalAbort \/ AbortReturns
    <2>1. RunType'
      BY <1>23 DEF SignalAbort, AbortReturns, RunType
    <2> QED
      BY <1>23, <2>1 DEF SignalAbort, AbortReturns
  <1>24. CASE StopActive \/ StopPending \/ StopAborted \/ StopWaits
    <2>1. RegistryType' /\ StopType'
      BY <1>24 DEF StopActive, StopPending, StopAborted, StopWaits, RegistryType, StopType
    <2> QED
      BY <1>24, <2>1 DEF StopActive, StopPending, StopAborted, StopWaits
  <1>25. CASE AbortCancels \/ StopCancelAll
    <2>1. BatchType' /\ sdk' \in {"quiet", "busy"}
      BY <1>25, CloseBatchesType DEF AbortCancels, StopCancelAll
    <2>2. CASE AbortCancels
      <3>1. RunType'
        BY <2>1, <2>2 DEF AbortCancels, RunType
      <3> QED
        BY <2>1, <2>2, <3>1 DEF AbortCancels
    <2>3. CASE StopCancelAll
      <3>1. RunType'
        BY <2>1, <2>3 DEF StopCancelAll, RunType
      <3>2. RegistryType' /\ StopType'
        BY <2>3 DEF StopCancelAll, RegistryType, StopType
      <3> QED
        BY <2>1, <2>3, <3>1, <3>2 DEF StopCancelAll
    <2> QED
      BY <1>25, <2>2, <2>3
  <1>26. ASSUME NEW b \in Batches, Expire(b) PROVE TypeOK'
    <2>1. BatchType' /\ sdk' \in {"quiet", "busy"}
      BY <1>26, CloseBatchesType DEF Expire
    <2>2. RunType'
      BY <1>26, <2>1 DEF Expire, RunType
    <2> QED
      BY <1>26, <2>1, <2>2 DEF Expire
  <1>27. ASSUME NEW b \in Batches, ExpireAborted(b) \/ CloseForgets(b) PROVE TypeOK'
    <2>1. BatchType' /\ RegistryType'
      BY <1>27 DEF ExpireAborted, CloseForgets, BatchType, RegistryType
    <2> QED
      BY <1>27, <2>1 DEF ExpireAborted, CloseForgets
  <1>28. CASE UNCHANGED vars
    BY <1>28 DEF vars
  <1> QED
    BY <1>1, <1>2, <1>3, <1>4, <1>5, <1>6, <1>7, <1>8, <1>9, <1>10, <1>11, <1>12, <1>13, <1>14, <1>15, <1>16,
       <1>17, <1>18, <1>19, <1>20, <1>21, <1>22, <1>23, <1>24, <1>25, <1>26, <1>27, <1>28
    DEF Next, RequestStep, HelperStep, LoopStep, SelectStep, BatchStep, StopStep

----------------------------------------------------------------------------
(* The loop, and what it has told.                                           *)

\* Only the loop and the launch of its session change what the loop works on.
LEMMA LoopFrame ==
  ASSUME \/ \E q \in Requests : RequestStep(q) \/ HelperStep(q) \/ CancelContext(q)
         \/ \E q \in Requests, m \in {"json", "stream"}, b \in Batches : Find(q, b, m)
         \/ SignalAbort \/ AbortCancels \/ AbortReturns
         \/ \E b \in Batches : BatchStep(b)
         \/ StopActive \/ StopStep
  PROVE  UNCHANGED <<loop, after, item, cb, turn, held, closed>>
  <1>1. ASSUME NEW q \in Requests, RequestStep(q) PROVE UNCHANGED <<loop, after, item, cb, turn, held, closed>>
    BY <1>1 DEF RequestStep, Attach, Complete, Discard, Setup, Deliver, Forget, Leave, Remember, Hook
  <1>2. ASSUME NEW q \in Requests, HelperStep(q) \/ CancelContext(q)
        PROVE  UNCHANGED <<loop, after, item, cb, turn, held, closed>>
    BY <1>2 DEF HelperStep, StartDrain, DrainEnds, WatchCheck, WatchEnds, CancelContext
  <1>3. ASSUME NEW q \in Requests, NEW m \in {"json", "stream"}, NEW b \in Batches, Find(q, b, m)
        PROVE  UNCHANGED <<loop, after, item, cb, turn, held, closed>>
    BY <1>3 DEF Find
  <1>4. ASSUME SignalAbort \/ AbortCancels \/ AbortReturns
        PROVE  UNCHANGED <<loop, after, item, cb, turn, held, closed>>
    BY <1>4 DEF SignalAbort, AbortCancels, AbortReturns
  <1>5. ASSUME NEW b \in Batches, BatchStep(b) PROVE UNCHANGED <<loop, after, item, cb, turn, held, closed>>
    BY <1>5 DEF BatchStep, Expire, ExpireAborted, CloseForgets
  <1>6. ASSUME StopActive \/ StopStep PROVE UNCHANGED <<loop, after, item, cb, turn, held, closed>>
    BY <1>6 DEF StopStep, StopActive, StopPending, StopCancelAll, StopAborted, StopWaits
  <1> QED
    BY <1>1, <1>2, <1>3, <1>4, <1>5, <1>6

LEMMA LoopNext == TypeInv /\ [Next]_vars => LoopOK'
  <1> SUFFICES ASSUME TypeOK, LoopOK, [Next]_vars PROVE LoopOK'
    BY DEF TypeInv
  <1>1. ASSUME UNCHANGED <<loop, after, item, turn>> PROVE LoopOK'
    BY <1>1 DEF LoopOK, Emitting
  <1>2. ASSUME NEW q \in Requests, NEW m \in {"json", "stream"}, Launch(q, m) PROVE LoopOK'
    BY <1>2 DEF Launch, LoopOK, Emitting
  <1>3. CASE LoopAborted \/ PersistPending \/ PersistHook \/ PersistSaved \/ PersistFails
    BY <1>3 DEF LoopAborted, PersistPending, PersistHook, PersistSaved, PersistFails, Fails, LoopOK, Emitting
  <1>4. CASE CaptureStreams \/ PublishError \/ CloseStreams \/ Finish \/ Disconnected
    BY <1>4 DEF CaptureStreams, PublishError, CloseStreams, Finish, Disconnected, LoopOK, Emitting
  <1>5. CASE PublishResult
    <2>1. loop' = "send" /\ item' = item /\ item \in Items /\ item.turn = turn
          /\ item.kind \in {"calls", "stop"} /\ turn' = IF item.kind = "calls" THEN turn + 1 ELSE turn
      BY <1>5 DEF PublishResult, LoopOK, Emitting
    <2> QED
      BY <2>1 DEF LoopOK, Emitting
  <1>6. CASE SendResult \/ SendError
    BY <1>6 DEF SendResult, SendError, LoopOK, Emitting
  <1>7. CASE TurnParks \/ TurnEnds
    <2>1. \A k \in {"calls", "stop"} : [turn |-> turn, kind |-> k] \in Items
      BY ItemParts DEF TypeOK, DataType
    <2> QED
      BY <1>7, <2>1 DEF TurnParks, TurnEnds, LoopOK, Emitting
  <1>8. CASE SessionFails \/ EventRefused \/ Aborted \/ RequestDone \/ IdleTimeout
    BY <1>8 DEF SessionFails, EventRefused, Aborted, RequestDone, IdleTimeout, Fails, LoopOK, Emitting
  <1>9. CASE UNCHANGED vars
    BY <1>1, <1>9 DEF vars
  <1> QED
    BY <1>1, <1>2, <1>3, <1>4, <1>5, <1>6, <1>7, <1>8, <1>9, LoopFrame DEF Next, LoopStep, SelectStep

LEMMA AnswerTold ==
  ASSUME AskType, ToldOK, NEW q \in Requests, NEW i \in Items, Answer(q, i), turn \in Nat, turn' \in Nat,
         turn <= turn', i.kind = "calls" => i.turn < turn'
  PROVE  \A p \in Requests : Told(got[p])' /\ (rpc'[p] \in {"remember", "hook"} => got'[p].kind = "calls")
  <1> SUFFICES ASSUME NEW p \in Requests
               PROVE  Told(got[p])' /\ (rpc'[p] \in {"remember", "hook"} => got'[p].kind = "calls")
    OBVIOUS
  <1>1. CASE p = q
    BY <1>1 DEF Answer, AskType, Told
  <1>2. CASE p # q
    <2>1. got'[p] = got[p] /\ rpc'[p] = rpc[p]
      BY <1>2 DEF Answer, AskType
    <2>2. got[p].turn \in Nat
      BY ItemParts, TurnArithmetic DEF AskType, NoItem
    <2> QED
      BY <2>1, <2>2 DEF Told, ToldOK
  <1> QED
    BY <1>1, <1>2

GotTold == \A q \in Requests : Told(got[q]) /\ (rpc[q] \in {"remember", "hook"} => got[q].kind = "calls")
EvsTold == \A q \in Requests : \A n \in 1..Len(evs[q]) : Told(evs[q][n])
UpdTold == \A n \in 1..Len(updates) : Told(updates[n])

LEMMA ToldParts ==
  /\ ToldOK <=> GotTold /\ EvsTold /\ UpdTold
  /\ ToldOK' <=> GotTold' /\ EvsTold' /\ UpdTold'
  BY DEF ToldOK, GotTold, EvsTold, UpdTold

LEMMA ToldFrame ==
  ASSUME TypeOK, ToldOK, turn' \in Nat, turn <= turn'
  PROVE  /\ UNCHANGED <<got, rpc>> => GotTold'
         /\ UNCHANGED evs => EvsTold'
         /\ UNCHANGED updates => UpdTold'
  <1>1. \A i \in Items \cup {NoItem} : Told(i) => Told(i)'
    <2>1. turn \in Nat /\ \A i \in Items \cup {NoItem} : i.turn \in Nat
      BY ItemParts, TurnArithmetic DEF TypeOK, DataType, NoItem
    <2> QED
      BY <2>1 DEF Told
  <1>2. \A q \in Requests : got[q] \in Items \cup {NoItem} /\ evs[q] \in Seq(Items)
    BY DEF TypeOK, AskType, FlowType
  <1>3. updates \in Seq(Items)
    BY DEF TypeOK, DataType
  <1>4. UNCHANGED <<got, rpc>> => GotTold'
    BY <1>1, <1>2 DEF ToldOK, Told, GotTold
  <1>5. UNCHANGED evs => EvsTold'
    BY <1>1, <1>2 DEF ToldOK, Told, EvsTold
  <1>6. UNCHANGED updates => UpdTold'
    BY <1>1, <1>3 DEF ToldOK, Told, UpdTold
  <1> QED
    BY <1>4, <1>5, <1>6

LEMMA ReceiveTold ==
  ASSUME TypeOK, ToldOK, NEW q \in Requests, Receive(q), UNCHANGED turn
  PROVE  GotTold' /\ UpdTold'
  <1>1. turn \in Nat
    BY TurnArithmetic DEF TypeOK, DataType
  <1>2. CASE updates = <<>>
    BY <1>2 DEF Receive, ToldOK, GotTold, UpdTold, Told, TypeOK, AskType
  <1>3. CASE updates # <<>>
    <2>1. Head(updates) \in Items /\ Told(Head(updates))
      BY <1>3 DEF TypeOK, DataType, ToldOK
    <2>2. Answer(q, Head(updates)) /\ updates' = Tail(updates)
      BY <1>3 DEF Receive
    <2>3. GotTold'
      BY <1>1, <2>1, <2>2, AnswerTold DEF GotTold, Told, TypeOK
    <2>4. UpdTold'
      BY <1>3, <2>2 DEF UpdTold, ToldOK, Told, TypeOK, DataType
    <2> QED
      BY <2>3, <2>4
  <1> QED
    BY <1>2, <1>3

LEMMA SendUpdateTold ==
  ASSUME TypeOK, ToldOK, NEW i \in Items, SendUpdate(i), turn' \in Nat, turn <= turn',
         i.kind = "calls" => i.turn < turn'
  PROVE  GotTold' /\ UpdTold'
  <1>1. turn \in Nat
    BY TurnArithmetic DEF TypeOK, DataType
  <1>2. ASSUME NEW q \in Waiting, UNCHANGED updates,
               IF rpc[q] = "waiting" THEN Answer(q, i) /\ UNCHANGED drain
                                     ELSE UNCHANGED <<rpc, got>>
        PROVE  GotTold' /\ UpdTold'
    <2>1. UpdTold'
      BY <1>2, ToldFrame
    <2>2. CASE rpc[q] = "waiting"
      BY <1>1, <1>2, <2>1, <2>2, AnswerTold DEF GotTold, TypeOK, Waiting
    <2>3. CASE rpc[q] # "waiting"
      BY <1>2, <2>1, <2>3, ToldFrame
    <2> QED
      BY <2>2, <2>3
  <1>3. CASE updates' = Append(updates, i) /\ UNCHANGED <<rpc, got, drain>>
    <2>1. GotTold'
      BY <1>3, ToldFrame
    <2>2. \A n \in 1..Len(updates) : Told(updates[n])'
      <3>1. \A j \in Items : Told(j) => Told(j)'
        BY <1>1, ItemParts, TurnArithmetic DEF Told
      <3>2. updates' = Append(updates, i) /\ updates \in Seq(Items)
        BY <1>3 DEF TypeOK, DataType
      <3> SUFFICES ASSUME NEW n \in 1..Len(updates) PROVE Told(updates[n])'
        OBVIOUS
      <3>3. updates[n] \in Items /\ updates'[n] = updates[n] /\ Told(updates[n])
        BY <3>2 DEF ToldOK
      <3> QED
        BY <3>1, <3>3 DEF Told
    <2>3. updates' = Append(updates, i) /\ updates \in Seq(Items)
      BY <1>3 DEF TypeOK, DataType
    <2>4. UpdTold'
      <3> SUFFICES ASSUME NEW n \in 1..Len(updates') PROVE Told(updates[n])'
        BY DEF UpdTold
      <3>1. CASE n = Len(updates) + 1
        BY <2>3, <3>1 DEF Told
      <3>2. CASE n # Len(updates) + 1
        <4>1. n \in 1..Len(updates)
          BY <2>3, <3>2
        <4> QED
          BY <2>2, <4>1
      <3> QED
        BY <3>1, <3>2
    <2> QED
      BY <2>1, <2>4
  <1> QED
    BY <1>2, <1>3 DEF SendUpdate

LEMMA SendTold ==
  ASSUME TypeOK, ToldOK, NEW q \in Requests \cup {None}, NEW i \in Items, Told(i), UNCHANGED turn,
         Delivered(q, i) \/ Undelivered(q)
  PROVE  EvsTold'
  <1>1. CASE Undelivered(q)
    BY <1>1, ToldFrame, TurnArithmetic DEF Undelivered, TypeOK, DataType
  <1>2. CASE Delivered(q, i)
    <2> SUFFICES ASSUME NEW p \in Requests, NEW n \in 1..Len(evs'[p]) PROVE Told(evs'[p][n])
      BY DEF EvsTold, Told
    <2>1. q \in Requests /\ evs[p] \in Seq(Items)
          /\ evs'[p] = IF p = q THEN Append(evs[p], i) ELSE evs[p]
      BY <1>2 DEF Delivered, TypeOK, FlowType
    <2>2. CASE p # q \/ n # Len(evs[p]) + 1
      <3>1. n \in 1..Len(evs[p]) /\ evs'[p][n] = evs[p][n]
        BY <2>1, <2>2
      <3> QED
        BY <3>1 DEF ToldOK
    <2>3. CASE p = q /\ n = Len(evs[p]) + 1
      BY <2>1, <2>3
    <2> QED
      BY <2>2, <2>3
  <1> QED
    BY <1>1, <1>2

LEMMA ToldNext == TypeInv /\ [Next]_vars => ToldOK'
  <1> SUFFICES ASSUME TypeOK, LoopOK, ToldOK, [Next]_vars PROVE ToldOK'
    BY DEF TypeInv
  <1> DEFINE Asking(q) == rpc'[q] \in {"remember", "hook"}
  <1>1. turn \in Nat
    BY TurnArithmetic DEF TypeOK, DataType
  <1>2. ASSUME UNCHANGED <<got, evs, updates, turn>>,
               \A q \in Requests : Asking(q) => rpc[q] \in {"remember", "hook"}
        PROVE  ToldOK'
    BY <1>2 DEF ToldOK, Told
  <1>3. ASSUME UNCHANGED <<evs, turn>>, GotTold', UpdTold' PROVE ToldOK'
    <2>1. EvsTold'
      BY <1>1, <1>3, ToldFrame
    <2> QED
      BY <1>3, <2>1, ToldParts
  <1>4. ASSUME NEW q \in Requests, NEW m \in {"json", "stream"},
               Launch(q, m) \/ (\E b \in Batches : Find(q, b, m)) PROVE ToldOK'
    BY <1>4, <1>2 DEF Launch, Find, TypeOK, AskType
  <1>5. ASSUME NEW q \in Requests, Complete(q) \/ Discard(q) \/ Setup(q) \/ Deliver(q) \/ Leave(q)
        PROVE  ToldOK'
    BY <1>5, <1>2 DEF Complete, Discard, Setup, Deliver, Leave, TypeOK, AskType
  <1>6. ASSUME NEW q \in Requests, Remember(q) \/ Hook(q) PROVE ToldOK'
    BY <1>6, <1>2 DEF Remember, Hook, TypeOK, AskType
  <1>7. ASSUME NEW q \in Requests, Attach(q) \/ Forget(q) PROVE ToldOK'
    <2>1. CASE mode[q] = "stream"
      BY <1>7, <2>1, <1>2 DEF Attach, Forget, TypeOK, AskType
    <2>2. CASE mode[q] # "stream"
      BY <1>7, <2>2, <1>3, ReceiveTold DEF Attach, Forget
    <2> QED
      BY <2>1, <2>2
  <1>8. ASSUME NEW q \in Requests, StartDrain(q) PROVE ToldOK'
    <2>1. UNCHANGED <<got, rpc, evs, turn>>
      BY <1>8 DEF StartDrain
    <2>2. UpdTold'
      BY <1>8 DEF StartDrain, UpdTold, ToldOK, Told, TypeOK, DataType
    <2>3. GotTold'
      BY <2>1, <1>1, ToldFrame
    <2> QED
      BY <2>1, <2>2, <2>3, <1>3
  <1>9. ASSUME NEW q \in Requests, DrainEnds(q) \/ WatchCheck(q) \/ WatchEnds(q) \/ CancelContext(q)
        PROVE  ToldOK'
    BY <1>9, <1>2 DEF DrainEnds, WatchCheck, WatchEnds, CancelContext
  <1>10. CASE PublishResult
    <2>1. item \in Items /\ item.turn = turn /\ turn' = IF item.kind = "calls" THEN turn + 1 ELSE turn
      BY <1>10 DEF PublishResult, LoopOK, Emitting
    <2>2. GotTold' /\ UpdTold'
      BY <1>1, <1>10, <2>1, SendUpdateTold DEF PublishResult
    <2>3. EvsTold'
      BY <1>1, <1>10, <2>1, ToldFrame DEF PublishResult
    <2> QED
      BY <2>2, <2>3, ToldParts
  <1>11. CASE PublishError
    <2>1. [turn |-> turn, kind |-> "error"] \in Items
      BY ItemParts DEF TypeOK, DataType
    <2> QED
      BY <1>1, <1>11, <2>1, <1>3, SendUpdateTold DEF PublishError
  <1>12. CASE SendResult \/ SendError
    <2>1. EvsTold'
      <3>1. CASE SendResult
        <4>1. item \in Items /\ (item.kind = "calls" => item.turn + 1 = turn)
              /\ held \in Requests \cup {None}
          BY <3>1 DEF SendResult, LoopOK, TypeOK, DataType
        <4>2. Told(item)
          BY <1>1, <4>1, ItemParts, TurnArithmetic DEF Told
        <4> QED
          BY <3>1, <4>1, <4>2, SendTold DEF SendResult
      <3>2. CASE SendError
        <4>1. [turn |-> turn, kind |-> "error"] \in Items /\ sink \in Requests \cup {None}
          BY ItemParts DEF TypeOK, DataType, RunType
        <4>2. Told([turn |-> turn, kind |-> "error"])
          BY DEF Told
        <4> QED
          BY <3>2, <4>1, <4>2, SendTold DEF SendError
      <3> QED
        BY <1>12, <3>1, <3>2
    <2>2. UNCHANGED <<got, rpc, updates, turn>>
      BY <1>12 DEF SendResult, SendError
    <2> QED
      BY <1>1, <2>1, <2>2, ToldFrame, ToldParts
  <1>13. CASE LoopAborted \/ PersistPending \/ PersistHook \/ PersistSaved \/ PersistFails
    BY <1>13, <1>2 DEF LoopAborted, PersistPending, PersistHook, PersistSaved, PersistFails, Fails
  <1>14. CASE CaptureStreams \/ CloseStreams \/ Finish \/ Disconnected \/ SelectStep
    BY <1>14, <1>2 DEF CaptureStreams, CloseStreams, Finish, Disconnected, SelectStep, TurnParks, TurnEnds,
                       SessionFails, EventRefused, Aborted, RequestDone, IdleTimeout, Fails
  <1>15. CASE \/ SignalAbort \/ AbortCancels \/ AbortReturns \/ (\E b \in Batches : BatchStep(b))
              \/ StopActive \/ StopStep \/ UNCHANGED vars
    BY <1>15, <1>2 DEF SignalAbort, AbortCancels, AbortReturns, BatchStep, Expire, ExpireAborted, CloseForgets,
                       StopActive, StopStep, StopPending, StopCancelAll, StopAborted, StopWaits, vars
  <1> QED
    BY <1>4, <1>5, <1>6, <1>7, <1>8, <1>9, <1>10, <1>11, <1>12, <1>13, <1>14, <1>15
    DEF Next, RequestStep, HelperStep, LoopStep

LEMMA TypeInvNext == TypeInv /\ [Next]_vars => TypeInv'
  BY TypeNext, LoopNext, ToldNext DEF TypeInv

----------------------------------------------------------------------------
(* The course of the session.                                                *)

LEMMA CourseTypes ==
  ASSUME TypeOK
  PROVE  /\ turn \in Nat /\ Batches \subseteq Nat
         /\ batch \in [Batches -> {"none", "open", "completed", "expired"}]
         /\ closing \in [Batches -> {"no", "abort", "hooks", "done"}]
  BY TurnArithmetic DEF TypeOK, DataType, BatchType

LEMMA CourseInit == Init => CourseOK /\ TurnsOK
  <1> SUFFICES ASSUME Init PROVE CourseOK /\ TurnsOK
    OBVIOUS
  <1>1. CourseOK
    BY TurnArithmetic DEF Init, CourseOK, Emitting
  <1>2. TurnsOK
    BY FirstAssumption DEF Init, TurnsOK, TargetsOK, SetupOK, FirstOK, Continuing
  <1> QED
    BY <1>1, <1>2

\* Only the last batch can be open, so closing it leaves none open.
LEMMA CloseBatchesCourse ==
  ASSUME TypeOK, CourseOK, NEW bs \in SUBSET OpenBatches, NEW next, CloseBatches(bs, next),
         UNCHANGED <<loop, item, turn>>
  PROVE  CourseOK'
  <1>1. \A b, c \in Batches : batch[b] = "open" /\ batch[c] = "open" => b = c
    BY CourseTypes DEF CourseOK
  <1>2. \A b \in Batches : /\ batch'[b] = IF b \in bs THEN "expired" ELSE batch[b]
                           /\ closing'[b] = IF b \in bs THEN next ELSE closing[b]
                           /\ b \in bs => batch[b] = "open"
    BY DEF CloseBatches, OpenBatches
  <1>3. sdk' = IF bs # {} THEN "busy" ELSE sdk
    BY DEF CloseBatches
  <1>4. \A b \in Batches : /\ batch'[b] = "none" <=> batch[b] = "none"
                           /\ batch'[b] = "open" => batch[b] = "open" /\ bs = {}
    BY <1>1, <1>2 DEF OpenBatches
  <1>5. \A b \in Batches : closing'[b] # "no" => batch'[b] = "expired"
    BY <1>2 DEF CourseOK
  <1> QED
    BY <1>3, <1>4, <1>5 DEF CourseOK, Emitting

LEMMA CourseNext == TypeInv /\ CourseOK /\ TurnsOK /\ [Next]_vars => CourseOK'
  <1> SUFFICES ASSUME TypeOK, LoopOK, CourseOK, TurnsOK, [Next]_vars PROVE CourseOK'
    BY DEF TypeInv
  <1> USE CourseTypes
  <1>1. ASSUME UNCHANGED <<batch, closing, sdk, item, turn>>,
               loop' = loop \/ (loop \in Emitting /\ loop' \in Emitting)
                  \/ loop' \notin Emitting \cup {"new", "select", "send"}
        PROVE  CourseOK'
    BY <1>1 DEF CourseOK, Emitting
  <1>2. ASSUME NEW q \in Requests, NEW m \in {"json", "stream"}, Launch(q, m) PROVE CourseOK'
    <2>1. \A b \in Batches : batch[b] = "none"
      BY <1>2 DEF Launch, TurnsOK, TargetsOK, SetupOK, FirstOK
    <2> QED
      BY <1>2, <2>1 DEF Launch, CourseOK, TurnsOK, TargetsOK, SetupOK, FirstOK, Emitting
  <1>3. ASSUME NEW q \in Requests, Attach(q) PROVE CourseOK'
    <2>1. \A b \in Batches : batch[b] = "none"
      BY <1>3 DEF Attach, TurnsOK, TargetsOK, SetupOK, FirstOK
    <2> QED
      BY <1>3, <2>1 DEF Attach, CourseOK, Emitting
  <1>4. ASSUME NEW q \in Requests, Complete(q) PROVE CourseOK'
    BY <1>4 DEF Complete, CourseOK, Emitting
  <1>5. ASSUME NEW q \in Requests, Discard(q) PROVE CourseOK'
    BY <1>5, CloseBatchesCourse DEF Discard
  <1>6. ASSUME NEW q \in Requests, Deliver(q) PROVE CourseOK'
    <2>1. \A b \in Batches : batch[b] # "open"
      BY <1>6 DEF Deliver, CourseOK, TurnsOK, TargetsOK, SetupOK, FirstOK, Continuing
    <2> QED
      BY <1>6, <2>1 DEF Deliver, CourseOK, Emitting
  <1>7. ASSUME NEW q \in Requests, Setup(q) \/ Forget(q) \/ Leave(q) \/ Remember(q) \/ Hook(q)
                 \/ (\E m \in {"json", "stream"}, b \in Batches : Find(q, b, m))
        PROVE  CourseOK'
    BY <1>7, <1>1 DEF Setup, Forget, Leave, Remember, Hook, Find
  <1>8. ASSUME NEW q \in Requests, HelperStep(q) \/ CancelContext(q) PROVE CourseOK'
    BY <1>8, <1>1 DEF HelperStep, StartDrain, DrainEnds, WatchCheck, WatchEnds, CancelContext
  <1>9. CASE LoopAborted \/ PersistPending \/ PersistHook \/ PersistSaved \/ PersistFails \/ CaptureStreams
    BY <1>9, <1>1 DEF LoopAborted, PersistPending, PersistHook, PersistSaved, PersistFails, Fails, CaptureStreams,
                      LoopOK, Emitting
  <1>10. CASE PublishResult
    <2>1. CASE item.kind = "calls"
      <3>1. turn + 1 \in Batches /\ batch[turn + 1] # "none" /\ turn' = turn + 1 /\ loop' = "send"
        BY <1>10, <2>1, TurnArithmetic DEF PublishResult, LoopOK, CourseOK, Emitting, TypeOK, DataType
      <3> QED
        BY <1>10, <3>1 DEF PublishResult, CourseOK, Emitting
    <2>2. CASE item.kind # "calls"
      BY <1>10, <2>2 DEF PublishResult, CourseOK, Emitting
    <2> QED
      BY <2>1, <2>2
  <1>11. CASE SendResult \/ SendError
    BY <1>11 DEF SendResult, SendError, CourseOK, LoopOK, Emitting
  <1>12. CASE PublishError \/ CloseStreams \/ Finish \/ Disconnected
    BY <1>12, <1>1 DEF PublishError, CloseStreams, Finish, Disconnected, Emitting
  <1>13. CASE TurnParks
    <2>1. turn + 1 \in Batches /\ batch[turn + 1] = "none" /\ \A b \in Batches : batch[b] # "open"
      BY <1>13, TurnArithmetic DEF TurnParks, CourseOK, OpenBatches, TypeOK, DataType
    <2>2. \A b \in Batches : b # turn + 1 => batch'[b] = batch[b] /\ closing'[b] = closing[b]
      BY <1>13 DEF TurnParks
    <2>3. batch'[turn + 1] \in {"open", "expired"} /\ (batch'[turn + 1] = "open" => sdk' = "quiet")
          /\ (closing'[turn + 1] # "no" => batch'[turn + 1] = "expired")
      BY <1>13, <2>1 DEF TurnParks, CourseOK
    <2>4. loop' \in Emitting /\ item'.kind = "calls" /\ turn' = turn
      BY <1>13 DEF TurnParks, Emitting
    <2> QED
      BY <2>1, <2>2, <2>3, <2>4 DEF CourseOK, Emitting
  <1>14. CASE TurnEnds
    BY <1>14 DEF TurnEnds, CourseOK, Emitting
  <1>15. CASE SessionFails \/ EventRefused \/ Aborted \/ RequestDone \/ IdleTimeout
    BY <1>15, <1>1 DEF SessionFails, EventRefused, Aborted, RequestDone, IdleTimeout, Fails, Emitting
  <1>16. CASE AbortCancels
    BY <1>16, CloseBatchesCourse DEF AbortCancels
  <1>17. CASE StopCancelAll
    BY <1>17, CloseBatchesCourse DEF StopCancelAll
  <1>18. ASSUME NEW b \in Batches, Expire(b) PROVE CourseOK'
    <2>1. {b} \in SUBSET OpenBatches
      BY <1>18 DEF Expire, OpenBatches
    <2> QED
      BY <1>18, <2>1, CloseBatchesCourse DEF Expire
  <1>19. ASSUME NEW b \in Batches, ExpireAborted(b) \/ CloseForgets(b) PROVE CourseOK'
    BY <1>19 DEF ExpireAborted, CloseForgets, CourseOK, Emitting
  <1>20. CASE SignalAbort \/ AbortReturns \/ StopActive \/ StopPending \/ StopAborted \/ StopWaits \/ UNCHANGED vars
    BY <1>20, <1>1 DEF SignalAbort, AbortReturns, StopActive, StopPending, StopAborted, StopWaits, vars
  <1> QED
    BY <1>2, <1>3, <1>4, <1>5, <1>6, <1>7, <1>8, <1>9, <1>10, <1>11, <1>12, <1>13, <1>14, <1>15, <1>16, <1>17,
       <1>18, <1>19, <1>20
    DEF Next, RequestStep, LoopStep, SelectStep, BatchStep, StopStep

\* What becomes of a request that is given a result.
LEMMA AnswerMoves ==
  ASSUME TypeOK
  PROVE  /\ \A q \in Requests, i \in Items : Answer(q, i) =>
                \A p \in Requests : rpc'[p] = rpc[p] \/ (p = q /\ rpc'[p] \in {"remember", "answered"})
         /\ \A q \in Requests : Receive(q) =>
                \A p \in Requests : rpc'[p] = rpc[p] \/ (p = q /\ rpc'[p] \in {"waiting", "remember", "answered"})
         /\ \A i \in Items : SendUpdate(i) =>
                \A p \in Requests : \/ rpc'[p] = rpc[p]
                                    \/ rpc[p] = "waiting" /\ rpc'[p] \in {"remember", "answered"}
  <1>1. \A q \in Requests, i \in Items : Answer(q, i) =>
            \A p \in Requests : rpc'[p] = rpc[p] \/ (p = q /\ rpc'[p] \in {"remember", "answered"})
    BY DEF Answer, TypeOK, AskType
  <1>2. ASSUME NEW q \in Requests, Receive(q), NEW p \in Requests
        PROVE  rpc'[p] = rpc[p] \/ (p = q /\ rpc'[p] \in {"waiting", "remember", "answered"})
    <2>1. CASE updates = <<>>
      BY <1>2, <2>1 DEF Receive, TypeOK, AskType
    <2>2. CASE updates # <<>>
      <3>1. Head(updates) \in Items
        BY <2>2 DEF TypeOK, DataType
      <3> QED
        BY <1>1, <1>2, <2>2, <3>1 DEF Receive
    <2> QED
      BY <2>1, <2>2
  <1>3. ASSUME NEW i \in Items, SendUpdate(i), NEW p \in Requests
        PROVE  rpc'[p] = rpc[p] \/ (rpc[p] = "waiting" /\ rpc'[p] \in {"remember", "answered"})
    BY <1>1, <1>3 DEF SendUpdate, Waiting
  <1> QED
    BY <1>1, <1>2, <1>3

LEMMA CloseBatchesTurns ==
  ASSUME TypeOK, CourseOK, TurnsOK, NEW bs \in SUBSET OpenBatches, NEW next, CloseBatches(bs, next),
         UNCHANGED <<target, turn, sink>>,
         \A q \in Requests : rpc'[q] = rpc[q] \/ rpc'[q] \notin Continuing \cup {"idle", "attach"}
  PROVE  TurnsOK'
  <1>1. \A b \in Batches : batch[b] # "open" => batch'[b] = batch[b]
    BY DEF CloseBatches, OpenBatches
  <1>2. (\E b \in Batches : batch[b] = "open") \/ sdk' = sdk
    BY DEF CloseBatches, OpenBatches
  <1>3. ASSUME NEW q \in Requests, rpc[q] \in {"setup", "deliver"}, NEW b \in Batches PROVE batch[b] # "open"
    <2>1. target[q] \in Batches /\ target[q] = turn /\ batch[turn] = "completed"
          /\ \A c \in Batches : c > turn => batch[c] = "none"
      BY <1>3 DEF TurnsOK, TargetsOK, SetupOK, FirstOK, Continuing
    <2> QED
      BY <2>1, CourseTypes DEF CourseOK
  <1> QED
    <2>1. TargetsOK'
      BY <1>1, <1>2, <1>3 DEF TurnsOK, TargetsOK, Continuing
    <2>2. SetupOK'
      BY <1>1, <1>2, <1>3 DEF TurnsOK, TargetsOK, SetupOK, Continuing
    <2>3. FirstOK'
      BY <1>1, <1>2, <1>3, FirstAssumption DEF TurnsOK, FirstOK, Continuing
    <2> QED
      BY <2>1, <2>2, <2>3 DEF TurnsOK

LEMMA TurnsNext == TypeInv /\ CourseOK /\ TurnsOK /\ [Next]_vars => TurnsOK'
  <1> SUFFICES ASSUME TypeOK, LoopOK, ToldOK, CourseOK, TurnsOK, [Next]_vars PROVE TurnsOK'
    BY DEF TypeInv
  <1> USE CourseTypes
  <1>0. rpc \in [Requests -> {"idle", "attach", "complete", "setup", "deliver", "forget", "open",
                             "waiting", "remember", "hook", "answered", "refused"}]
        /\ target \in [Requests -> Turns]
    BY DEF TypeOK, AskType
  <1>1. ASSUME UNCHANGED <<target, turn, batch, sdk>>, sink' \in {sink, None},
               \A q \in Requests : rpc'[q] = rpc[q] \/ rpc'[q] \notin Continuing \cup {"idle", "attach"}
        PROVE  TurnsOK'
    <2>1. TargetsOK'
      BY <1>1 DEF TurnsOK, TargetsOK, Continuing
    <2>2. SetupOK'
      BY <1>1 DEF TurnsOK, SetupOK, Continuing
    <2>3. FirstOK'
      BY <1>1, FirstAssumption DEF TurnsOK, FirstOK, Continuing
    <2> QED
      BY <2>1, <2>2, <2>3 DEF TurnsOK
  <1>2. ASSUME NEW q \in Requests, NEW m \in {"json", "stream"}, Launch(q, m) PROVE TurnsOK'
    <2>1. q = First /\ UNCHANGED <<target, turn, batch, sdk, sink>> /\ rpc[q] = "idle"
          /\ rpc'[q] \in {"attach", "refused"} /\ \A p \in Requests : p # q => rpc'[p] = rpc[p]
      BY <1>0, <1>2 DEF Launch
    <2> QED
      <3>1. TargetsOK'
        BY <2>1 DEF TurnsOK, TargetsOK, Continuing
      <3>2. SetupOK'
        BY <2>1 DEF TurnsOK, SetupOK, Continuing
      <3>3. FirstOK'
        BY <2>1, FirstAssumption DEF TurnsOK, FirstOK, Continuing
      <3> QED
        BY <3>1, <3>2, <3>3 DEF TurnsOK
  <1>3. ASSUME NEW q \in Requests, NEW m \in {"json", "stream"}, NEW b \in Batches, Find(q, b, m) PROVE TurnsOK'
    <2>1. b <= turn
      <3>1. PICK i \in Items \cup {NoItem} : i = [turn |-> b - 1, kind |-> "calls"] /\ Told(i)
        <4>1. PICK p \in Requests : \/ got[p] = [turn |-> b - 1, kind |-> "calls"]
                                    \/ \E n \in 1..Len(evs[p]) : evs[p][n] = [turn |-> b - 1, kind |-> "calls"]
          BY <1>3 DEF Find, Known
        <4>2. got[p] \in Items \cup {NoItem} /\ evs[p] \in Seq(Items)
          BY DEF TypeOK, AskType, FlowType
        <4> QED
          BY <4>1, <4>2 DEF ToldOK
      <3>2. b - 1 < turn
        BY <3>1 DEF Told
      <3> QED
        BY <3>2
    <2>2. UNCHANGED <<turn, batch, sdk, sink>> /\ q # First /\ rpc[q] = "idle"
          /\ \A p \in Requests : p # q => rpc'[p] = rpc[p] /\ target'[p] = target[p]
      BY <1>0, <1>3 DEF Find
    <2>3. (rpc'[q] = "refused" /\ target'[q] = target[q]) \/ (rpc'[q] = "complete" /\ target'[q] = b)
      <3>1. CASE b \in tracked /\ batch[b] = "open"
        <4>1. rpc' = [rpc EXCEPT ![q] = "complete"] /\ target' = [target EXCEPT ![q] = b]
          BY <1>3, <3>1 DEF Find
        <4> QED
          BY <1>0, <4>1
      <3>2. CASE ~(b \in tracked /\ batch[b] = "open")
        <4>1. rpc' = [rpc EXCEPT ![q] = "refused"] /\ target' = target
          BY <1>3, <3>2, Zenon DEF Find
        <4> QED
          BY <1>0, <4>1
      <3> QED
        BY <3>1, <3>2
    <2> QED
      <3>1. TargetsOK'
        BY <2>1, <2>2, <2>3 DEF TurnsOK, TargetsOK, Continuing
      <3>2. SetupOK'
        BY <2>1, <2>2, <2>3 DEF TurnsOK, SetupOK, Continuing
      <3>3. FirstOK'
        BY <2>1, <2>2, <2>3, FirstAssumption DEF TurnsOK, FirstOK, Continuing
      <3> QED
        BY <3>1, <3>2, <3>3 DEF TurnsOK
  <1>4. ASSUME NEW q \in Requests, Attach(q) PROVE TurnsOK'
    <2>1. q = First /\ \A b \in Batches : batch[b] = "none"
      BY <1>4 DEF Attach, TurnsOK, TargetsOK, SetupOK, FirstOK
    <2>2. UNCHANGED <<target, turn, batch>> /\ rpc'[q] \in {"open", "waiting", "remember", "answered"}
          /\ \A p \in Requests : p # q => rpc'[p] = rpc[p]
      <3>1. CASE mode[q] = "stream"
        BY <1>0, <1>4, <3>1 DEF Attach
      <3>2. CASE mode[q] # "stream"
        <4>1. Receive(q) /\ UNCHANGED <<target, turn, batch>>
          BY <1>4, <3>2 DEF Attach
        <4>2. rpc[q] = "attach" /\ rpc'[q] # "attach"
          BY <1>0, <1>4, <4>1 DEF Receive, Answer, Attach
        <4> QED
          BY <4>1, <4>2, AnswerMoves
      <3> QED
        BY <3>1, <3>2
    <2>3. \A p \in Requests : rpc[p] \notin {"setup", "deliver", "forget"}
      BY <2>1 DEF TurnsOK, TargetsOK, SetupOK, FirstOK, Continuing
    <2> QED
      <3>1. TargetsOK'
        BY <2>1, <2>2, <2>3 DEF TurnsOK, TargetsOK, Continuing
      <3>2. SetupOK'
        BY <2>1, <2>2, <2>3 DEF TurnsOK, SetupOK, Continuing
      <3>3. FirstOK'
        BY <2>1, <2>2, <2>3, FirstAssumption DEF TurnsOK, FirstOK, Continuing
      <3> QED
        BY <3>1, <3>2, <3>3 DEF TurnsOK
  <1>5. ASSUME NEW q \in Requests, Complete(q) PROVE TurnsOK'
    <2>1. UNCHANGED <<target, turn, sdk, sink>> /\ rpc[q] = "complete"
          /\ \A p \in Requests : p # q => rpc'[p] = rpc[p]
      BY <1>0, <1>5 DEF Complete
    <2>2. CASE UNCHANGED batch /\ rpc' = [rpc EXCEPT ![q] = "refused"]
      BY <1>0, <2>1, <2>2, <1>1 DEF Continuing
    <2>3. CASE /\ batch[target[q]] = "open"
               /\ batch' = [batch EXCEPT ![target[q]] = "completed"]
               /\ rpc'[q] \in {"setup", "deliver"}
      <3>1. target[q] \in Batches /\ target[q] <= turn /\ q # First
        BY <2>1 DEF TurnsOK, TargetsOK, SetupOK, FirstOK, Continuing
      <3>2. turn \in Batches /\ batch[turn] # "none"
        BY <3>1, ParksAssumption DEF Batches, Turns, CourseOK, TypeOK, DataType
      <3>3. target[q] = turn /\ sdk = "quiet" /\ \A b \in Batches : b > turn => batch[b] = "none"
        BY <2>3, <3>1, <3>2 DEF CourseOK
      <3>4. \A b \in Batches : batch'[b] = IF b = turn THEN "completed" ELSE batch[b]
        BY <2>3, <3>3
      <3>5. \A p \in Requests : rpc[p] \notin {"setup", "deliver"}
        BY <2>3, <3>3 DEF TurnsOK, TargetsOK, SetupOK, FirstOK
      <3>6. rpc[First] \notin {"idle", "attach"}
        BY <2>3, <3>1 DEF TurnsOK, TargetsOK, SetupOK, FirstOK
      <3> QED
        <4>1. TargetsOK'
          BY <2>1, <2>3, <3>1, <3>2, <3>3, <3>4, <3>5, <3>6 DEF TurnsOK, TargetsOK, Continuing
        <4>2. SetupOK'
          BY <2>1, <2>3, <3>1, <3>2, <3>3, <3>4, <3>5, <3>6 DEF TurnsOK, SetupOK, Continuing
        <4>3. FirstOK'
          BY <2>1, <2>3, <3>1, <3>2, <3>3, <3>4, <3>5, <3>6, FirstAssumption DEF TurnsOK, FirstOK, Continuing
        <4> QED
          BY <4>1, <4>2, <4>3 DEF TurnsOK
    <2> QED
      BY <1>0, <1>5, <2>2, <2>3 DEF Complete
  <1>6. ASSUME NEW q \in Requests, Discard(q) PROVE TurnsOK'
    <2>1. UNCHANGED <<target, turn, sink>> /\ rpc' = [rpc EXCEPT ![q] = "refused"]
          /\ CloseBatches({target[q]} \cap OpenBatches, "hooks")
      BY <1>6 DEF Discard
    <2>2. \A p \in Requests : rpc'[p] = rpc[p] \/ rpc'[p] \notin Continuing \cup {"idle", "attach"}
      BY <1>0, <2>1 DEF Continuing
    <2> QED
      BY <2>1, <2>2, CloseBatchesTurns
  <1>7. ASSUME NEW q \in Requests, Setup(q) PROVE TurnsOK'
    <2>1. UNCHANGED <<target, turn, batch, sdk>> /\ rpc[q] = "setup" /\ rpc'[q] = "deliver"
          /\ \A p \in Requests : p # q => rpc'[p] = rpc[p]
      BY <1>0, <1>7 DEF Setup
    <2>2. rpc[First] \notin {"idle", "attach"}
      BY <2>1 DEF TurnsOK, TargetsOK, SetupOK, FirstOK, Continuing
    <2> QED
      <3>1. TargetsOK'
        BY <2>1, <2>2 DEF TurnsOK, TargetsOK, Continuing
      <3>2. SetupOK'
        BY <2>1, <2>2 DEF TurnsOK, SetupOK, Continuing
      <3>3. FirstOK'
        BY <2>1, <2>2, FirstAssumption DEF TurnsOK, FirstOK, Continuing
      <3> QED
        BY <3>1, <3>2, <3>3 DEF TurnsOK
  <1>8. ASSUME NEW q \in Requests, Deliver(q) PROVE TurnsOK'
    <2>1. UNCHANGED <<target, turn, batch, sink>> /\ rpc[q] = "deliver" /\ rpc'[q] = "forget"
          /\ \A p \in Requests : p # q => rpc'[p] = rpc[p]
      BY <1>0, <1>8 DEF Deliver
    <2>2. rpc[First] \notin {"idle", "attach"} /\ batch[target[q]] = "completed"
          /\ target[q] \in Batches /\ \A p \in Requests : p # q => rpc[p] \notin {"setup", "deliver"}
      BY <2>1 DEF TurnsOK, TargetsOK, SetupOK, FirstOK, Continuing
    <2> QED
      <3>1. TargetsOK'
        BY <2>1, <2>2 DEF TurnsOK, TargetsOK, Continuing
      <3>2. SetupOK'
        BY <2>1, <2>2 DEF TurnsOK, SetupOK, Continuing
      <3>3. FirstOK'
        BY <2>1, <2>2, FirstAssumption DEF TurnsOK, FirstOK, Continuing
      <3> QED
        BY <3>1, <3>2, <3>3 DEF TurnsOK
  <1>9. ASSUME NEW q \in Requests, Forget(q) PROVE TurnsOK'
    <2>1. UNCHANGED <<target, turn, batch, sdk, sink>> /\ rpc[q] = "forget"
      BY <1>9 DEF Forget
    <2>2. \A p \in Requests : rpc'[p] = rpc[p] \/ rpc'[p] \notin Continuing \cup {"idle", "attach"}
      <3>1. CASE mode[q] = "stream"
        BY <1>0, <1>9, <3>1 DEF Forget, Continuing
      <3>2. CASE mode[q] # "stream"
        BY <1>9, <3>2, AnswerMoves DEF Forget, Continuing
      <3> QED
        BY <3>1, <3>2
    <2> QED
      BY <2>1, <2>2, <1>1
  <1>10. ASSUME NEW q \in Requests, Leave(q) \/ Remember(q) \/ Hook(q) PROVE TurnsOK'
    BY <1>0, <1>10, <1>1 DEF Leave, Remember, Hook, Continuing
  <1>11. ASSUME NEW q \in Requests, HelperStep(q) \/ CancelContext(q) PROVE TurnsOK'
    BY <1>11, <1>1 DEF HelperStep, StartDrain, DrainEnds, WatchCheck, WatchEnds, CancelContext
  <1>12. CASE PublishResult
    <2>1. UNCHANGED <<target, batch, sdk, sink>> /\ loop = "publish" /\ item \in Items
          /\ turn' = (IF item.kind = "calls" THEN turn + 1 ELSE turn) /\ SendUpdate(item)
          /\ (item.kind = "calls" => turn < Parks)
      BY <1>12 DEF PublishResult, LoopOK, Emitting
    <2>2. \A p \in Requests : rpc'[p] = rpc[p] \/ rpc'[p] \notin Continuing \cup {"idle", "attach"}
      BY <2>1, AnswerMoves DEF Continuing
    <2>3. CASE item.kind # "calls"
      BY <2>1, <2>2, <2>3, <1>1
    <2>4. CASE item.kind = "calls"
      <3>1. turn + 1 \in Batches /\ batch[turn + 1] # "none"
        BY <2>1, <2>4, TurnArithmetic DEF CourseOK, Emitting, TypeOK, DataType
      <3>2. rpc[First] \notin {"idle", "attach"} /\ \A p \in Requests : rpc[p] \notin {"setup", "deliver"}
        BY <3>1 DEF TurnsOK, TargetsOK, SetupOK, FirstOK
      <3> QED
        <4>1. TargetsOK'
          BY <1>0, <2>1, <2>2, <2>4, <3>2, TurnArithmetic DEF TurnsOK, TargetsOK, Continuing
        <4>2. SetupOK'
          BY <1>0, <2>1, <2>2, <2>4, <3>2, TurnArithmetic DEF TurnsOK, SetupOK, Continuing
        <4>3. FirstOK'
          BY <1>0, <2>1, <2>2, <2>4, <3>2, TurnArithmetic, FirstAssumption DEF TurnsOK, FirstOK, Continuing
        <4> QED
          BY <4>1, <4>2, <4>3 DEF TurnsOK
    <2> QED
      BY <2>3, <2>4
  <1>13. CASE PublishError
    <2>1. [turn |-> turn, kind |-> "error"] \in Items
      BY ItemParts DEF TypeOK, DataType
    <2>2. \A p \in Requests : rpc'[p] = rpc[p] \/ rpc'[p] \notin Continuing \cup {"idle", "attach"}
      BY <1>13, <2>1, AnswerMoves DEF PublishError, Continuing
    <2> QED
      BY <1>13, <2>2, <1>1 DEF PublishError
  <1>14. CASE TurnParks
    <2>1. \A p \in Requests : rpc[p] \notin {"setup", "deliver"}
      BY <1>14 DEF TurnParks, TurnsOK, TargetsOK, SetupOK, FirstOK
    <2>2. rpc[First] \notin {"idle", "attach"}
      BY <1>14 DEF TurnParks, TurnsOK, TargetsOK, SetupOK, FirstOK
    <2>3. \A b \in Batches : batch[b] = "completed" => batch'[b] = "completed"
      <3>1. batch[turn + 1] = "none" /\ turn + 1 \in Batches
        BY <1>14, TurnArithmetic DEF TurnParks, CourseOK, TypeOK, DataType
      <3> QED
        BY <1>14, <3>1 DEF TurnParks
    <2> QED
      BY <1>14, <2>1, <2>2, <2>3 DEF TurnParks, TurnsOK, TargetsOK, SetupOK, FirstOK, Continuing
  <1>15. CASE LoopAborted \/ PersistPending \/ PersistHook \/ PersistSaved \/ PersistFails \/ CaptureStreams
    BY <1>15, <1>1 DEF LoopAborted, PersistPending, PersistHook, PersistSaved, PersistFails, Fails, CaptureStreams
  <1>16. CASE SendResult \/ SendError \/ CloseStreams \/ Finish \/ Disconnected
    BY <1>16, <1>1 DEF SendResult, SendError, CloseStreams, Finish, Disconnected
  <1>17. CASE TurnEnds \/ SessionFails \/ EventRefused \/ Aborted \/ RequestDone \/ IdleTimeout
    BY <1>17, <1>1 DEF TurnEnds, SessionFails, EventRefused, Aborted, RequestDone, IdleTimeout, Fails
  <1>18. CASE AbortCancels
    BY <1>18, CloseBatchesTurns DEF AbortCancels
  <1>19. CASE StopCancelAll
    BY <1>19, CloseBatchesTurns DEF StopCancelAll
  <1>20. ASSUME NEW b \in Batches, Expire(b) PROVE TurnsOK'
    <2>1. {b} \in SUBSET OpenBatches
      BY <1>20 DEF Expire, OpenBatches
    <2> QED
      BY <1>20, <2>1, CloseBatchesTurns DEF Expire
  <1>21. ASSUME NEW b \in Batches, ExpireAborted(b) \/ CloseForgets(b) PROVE TurnsOK'
    BY <1>21, <1>1 DEF ExpireAborted, CloseForgets
  <1>22. CASE SignalAbort \/ AbortReturns \/ StopActive \/ StopPending \/ StopAborted \/ StopWaits \/ UNCHANGED vars
    BY <1>22, <1>1 DEF SignalAbort, AbortReturns, StopActive, StopPending, StopAborted, StopWaits, vars
  <1> QED
    BY <1>2, <1>3, <1>4, <1>5, <1>6, <1>7, <1>8, <1>9, <1>10, <1>11, <1>12, <1>13, <1>14, <1>15, <1>16, <1>17,
       <1>18, <1>19, <1>20, <1>21, <1>22
    DEF Next, RequestStep, LoopStep, SelectStep, BatchStep, StopStep

----------------------------------------------------------------------------
(* The streams.                                                              *)

LEMMA LaunchNext == TypeInv /\ LaunchOK /\ [Next]_vars => LaunchOK'
  <1> SUFFICES ASSUME TypeOK, LaunchOK, [Next]_vars PROVE LaunchOK'
    BY DEF TypeInv
  <1>0. rpc \in [Requests -> {"idle", "attach", "complete", "setup", "deliver", "forget", "open",
                             "waiting", "remember", "hook", "answered", "refused"}]
    BY DEF TypeOK, AskType
  <1>1. ASSUME loop' = loop, rpc'[First] # rpc[First] => rpc'[First] # "idle" PROVE LaunchOK'
    BY <1>1 DEF LaunchOK
  <1>2. ASSUME loop # "new", rpc'[First] # rpc[First] => rpc'[First] # "idle" PROVE LaunchOK'
    BY <1>2 DEF LaunchOK
  <1>3. ASSUME NEW q \in Requests, NEW m \in {"json", "stream"}, Launch(q, m) PROVE LaunchOK'
    BY <1>0, <1>3, FirstAssumption DEF Launch, LaunchOK
  <1>4. ASSUME NEW q \in Requests, NEW m \in {"json", "stream"}, NEW b \in Batches, Find(q, b, m) PROVE LaunchOK'
    BY <1>0, <1>1, <1>4, FirstAssumption DEF Find
  <1>5. ASSUME NEW q \in Requests, Attach(q) \/ Forget(q) PROVE LaunchOK'
    <2>1. loop' = loop
      BY <1>5 DEF Attach, Forget
    <2>2. CASE mode[q] = "stream"
      BY <1>0, <1>1, <1>5, <2>1, <2>2, FirstAssumption DEF Attach, Forget
    <2>3. CASE mode[q] # "stream"
      BY <1>1, <1>5, <2>1, <2>3, AnswerMoves, FirstAssumption DEF Attach, Forget
    <2> QED
      BY <2>2, <2>3
  <1>6. ASSUME NEW q \in Requests, Complete(q) \/ Discard(q) \/ Setup(q) \/ Deliver(q) \/ Leave(q) \/ Remember(q)
                                   \/ Hook(q)
        PROVE  LaunchOK'
    BY <1>0, <1>1, <1>6, FirstAssumption DEF Complete, Discard, Setup, Deliver, Leave, Remember, Hook
  <1>7. ASSUME NEW q \in Requests, HelperStep(q) \/ CancelContext(q) PROVE LaunchOK'
    BY <1>1, <1>7 DEF HelperStep, StartDrain, DrainEnds, WatchCheck, WatchEnds, CancelContext
  <1>8. CASE LoopAborted \/ PersistPending \/ PersistHook \/ PersistSaved \/ PersistFails \/ CaptureStreams
    BY <1>2, <1>8 DEF LoopAborted, PersistPending, PersistHook, PersistSaved, PersistFails, Fails, CaptureStreams
  <1>9. CASE PublishResult \/ PublishError
    <2>1. PICK i : SendUpdate(i)
      BY <1>9 DEF PublishResult, PublishError
    <2>2. rpc'[First] # rpc[First] => rpc'[First] # "idle"
      BY <1>0, <2>1, FirstAssumption DEF SendUpdate, Answer, Waiting
    <2> QED
      BY <1>2, <1>9, <2>2 DEF PublishResult, PublishError
  <1>10. CASE SendResult \/ SendError \/ CloseStreams \/ Finish \/ Disconnected \/ TurnParks \/ TurnEnds
    BY <1>2, <1>10 DEF SendResult, SendError, CloseStreams, Finish, Disconnected, TurnParks, TurnEnds
  <1>11. CASE SessionFails \/ EventRefused \/ Aborted \/ RequestDone \/ IdleTimeout
    BY <1>2, <1>11 DEF SessionFails, EventRefused, Aborted, RequestDone, IdleTimeout, Fails
  <1>12. CASE \/ SignalAbort \/ AbortCancels \/ AbortReturns \/ (\E b \in Batches : BatchStep(b))
              \/ StopActive \/ StopStep \/ UNCHANGED vars
    BY <1>1, <1>12 DEF SignalAbort, AbortCancels, AbortReturns, BatchStep, Expire, ExpireAborted, CloseForgets,
                       StopActive, StopStep, StopPending, StopCancelAll, StopAborted, StopWaits, vars
  <1> QED
    BY <1>3, <1>4, <1>5, <1>6, <1>7, <1>8, <1>9, <1>10, <1>11, <1>12
    DEF Next, RequestStep, LoopStep, SelectStep

LEMMA StreamTypes ==
  ASSUME TypeOK
  PROVE  /\ sink \in Requests \cup {None} /\ held \in Requests \cup {None}
         /\ evs \in [Requests -> Seq(Items)]
         /\ chan \in [Requests -> {"none", "open", "closed"}]
         /\ target \in [Requests -> Turns]
         /\ rpc \in [Requests -> {"idle", "attach", "complete", "setup", "deliver", "forget", "open",
                                  "waiting", "remember", "hook", "answered", "refused"}]
         /\ turn \in Turns
  BY DEF TypeOK, DataType, RunType, FlowType, AskType

\* A stream is attached to a turn that has just begun.
LEMMA AttachStreamOK ==
  ASSUME TypeOK, StreamOK, NEW q \in Requests, rpc[q] \in Fresh, AttachStream(q), target[q] = turn,
         ~(loop = "publish" /\ item.kind = "calls"),
         rpc'[q] \notin Fresh, \A p \in Requests : p # q => rpc'[p] = rpc[p],
         UNCHANGED <<loop, held, evs, item, turn, target>>
  PROVE  StreamOK'
  <1> USE StreamTypes, NoneAssumption
  <1>1. chan[q] = "none" /\ evs[q] = <<>> /\ held # q /\ sink # q
    BY DEF StreamOK, EventsOK, StreamsOpen
  <1>2. \A p \in Requests : p # q => chan'[p] = chan[p]
    BY DEF AttachStream
  <1>3. (sink' = q /\ chan'[q] = "open") \/ (sink' = sink /\ chan'[q] = chan[q])
    BY DEF AttachStream
  <1>4. StreamsOpen'
    BY <1>1, <1>2, <1>3 DEF StreamOK, StreamsOpen
  <1>5. StreamedOwnTurn'
    BY DEF StreamOK, StreamedOwnTurn
  <1>6. SinkOK'
    BY <1>1, <1>3 DEF StreamOK, SinkOK
  <1>7. EventsOK'
    BY <1>1, <1>2, <1>3 DEF StreamOK, EventsOK
  <1> QED
    BY <1>4, <1>5, <1>6, <1>7 DEF StreamOK

\* One event is sent to a stream that has had none.
LEMMA SendEvents ==
  ASSUME TypeOK, StreamOK, NEW q \in Requests \cup {None}, NEW i \in Items,
         Delivered(q, i) \/ Undelivered(q),
         q # None => evs[q] = <<>> /\ i.turn = target[q], UNCHANGED target
  PROVE  /\ StreamedOwnTurn'
         /\ \A p \in Requests : /\ Len(evs'[p]) <= 1
                                /\ p # q => evs'[p] = evs[p]
  <1>1. CASE Undelivered(q)
    BY <1>1, StreamTypes DEF Undelivered, StreamOK, StreamedOwnTurn, StreamsOpen
  <1>2. CASE Delivered(q, i)
    <2>1. q \in Requests /\ \A p \in Requests : evs'[p] = IF p = q THEN Append(evs[p], i) ELSE evs[p]
      BY <1>2, StreamTypes, NoneAssumption DEF Delivered
    <2>2. evs'[q] = <<i>> /\ i.turn = target[q]
      <3>1. evs'[q] = Append(<<>>, i) /\ i.turn = target[q]
        BY <2>1, NoneAssumption
      <3> QED
        BY <3>1
    <2>3. ASSUME NEW p \in Requests, p # q PROVE Len(evs'[p]) <= 1 /\ evs'[p] = evs[p]
      BY <2>1, <2>3 DEF StreamOK, StreamsOpen
    <2>4. StreamedOwnTurn'
      <3> SUFFICES ASSUME NEW p \in Requests, NEW n \in 1..Len(evs'[p]) PROVE evs'[p][n].turn = target[p]
        BY DEF StreamedOwnTurn
      <3>1. CASE p = q
        <4>1. evs'[p] = <<i>> /\ Len(<<i>>) = 1 /\ n \in 1..Len(evs'[p])
          BY <2>2, <3>1
        <4>2. n = 1
          BY <4>1
        <4> QED
          BY <2>2, <3>1, <4>2
      <3>2. CASE p # q
        BY <2>3, <3>2 DEF StreamOK, StreamedOwnTurn
      <3> QED
        BY <3>1, <3>2
    <2>5. Len(evs'[q]) <= 1
      BY <2>2
    <2> QED
      BY <2>1, <2>3, <2>4, <2>5
  <1> QED
    BY <1>1, <1>2

LEMMA SendResultOK == TypeOK /\ LoopOK /\ StreamOK /\ SendResult => StreamOK'
  <1> SUFFICES ASSUME TypeOK, LoopOK, StreamOK, SendResult PROVE StreamOK'
    OBVIOUS
  <1> USE StreamTypes, NoneAssumption
  <1>1. item \in Items /\ loop = "send" /\ item.kind \in {"calls", "stop"}
        /\ UNCHANGED <<sink, turn, target, rpc>> /\ held' = None
    BY DEF SendResult, LoopOK
  <1>2. held # None => evs[held] = <<>> /\ item.turn = target[held] /\ chan[held] = "open"
    BY DEF StreamOK, EventsOK, SinkOK, StreamsOpen
  <1>3. StreamedOwnTurn' /\ \A p \in Requests : Len(evs'[p]) <= 1 /\ (p # held => evs'[p] = evs[p])
    <2>1. Delivered(held, item) \/ Undelivered(held)
      BY DEF SendResult
    <2> QED
      BY <1>1, <1>2, <2>1, SendEvents
  <1>4. \A p \in Requests : p # held \/ item.kind # "calls" => chan'[p] = chan[p]
    BY DEF SendResult
  <1>5. loop' = IF item.kind = "calls" THEN "select" ELSE "disconnect"
    BY DEF SendResult
  <1>6. StreamsOpen'
    BY <1>1, <1>3, <1>4 DEF StreamOK, StreamsOpen, SinkOK
  <1>7. SinkOK'
    BY <1>1, <1>5 DEF StreamOK, SinkOK
  <1>8. EventsOK'
    <2>1. \A p \in Requests : rpc[p] \in Fresh => p # held
      BY <1>2 DEF StreamOK, EventsOK
    <2>2. \A p \in Requests : rpc'[p] \in Fresh => chan'[p] = "none" /\ evs'[p] = <<>>
      BY <1>1, <1>3, <1>4, <2>1 DEF StreamOK, EventsOK
    <2>3. ASSUME NEW p \in Requests, evs'[p] # <<>>, sink' = p PROVE loop' \in {"disconnect", "exit"}
      <3>1. p = held
        BY <1>1, <1>3, <2>3 DEF StreamOK, EventsOK
      <3>2. item.kind # "calls"
        BY <1>1, <2>3, <3>1 DEF StreamOK, SinkOK
      <3> QED
        BY <1>5, <3>2
    <2> QED
      BY <1>1, <2>2, <2>3 DEF EventsOK
  <1> QED
    BY <1>3, <1>6, <1>7, <1>8 DEF StreamOK

LEMMA SendErrorOK == TypeOK /\ LoopOK /\ StreamOK /\ SendError => StreamOK'
  <1> SUFFICES ASSUME TypeOK, LoopOK, StreamOK, SendError PROVE StreamOK'
    OBVIOUS
  <1> USE StreamTypes, NoneAssumption
  <1> DEFINE e == [turn |-> turn, kind |-> "error"]
  <1>1. e \in Items /\ e.turn = turn
    BY ItemParts
  <1>2. loop = "failSend" /\ held = None /\ UNCHANGED <<held, turn, target, rpc>> /\ sink' = None
        /\ loop' # "publish"
    BY DEF SendError, StreamOK, SinkOK, LoopOK
  <1>3. sink # None => evs[sink] = <<>> /\ chan[sink] = "open" /\ e.turn = target[sink]
    BY <1>1, <1>2 DEF StreamOK, EventsOK, SinkOK, StreamsOpen
  <1>4. StreamedOwnTurn' /\ \A p \in Requests : Len(evs'[p]) <= 1 /\ (p # sink => evs'[p] = evs[p])
    <2>1. Delivered(sink, e) \/ Undelivered(sink)
      BY DEF SendError
    <2> HIDE DEF e
    <2> QED
      BY <1>1, <1>2, <1>3, <2>1, SendEvents
  <1>5. \A p \in Requests : p # sink => chan'[p] = chan[p]
    BY DEF SendError
  <1>6. StreamsOpen' /\ SinkOK'
    BY <1>2, <1>4 DEF StreamsOpen, SinkOK
  <1>7. EventsOK'
    BY <1>2, <1>3, <1>4, <1>5 DEF StreamOK, EventsOK
  <1> QED
    BY <1>4, <1>6, <1>7 DEF StreamOK

LEMMA StreamInit == Init => StreamOK /\ LaunchOK
  BY FirstAssumption DEF Init, StreamOK, StreamsOpen, StreamedOwnTurn, SinkOK, EventsOK, LaunchOK

LEMMA StreamNext == TypeInv /\ CourseOK /\ TurnsOK /\ LaunchOK /\ StreamOK /\ [Next]_vars => StreamOK'
  <1> SUFFICES ASSUME TypeOK, LoopOK, CourseOK, TurnsOK, LaunchOK, StreamOK, [Next]_vars PROVE StreamOK'
    BY DEF TypeInv
  <1> USE StreamTypes
  <1>1. ASSUME UNCHANGED <<sink, held, chan, evs, item, turn, target>>,
               \/ loop' = loop
               \/ /\ loop' # "publish" /\ loop \notin {"publish", "send", "exit"}
                  /\ loop = "disconnect" => loop' = "exit",
               \A q \in Requests : rpc'[q] \in Fresh => rpc[q] \in Fresh
        PROVE  StreamOK'
    <2>1. StreamsOpen' /\ StreamedOwnTurn'
      BY <1>1 DEF StreamOK, StreamsOpen, StreamedOwnTurn
    <2>2. SinkOK'
      BY <1>1 DEF StreamOK, SinkOK
    <2>3. EventsOK'
      BY <1>1 DEF StreamOK, EventsOK
    <2> QED
      BY <2>1, <2>2, <2>3 DEF StreamOK
  <1>2. ASSUME NEW q \in Requests, NEW m \in {"json", "stream"}, Launch(q, m) PROVE StreamOK'
    BY <1>1, <1>2 DEF Launch, LaunchOK, Fresh
  <1>3. ASSUME NEW q \in Requests, NEW m \in {"json", "stream"}, NEW b \in Batches, Find(q, b, m) PROVE StreamOK'
    <2>1. UNCHANGED <<loop, sink, held, chan, evs, item, turn>> /\ rpc[q] = "idle"
          /\ \A p \in Requests : p # q => rpc'[p] = rpc[p] /\ target'[p] = target[p]
      BY <1>3 DEF Find
    <2>2. chan[q] = "none" /\ evs[q] = <<>> /\ held # q /\ sink # q
      BY <2>1, NoneAssumption DEF StreamOK, EventsOK, StreamsOpen, Fresh
    <2>3. StreamsOpen' /\ StreamedOwnTurn'
      BY <2>1, <2>2 DEF StreamOK, StreamsOpen, StreamedOwnTurn
    <2>4. SinkOK'
      BY <2>1, <2>2, NoneAssumption DEF StreamOK, SinkOK
    <2>5. EventsOK'
      BY <2>1, <2>2 DEF StreamOK, EventsOK
    <2> QED
      BY <2>3, <2>4, <2>5 DEF StreamOK
  <1>4. ASSUME NEW q \in Requests, Attach(q) PROVE StreamOK'
    <2>1. q = First /\ target[q] = turn /\ \A b \in Batches : batch[b] = "none"
      BY <1>4 DEF Attach, TurnsOK, FirstOK
    <2>2. ~(loop = "publish" /\ item.kind = "calls")
      <3>1. loop = "publish" /\ item.kind = "calls" => turn + 1 \in Batches /\ batch[turn + 1] # "none"
        BY TurnArithmetic DEF LoopOK, CourseOK, Emitting
      <3> QED
        BY <2>1, <3>1
    <2>3. rpc[q] \in Fresh /\ AttachStream(q) /\ UNCHANGED <<loop, held, evs, item, turn, target>>
      BY <1>4 DEF Attach, Fresh
    <2>4. rpc'[q] \notin Fresh /\ \A p \in Requests : p # q => rpc'[p] = rpc[p]
      <3>1. CASE mode[q] = "stream"
        BY <1>4, <3>1 DEF Attach, Fresh
      <3>2. CASE mode[q] # "stream"
        <4>1. Receive(q) /\ rpc[q] = "attach"
          BY <1>4, <3>2 DEF Attach
        <4>2. rpc'[q] # "attach"
          BY <4>1 DEF Receive, Answer
        <4> QED
          BY <4>1, <4>2, AnswerMoves DEF Fresh
      <3> QED
        BY <3>1, <3>2
    <2> QED
      BY <2>1, <2>2, <2>3, <2>4, AttachStreamOK
  <1>5. ASSUME NEW q \in Requests, Setup(q) PROVE StreamOK'
    <2>1. target[q] = turn /\ \A b \in Batches : b > turn => batch[b] = "none"
      BY <1>5 DEF Setup, TurnsOK, SetupOK
    <2>2. ~(loop = "publish" /\ item.kind = "calls")
      <3>1. loop = "publish" /\ item.kind = "calls" => turn + 1 \in Batches /\ batch[turn + 1] # "none"
        BY TurnArithmetic DEF LoopOK, CourseOK, Emitting
      <3> QED
        BY <2>1, <3>1, TurnArithmetic
    <2>3. rpc[q] \in Fresh /\ AttachStream(q) /\ UNCHANGED <<loop, held, evs, item, turn, target>>
          /\ rpc'[q] \notin Fresh /\ \A p \in Requests : p # q => rpc'[p] = rpc[p]
      BY <1>5 DEF Setup, Fresh
    <2> QED
      BY <2>1, <2>2, <2>3, AttachStreamOK
  <1>6. ASSUME NEW q \in Requests,
               Complete(q) \/ Discard(q) \/ Deliver(q) \/ Leave(q) \/ Remember(q) \/ Hook(q)
        PROVE  StreamOK'
    BY <1>1, <1>6 DEF Complete, Discard, Deliver, Leave, Remember, Hook, Fresh
  <1>7. ASSUME NEW q \in Requests, Forget(q) PROVE StreamOK'
    <2>1. CASE mode[q] = "stream"
      BY <1>1, <1>7, <2>1 DEF Forget, Fresh
    <2>2. CASE mode[q] # "stream"
      BY <1>1, <1>7, <2>2, AnswerMoves DEF Forget, Fresh
    <2> QED
      BY <2>1, <2>2
  <1>8. ASSUME NEW q \in Requests, HelperStep(q) \/ CancelContext(q) PROVE StreamOK'
    BY <1>1, <1>8 DEF HelperStep, StartDrain, DrainEnds, WatchCheck, WatchEnds, CancelContext
  <1>9. CASE LoopAborted \/ PersistPending \/ PersistHook \/ PersistSaved \/ PersistFails
    BY <1>1, <1>9 DEF LoopAborted, PersistPending, PersistHook, PersistSaved, PersistFails, Fails, LoopOK
  <1>10. CASE CaptureStreams
    <2>1. loop = "capture" /\ held' = sink /\ loop' = "publish" /\ item.turn = turn
          /\ (sink' = IF item.kind = "calls" THEN None ELSE sink)
          /\ UNCHANGED <<item, turn, target, chan, evs, rpc>>
      BY <1>10 DEF CaptureStreams, LoopOK, Emitting
    <2>2. StreamsOpen' /\ StreamedOwnTurn'
      BY <2>1 DEF StreamOK, StreamsOpen, StreamedOwnTurn
    <2>3. SinkOK'
      BY <2>1 DEF StreamOK, SinkOK
    <2>4. \A q \in Requests : evs[q] # <<>> => sink # q
      BY <2>1 DEF StreamOK, EventsOK
    <2>5. EventsOK'
      BY <2>1, <2>4, NoneAssumption DEF StreamOK, EventsOK
    <2> QED
      BY <2>2, <2>3, <2>5 DEF StreamOK
  <1>11. CASE PublishResult
    <2>1. /\ UNCHANGED <<sink, held, item, target, chan, evs>> /\ item \in Items /\ SendUpdate(item)
          /\ loop = "publish" /\ loop' = "send"
          /\ turn' = IF item.kind = "calls" THEN turn + 1 ELSE turn
      BY <1>11 DEF PublishResult, LoopOK, Emitting
    <2>2. \A q \in Requests : rpc'[q] \in Fresh => rpc[q] \in Fresh
      BY <2>1, AnswerMoves DEF Fresh
    <2>3. StreamsOpen' /\ StreamedOwnTurn'
      BY <2>1 DEF StreamOK, StreamsOpen, StreamedOwnTurn
    <2>4. SinkOK'
      BY <2>1 DEF StreamOK, SinkOK
    <2>5. EventsOK'
      BY <2>1, <2>2 DEF StreamOK, EventsOK
    <2> QED
      BY <2>3, <2>4, <2>5 DEF StreamOK
  <1>12. CASE PublishError
    <2>1. [turn |-> turn, kind |-> "error"] \in Items
      BY ItemParts
    <2>2. \A q \in Requests : rpc'[q] \in Fresh => rpc[q] \in Fresh
      BY <1>12, <2>1, AnswerMoves DEF PublishError, Fresh
    <2> QED
      BY <1>1, <1>12, <2>2 DEF PublishError
  <1>13. CASE SendResult \/ SendError
    BY <1>13, SendResultOK, SendErrorOK
  <1>14. CASE CloseStreams
    <2>1. loop = "exit" /\ loop' = "finish" /\ sink' = None /\ UNCHANGED <<held, evs, item, turn, target, rpc>>
          /\ \A q \in Requests : q # sink => chan'[q] = chan[q]
      BY <1>14 DEF CloseStreams
    <2>2. held = None /\ (sink # None => chan[sink] = "open")
      BY <2>1 DEF StreamOK, SinkOK, StreamsOpen
    <2>3. StreamsOpen' /\ StreamedOwnTurn' /\ SinkOK'
      BY <2>1, <2>2 DEF StreamOK, StreamsOpen, StreamedOwnTurn, SinkOK
    <2>4. EventsOK'
      BY <2>1, <2>2, NoneAssumption DEF StreamOK, EventsOK
    <2> QED
      BY <2>3, <2>4 DEF StreamOK
  <1>15. CASE Finish \/ Disconnected
    BY <1>1, <1>15 DEF Finish, Disconnected
  <1>16. CASE TurnParks \/ TurnEnds
    <2>1. loop = "select" /\ loop' \notin {"select", "publish", "send", "disconnect", "exit"}
          /\ UNCHANGED <<sink, held, chan, evs, turn, target, rpc>>
      BY <1>16 DEF TurnParks, TurnEnds
    <2>2. held = None
      BY <2>1 DEF StreamOK, SinkOK
    <2>3. StreamsOpen' /\ StreamedOwnTurn' /\ SinkOK'
      BY <2>1, <2>2 DEF StreamOK, StreamsOpen, StreamedOwnTurn, SinkOK
    <2>4. EventsOK'
      BY <2>1, <2>2 DEF StreamOK, EventsOK
    <2> QED
      BY <2>3, <2>4 DEF StreamOK
  <1>17. CASE SessionFails \/ EventRefused \/ Aborted \/ RequestDone \/ IdleTimeout
    BY <1>1, <1>17 DEF SessionFails, EventRefused, Aborted, RequestDone, IdleTimeout, Fails
  <1>18. CASE \/ SignalAbort \/ AbortCancels \/ AbortReturns \/ (\E b \in Batches : BatchStep(b))
              \/ StopActive \/ StopStep \/ UNCHANGED vars
    BY <1>1, <1>18 DEF SignalAbort, AbortCancels, AbortReturns, BatchStep, Expire, ExpireAborted, CloseForgets,
                       StopActive, StopStep, StopPending, StopCancelAll, StopAborted, StopWaits, vars
  <1> QED
    BY <1>2, <1>3, <1>4, <1>5, <1>6, <1>7, <1>8, <1>9, <1>10, <1>11, <1>12, <1>13, <1>14, <1>15, <1>16, <1>17,
       <1>18
    DEF Next, RequestStep, LoopStep, SelectStep

----------------------------------------------------------------------------
(* The registry of parked turns.                                             *)

LEMMA RegistryTypes ==
  ASSUME TypeOK
  PROVE  /\ pendingClosed \in BOOLEAN /\ item \in Items \cup {NoItem}
         /\ runner \in [Requests -> BOOLEAN] /\ got \in [Requests -> Items \cup {NoItem}]
         /\ onResult \in Requests \cup {None}
  BY DEF TypeOK, DataType, RunType, RegistryType, AskType

\* A batch that has been captured stays in the registry while it is open.
LEMMA KeptNext ==
  TypeInv /\ CourseOK /\ TurnsOK /\ [Next]_vars =>
      \A b \in Batches : Kept(b) /\ batch[b] # "none" => Kept(b)'
  <1> SUFFICES ASSUME TypeOK, LoopOK, CourseOK, TurnsOK, [Next]_vars,
                      NEW b \in Batches, Kept(b), batch[b] # "none"
               PROVE  Kept(b)'
    BY DEF TypeInv
  <1> USE CourseTypes
  <1>1. ASSUME batch'[b] = "open" => batch[b] = "open",
               pendingClosed => pendingClosed', pending \subseteq pending'
        PROVE  Kept(b)'
    BY <1>1 DEF Kept
  <1>2. ASSUME batch'[b] # "open" PROVE Kept(b)'
    BY <1>2 DEF Kept
  <1>3. ASSUME NEW next, NEW bs, CloseBatches(bs, next) PROVE batch'[b] = "open" => batch[b] = "open"
    BY <1>3 DEF CloseBatches
  <1>4. ASSUME NEW c, PutPending(c) PROVE pending \subseteq pending'
    BY <1>4 DEF PutPending
  <1>5. ASSUME NEW c, HookExpiry(c), UNCHANGED <<batch, pendingClosed>> PROVE Kept(b)'
    <2>1. pending' = pending \/ (pending' = pending \ {c} /\ batch[c] = "expired")
      BY <1>5 DEF HookExpiry
    <2> QED
      BY <1>5, <2>1 DEF Kept
  <1>6. ASSUME NEW q \in Requests, NEW m \in {"json", "stream"},
               Launch(q, m) \/ (\E c \in Batches : Find(q, c, m)) PROVE Kept(b)'
    BY <1>1, <1>6 DEF Launch, Find
  <1>7. ASSUME NEW q \in Requests, Attach(q) \/ Complete(q) \/ Setup(q) \/ Deliver(q) \/ Leave(q) PROVE Kept(b)'
    BY <1>1, <1>7 DEF Attach, Complete, Setup, Deliver, Leave
  <1>8. ASSUME NEW q \in Requests, Discard(q) PROVE Kept(b)'
    <2>1. CASE b = target[q]
      BY <1>2, <1>8, <2>1 DEF Discard, CloseBatches, OpenBatches
    <2>2. CASE b # target[q]
      BY <1>3, <1>8, <2>2 DEF Discard, Kept
    <2> QED
      BY <2>1, <2>2
  <1>9. ASSUME NEW q \in Requests, Forget(q) PROVE Kept(b)'
    <2>1. batch[target[q]] = "completed" /\ UNCHANGED <<batch, pendingClosed>> /\ pending' = pending \ {target[q]}
      BY <1>9 DEF Forget, TurnsOK, TargetsOK
    <2> QED
      BY <2>1 DEF Kept
  <1>10. ASSUME NEW q \in Requests, Remember(q) \/ Hook(q) PROVE Kept(b)'
    BY <1>1, <1>4, <1>5, <1>10 DEF Remember, Hook
  <1>11. ASSUME NEW q \in Requests, HelperStep(q) \/ CancelContext(q) PROVE Kept(b)'
    BY <1>1, <1>11 DEF HelperStep, StartDrain, DrainEnds, WatchCheck, WatchEnds, CancelContext
  <1>12. CASE LoopAborted \/ PersistSaved \/ PersistFails \/ CaptureStreams \/ PublishResult \/ PublishError
    BY <1>1, <1>12 DEF LoopAborted, PersistSaved, PersistFails, Fails, CaptureStreams, PublishResult, PublishError
  <1>13. CASE PersistPending \/ PersistHook
    BY <1>1, <1>4, <1>5, <1>13 DEF PersistPending, PersistHook
  <1>14. CASE SendResult \/ SendError \/ CloseStreams \/ Finish \/ Disconnected \/ TurnEnds
    BY <1>1, <1>14 DEF SendResult, SendError, CloseStreams, Finish, Disconnected, TurnEnds
  <1>15. CASE TurnParks
    <2>1. b # turn + 1
      BY <1>15 DEF TurnParks, CourseOK
    <2> QED
      BY <1>1, <1>15, <2>1 DEF TurnParks
  <1>16. CASE SessionFails \/ EventRefused \/ Aborted \/ RequestDone \/ IdleTimeout
    BY <1>1, <1>16 DEF SessionFails, EventRefused, Aborted, RequestDone, IdleTimeout, Fails
  <1>17. CASE AbortCancels \/ StopCancelAll
    BY <1>1, <1>3, <1>17 DEF AbortCancels, StopCancelAll
  <1>18. ASSUME NEW c \in Batches, Expire(c) \/ ExpireAborted(c) PROVE Kept(b)'
    BY <1>1, <1>3, <1>18 DEF Expire, ExpireAborted
  <1>19. ASSUME NEW c \in Batches, CloseForgets(c) PROVE Kept(b)'
    <2>1. batch[c] = "expired"
      BY <1>19 DEF CloseForgets, CourseOK
    <2> QED
      BY <1>19, <2>1 DEF CloseForgets, Kept
  <1>20. CASE StopPending
    BY <1>20 DEF StopPending, Kept
  <1>21. CASE SignalAbort \/ AbortReturns \/ StopActive \/ StopAborted \/ StopWaits \/ UNCHANGED vars
    BY <1>1, <1>21 DEF SignalAbort, AbortReturns, StopActive, StopAborted, StopWaits, vars
  <1> QED
    BY <1>6, <1>7, <1>8, <1>9, <1>10, <1>11, <1>12, <1>13, <1>14, <1>15, <1>16, <1>17, <1>18, <1>19, <1>20, <1>21
    DEF Next, RequestStep, LoopStep, SelectStep, BatchStep, StopStep

\* Whoever knows of a batch knows of one that the session has passed.
LEMMA ShownPassed ==
  ASSUME TypeInv
  PROVE  /\ \A b \in Batches : Shown(b) => b <= turn
         /\ \A q \in Requests : rpc[q] \in {"remember", "hook"} => got[q].turn + 1 \in Batches
                                                                   /\ got[q].turn + 1 <= turn
  <1> USE RegistryTypes, ItemParts, TurnArithmetic DEF TypeInv
  <1>1. ASSUME NEW b \in Batches, Shown(b) PROVE b <= turn
    <2>1. PICK i \in Items \cup {NoItem} : i = [turn |-> b - 1, kind |-> "calls"] /\ Told(i)
      <3>1. PICK p \in Requests : \/ got[p] = [turn |-> b - 1, kind |-> "calls"]
                                  \/ \E n \in 1..Len(evs[p]) : evs[p][n] = [turn |-> b - 1, kind |-> "calls"]
        BY <1>1 DEF Shown
      <3>2. evs[p] \in Seq(Items)
        BY StreamTypes
      <3> QED
        BY <3>1, <3>2 DEF ToldOK
    <2>2. b - 1 < turn
      BY <2>1 DEF Told
    <2> QED
      BY <2>2, CourseTypes
  <1>2. ASSUME NEW q \in Requests, rpc[q] \in {"remember", "hook"}
        PROVE  got[q].turn + 1 \in Batches /\ got[q].turn + 1 <= turn
    <2>1. got[q] \in Items /\ got[q].turn < turn /\ turn \in Turns
      BY <1>2, StreamTypes DEF ToldOK, Told
    <2>2. got[q].turn \in Turns
      BY <2>1
    <2> QED
      BY <2>1, <2>2, ParksAssumption DEF Turns, Batches
  <1> QED
    BY <1>1, <1>2

LEMMA RegistryInit == Init => RegistryOK
  BY RegistryTypes DEF Init, RegistryOK, ShownIsKept, RunnersOK, CallbackOK, ResultKept, HookKept

\* The pending registry is closed for good.
LEMMA PendingStaysClosed == [Next]_vars /\ pendingClosed => pendingClosed'
  <1> SUFFICES ASSUME [Next]_vars, pendingClosed PROVE pendingClosed'
    OBVIOUS
  <1>1. ASSUME NEW q \in Requests, NEW m \in {"json", "stream"},
               Launch(q, m) \/ (\E c \in Batches : Find(q, c, m)) PROVE pendingClosed'
    BY <1>1 DEF Launch, Find
  <1>2. ASSUME NEW q \in Requests, RequestStep(q) PROVE pendingClosed'
    BY <1>2 DEF RequestStep, Attach, Complete, Discard, Setup, Deliver, Forget, Leave, Remember, Hook
  <1>3. ASSUME NEW q \in Requests, HelperStep(q) \/ CancelContext(q) PROVE pendingClosed'
    BY <1>3 DEF HelperStep, StartDrain, DrainEnds, WatchCheck, WatchEnds, CancelContext
  <1>4. CASE LoopStep
    BY <1>4 DEF LoopStep, LoopAborted, PersistPending, PersistHook, PersistSaved, PersistFails, Fails, CaptureStreams,
                PublishResult, SendResult, PublishError, SendError, CloseStreams, Finish
  <1>5. CASE SelectStep \/ Disconnected
    BY <1>5 DEF SelectStep, TurnParks, TurnEnds, SessionFails, EventRefused, Aborted, RequestDone, IdleTimeout,
                Fails, Disconnected
  <1>6. CASE \/ SignalAbort \/ AbortCancels \/ AbortReturns \/ (\E b \in Batches : BatchStep(b))
             \/ StopActive \/ StopStep \/ UNCHANGED vars
    BY <1>6 DEF SignalAbort, AbortCancels, AbortReturns, BatchStep, Expire, ExpireAborted, CloseForgets,
                StopActive, StopStep, StopPending, StopCancelAll, StopAborted, StopWaits, vars
  <1> QED
    BY <1>1, <1>2, <1>3, <1>4, <1>5, <1>6 DEF Next

LEMMA KnownIsShown == \A b \in Batches : Known(b) => Shown(b)
  BY DEF Known, Shown

LEMMA RunnersNext == TypeInv /\ ShownIsKept /\ RunnersOK /\ [Next]_vars => RunnersOK'
  <1> SUFFICES ASSUME TypeOK, ShownIsKept, RunnersOK, [Next]_vars PROVE RunnersOK'
    BY DEF TypeInv
  <1>1. ASSUME runner' = runner PROVE RunnersOK'
    BY <1>1, PendingStaysClosed DEF RunnersOK
  <1>2. ASSUME NEW q \in Requests, NEW m \in {"json", "stream"}, NEW b \in Batches, Find(q, b, m) PROVE RunnersOK'
    <2>1. CASE b \in tracked /\ batch[b] = "open"
      <3>1. b \in pending \/ pendingClosed
        BY <1>2, <2>1, KnownIsShown DEF Find, ShownIsKept
      <3>2. pendingClosed' = pendingClosed /\ runner' = [runner EXCEPT ![q] = b \in pending]
        BY <1>2, <2>1 DEF Find
      <3> SUFFICES ASSUME NEW p \in Requests PROVE runner'[p] \/ pendingClosed'
        BY DEF RunnersOK
      <3>3. CASE p = q
        BY <3>1, <3>2, <3>3, RegistryTypes, Zenon
      <3>4. CASE p # q
        BY <3>2, <3>4, RegistryTypes, Zenon DEF RunnersOK
      <3> QED
        BY <3>3, <3>4
    <2>2. CASE ~(b \in tracked /\ batch[b] = "open")
      BY <1>1, <1>2, <2>2, Zenon DEF Find
    <2> QED
      BY <2>1, <2>2
  <1>3. ASSUME NEW q \in Requests, NEW m \in {"json", "stream"}, Launch(q, m) PROVE RunnersOK'
    BY <1>1, <1>3 DEF Launch
  <1>4. ASSUME NEW q \in Requests, RequestStep(q) PROVE RunnersOK'
    BY <1>1, <1>4 DEF RequestStep, Attach, Complete, Discard, Setup, Deliver, Forget, Leave, Remember, Hook
  <1>5. ASSUME NEW q \in Requests, HelperStep(q) \/ CancelContext(q) PROVE RunnersOK'
    BY <1>1, <1>5 DEF HelperStep, StartDrain, DrainEnds, WatchCheck, WatchEnds, CancelContext
  <1>6. CASE LoopStep
    BY <1>1, <1>6 DEF LoopStep, LoopAborted, PersistPending, PersistHook, PersistSaved, PersistFails, Fails,
                      CaptureStreams, PublishResult, SendResult, PublishError, SendError, CloseStreams, Finish
  <1>7. CASE SelectStep \/ Disconnected
    BY <1>1, <1>7 DEF SelectStep, TurnParks, TurnEnds, SessionFails, EventRefused, Aborted, RequestDone, IdleTimeout,
                      Fails, Disconnected
  <1>8. CASE \/ SignalAbort \/ AbortCancels \/ AbortReturns \/ (\E b \in Batches : BatchStep(b))
             \/ StopActive \/ StopStep \/ UNCHANGED vars
    BY <1>1, <1>8 DEF SignalAbort, AbortCancels, AbortReturns, BatchStep, Expire, ExpireAborted, CloseForgets,
                      StopActive, StopStep, StopPending, StopCancelAll, StopAborted, StopWaits, vars
  <1> QED
    BY <1>2, <1>3, <1>4, <1>5, <1>6, <1>7, <1>8 DEF Next

LEMMA CallbackNext ==
  TypeInv /\ TurnsOK /\ StreamOK /\ LaunchOK /\ CallbackOK /\ [Next]_vars => CallbackOK'
  <1> SUFFICES ASSUME TypeOK, TurnsOK, StreamOK, LaunchOK, CallbackOK, [Next]_vars PROVE CallbackOK'
    BY DEF TypeInv
  <1> USE NoneAssumption
  <1>1. ASSUME UNCHANGED <<loop, item, sink, onResult>> PROVE CallbackOK'
    BY <1>1 DEF CallbackOK
  <1>2. ASSUME loop' \notin {"select", "send"} PROVE CallbackOK'
    BY <1>2 DEF CallbackOK
  <1>3. ASSUME NEW q \in Requests, AttachStream(q), UNCHANGED <<loop, item>> PROVE CallbackOK'
    BY <1>3 DEF AttachStream, CallbackOK
  <1>4. ASSUME NEW q \in Requests, NEW m \in {"json", "stream"}, Launch(q, m) PROVE CallbackOK'
    BY <1>4 DEF Launch, CallbackOK, TurnsOK, FirstOK
  <1>5. ASSUME NEW q \in Requests, NEW m \in {"json", "stream"}, NEW b \in Batches, Find(q, b, m) PROVE CallbackOK'
    BY <1>1, <1>5 DEF Find
  <1>6. ASSUME NEW q \in Requests, Attach(q) \/ Setup(q) PROVE CallbackOK'
    BY <1>3, <1>6 DEF Attach, Setup
  <1>7. ASSUME NEW q \in Requests, Complete(q) \/ Discard(q) \/ Deliver(q) \/ Forget(q) \/ Leave(q) \/ Remember(q)
                                   \/ Hook(q)
        PROVE  CallbackOK'
    BY <1>1, <1>7 DEF Complete, Discard, Deliver, Forget, Leave, Remember, Hook
  <1>8. ASSUME NEW q \in Requests, HelperStep(q) \/ CancelContext(q) PROVE CallbackOK'
    BY <1>1, <1>8 DEF HelperStep, StartDrain, DrainEnds, WatchCheck, WatchEnds, CancelContext
  <1>9. CASE PublishResult
    BY <1>9 DEF PublishResult, CallbackOK, StreamOK, SinkOK
  <1>10. CASE SendResult
    BY <1>10 DEF SendResult, CallbackOK
  <1>11. CASE \/ PersistPending \/ PersistHook \/ PersistSaved \/ PersistFails \/ CaptureStreams
              \/ PublishError \/ CloseStreams \/ Finish \/ Disconnected \/ TurnParks \/ TurnEnds
    BY <1>2, <1>11 DEF PersistPending, PersistHook, PersistSaved, PersistFails, Fails, CaptureStreams,
                       PublishError, CloseStreams, Finish, Disconnected, TurnParks, TurnEnds
  <1>12. CASE LoopAborted \/ SendError
    BY <1>12 DEF LoopAborted, SendError, TypeOK, LoopType, CallbackOK
  <1>13. CASE SessionFails \/ EventRefused \/ Aborted \/ RequestDone \/ IdleTimeout
    BY <1>2, <1>13 DEF SessionFails, EventRefused, Aborted, RequestDone, IdleTimeout, Fails
  <1>14. CASE \/ SignalAbort \/ AbortCancels \/ AbortReturns \/ (\E b \in Batches : BatchStep(b))
              \/ StopActive \/ StopStep \/ UNCHANGED vars
    BY <1>1, <1>14 DEF SignalAbort, AbortCancels, AbortReturns, BatchStep, Expire, ExpireAborted, CloseForgets,
                       StopActive, StopStep, StopPending, StopCancelAll, StopAborted, StopWaits, vars
  <1> QED
    BY <1>4, <1>5, <1>6, <1>7, <1>8, <1>9, <1>10, <1>11, <1>12, <1>13, <1>14
    DEF Next, RequestStep, LoopStep, SelectStep

LEMMA ResultKeptNext ==
  TypeInv /\ CourseOK /\ TurnsOK /\ StreamOK /\ LaunchOK /\ CallbackOK /\ ResultKept /\ [Next]_vars => ResultKept'
  <1> SUFFICES ASSUME TypeInv, TypeOK, LoopOK, CourseOK, TurnsOK, StreamOK, LaunchOK, CallbackOK, ResultKept,
                      [Next]_vars
               PROVE  ResultKept'
    BY DEF TypeInv
  <1> USE NoneAssumption
  <1>1. loop \in Emitting \cup {"send"} /\ item.kind = "calls" =>
            item.turn + 1 \in Batches /\ batch[item.turn + 1] # "none"
    <2>1. loop \in Emitting /\ item.kind = "calls" => turn + 1 \in Batches /\ batch[turn + 1] # "none"
          /\ item.turn = turn
      BY TurnArithmetic DEF LoopOK, CourseOK, TypeOK, DataType
    <2>2. ASSUME loop = "send", item.kind = "calls"
          PROVE  item.turn + 1 \in Batches /\ batch[item.turn + 1] # "none"
      <3>1. item \in Items /\ item.turn + 1 = turn /\ turn \in Turns
        BY <2>2 DEF LoopOK, TypeOK, DataType
      <3>2. turn \in Batches
        BY <3>1, ItemParts, ParksAssumption DEF Turns, Batches
      <3> QED
        BY <3>1, <3>2, CourseTypes DEF CourseOK
    <2> QED
      BY <2>1, <2>2
  <1>2. \A b \in Batches : Kept(b) /\ batch[b] # "none" => Kept(b)'
    BY KeptNext
  <1>3. loop \in Emitting \cup {"send"} /\ item.kind = "calls" /\ Kept(item.turn + 1) /\ item' = item =>
            Kept(item.turn + 1)'
    BY <1>1, <1>2 DEF Kept
  <1>4. ASSUME UNCHANGED <<loop, item, held>>, sink' \in {sink, None} PROVE ResultKept'
    BY <1>3, <1>4 DEF ResultKept, Emitting
  <1>5. ASSUME loop' \notin {"persistHook", "save", "capture", "publish", "send"} PROVE ResultKept'
    BY <1>5 DEF ResultKept
  <1>6. ASSUME NEW q \in Requests, NEW m \in {"json", "stream"}, Launch(q, m) PROVE ResultKept'
    BY <1>5, <1>6 DEF Launch
  <1>7. ASSUME NEW q \in Requests, NEW m \in {"json", "stream"}, NEW b \in Batches, Find(q, b, m) PROVE ResultKept'
    BY <1>4, <1>7 DEF Find
  <1>8. ASSUME NEW q \in Requests, Attach(q) \/ Setup(q) PROVE ResultKept'
    <2>1. ~(loop = "capture" /\ item.kind = "calls")
      <3>1. loop = "capture" /\ item.kind = "calls" => turn + 1 \in Batches /\ batch[turn + 1] # "none"
        BY <1>1 DEF LoopOK, Emitting
      <3>2. \A b \in Batches : b > turn => batch[b] = "none"
        BY <1>8 DEF Attach, Setup, TurnsOK, FirstOK, SetupOK
      <3> QED
        BY <3>1, <3>2, TurnArithmetic, CourseTypes
    <2>2. UNCHANGED <<loop, item, held>>
      BY <1>8 DEF Attach, Setup
    <2> QED
      BY <1>3, <2>1, <2>2 DEF ResultKept, Emitting
  <1>9. ASSUME NEW q \in Requests, Complete(q) \/ Discard(q) \/ Deliver(q) \/ Forget(q) \/ Leave(q) \/ Remember(q)
                                   \/ Hook(q)
        PROVE  ResultKept'
    BY <1>4, <1>9 DEF Complete, Discard, Deliver, Forget, Leave, Remember, Hook
  <1>10. ASSUME NEW q \in Requests, HelperStep(q) \/ CancelContext(q) PROVE ResultKept'
    BY <1>4, <1>10 DEF HelperStep, StartDrain, DrainEnds, WatchCheck, WatchEnds, CancelContext
  <1>11. CASE PersistPending
    <2>1. pendingClosed' = pendingClosed /\ (pendingClosed \/ item.turn + 1 \in pending')
          /\ item' = item /\ loop' = "persistHook"
      BY <1>11 DEF PersistPending, PutPending
    <2> QED
      BY <2>1 DEF ResultKept, Kept
  <1>12. CASE PersistHook \/ PersistSaved \/ CaptureStreams \/ PublishResult
    <2>1. item' = item /\ loop \in Emitting
      BY <1>12 DEF PersistHook, PersistSaved, CaptureStreams, PublishResult, Emitting
    <2>2. item.kind = "calls" /\ Kept(item.turn + 1) => Kept(item.turn + 1)'
      BY <1>3, <2>1
    <2>3. CASE PersistHook \/ PersistSaved
      BY <2>1, <2>2, <2>3 DEF PersistHook, PersistSaved, ResultKept
    <2>4. CASE CaptureStreams
      BY <2>1, <2>2, <2>4 DEF CaptureStreams, ResultKept
    <2>5. CASE PublishResult
      BY <2>1, <2>2, <2>5 DEF PublishResult, ResultKept
    <2> QED
      BY <1>12, <2>3, <2>4, <2>5
  <1>13. CASE SendResult \/ SendError \/ LoopAborted
    BY <1>5, <1>13 DEF SendResult, SendError, LoopAborted, TypeOK, LoopType
  <1>14. CASE PersistFails \/ PublishError \/ CloseStreams \/ Finish \/ Disconnected
    BY <1>5, <1>14 DEF PersistFails, Fails, PublishError, CloseStreams, Finish, Disconnected
  <1>15. CASE TurnParks \/ TurnEnds
    BY <1>15 DEF TurnParks, TurnEnds, ResultKept, CallbackOK
  <1>16. CASE SessionFails \/ EventRefused \/ Aborted \/ RequestDone \/ IdleTimeout
    BY <1>5, <1>16 DEF SessionFails, EventRefused, Aborted, RequestDone, IdleTimeout, Fails
  <1>17. CASE \/ SignalAbort \/ AbortCancels \/ AbortReturns \/ (\E b \in Batches : BatchStep(b))
              \/ StopActive \/ StopStep \/ UNCHANGED vars
    BY <1>4, <1>17 DEF SignalAbort, AbortCancels, AbortReturns, BatchStep, Expire, ExpireAborted, CloseForgets,
                       StopActive, StopStep, StopPending, StopCancelAll, StopAborted, StopWaits, vars
  <1> QED
    BY <1>6, <1>7, <1>8, <1>9, <1>10, <1>11, <1>12, <1>13, <1>14, <1>15, <1>16, <1>17
    DEF Next, RequestStep, LoopStep, SelectStep

\* Nobody learns of pending calls but from Hook and from a stream: a request
\* that is answered at once found the registry closed.
LEMMA ShownFrame ==
  ASSUME TypeInv, CourseOK, TurnsOK, ShownIsKept, HookKept, [Next]_vars, UNCHANGED evs,
         \A q \in Requests : \/ rpc'[q] = rpc[q] /\ got'[q] = got[q]
                             \/ rpc'[q] \notin {"answered", "hook"}
                             \/ rpc'[q] = "answered" /\ (got'[q].kind = "calls" => pendingClosed')
  PROVE  ShownIsKept' /\ HookKept'
  <1>1. \A b \in Batches : Kept(b) /\ batch[b] # "none" => Kept(b)'
    BY KeptNext
  <1>2. ASSUME NEW b \in Batches, Shown(b)', ~pendingClosed' PROVE Shown(b)
    <2>1. PICK q \in Requests : \/ rpc'[q] = "answered" /\ got'[q] = [turn |-> b - 1, kind |-> "calls"]
                                \/ \E n \in 1..Len(evs'[q]) : evs'[q][n] = [turn |-> b - 1, kind |-> "calls"]
      BY <1>2 DEF Shown
    <2>2. CASE rpc'[q] = "answered" /\ got'[q] = [turn |-> b - 1, kind |-> "calls"]
      <3>1. got'[q].kind = "calls"
        BY <2>2
      <3> QED
        BY <1>2, <2>2, <3>1 DEF Shown
    <2>3. CASE \E n \in 1..Len(evs'[q]) : evs'[q][n] = [turn |-> b - 1, kind |-> "calls"]
      BY <2>3 DEF Shown
    <2> QED
      BY <2>1, <2>2, <2>3
  <1>3. ShownIsKept'
    <2> SUFFICES ASSUME NEW b \in Batches, Shown(b)', batch'[b] = "open", ~pendingClosed' PROVE b \in pending'
      BY DEF ShownIsKept
    <2>1. Kept(b) /\ batch[b] # "none"
      BY <1>2, ShownPassed DEF ShownIsKept, Kept, CourseOK
    <2> QED
      BY <1>1, <2>1 DEF Kept
  <1>4. HookKept'
    <2> SUFFICES ASSUME NEW q \in Requests, rpc'[q] = "hook" PROVE Kept(got[q].turn + 1)'
      BY DEF HookKept
    <2>1. rpc[q] = "hook" /\ got'[q] = got[q]
      OBVIOUS
    <2>2. got[q].turn + 1 \in Batches /\ Kept(got[q].turn + 1) /\ batch[got[q].turn + 1] # "none"
      BY <2>1, ShownPassed DEF HookKept, CourseOK
    <2> QED
      BY <1>1, <2>1, <2>2 DEF Kept
  <1> QED
    BY <1>3, <1>4

LEMMA AnswerLearns ==
  ASSUME TypeOK, RunnersOK, UNCHANGED pendingClosed,
         \/ \E q \in Requests : Receive(q)
         \/ \E i \in Items : SendUpdate(i)
  PROVE  \A q \in Requests : \/ rpc'[q] = rpc[q] /\ got'[q] = got[q]
                             \/ rpc'[q] \notin {"answered", "hook"}
                             \/ rpc'[q] = "answered" /\ (got'[q].kind = "calls" => pendingClosed')
  <1> DEFINE Learns(q) == \/ rpc'[q] = rpc[q] /\ got'[q] = got[q]
                          \/ rpc'[q] \notin {"answered", "hook"}
                          \/ rpc'[q] = "answered" /\ (got'[q].kind = "calls" => pendingClosed')
  <1> USE StreamTypes, RegistryTypes
  <1>1. ASSUME NEW q \in Requests, NEW i, Answer(q, i) PROVE \A p \in Requests : Learns(p)
    <2>1. rpc'[q] = IF i.kind = "calls" /\ runner[q] THEN "remember" ELSE "answered"
      BY <1>1 DEF Answer
    <2>2. got'[q] = i /\ \A p \in Requests : p # q => rpc'[p] = rpc[p] /\ got'[p] = got[p]
      BY <1>1 DEF Answer
    <2> QED
      BY <2>1, <2>2 DEF RunnersOK
  <1>2. ASSUME UNCHANGED <<rpc, got>> PROVE \A p \in Requests : Learns(p)
    BY <1>2
  <1>3. ASSUME NEW q \in Requests, Receive(q) PROVE \A p \in Requests : Learns(p)
    BY <1>1, <1>3 DEF Receive
  <1>4. ASSUME NEW i \in Items, SendUpdate(i) PROVE \A p \in Requests : Learns(p)
    BY <1>1, <1>2, <1>4 DEF SendUpdate, Waiting
  <1> QED
    BY <1>3, <1>4

LEMMA ShownNext ==
  TypeInv /\ CourseOK /\ TurnsOK /\ StreamOK /\ LaunchOK /\ RegistryOK /\ [Next]_vars =>
      ShownIsKept' /\ HookKept'
  <1> SUFFICES ASSUME TypeInv, TypeOK, LoopOK, CourseOK, TurnsOK, StreamOK, LaunchOK,
                      ShownIsKept, RunnersOK, CallbackOK, ResultKept, HookKept, [Next]_vars
               PROVE  ShownIsKept' /\ HookKept'
    BY DEF TypeInv, RegistryOK
  <1> USE StreamTypes, RegistryTypes
  <1>1. \A b \in Batches : Kept(b) /\ batch[b] # "none" => Kept(b)'
    BY KeptNext
  <1>2. ASSUME UNCHANGED evs,
               \A q \in Requests : \/ rpc'[q] = rpc[q] /\ got'[q] = got[q]
                                   \/ rpc'[q] \notin {"answered", "hook"}
                                   \/ rpc'[q] = "answered" /\ (got'[q].kind = "calls" => pendingClosed')
        PROVE  ShownIsKept' /\ HookKept'
    BY <1>2, ShownFrame
  <1>3. ASSUME NEW q \in Requests, NEW m \in {"json", "stream"},
               Launch(q, m) \/ (\E b \in Batches : Find(q, b, m)) PROVE ShownIsKept' /\ HookKept'
    BY <1>2, <1>3 DEF Launch, Find
  <1>4. ASSUME NEW q \in Requests, Attach(q) \/ Forget(q) PROVE ShownIsKept' /\ HookKept'
    <2>1. UNCHANGED <<evs, pendingClosed>>
      BY <1>4 DEF Attach, Forget
    <2>2. CASE mode[q] = "stream"
      BY <1>2, <1>4, <2>1, <2>2 DEF Attach, Forget
    <2>3. CASE mode[q] # "stream"
      <3>1. Receive(q)
        BY <1>4, <2>3 DEF Attach, Forget
      <3> QED
        BY <1>2, <2>1, <3>1, AnswerLearns
    <2> QED
      BY <2>2, <2>3
  <1>5. ASSUME NEW q \in Requests, Complete(q) \/ Discard(q) \/ Setup(q) \/ Deliver(q) \/ Leave(q)
        PROVE  ShownIsKept' /\ HookKept'
    BY <1>2, <1>5 DEF Complete, Discard, Setup, Deliver, Leave
  <1>6. ASSUME NEW q \in Requests, Remember(q) PROVE ShownIsKept' /\ HookKept'
    <2>1. UNCHANGED <<evs, got, batch, pendingClosed>> /\ rpc' = [rpc EXCEPT ![q] = "hook"] /\ rpc[q] = "remember"
          /\ (pendingClosed \/ pending' = pending \cup {got[q].turn + 1})
      BY <1>6 DEF Remember, PutPending
    <2>2. ShownIsKept'
      <3> SUFFICES ASSUME NEW b \in Batches, Shown(b)', batch'[b] = "open", ~pendingClosed' PROVE b \in pending'
        BY DEF ShownIsKept
      <3>1. Shown(b)
        BY <2>1 DEF Shown
      <3> QED
        BY <2>1, <3>1 DEF ShownIsKept
    <2>3. HookKept'
      BY <2>1 DEF HookKept, Kept
    <2> QED
      BY <2>2, <2>3
  <1>7. ASSUME NEW q \in Requests, Hook(q) PROVE ShownIsKept' /\ HookKept'
    <2>1. UNCHANGED <<evs, got, batch, pendingClosed>> /\ rpc' = [rpc EXCEPT ![q] = "answered"] /\ rpc[q] = "hook"
      BY <1>7 DEF Hook
    <2>2. got[q].turn + 1 \in Batches /\ Kept(got[q].turn + 1) /\ batch[got[q].turn + 1] # "none"
      BY <2>1, ShownPassed DEF HookKept, CourseOK
    <2>3. ShownIsKept'
      <3> SUFFICES ASSUME NEW b \in Batches, Shown(b)', batch'[b] = "open", ~pendingClosed' PROVE b \in pending'
        BY DEF ShownIsKept
      <3>1. Shown(b) \/ got[q] = [turn |-> b - 1, kind |-> "calls"]
        BY <2>1 DEF Shown
      <3>2. CASE Shown(b)
        <4>1. Kept(b) /\ batch[b] # "none"
          BY <3>2, ShownPassed DEF ShownIsKept, Kept, CourseOK
        <4> QED
          BY <1>1, <4>1 DEF Kept
      <3>3. CASE got[q] = [turn |-> b - 1, kind |-> "calls"]
        <4>1. got[q].turn + 1 = b
          BY <3>3, CourseTypes
        <4> QED
          BY <1>1, <2>2, <4>1 DEF Kept
      <3> QED
        BY <3>1, <3>2, <3>3
    <2>4. HookKept'
      <3> SUFFICES ASSUME NEW p \in Requests, rpc'[p] = "hook" PROVE Kept(got[p].turn + 1)'
        BY DEF HookKept
      <3>1. rpc[p] = "hook" /\ got'[p] = got[p]
        BY <2>1
      <3>2. got[p].turn + 1 \in Batches /\ Kept(got[p].turn + 1) /\ batch[got[p].turn + 1] # "none"
        BY <3>1, ShownPassed DEF HookKept, CourseOK
      <3> QED
        BY <1>1, <3>1, <3>2 DEF Kept
    <2> QED
      BY <2>3, <2>4
  <1>8. ASSUME NEW q \in Requests, HelperStep(q) \/ CancelContext(q) PROVE ShownIsKept' /\ HookKept'
    BY <1>2, <1>8 DEF HelperStep, StartDrain, DrainEnds, WatchCheck, WatchEnds, CancelContext
  <1>9. CASE PublishResult \/ PublishError
    <2>1. item \in Items \/ loop # "publish"
      BY DEF LoopOK, Emitting
    <2>2. [turn |-> turn, kind |-> "error"] \in Items
      BY ItemParts
    <2>3. UNCHANGED <<evs, pendingClosed>> /\ \E i \in Items : SendUpdate(i)
      BY <1>9, <2>1, <2>2 DEF PublishResult, PublishError
    <2> QED
      BY <1>2, <2>3, AnswerLearns
  <1>10. CASE SendError
    <2>1. UNCHANGED <<rpc, got, batch, pending, pendingClosed>>
      BY <1>10 DEF SendError
    <2>2. ASSUME NEW b \in Batches, Shown(b)' PROVE Shown(b)
      <3>1. PICK q \in Requests : \/ rpc'[q] = "answered" /\ got'[q] = [turn |-> b - 1, kind |-> "calls"]
                                  \/ \E n \in 1..Len(evs'[q]) : evs'[q][n] = [turn |-> b - 1, kind |-> "calls"]
        BY <2>2 DEF Shown
      <3>2. CASE \E n \in 1..Len(evs'[q]) : evs'[q][n] = [turn |-> b - 1, kind |-> "calls"]
        <4>1. PICK n \in 1..Len(evs'[q]) : evs'[q][n] = [turn |-> b - 1, kind |-> "calls"]
          BY <3>2
        <4>2. \/ evs'[q] = evs[q]
              \/ evs'[q] = Append(evs[q], [turn |-> turn, kind |-> "error"])
          BY <1>10 DEF SendError, Delivered, Undelivered
        <4>3. CASE evs'[q] = Append(evs[q], [turn |-> turn, kind |-> "error"]) /\ n = Len(evs[q]) + 1
          <5>1. evs'[q][n] = [turn |-> turn, kind |-> "error"]
            BY <4>3
          <5>2. evs'[q][n].kind = "error" /\ evs'[q][n].kind = "calls"
            BY <4>1, <5>1
          <5> QED
            BY <5>2
        <4>4. CASE evs'[q] = evs[q]
          BY <4>1, <4>4 DEF Shown
        <4>5. CASE evs'[q] = Append(evs[q], [turn |-> turn, kind |-> "error"]) /\ n # Len(evs[q]) + 1
          <5>1. n \in 1..Len(evs[q]) /\ evs'[q][n] = evs[q][n]
            BY <4>5
          <5> QED
            BY <4>1, <5>1 DEF Shown
        <4> QED
          BY <4>2, <4>3, <4>4, <4>5
      <3> QED
        BY <2>1, <3>1, <3>2 DEF Shown
    <2> QED
      BY <2>1, <2>2 DEF ShownIsKept, HookKept, Kept
  <1>11. CASE SendResult
    <2>1. UNCHANGED <<rpc, got, batch, pending, pendingClosed>> /\ loop = "send"
      BY <1>11 DEF SendResult
    <2>2. ASSUME NEW b \in Batches, Shown(b)'
          PROVE  Shown(b) \/ (held # None /\ item = [turn |-> b - 1, kind |-> "calls"])
      <3>1. PICK q \in Requests : \/ rpc'[q] = "answered" /\ got'[q] = [turn |-> b - 1, kind |-> "calls"]
                                  \/ \E n \in 1..Len(evs'[q]) : evs'[q][n] = [turn |-> b - 1, kind |-> "calls"]
        BY <2>2 DEF Shown
      <3>2. CASE \E n \in 1..Len(evs'[q]) : evs'[q][n] = [turn |-> b - 1, kind |-> "calls"]
        <4>1. PICK n \in 1..Len(evs'[q]) : evs'[q][n] = [turn |-> b - 1, kind |-> "calls"]
          BY <3>2
        <4>2. \/ evs'[q] = evs[q]
              \/ evs'[q] = Append(evs[q], item) /\ held # None
          BY <1>11 DEF SendResult, Delivered, Undelivered
        <4>3. \/ n \in 1..Len(evs[q]) /\ evs[q][n] = [turn |-> b - 1, kind |-> "calls"]
              \/ held # None /\ item = [turn |-> b - 1, kind |-> "calls"]
          <5>1. CASE evs'[q] = Append(evs[q], item) /\ held # None /\ n = Len(evs[q]) + 1
            BY <4>1, <5>1
          <5>2. CASE evs'[q] = evs[q]
            BY <4>1, <5>2
          <5>3. CASE evs'[q] = Append(evs[q], item) /\ n # Len(evs[q]) + 1
            BY <4>1, <5>3
          <5> QED
            BY <4>2, <5>1, <5>2, <5>3
        <4> QED
          BY <4>3 DEF Shown
      <3> QED
        BY <2>1, <3>1, <3>2 DEF Shown
    <2>3. ShownIsKept'
      <3> SUFFICES ASSUME NEW b \in Batches, Shown(b)' PROVE Kept(b)
        BY <2>1 DEF ShownIsKept, Kept
      <3>1. CASE Shown(b)
        BY <3>1 DEF ShownIsKept, Kept
      <3>2. CASE held # None /\ item = [turn |-> b - 1, kind |-> "calls"]
        <4>1. Kept(item.turn + 1) /\ item.turn + 1 = b
          BY <2>1, <3>2, CourseTypes DEF ResultKept
        <4> QED
          BY <4>1 DEF Kept
      <3> QED
        BY <2>2, <3>1, <3>2
    <2> QED
      BY <2>1, <2>3 DEF HookKept, Kept
  <1>12. CASE LoopAborted \/ PersistPending \/ PersistHook \/ PersistSaved \/ PersistFails \/ CaptureStreams
    BY <1>2, <1>12 DEF LoopAborted, PersistPending, PersistHook, PersistSaved, PersistFails, Fails, CaptureStreams
  <1>13. CASE CloseStreams \/ Finish \/ Disconnected \/ SelectStep
    BY <1>2, <1>13 DEF CloseStreams, Finish, Disconnected, SelectStep, TurnParks, TurnEnds, SessionFails,
                       EventRefused, Aborted, RequestDone, IdleTimeout, Fails
  <1>14. CASE \/ SignalAbort \/ AbortCancels \/ AbortReturns \/ (\E b \in Batches : BatchStep(b))
              \/ StopActive \/ StopStep \/ UNCHANGED vars
    BY <1>2, <1>14 DEF SignalAbort, AbortCancels, AbortReturns, BatchStep, Expire, ExpireAborted, CloseForgets,
                       StopActive, StopStep, StopPending, StopCancelAll, StopAborted, StopWaits, vars
  <1> QED
    BY <1>3, <1>4, <1>5, <1>6, <1>7, <1>8, <1>9, <1>10, <1>11, <1>12, <1>13, <1>14 DEF Next, RequestStep, LoopStep

LEMMA RegistryNext ==
  TypeInv /\ CourseOK /\ TurnsOK /\ StreamOK /\ LaunchOK /\ RegistryOK /\ [Next]_vars => RegistryOK'
  <1> SUFFICES ASSUME TypeInv, CourseOK, TurnsOK, StreamOK, LaunchOK, RegistryOK, [Next]_vars PROVE RegistryOK'
    OBVIOUS
  <1>1. ShownIsKept' /\ HookKept'
    BY ShownNext
  <1>2. RunnersOK' /\ CallbackOK' /\ ResultKept'
    BY RunnersNext, CallbackNext, ResultKeptNext DEF RegistryOK
  <1> QED
    BY <1>1, <1>2 DEF RegistryOK

----------------------------------------------------------------------------
(* The watchers of the requests' contexts.                                   *)

LEMMA WatchTypes ==
  ASSUME TypeOK
  PROVE  /\ gen \in Nat /\ turn \in Nat
         /\ watchGen \in [Requests -> Nat] /\ target \in [Requests -> Nat]
         /\ watch \in [Requests -> {"none", "armed", "firing", "gone"}]
  BY TurnArithmetic DEF TypeOK, RunType, WatchType, AskType, DataType

LEMMA WatchInit == Init => WatchOK
  BY DEF Init, WatchOK, CancellationStaysHome

\* A watcher is armed with the turn of its request.
LEMMA WatchArmed ==
  ASSUME TypeOK, WatchOK, NEW q \in Requests, rpc[q] \in Fresh, NEW g \in Nat, WatchContext(q, g),
         rpc'[q] # "idle", \A p \in Requests : p # q => rpc'[p] = rpc[p],
         target[q] = turn, ~(loop = "publish" /\ item.kind = "calls"), rpc'[q] \notin Fresh,
         \/ g = gen /\ gen' = gen /\ detached' = detached
         \/ g = gen + 1 /\ gen' = gen + 1,
         UNCHANGED <<loop, item, ctxDone, early, target, turn>>
  PROVE  WatchOK'
  <1> USE WatchTypes
  <1>1. \A p \in Requests : /\ watch'[p] = IF p = q THEN "armed" ELSE watch[p]
                            /\ watchGen'[p] = IF p = q THEN g ELSE watchGen[p]
    BY DEF WatchContext
  <1>2. CancellationStaysHome'
    BY <1>1 DEF WatchOK, CancellationStaysHome
  <1>3. ASSUME NEW p \in Requests
        PROVE  /\ rpc'[p] \in Fresh => watch'[p] = "none"
               /\ watchGen'[p] <= gen'
               /\ p \in ctxDone' => rpc'[p] # "idle" /\ (target'[p] >= turn' => p \in early')
               /\ watch'[p] = "armed" /\ watchGen'[p] = gen' /\ ~detached' => target'[p] = turn'
    <2>1. CASE p = q
      BY <1>1, <2>1 DEF WatchOK
    <2>2. CASE p # q
      BY <1>1, <2>2 DEF WatchOK
    <2> QED
      BY <2>1, <2>2
  <1> QED
    BY <1>2, <1>3 DEF WatchOK

LEMMA WatchNext == TypeInv /\ CourseOK /\ TurnsOK /\ LaunchOK /\ WatchOK /\ [Next]_vars => WatchOK'
  <1> SUFFICES ASSUME TypeOK, LoopOK, CourseOK, TurnsOK, LaunchOK, WatchOK, [Next]_vars PROVE WatchOK'
    BY DEF TypeInv
  <1> USE WatchTypes, StreamTypes
  <1>1. ASSUME UNCHANGED <<item, turn, target, watch, watchGen, gen, detached, ctxDone, early>>,
               loop' = loop \/ loop' # "publish",
               \A q \in Requests : rpc'[q] = rpc[q] \/ (rpc[q] \in Fresh /\ rpc'[q] # "idle") \/ rpc'[q] \notin Fresh
        PROVE  WatchOK'
    BY <1>1 DEF WatchOK, CancellationStaysHome, Fresh
  <1>2. ASSUME UNCHANGED <<turn, target, watch, watchGen, gen, detached, ctxDone, early, rpc>>, loop' # "publish"
        PROVE  WatchOK'
    BY <1>2 DEF WatchOK, CancellationStaysHome
  <1>3. ASSUME NEW q \in Requests, NEW m \in {"json", "stream"}, Launch(q, m) PROVE WatchOK'
    BY <1>1, <1>3 DEF Launch, Fresh
  <1>4. ASSUME NEW q \in Requests, NEW m \in {"json", "stream"}, NEW b \in Batches, Find(q, b, m) PROVE WatchOK'
    <2>1. UNCHANGED <<loop, item, turn, watch, watchGen, gen, detached, ctxDone, early>> /\ rpc[q] = "idle"
          /\ \A p \in Requests : p # q => rpc'[p] = rpc[p] /\ target'[p] = target[p]
      BY <1>4 DEF Find
    <2>2. rpc'[q] # "idle"
      BY <1>4 DEF Find
    <2>3. watch[q] = "none" /\ q \notin ctxDone
      BY <2>1 DEF WatchOK, Fresh
    <2> QED
      BY <2>1, <2>2, <2>3 DEF WatchOK, CancellationStaysHome
  <1>5. ASSUME NEW q \in Requests, Attach(q) \/ Setup(q) PROVE ~(loop = "publish" /\ item.kind = "calls")
    <2>1. \A b \in Batches : b > turn => batch[b] = "none"
      BY <1>5 DEF Attach, Setup, TurnsOK, SetupOK, FirstOK
    <2>2. loop = "publish" /\ item.kind = "calls" => turn + 1 \in Batches /\ batch[turn + 1] # "none"
      BY TurnArithmetic DEF LoopOK, CourseOK, Emitting
    <2> QED
      BY <2>1, <2>2, TurnArithmetic
  <1>6. ASSUME NEW q \in Requests, Attach(q) PROVE WatchOK'
    <2>1. WatchContext(q, gen) /\ rpc[q] \in Fresh
          /\ UNCHANGED <<loop, item, ctxDone, early, target, turn, gen, detached>>
      BY <1>6 DEF Attach, Fresh
    <2>2. target[q] = turn
      BY <1>6 DEF Attach, TurnsOK, FirstOK
    <2>3. rpc'[q] \notin Fresh /\ \A p \in Requests : p # q => rpc'[p] = rpc[p]
      <3>1. CASE mode[q] = "stream"
        BY <1>6, <3>1 DEF Attach, Fresh
      <3>2. CASE mode[q] # "stream"
        <4>1. Receive(q) /\ rpc[q] = "attach"
          BY <1>6, <3>2 DEF Attach
        <4>2. rpc'[q] # "attach"
          BY <4>1 DEF Receive, Answer
        <4> QED
          BY <4>1, <4>2, AnswerMoves DEF Fresh
      <3> QED
        BY <3>1, <3>2
    <2>4. rpc'[q] # "idle"
      BY <2>3 DEF Fresh
    <2> QED
      BY <1>5, <1>6, <2>1, <2>2, <2>3, <2>4, WatchArmed
  <1>7. ASSUME NEW q \in Requests, Setup(q) PROVE WatchOK'
    <2>1. WatchContext(q, gen + 1) /\ rpc[q] \in Fresh /\ gen' = gen + 1 /\ gen + 1 \in Nat
          /\ UNCHANGED <<loop, item, ctxDone, early, target, turn>>
          /\ rpc'[q] \notin Fresh /\ rpc'[q] # "idle" /\ \A p \in Requests : p # q => rpc'[p] = rpc[p]
      BY <1>7 DEF Setup, Fresh
    <2>2. target[q] = turn
      BY <1>7 DEF Setup, TurnsOK, SetupOK
    <2> QED
      BY <1>5, <1>7, <2>1, <2>2, WatchArmed
  <1>8. ASSUME NEW q \in Requests,
               Complete(q) \/ Discard(q) \/ Deliver(q) \/ Leave(q) \/ Remember(q) \/ Hook(q)
        PROVE  WatchOK'
    BY <1>1, <1>8 DEF Complete, Discard, Deliver, Leave, Remember, Hook, Fresh
  <1>9. ASSUME NEW q \in Requests, Forget(q) PROVE WatchOK'
    <2>1. CASE mode[q] = "stream"
      BY <1>1, <1>9, <2>1 DEF Forget, Fresh
    <2>2. CASE mode[q] # "stream"
      BY <1>1, <1>9, <2>2, AnswerMoves DEF Forget, Fresh
    <2> QED
      BY <2>1, <2>2
  <1>10. ASSUME NEW q \in Requests, StartDrain(q) \/ DrainEnds(q) PROVE WatchOK'
    BY <1>1, <1>10 DEF StartDrain, DrainEnds
  <1>11. ASSUME NEW q \in Requests, WatchCheck(q) PROVE WatchOK'
    <2>1. UNCHANGED <<loop, item, turn, target, rpc, watchGen, gen, detached, ctxDone, early>>
          /\ watch[q] = "armed" /\ q \in ctxDone /\ \A p \in Requests : p # q => watch'[p] = watch[p]
          /\ watch'[q] = IF watchGen[q] = gen /\ ~detached THEN "firing" ELSE "gone"
      BY <1>11 DEF WatchCheck
    <2>2. ASSUME watch'[q] = "firing" PROVE q \in early
      <3>1. watchGen[q] = gen /\ ~detached
        <4>1. CASE ~(watchGen[q] = gen /\ ~detached)
          <5>1. watch' = [watch EXCEPT ![q] = "gone"]
            BY <1>11, <4>1, Zenon DEF WatchCheck
          <5> QED
            BY <2>2, <5>1
        <4> QED
          BY <4>1
      <3>2. target[q] = turn
        BY <2>1, <3>1, Zenon DEF WatchOK
      <3>3. target[q] >= turn
        BY <3>2
      <3> QED
        BY <2>1, <3>3 DEF WatchOK
    <2>3. rpc[q] \notin Fresh
      BY <2>1 DEF WatchOK
    <2> QED
      BY <2>1, <2>2, <2>3 DEF WatchOK, CancellationStaysHome
  <1>12. ASSUME NEW q \in Requests, WatchEnds(q) PROVE WatchOK'
    <2>1. UNCHANGED <<loop, item, turn, target, rpc, watchGen, gen, detached, ctxDone, early>>
          /\ watch[q] # "none" /\ watch'[q] = "gone" /\ \A p \in Requests : p # q => watch'[p] = watch[p]
      BY <1>12 DEF WatchEnds
    <2> QED
      BY <2>1 DEF WatchOK, CancellationStaysHome
  <1>13. ASSUME NEW q \in Requests, CancelContext(q) PROVE WatchOK'
    <2>1. UNCHANGED <<loop, item, turn, target, rpc, watch, watchGen, gen, detached>> /\ rpc[q] # "idle"
          /\ ctxDone' = ctxDone \cup {q} /\ early \subseteq early' /\ (target[q] >= turn => q \in early')
      BY <1>13 DEF CancelContext
    <2> QED
      BY <2>1 DEF WatchOK, CancellationStaysHome
  <1>14. CASE LoopAborted \/ PersistPending \/ PersistHook \/ PersistSaved \/ PersistFails
    BY <1>1, <1>14 DEF LoopAborted, PersistPending, PersistHook, PersistSaved, PersistFails, Fails, TypeOK, LoopType
  <1>15. CASE CaptureStreams
    BY <1>15 DEF CaptureStreams, WatchOK, CancellationStaysHome
  <1>16. CASE PublishResult
    <2>1. UNCHANGED <<target, watch, watchGen, gen, detached, ctxDone, early>> /\ item \in Items /\ SendUpdate(item)
          /\ loop = "publish" /\ loop' = "send"
          /\ turn' = IF item.kind = "calls" THEN turn + 1 ELSE turn
      BY <1>16 DEF PublishResult, LoopOK, Emitting
    <2>2. \A q \in Requests : rpc'[q] = rpc[q] \/ rpc'[q] \notin Fresh
      BY <2>1, AnswerMoves DEF Fresh
    <2>3. item.kind = "calls" => detached
      BY <2>1 DEF WatchOK
    <2> QED
      BY <2>1, <2>2, <2>3 DEF WatchOK, CancellationStaysHome, Fresh
  <1>17. CASE PublishError
    <2>1. [turn |-> turn, kind |-> "error"] \in Items
      BY ItemParts
    <2>2. \A q \in Requests : rpc'[q] = rpc[q] \/ rpc'[q] \notin Fresh
      BY <1>17, <2>1, AnswerMoves DEF PublishError, Fresh
    <2> QED
      BY <1>1, <1>17, <2>2 DEF PublishError
  <1>18. CASE SendResult \/ SendError \/ TurnParks \/ TurnEnds
    BY <1>2, <1>18 DEF SendResult, SendError, TurnParks, TurnEnds, LoopOK
  <1>19. CASE CloseStreams \/ Finish \/ Disconnected
    BY <1>1, <1>19 DEF CloseStreams, Finish, Disconnected
  <1>20. CASE SessionFails \/ EventRefused \/ Aborted \/ RequestDone \/ IdleTimeout
    BY <1>1, <1>20 DEF SessionFails, EventRefused, Aborted, RequestDone, IdleTimeout, Fails
  <1>21. CASE \/ SignalAbort \/ AbortCancels \/ AbortReturns \/ (\E b \in Batches : BatchStep(b))
              \/ StopActive \/ StopStep \/ UNCHANGED vars
    BY <1>1, <1>21 DEF SignalAbort, AbortCancels, AbortReturns, BatchStep, Expire, ExpireAborted, CloseForgets,
                       StopActive, StopStep, StopPending, StopCancelAll, StopAborted, StopWaits, vars
  <1> QED
    BY <1>3, <1>4, <1>6, <1>7, <1>8, <1>9, <1>10, <1>11, <1>12, <1>13, <1>14, <1>15, <1>16, <1>17, <1>18, <1>19,
       <1>20, <1>21
    DEF Next, RequestStep, HelperStep, LoopStep, SelectStep

----------------------------------------------------------------------------
(* Stop.                                                                     *)

LEMMA StopTypes ==
  ASSUME TypeOK
  PROVE  /\ tracked \subseteq Batches /\ pending \subseteq Batches
         /\ pendingClosed \in BOOLEAN /\ active \in BOOLEAN
         /\ activeClosed \in BOOLEAN /\ brokerClosed \in BOOLEAN /\ snapshot \in BOOLEAN
         /\ stop \in {"no", "pending", "cancel", "abort", "wait", "done"}
         /\ abort \in {"no", "signalled", "cancelled", "done"}
  BY DEF TypeOK, RegistryType, StopType, RunType

LEMMA StopInit == Init => StopOK
  BY DEF Init, StopOK, ClosedOK, OpenOK, ActiveOK, OpenBatches

LEMMA ClosedNext == TypeInv /\ ClosedOK /\ [Next]_vars => ClosedOK'
  <1> SUFFICES ASSUME TypeOK, ClosedOK, [Next]_vars PROVE ClosedOK'
    BY DEF TypeInv
  <1>1. ASSUME UNCHANGED <<stop, activeClosed, pendingClosed, brokerClosed>>, pending' \subseteq pending
        PROVE  ClosedOK'
    BY <1>1, StopTypes DEF ClosedOK
  <1>2. ASSUME UNCHANGED <<stop, activeClosed, pendingClosed, brokerClosed>>, NEW b, PutPending(b) PROVE ClosedOK'
    BY <1>2, StopTypes DEF ClosedOK, PutPending
  <1>3. ASSUME UNCHANGED <<stop, activeClosed, pendingClosed, brokerClosed>>, NEW b, HookExpiry(b) PROVE ClosedOK'
    BY <1>1, <1>3 DEF HookExpiry
  <1>4. ASSUME NEW q \in Requests, NEW m \in {"json", "stream"},
               Launch(q, m) \/ (\E b \in Batches : Find(q, b, m)) PROVE ClosedOK'
    BY <1>1, <1>4 DEF Launch, Find
  <1>5. ASSUME NEW q \in Requests, Attach(q) \/ Complete(q) \/ Discard(q) \/ Setup(q) \/ Deliver(q) \/ Forget(q)
                                   \/ Leave(q)
        PROVE  ClosedOK'
    BY <1>1, <1>5 DEF Attach, Complete, Discard, Setup, Deliver, Forget, Leave
  <1>6. ASSUME NEW q \in Requests, Remember(q) \/ Hook(q) PROVE ClosedOK'
    BY <1>2, <1>3, <1>6 DEF Remember, Hook
  <1>7. ASSUME NEW q \in Requests, HelperStep(q) \/ CancelContext(q) PROVE ClosedOK'
    BY <1>1, <1>7 DEF HelperStep, StartDrain, DrainEnds, WatchCheck, WatchEnds, CancelContext
  <1>8. CASE PersistPending \/ PersistHook
    BY <1>2, <1>3, <1>8 DEF PersistPending, PersistHook
  <1>9. CASE LoopAborted \/ PersistSaved \/ PersistFails \/ CaptureStreams \/ PublishResult
    BY <1>1, <1>9 DEF LoopAborted, PersistSaved, PersistFails, Fails, CaptureStreams, PublishResult
  <1>10. CASE SendResult \/ PublishError \/ SendError \/ CloseStreams \/ Finish
    BY <1>1, <1>10 DEF SendResult, PublishError, SendError, CloseStreams, Finish
  <1>11. CASE SelectStep \/ Disconnected
    BY <1>1, <1>11 DEF SelectStep, TurnParks, TurnEnds, SessionFails, EventRefused, Aborted, RequestDone, IdleTimeout,
                       Fails, Disconnected
  <1>12. CASE SignalAbort \/ AbortCancels \/ AbortReturns \/ (\E b \in Batches : BatchStep(b)) \/ UNCHANGED vars
    BY <1>1, <1>12 DEF SignalAbort, AbortCancels, AbortReturns, BatchStep, Expire, ExpireAborted, CloseForgets, vars
  <1>13. CASE StopActive \/ StopStep
    BY <1>13, StopTypes
    DEF StopActive, StopStep, StopPending, StopCancelAll, StopAborted, StopWaits, ClosedOK
  <1> QED
    BY <1>4, <1>5, <1>6, <1>7, <1>8, <1>9, <1>10, <1>11, <1>12, <1>13 DEF Next, RequestStep, LoopStep

LEMMA OpenNext == TypeInv /\ CourseOK /\ TurnsOK /\ OpenOK /\ [Next]_vars => OpenOK'
  <1> SUFFICES ASSUME TypeOK, CourseOK, TurnsOK, OpenOK, [Next]_vars PROVE OpenOK'
    BY DEF TypeInv
  <1> USE CourseTypes
  <1>1. ASSUME UNCHANGED brokerClosed, \A b \in Batches : batch'[b] = "open" => batch[b] = "open" /\ b \in tracked'
        PROVE  OpenOK'
    BY <1>1 DEF OpenOK, OpenBatches
  <1>2. \A b \in Batches : batch[b] = "open" => b \in tracked
    BY DEF OpenOK, OpenBatches
  <1>3. ASSUME UNCHANGED <<brokerClosed, batch, tracked>> PROVE OpenOK'
    BY <1>1, <1>2, <1>3
  <1>4. ASSUME NEW next, NEW bs, CloseBatches(bs, next)
        PROVE  \A b \in Batches : batch'[b] = "open" => batch[b] = "open" /\ b \notin bs
    BY <1>4 DEF CloseBatches
  <1>5. ASSUME NEW q \in Requests, NEW m \in {"json", "stream"},
               Launch(q, m) \/ (\E b \in Batches : Find(q, b, m)) PROVE OpenOK'
    BY <1>3, <1>5 DEF Launch, Find
  <1>6. ASSUME NEW q \in Requests, Attach(q) \/ Setup(q) \/ Deliver(q) \/ Leave(q) \/ Remember(q) \/ Hook(q)
        PROVE  OpenOK'
    BY <1>3, <1>6 DEF Attach, Setup, Deliver, Leave, Remember, Hook
  <1>7. ASSUME NEW q \in Requests, Complete(q) PROVE OpenOK'
    BY <1>1, <1>2, <1>7 DEF Complete
  <1>8. ASSUME NEW q \in Requests, Discard(q) PROVE OpenOK'
    BY <1>1, <1>2, <1>4, <1>8 DEF Discard, OpenBatches
  <1>9. ASSUME NEW q \in Requests, Forget(q) PROVE OpenOK'
    <2>1. batch[target[q]] = "completed"
      BY <1>9 DEF Forget, TurnsOK, TargetsOK
    <2> QED
      BY <1>1, <1>2, <1>9, <2>1 DEF Forget
  <1>10. ASSUME NEW q \in Requests, HelperStep(q) \/ CancelContext(q) PROVE OpenOK'
    BY <1>3, <1>10 DEF HelperStep, StartDrain, DrainEnds, WatchCheck, WatchEnds, CancelContext
  <1>11. CASE LoopAborted \/ PersistPending \/ PersistHook \/ PersistSaved \/ PersistFails \/ CaptureStreams
    BY <1>3, <1>11 DEF LoopAborted, PersistPending, PersistHook, PersistSaved, PersistFails, Fails, CaptureStreams
  <1>12. CASE PublishResult \/ SendResult \/ PublishError \/ SendError \/ CloseStreams \/ Finish \/ Disconnected
    BY <1>3, <1>12 DEF PublishResult, SendResult, PublishError, SendError, CloseStreams, Finish, Disconnected
  <1>13. CASE TurnParks
    <2>1. CASE brokerClosed
      BY <1>13, <1>1, <1>2, <2>1 DEF TurnParks
    <2>2. CASE ~brokerClosed
      BY <1>13, <1>2, <2>2 DEF TurnParks, OpenOK, OpenBatches
    <2> QED
      BY <2>1, <2>2
  <1>14. CASE TurnEnds \/ SessionFails \/ EventRefused \/ Aborted \/ RequestDone \/ IdleTimeout
    BY <1>3, <1>14 DEF TurnEnds, SessionFails, EventRefused, Aborted, RequestDone, IdleTimeout, Fails
  <1>15. CASE AbortCancels
    BY <1>1, <1>2, <1>4, <1>15 DEF AbortCancels
  <1>16. CASE StopCancelAll
    <2>1. \A b \in Batches : batch'[b] # "open"
      BY <1>2, <1>4, <1>16 DEF StopCancelAll, OpenBatches
    <2> QED
      BY <2>1 DEF OpenOK, OpenBatches
  <1>17. ASSUME NEW b \in Batches, Expire(b) PROVE OpenOK'
    BY <1>1, <1>2, <1>4, <1>17 DEF Expire
  <1>18. ASSUME NEW b \in Batches, CloseForgets(b) PROVE OpenOK'
    <2>1. batch[b] = "expired"
      BY <1>18 DEF CloseForgets, CourseOK
    <2> QED
      BY <1>1, <1>2, <1>18, <2>1 DEF CloseForgets
  <1>19. CASE \/ SignalAbort \/ AbortReturns \/ (\E b \in Batches : ExpireAborted(b))
              \/ StopActive \/ StopPending \/ StopAborted \/ StopWaits \/ UNCHANGED vars
    BY <1>3, <1>19 DEF SignalAbort, AbortReturns, ExpireAborted, StopActive, StopPending, StopAborted, StopWaits, vars
  <1> QED
    BY <1>5, <1>6, <1>7, <1>8, <1>9, <1>10, <1>11, <1>12, <1>13, <1>14, <1>15, <1>16, <1>17, <1>18, <1>19
    DEF Next, RequestStep, LoopStep, SelectStep, BatchStep, StopStep

LEMMA ActiveNext == TypeInv /\ LaunchOK /\ ClosedOK /\ ActiveOK /\ [Next]_vars => ActiveOK'
  <1> SUFFICES ASSUME TypeOK, LoopOK, LaunchOK, ClosedOK, ActiveOK, [Next]_vars PROVE ActiveOK'
    BY DEF TypeInv
  <1> USE StopTypes
  <1>1. ASSUME UNCHANGED <<active, activeClosed, snapshot, stop, abort>>,
               loop' \in {"new", "ended"} <=> loop \in {"new", "ended"}
        PROVE  ActiveOK'
    BY <1>1 DEF ActiveOK
  <1>2. ASSUME NEW q \in Requests, NEW m \in {"json", "stream"}, Launch(q, m) PROVE ActiveOK'
    <2>1. UNCHANGED <<activeClosed, snapshot, stop>> /\ loop = "new" /\ ~active
      BY <1>2 DEF Launch, LaunchOK, ActiveOK
    <2>2. CASE ~activeClosed /\ active' = TRUE /\ loop' = "select"
      BY <2>1, <2>2 DEF ClosedOK, ActiveOK
    <2>3. CASE activeClosed /\ abort' = "done" /\ loop' = "ended" /\ UNCHANGED active
      BY <2>1, <2>3 DEF ActiveOK
    <2> QED
      BY <1>2, <2>2, <2>3 DEF Launch
  <1>3. ASSUME NEW q \in Requests, NEW m \in {"json", "stream"}, NEW b \in Batches, Find(q, b, m) PROVE ActiveOK'
    BY <1>1, <1>3 DEF Find
  <1>4. ASSUME NEW q \in Requests, RequestStep(q) PROVE ActiveOK'
    BY <1>1, <1>4 DEF RequestStep, Attach, Complete, Discard, Setup, Deliver, Forget, Leave, Remember, Hook
  <1>5. ASSUME NEW q \in Requests, HelperStep(q) \/ CancelContext(q) PROVE ActiveOK'
    BY <1>1, <1>5 DEF HelperStep, StartDrain, DrainEnds, WatchCheck, WatchEnds, CancelContext
  <1>6. CASE LoopAborted \/ PersistPending \/ PersistHook \/ PersistSaved \/ PersistFails \/ CaptureStreams
    BY <1>1, <1>6 DEF LoopAborted, PersistPending, PersistHook, PersistSaved, PersistFails, Fails, CaptureStreams,
                      LoopOK
  <1>7. CASE PublishResult \/ SendResult \/ PublishError \/ SendError \/ CloseStreams \/ Disconnected
    BY <1>1, <1>7 DEF PublishResult, SendResult, PublishError, SendError, CloseStreams, Disconnected, LoopOK
  <1>8. CASE Finish
    BY <1>8 DEF Finish, ActiveOK
  <1>9. CASE SelectStep
    BY <1>1, <1>9 DEF SelectStep, TurnParks, TurnEnds, SessionFails, EventRefused, Aborted, RequestDone, IdleTimeout,
                      Fails
  <1>10. CASE SignalAbort \/ AbortCancels \/ AbortReturns
    BY <1>10 DEF SignalAbort, AbortCancels, AbortReturns, ActiveOK
  <1>11. CASE (\E b \in Batches : BatchStep(b)) \/ UNCHANGED vars
    BY <1>1, <1>11 DEF BatchStep, Expire, ExpireAborted, CloseForgets, vars
  <1>12. CASE StopActive
    BY <1>12 DEF StopActive, ActiveOK
  <1>13. CASE StopPending
    BY <1>13 DEF StopPending, ActiveOK
  <1>14. CASE StopCancelAll
    BY <1>14 DEF StopCancelAll, ActiveOK
  <1>15. CASE StopAborted \/ StopWaits
    BY <1>15 DEF StopAborted, StopWaits, ActiveOK
  <1> QED
    BY <1>2, <1>3, <1>4, <1>5, <1>6, <1>7, <1>8, <1>9, <1>10, <1>11, <1>12, <1>13, <1>14, <1>15
    DEF Next, LoopStep, StopStep

\* What Stop has closed, seen together.
LEMMA StopImplies == TypeInv /\ StopOK => StopReachesAll
  BY DEF StopOK, ClosedOK, OpenOK, ActiveOK, StopReachesAll

----------------------------------------------------------------------------
(* All of them.                                                              *)

GatewayInv == TypeInv /\ CourseOK /\ TurnsOK /\ LaunchOK /\ StreamOK /\ RegistryOK /\ WatchOK /\ StopOK

LEMMA GatewayInit == Init => GatewayInv
  BY TypeInit, CourseInit, StreamInit, RegistryInit, WatchInit, StopInit DEF GatewayInv

LEMMA GatewayNext == GatewayInv /\ [Next]_vars => GatewayInv'
  <1> SUFFICES ASSUME GatewayInv, [Next]_vars PROVE GatewayInv'
    OBVIOUS
  <1>1. TypeInv' /\ CourseOK' /\ TurnsOK'
    BY TypeInvNext, CourseNext, TurnsNext DEF GatewayInv
  <1>2. LaunchOK' /\ StreamOK' /\ RegistryOK'
    BY LaunchNext, StreamNext, RegistryNext DEF GatewayInv
  <1>3. WatchOK' /\ StopOK'
    BY WatchNext, ClosedNext, OpenNext, ActiveNext DEF GatewayInv, StopOK
  <1> QED
    BY <1>1, <1>2, <1>3 DEF GatewayInv

LEMMA GatewayInvariant == Spec => []GatewayInv
  BY GatewayInit, GatewayNext, PTL DEF Spec

----------------------------------------------------------------------------
(* Whose update it is. First what a step may do to one request.              *)

LEMMA AskTypes ==
  ASSUME TypeOK
  PROVE  /\ rpc \in [Requests -> {"idle", "attach", "complete", "setup", "deliver", "forget", "open",
                                  "waiting", "remember", "hook", "answered", "refused"}]
         /\ mode \in [Requests -> {"json", "stream"}] /\ target \in [Requests -> Turns]
         /\ got \in [Requests -> Items \cup {NoItem}]
         /\ drain \in [Requests -> {"none", "starting", "waiting", "gone", "missed"}]
         /\ updates \in Seq(Items) /\ turn \in Turns /\ closed \in BOOLEAN
  BY DEF TypeOK, AskType, DrainType, DataType

\* Only the goroutine that discards its update moves.
Rests(q) ==
    /\ rpc'[q] = rpc[q] /\ mode'[q] = mode[q] /\ target'[q] = target[q] /\ got'[q] = got[q]
    /\ \/ drain'[q] = drain[q]
       \/ drain[q] \in {"starting", "waiting"} /\ drain'[q] \in {"waiting", "gone", "missed"}

Begins(q) ==
    /\ rpc[q] = "idle" /\ got'[q] = got[q] /\ drain'[q] = drain[q]
    /\ \/ rpc'[q] = "refused" /\ target'[q] = target[q]
       \/ rpc'[q] = "attach" /\ q = First /\ target'[q] = target[q]
       \/ rpc'[q] = "complete" /\ \E b \in Batches : Known(b) /\ target'[q] = b

Steps == {<<"complete", "setup">>, <<"complete", "deliver">>, <<"complete", "refused">>, <<"setup", "deliver">>,
          <<"deliver", "forget">>, <<"attach", "waiting">>, <<"forget", "waiting">>, <<"waiting", "refused">>,
          <<"remember", "hook">>, <<"hook", "answered">>}

Goes(q) ==
    /\ mode'[q] = mode[q] /\ target'[q] = target[q] /\ got'[q] = got[q] /\ drain'[q] = drain[q]
    /\ <<rpc[q], rpc'[q]>> \in Steps
    /\ rpc'[q] = "waiting" => mode[q] = "json"
    /\ rpc[q] = "complete" /\ rpc'[q] # "refused" =>
          /\ batch[target[q]] = "open" /\ batch' = [batch EXCEPT ![target[q]] = "completed"]
          /\ \A p \in Requests : p # q => rpc'[p] = rpc[p]

Opens(q) ==
    /\ mode'[q] = mode[q] /\ target'[q] = target[q] /\ got'[q] = got[q]
    /\ rpc[q] \in {"attach", "forget"} /\ mode[q] = "stream"
    /\ rpc'[q] = "open" /\ drain'[q] = "starting"

GetsAnswer(q) ==
    /\ mode'[q] = mode[q] /\ target'[q] = target[q] /\ drain'[q] = drain[q]
    /\ \/ rpc[q] \in {"attach", "forget"} /\ mode[q] = "json"
       \/ rpc[q] = "waiting"
    /\ rpc'[q] \in {"remember", "answered"} /\ got'[q] \in Items

Moves(q) == Rests(q) \/ Begins(q) \/ Goes(q) \/ Opens(q) \/ GetsAnswer(q)

LEMMA AnswerGets ==
  ASSUME TypeOK, NEW q \in Requests, NEW i \in Items, Answer(q, i)
  PROVE  /\ rpc'[q] \in {"remember", "answered"} /\ got'[q] = i
         /\ \A p \in Requests : p # q => rpc'[p] = rpc[p] /\ got'[p] = got[p]
  BY AskTypes DEF Answer

LEMMA ReceiveGets ==
  ASSUME TypeOK, NEW q \in Requests, Receive(q)
  PROVE  /\ \A p \in Requests : p # q => rpc'[p] = rpc[p] /\ got'[p] = got[p]
         /\ \/ updates = <<>> /\ rpc'[q] = "waiting" /\ UNCHANGED <<got, updates>>
            \/ /\ updates # <<>> /\ Head(updates) \in Items /\ updates' = Tail(updates)
               /\ Answer(q, Head(updates))
               /\ rpc'[q] \in {"remember", "answered"} /\ got'[q] = Head(updates)
  <1>1. CASE updates = <<>>
    BY <1>1, AskTypes DEF Receive
  <1>2. CASE updates # <<>>
    <2>1. Head(updates) \in Items
      BY <1>2, AskTypes
    <2> QED
      BY <1>2, <2>1, AnswerGets DEF Receive
  <1> QED
    BY <1>1, <1>2

LEMMA SendGets ==
  ASSUME TypeOK, NEW i \in Items, SendUpdate(i)
  PROVE  \/ \E q \in Requests :
               /\ rpc[q] = "waiting" /\ rpc'[q] \in {"remember", "answered"} /\ got'[q] = i
               /\ UNCHANGED <<drain, updates>>
               /\ \A p \in Requests : p # q => rpc'[p] = rpc[p] /\ got'[p] = got[p]
         \/ \E q \in Requests :
               /\ drain[q] = "waiting" /\ drain'[q] = "gone" /\ UNCHANGED <<rpc, got, updates>>
               /\ \A p \in Requests : p # q => drain'[p] = drain[p]
         \/ Waiting = {} /\ updates' = Append(updates, i) /\ UNCHANGED <<rpc, got, drain>>
  <1>1. ASSUME NEW q \in Waiting,
               IF rpc[q] = "waiting" THEN Answer(q, i) /\ UNCHANGED drain
               ELSE drain' = [drain EXCEPT ![q] = "gone"] /\ UNCHANGED <<rpc, got>>,
               UNCHANGED updates
        PROVE  \/ \E p \in Requests :
                     /\ rpc[p] = "waiting" /\ rpc'[p] \in {"remember", "answered"} /\ got'[p] = i
                     /\ UNCHANGED <<drain, updates>>
                     /\ \A r \in Requests : r # p => rpc'[r] = rpc[r] /\ got'[r] = got[r]
               \/ \E p \in Requests :
                     /\ drain[p] = "waiting" /\ drain'[p] = "gone" /\ UNCHANGED <<rpc, got, updates>>
                     /\ \A r \in Requests : r # p => drain'[r] = drain[r]
    <2>1. q \in Requests /\ (rpc[q] = "waiting" \/ drain[q] = "waiting")
      BY DEF Waiting
    <2>2. CASE rpc[q] = "waiting"
      BY <1>1, <2>1, <2>2, AnswerGets
    <2>3. CASE rpc[q] # "waiting"
      BY <1>1, <2>1, <2>3, AskTypes
    <2> QED
      BY <2>2, <2>3
  <1> QED
    BY <1>1 DEF SendUpdate

LEMMA MovesNext == TypeInv /\ [Next]_vars => \A q \in Requests : Moves(q)
  <1> SUFFICES ASSUME TypeOK, LoopOK, [Next]_vars, NEW q \in Requests PROVE Moves(q)
    BY DEF TypeInv
  <1> USE AskTypes
  <1>1. ASSUME UNCHANGED <<rpc, mode, target, got, drain>> PROVE Moves(q)
    BY <1>1 DEF Moves, Rests
  <1>2. ASSUME NEW m \in {"json", "stream"}, NEW p \in Requests, Launch(p, m) PROVE Moves(q)
    BY <1>2 DEF Launch, Moves, Rests, Begins
  <1>3. ASSUME NEW m \in {"json", "stream"}, NEW p \in Requests, NEW b \in Batches, Find(p, b, m) PROVE Moves(q)
    BY <1>3 DEF Find, Moves, Rests, Begins
  <1>4. ASSUME NEW p \in Requests, Attach(p) \/ Forget(p) PROVE Moves(q)
    <2>1. rpc[p] \in {"attach", "forget"} /\ UNCHANGED <<mode, target>>
      BY <1>4 DEF Attach, Forget
    <2>2. CASE mode[p] = "stream"
      <3>1. drain' = [drain EXCEPT ![p] = "starting"] /\ rpc' = [rpc EXCEPT ![p] = "open"] /\ UNCHANGED got
        BY <1>4, <2>2 DEF Attach, Forget
      <3> QED
        BY <2>1, <2>2, <3>1 DEF Moves, Rests, Opens
    <2>3. CASE mode[p] = "json"
      <3>1. Receive(p) /\ UNCHANGED drain
        BY <1>4, <2>3 DEF Attach, Forget
      <3>2. CASE q # p
        BY <2>1, <3>1, <3>2, ReceiveGets DEF Moves, Rests
      <3>3. CASE q = p /\ rpc'[p] = "waiting" /\ UNCHANGED got
        BY <2>1, <2>3, <3>1, <3>3 DEF Moves, Goes, Steps
      <3>4. CASE q = p /\ rpc'[p] \in {"remember", "answered"} /\ got'[p] = Head(updates) /\ Head(updates) \in Items
        BY <2>1, <2>3, <3>1, <3>4 DEF Moves, GetsAnswer
      <3> QED
        BY <3>1, <3>2, <3>3, <3>4, ReceiveGets
    <2> QED
      BY <2>2, <2>3
  <1>5. ASSUME NEW p \in Requests, Complete(p) PROVE Moves(q)
    BY <1>5 DEF Complete, Moves, Rests, Goes, Steps
  <1>6. ASSUME NEW p \in Requests, Discard(p) \/ Setup(p) \/ Deliver(p) \/ Leave(p) \/ Remember(p) \/ Hook(p)
        PROVE  Moves(q)
    BY <1>6 DEF Discard, Setup, Deliver, Leave, Remember, Hook, Moves, Rests, Goes, Steps
  <1>7. ASSUME NEW p \in Requests, HelperStep(p) \/ CancelContext(p) PROVE Moves(q)
    BY <1>7 DEF HelperStep, StartDrain, DrainEnds, WatchCheck, WatchEnds, CancelContext, Moves, Rests
  <1>8. CASE PublishResult \/ PublishError
    <2>1. PICK i \in Items : SendUpdate(i) /\ UNCHANGED <<mode, target>>
      BY <1>8, ItemParts DEF PublishResult, PublishError, LoopOK, Emitting
    <2> QED
      BY <2>1, SendGets DEF Moves, Rests, GetsAnswer
  <1>9. CASE LoopStep
    BY <1>1, <1>8, <1>9 DEF LoopStep, LoopAborted, PersistPending, PersistHook, PersistSaved, PersistFails, Fails,
                            CaptureStreams, SendResult, SendError, CloseStreams, Finish
  <1>10. CASE SelectStep \/ Disconnected
    BY <1>1, <1>10 DEF SelectStep, TurnParks, TurnEnds, SessionFails, EventRefused, Aborted, RequestDone, IdleTimeout,
                       Fails, Disconnected
  <1>11. CASE \/ SignalAbort \/ AbortCancels \/ AbortReturns \/ (\E b \in Batches : BatchStep(b))
              \/ StopActive \/ StopStep \/ UNCHANGED vars
    BY <1>1, <1>11 DEF SignalAbort, AbortCancels, AbortReturns, BatchStep, Expire, ExpireAborted, CloseForgets,
                       StopActive, StopStep, StopPending, StopCancelAll, StopAborted, StopWaits, vars
  <1> QED
    BY <1>2, <1>3, <1>4, <1>5, <1>6, <1>7, <1>9, <1>10, <1>11 DEF Next, RequestStep

\* A request that is served is answered from r.updates, or has a stream and a
\* goroutine that discards its update.
Ways(q) ==
    /\ got[q] # NoItem <=> rpc[q] \in {"remember", "hook", "answered"}
    /\ drain[q] # "none" <=> rpc[q] = "open"
    /\ rpc[q] = "open" => mode[q] = "stream"
    /\ rpc[q] \in {"waiting", "remember", "hook", "answered"} => mode[q] = "json"

WaysOK == \A q \in Requests : Ways(q)

LEMMA WaysInit == Init => WaysOK
  BY DEF Init, WaysOK, Ways

LEMMA WaysNext == TypeInv /\ WaysOK /\ [Next]_vars => WaysOK'
  <1> SUFFICES ASSUME TypeInv, WaysOK, [Next]_vars, NEW q \in Requests PROVE Ways(q)'
    BY DEF WaysOK
  <1> USE AskTypes DEF TypeInv
  <1>1. Ways(q) /\ Moves(q) /\ NoItem \notin Items
    BY MovesNext, ItemParts DEF WaysOK
  <1>2. CASE Rests(q)
    BY <1>1, <1>2 DEF Rests, Ways
  <1>3. CASE Begins(q)
    BY <1>1, <1>3 DEF Begins, Ways
  <1>4. CASE Goes(q)
    <2>1. rpc[q] # "open" /\ rpc'[q] # "open"
          /\ (rpc[q] \in {"remember", "hook", "answered"} <=> rpc'[q] \in {"remember", "hook", "answered"})
          /\ (rpc'[q] \in {"remember", "hook", "answered"} => rpc[q] \in {"remember", "hook"})
      BY <1>4 DEF Goes, Steps
    <2> QED
      BY <1>1, <1>4, <2>1 DEF Goes, Ways
  <1>5. CASE Opens(q)
    BY <1>1, <1>5 DEF Opens, Ways
  <1>6. CASE GetsAnswer(q)
    BY <1>1, <1>6 DEF GetsAnswer, Ways
  <1> QED
    BY <1>1, <1>2, <1>3, <1>4, <1>5, <1>6 DEF Moves

----------------------------------------------------------------------------
(* The buffer.                                                               *)

\* The turn's last result, or the error that ended it, has been published.
Last ==
    \/ loop \in {"failSend", "disconnect", "exit", "finish", "ended"}
    \/ loop = "send" /\ item.kind = "stop"
    \/ loop = "abort" /\ after = "exit"

\* How many updates the loop has published: one for each turn that is over.
Published == IF Last THEN turn + 1 ELSE turn

\* The buffer holds the updates of consecutive turns, up to the last one
\* published, and nothing that somebody waits for.
QueueOK ==
    /\ Waiting # {} => updates = <<>>
    /\ Len(updates) <= Published
    /\ \A n \in 1..Len(updates) : updates[n].turn = Published - Len(updates) + n - 1
    /\ closed => loop = "ended"

\* The loop is about to publish the result of its turn, or an error instead.
LEMMA PublishCounts ==
  ASSUME TypeInv
  PROVE  /\ PublishResult => /\ item \in Items /\ item.turn = turn /\ SendUpdate(item) /\ UNCHANGED closed
                             /\ ~Last /\ Published' = turn + 1
         /\ PublishError => /\ [turn |-> turn, kind |-> "error"] \in Items
                            /\ SendUpdate([turn |-> turn, kind |-> "error"]) /\ UNCHANGED closed
                            /\ ~Last /\ Published' = turn + 1
         /\ Published \in Nat /\ turn \in Nat /\ turn <= Published /\ Published <= turn + 1
  <1> USE AskTypes, TurnArithmetic DEF TypeInv
  <1>1. ASSUME PublishResult
        PROVE  /\ item \in Items /\ item.turn = turn /\ SendUpdate(item) /\ UNCHANGED closed
               /\ ~Last /\ Published' = turn + 1
    <2>1. /\ item \in Items /\ item.turn = turn /\ item.kind \in {"calls", "stop"} /\ SendUpdate(item)
          /\ UNCHANGED <<closed, item>> /\ loop = "publish" /\ loop' = "send"
          /\ turn' = IF item.kind = "calls" THEN turn + 1 ELSE turn
      BY <1>1 DEF PublishResult, LoopOK, Emitting
    <2>2. ~Last /\ (Last' <=> item.kind = "stop")
      BY <2>1 DEF Last
    <2> QED
      BY <2>1, <2>2 DEF Published
  <1>2. ASSUME PublishError
        PROVE  /\ [turn |-> turn, kind |-> "error"] \in Items
               /\ SendUpdate([turn |-> turn, kind |-> "error"]) /\ UNCHANGED closed
               /\ ~Last /\ Published' = turn + 1
    BY <1>2, ItemParts DEF PublishError, Last, Published
  <1>3. Published \in Nat /\ turn \in Nat /\ turn <= Published /\ Published <= turn + 1
    BY DEF Published
  <1> QED
    BY <1>1, <1>2, <1>3


\* Nothing else is published. (A runner that is refused is never used.)
LEMMA PublishedFrame ==
  ASSUME TypeInv, LaunchOK, [Next]_vars, ~PublishResult, ~PublishError
  PROVE  \/ Published' = Published
         \/ rpc[First] = "idle" /\ loop' = "ended" /\ closed' /\ UNCHANGED <<updates, turn>>
  <1> USE DEF TypeInv
  <1> DEFINE Goal == \/ Published' = Published
                     \/ rpc[First] = "idle" /\ loop' = "ended" /\ closed' /\ UNCHANGED <<updates, turn>>
  <1> SUFFICES Goal
    OBVIOUS
  <1>1. ASSUME UNCHANGED <<loop, after, item, turn>> PROVE Goal
    BY <1>1 DEF Published, Last
  <1>2. ASSUME NEW q \in Requests, NEW m \in {"json", "stream"}, Launch(q, m) PROVE Goal
    BY <1>2 DEF Launch, Published, Last, LaunchOK
  <1>3. ASSUME NEW q \in Requests, NEW m \in {"json", "stream"}, NEW b \in Batches, Find(q, b, m) PROVE Goal
    BY <1>1, <1>3 DEF Find
  <1>4. ASSUME NEW q \in Requests, RequestStep(q) PROVE Goal
    BY <1>1, <1>4 DEF RequestStep, Attach, Complete, Discard, Setup, Deliver, Forget, Leave, Remember, Hook
  <1>5. ASSUME NEW q \in Requests, HelperStep(q) \/ CancelContext(q) PROVE Goal
    BY <1>1, <1>5 DEF HelperStep, StartDrain, DrainEnds, WatchCheck, WatchEnds, CancelContext
  <1>6. CASE LoopAborted \/ PersistPending \/ PersistHook \/ PersistSaved \/ PersistFails \/ CaptureStreams
    BY <1>6 DEF LoopAborted, PersistPending, PersistHook, PersistSaved, PersistFails, Fails, CaptureStreams,
                LoopOK, Published, Last
  <1>7. CASE SendResult \/ SendError \/ CloseStreams \/ Finish \/ Disconnected
    BY <1>7 DEF SendResult, SendError, CloseStreams, Finish, Disconnected, LoopOK, Published, Last
  <1>8. CASE SelectStep
    BY <1>8 DEF SelectStep, TurnParks, TurnEnds, SessionFails, EventRefused, Aborted, RequestDone, IdleTimeout,
                Fails, Published, Last
  <1>9. CASE \/ SignalAbort \/ AbortCancels \/ AbortReturns \/ (\E b \in Batches : BatchStep(b))
             \/ StopActive \/ StopStep \/ UNCHANGED vars
    BY <1>1, <1>9 DEF SignalAbort, AbortCancels, AbortReturns, BatchStep, Expire, ExpireAborted, CloseForgets,
                      StopActive, StopStep, StopPending, StopCancelAll, StopAborted, StopWaits, vars
  <1> QED
    BY <1>2, <1>3, <1>4, <1>5, <1>6, <1>7, <1>8, <1>9 DEF Next, LoopStep

\* Nothing else puts an update into the buffer; what takes one out takes the first.
LEMMA UpdatesFrame ==
  ASSUME TypeOK, [Next]_vars, ~PublishResult, ~PublishError
  PROVE  \/ updates' = updates
         \/ updates # <<>> /\ updates' = Tail(updates)
  <1> DEFINE Goal == updates' = updates \/ (updates # <<>> /\ updates' = Tail(updates))
  <1> SUFFICES Goal
    OBVIOUS
  <1>1. ASSUME UNCHANGED updates PROVE Goal
    BY <1>1
  <1>2. ASSUME NEW q \in Requests, NEW m \in {"json", "stream"},
               Launch(q, m) \/ (\E b \in Batches : Find(q, b, m)) PROVE Goal
    BY <1>2 DEF Launch, Find
  <1>3. ASSUME NEW q \in Requests, Attach(q) \/ Forget(q) PROVE Goal
    BY <1>3, ReceiveGets DEF Attach, Forget
  <1>4. ASSUME NEW q \in Requests,
               Complete(q) \/ Discard(q) \/ Setup(q) \/ Deliver(q) \/ Leave(q) \/ Remember(q) \/ Hook(q) PROVE Goal
    BY <1>4 DEF Complete, Discard, Setup, Deliver, Leave, Remember, Hook
  <1>5. ASSUME NEW q \in Requests, HelperStep(q) \/ CancelContext(q) PROVE Goal
    BY <1>5 DEF HelperStep, StartDrain, DrainEnds, WatchCheck, WatchEnds, CancelContext
  <1>6. CASE LoopStep
    BY <1>6 DEF LoopStep, LoopAborted, PersistPending, PersistHook, PersistSaved, PersistFails, Fails, CaptureStreams,
                SendResult, SendError, CloseStreams, Finish
  <1>7. CASE SelectStep \/ Disconnected
    BY <1>7 DEF SelectStep, TurnParks, TurnEnds, SessionFails, EventRefused, Aborted, RequestDone, IdleTimeout,
                Fails, Disconnected
  <1>8. CASE \/ SignalAbort \/ AbortCancels \/ AbortReturns \/ (\E b \in Batches : BatchStep(b))
             \/ StopActive \/ StopStep \/ UNCHANGED vars
    BY <1>8 DEF SignalAbort, AbortCancels, AbortReturns, BatchStep, Expire, ExpireAborted, CloseForgets,
                StopActive, StopStep, StopPending, StopCancelAll, StopAborted, StopWaits, vars
  <1> QED
    BY <1>2, <1>3, <1>4, <1>5, <1>6, <1>7, <1>8 DEF Next, RequestStep

\* Who starts to wait found the buffer empty.
LEMMA WaitingFrame ==
  ASSUME TypeOK, [Next]_vars, ~PublishResult, ~PublishError
  PROVE  Waiting' \subseteq Waiting \/ updates' = <<>>
  <1> USE AskTypes
  <1> DEFINE Goal == Waiting' \subseteq Waiting \/ updates' = <<>>
  <1> SUFFICES Goal
    OBVIOUS
  <1>1. ASSUME \A q \in Requests : /\ rpc'[q] = rpc[q] \/ rpc'[q] # "waiting"
                                   /\ drain'[q] = drain[q] \/ drain'[q] # "waiting"
        PROVE  Goal
    BY <1>1 DEF Waiting
  <1>2. ASSUME NEW q \in Requests, NEW m \in {"json", "stream"},
               Launch(q, m) \/ (\E b \in Batches : Find(q, b, m)) PROVE Goal
    BY <1>1, <1>2 DEF Launch, Find
  <1>3. ASSUME NEW q \in Requests, Attach(q) \/ Forget(q) PROVE Goal
    <2>1. CASE mode[q] = "stream"
      <3>1. drain' = [drain EXCEPT ![q] = "starting"] /\ rpc' = [rpc EXCEPT ![q] = "open"]
        BY <1>3, <2>1 DEF Attach, Forget
      <3> QED
        BY <1>1, <3>1
    <2>2. CASE mode[q] # "stream"
      <3>1. Receive(q) /\ UNCHANGED drain
        BY <1>3, <2>2 DEF Attach, Forget
      <3> QED
        BY <1>1, <3>1, ReceiveGets
    <2> QED
      BY <2>1, <2>2
  <1>4. ASSUME NEW q \in Requests,
               Complete(q) \/ Discard(q) \/ Setup(q) \/ Deliver(q) \/ Leave(q) \/ Remember(q) \/ Hook(q) PROVE Goal
    BY <1>1, <1>4 DEF Complete, Discard, Setup, Deliver, Leave, Remember, Hook
  <1>5. ASSUME NEW q \in Requests, HelperStep(q) \/ CancelContext(q) PROVE Goal
    <2>1. CASE StartDrain(q)
      BY <1>1, <2>1 DEF StartDrain
    <2>2. CASE ~StartDrain(q)
      BY <1>1, <1>5, <2>2 DEF HelperStep, DrainEnds, WatchCheck, WatchEnds, CancelContext
    <2> QED
      BY <2>1, <2>2
  <1>6. CASE LoopStep
    BY <1>1, <1>6 DEF LoopStep, LoopAborted, PersistPending, PersistHook, PersistSaved, PersistFails, Fails,
                CaptureStreams, SendResult, SendError, CloseStreams, Finish
  <1>7. CASE SelectStep \/ Disconnected
    BY <1>1, <1>7 DEF SelectStep, TurnParks, TurnEnds, SessionFails, EventRefused, Aborted, RequestDone, IdleTimeout,
                Fails, Disconnected
  <1>8. CASE \/ SignalAbort \/ AbortCancels \/ AbortReturns \/ (\E b \in Batches : BatchStep(b))
             \/ StopActive \/ StopStep \/ UNCHANGED vars
    BY <1>1, <1>8 DEF SignalAbort, AbortCancels, AbortReturns, BatchStep, Expire, ExpireAborted, CloseForgets,
                StopActive, StopStep, StopPending, StopCancelAll, StopAborted, StopWaits, vars
  <1> QED
    BY <1>2, <1>3, <1>4, <1>5, <1>6, <1>7, <1>8 DEF Next, RequestStep

\* r.closed is closed by the loop, or for want of one.
LEMMA ClosedEnds == LaunchOK /\ (closed => loop = "ended") /\ [Next]_vars => (closed' => loop' = "ended")
  <1> DEFINE Goal == closed' => loop' = "ended"
  <1> SUFFICES ASSUME LaunchOK, closed => loop = "ended", [Next]_vars PROVE Goal
    OBVIOUS
  <1>1. ASSUME UNCHANGED <<closed, loop>> PROVE Goal
    BY <1>1
  <1>2. ASSUME NEW q \in Requests, NEW m \in {"json", "stream"}, Launch(q, m) PROVE Goal
    BY <1>2 DEF Launch, LaunchOK
  <1>3. ASSUME NEW q \in Requests, RequestStep(q) PROVE Goal
    BY <1>1, <1>3 DEF RequestStep, Attach, Complete, Discard, Setup, Deliver, Forget, Leave, Remember, Hook
  <1>4. ASSUME NEW q \in Requests, HelperStep(q) \/ CancelContext(q) PROVE Goal
    BY <1>1, <1>4 DEF HelperStep, StartDrain, DrainEnds, WatchCheck, WatchEnds, CancelContext
  <1>5. CASE LoopStep
    BY <1>5 DEF LoopStep, LoopAborted, PersistPending, PersistHook, PersistSaved, PersistFails, Fails,
                CaptureStreams, PublishResult, SendResult, PublishError, SendError, CloseStreams, Finish
  <1>6. CASE SelectStep \/ Disconnected
    BY <1>6 DEF SelectStep, TurnParks, TurnEnds, SessionFails, EventRefused, Aborted, RequestDone, IdleTimeout,
                Fails, Disconnected
  <1>7. CASE \/ SignalAbort \/ AbortCancels \/ AbortReturns \/ (\E b \in Batches : BatchStep(b))
             \/ StopActive \/ StopStep \/ UNCHANGED vars
    BY <1>7 DEF SignalAbort, AbortCancels, AbortReturns, BatchStep, Expire, ExpireAborted, CloseForgets,
                StopActive, StopStep, StopPending, StopCancelAll, StopAborted, StopWaits, vars
  <1>8. ASSUME NEW q \in Requests, NEW m \in {"json", "stream"}, NEW b \in Batches, Find(q, b, m) PROVE Goal
    BY <1>1, <1>8 DEF Find
  <1> QED
    BY <1>2, <1>3, <1>4, <1>5, <1>6, <1>7, <1>8 DEF Next

LEMMA QueueInit == Init => QueueOK
  BY DEF Init, QueueOK, Published, Last, Waiting

LEMMA QueueNext == TypeInv /\ TurnsOK /\ LaunchOK /\ QueueOK /\ [Next]_vars => QueueOK'
  <1> SUFFICES ASSUME TypeInv, TurnsOK, LaunchOK, QueueOK, [Next]_vars PROVE QueueOK'
    OBVIOUS
  <1> USE AskTypes, PublishCounts DEF TypeInv
  <1>1. closed' => loop' = "ended"
    BY ClosedEnds DEF QueueOK
  <1>2. ASSUME NEW i \in Items, i.turn = turn, SendUpdate(i), ~Last, Published' = turn + 1 PROVE QueueOK'
    <2>0. Published = turn
      BY <1>2 DEF Published
    <2>1. CASE UNCHANGED updates /\ Waiting # {}
      <3>1. updates' = <<>> /\ Published' \in Nat
        BY <1>2, <2>1 DEF QueueOK
      <3> QED
        BY <1>1, <3>1 DEF QueueOK
    <2>2. CASE Waiting = {} /\ updates' = Append(updates, i) /\ UNCHANGED <<rpc, got, drain>>
      <3>1. Waiting' = {}
        BY <2>2 DEF Waiting
      <3>2. Len(updates') = Len(updates) + 1 /\ Len(updates) \in Nat
        BY <2>2
      <3>3. Len(updates') <= Published'
        BY <1>2, <2>0, <3>2 DEF QueueOK
      <3>4. ASSUME NEW n \in 1..Len(updates') PROVE updates'[n].turn = Published' - Len(updates') + n - 1
        <4>1. CASE n \in 1..Len(updates)
          <5>1. updates'[n] = updates[n] /\ updates[n].turn = Published - Len(updates) + n - 1
            BY <2>2, <4>1 DEF QueueOK
          <5> QED
            BY <1>2, <2>0, <3>2, <4>1, <5>1
        <4>2. CASE n = Len(updates) + 1
          <5>1. updates'[n] = i
            BY <2>2, <4>2
          <5> QED
            BY <1>2, <3>2, <4>2, <5>1
        <4> QED
          BY <3>2, <4>1, <4>2
      <3> QED
        BY <1>1, <3>1, <3>3, <3>4 DEF QueueOK
    <2> QED
      BY <1>2, <2>1, <2>2, SendGets DEF Waiting
  <1>3. CASE ~PublishResult /\ ~PublishError
    <2>1. Waiting' # {} => updates' = <<>>
      BY <1>3, WaitingFrame, UpdatesFrame DEF QueueOK
    <2>2. CASE rpc[First] = "idle" /\ loop' = "ended" /\ closed' /\ UNCHANGED <<updates, turn>>
      <3>1. turn = 0 /\ loop = "new"
        BY <2>2 DEF TurnsOK, FirstOK, LaunchOK
      <3>2. Len(updates) <= 0
        BY <3>1 DEF QueueOK, Published, Last
      <3>3. updates' = <<>> /\ Published' \in Nat
        BY <2>2, <3>1, <3>2 DEF Published
      <3> QED
        BY <1>1, <3>3 DEF QueueOK
    <2>3. CASE Published' = Published /\ updates' = updates
      BY <1>1, <2>1, <2>3 DEF QueueOK
    <2>4. CASE Published' = Published /\ updates # <<>> /\ updates' = Tail(updates)
      <3>1. Len(updates') = Len(updates) - 1 /\ Len(updates) \in Nat
            /\ \A n \in 1..Len(updates') : n + 1 \in 1..Len(updates) /\ updates'[n] = updates[n + 1]
        BY <2>4
      <3>2. \A n \in 1..Len(updates') : updates'[n].turn = Published' - Len(updates') + n - 1
        BY <2>4, <3>1 DEF QueueOK
      <3>3. Len(updates') <= Published'
        BY <2>4, <3>1 DEF QueueOK
      <3> QED
        BY <1>1, <2>1, <3>2, <3>3 DEF QueueOK
    <2> QED
      BY <1>3, <2>2, <2>3, <2>4, PublishedFrame, UpdatesFrame
  <1> QED
    BY <1>2, <1>3, ItemParts

----------------------------------------------------------------------------
(* Who is served. A request is given the update of its own turn because one  *)
(* request is served per turn, one turn after the other.                     *)

\* What a step may do to a batch.
LEMMA BatchMoves ==
  TypeInv /\ CourseOK /\ [Next]_vars =>
      \A b \in Batches : \/ batch'[b] = batch[b]
                         \/ batch[b] = "none" /\ b = turn + 1 /\ TurnParks
                         \/ batch[b] = "open" /\ batch'[b] \in {"completed", "expired"}
  <1> SUFFICES ASSUME TypeOK, CourseOK, [Next]_vars, NEW b \in Batches
               PROVE  \/ batch'[b] = batch[b]
                      \/ batch[b] = "none" /\ b = turn + 1 /\ TurnParks
                      \/ batch[b] = "open" /\ batch'[b] \in {"completed", "expired"}
    BY DEF TypeInv
  <1> USE CourseTypes
  <1> DEFINE Goal == \/ batch'[b] = batch[b]
                     \/ batch[b] = "none" /\ b = turn + 1 /\ TurnParks
                     \/ batch[b] = "open" /\ batch'[b] \in {"completed", "expired"}
  <1> SUFFICES Goal
    OBVIOUS
  <1>1. ASSUME UNCHANGED batch PROVE Goal
    BY <1>1
  <1>2. ASSUME NEW next, NEW bs \in SUBSET OpenBatches, CloseBatches(bs, next) PROVE Goal
    BY <1>2 DEF CloseBatches, OpenBatches
  <1>3. ASSUME NEW q \in Requests, NEW m \in {"json", "stream"},
               Launch(q, m) \/ (\E c \in Batches : Find(q, c, m)) PROVE Goal
    BY <1>3 DEF Launch, Find
  <1>4. ASSUME NEW q \in Requests, RequestStep(q), ~Discard(q) PROVE Goal
    BY <1>4 DEF RequestStep, Attach, Complete, Setup, Deliver, Forget, Leave, Remember, Hook
  <1>5. ASSUME NEW q \in Requests, Discard(q) PROVE Goal
    BY <1>2, <1>5 DEF Discard
  <1>6. ASSUME NEW q \in Requests, HelperStep(q) \/ CancelContext(q) PROVE Goal
    BY <1>6 DEF HelperStep, StartDrain, DrainEnds, WatchCheck, WatchEnds, CancelContext
  <1>7. CASE LoopStep
    BY <1>7 DEF LoopStep, LoopAborted, PersistPending, PersistHook, PersistSaved, PersistFails, Fails, CaptureStreams,
                PublishResult, SendResult, PublishError, SendError, CloseStreams, Finish
  <1>8. CASE TurnParks
    BY <1>8 DEF TurnParks, CourseOK
  <1>9. CASE (SelectStep /\ ~TurnParks) \/ Disconnected
    BY <1>9 DEF SelectStep, TurnEnds, SessionFails, EventRefused, Aborted, RequestDone, IdleTimeout, Fails, Disconnected
  <1>10. CASE AbortCancels \/ StopCancelAll
    BY <1>2, <1>10 DEF AbortCancels, StopCancelAll
  <1>11. ASSUME NEW c \in Batches, BatchStep(c) PROVE Goal
    BY <1>2, <1>11 DEF BatchStep, Expire, ExpireAborted, CloseForgets, OpenBatches
  <1>12. CASE \/ SignalAbort \/ AbortReturns \/ StopActive \/ StopPending \/ StopAborted \/ StopWaits
              \/ UNCHANGED vars
    BY <1>12 DEF SignalAbort, AbortReturns, StopActive, StopPending, StopAborted, StopWaits, vars
  <1> QED
    BY <1>3, <1>4, <1>5, <1>6, <1>7, <1>8, <1>9, <1>10, <1>11, <1>12 DEF Next, StopStep

\* What was sent on a stream stays sent.
LEMMA EventsStay ==
  TypeOK /\ [Next]_vars =>
      \A q \in Requests : \A n \in 1..Len(evs[q]) : n \in 1..Len(evs'[q]) /\ evs'[q][n] = evs[q][n]
  <1> SUFFICES ASSUME TypeOK, [Next]_vars, NEW q \in Requests, NEW n \in 1..Len(evs[q])
               PROVE  n \in 1..Len(evs'[q]) /\ evs'[q][n] = evs[q][n]
    OBVIOUS
  <1> USE StreamTypes
  <1> DEFINE Goal == n \in 1..Len(evs'[q]) /\ evs'[q][n] = evs[q][n]
  <1> SUFFICES Goal
    OBVIOUS
  <1>1. ASSUME UNCHANGED evs PROVE Goal
    BY <1>1
  <1>2. ASSUME NEW p, NEW i, Delivered(p, i) \/ Undelivered(p) PROVE Goal
    <2>1. CASE evs' = [evs EXCEPT ![p] = Append(evs[p], i)] /\ p = q
      <3>1. evs'[q] = Append(evs[q], i) /\ evs[q] \in Seq(Items)
        BY <2>1
      <3>2. Len(evs'[q]) = Len(evs[q]) + 1 /\ evs'[q][n] = evs[q][n]
        BY <3>1
      <3> QED
        BY <3>1, <3>2
    <2>2. CASE evs' = [evs EXCEPT ![p] = Append(evs[p], i)] /\ p # q
      BY <2>2
    <2> QED
      BY <1>1, <1>2, <2>1, <2>2 DEF Delivered, Undelivered
  <1>3. ASSUME NEW p \in Requests, NEW m \in {"json", "stream"},
               Launch(p, m) \/ (\E b \in Batches : Find(p, b, m)) PROVE Goal
    BY <1>1, <1>3 DEF Launch, Find
  <1>4. ASSUME NEW p \in Requests, RequestStep(p) PROVE Goal
    BY <1>1, <1>4 DEF RequestStep, Attach, Complete, Discard, Setup, Deliver, Forget, Leave, Remember, Hook
  <1>5. ASSUME NEW p \in Requests, HelperStep(p) \/ CancelContext(p) PROVE Goal
    BY <1>1, <1>5 DEF HelperStep, StartDrain, DrainEnds, WatchCheck, WatchEnds, CancelContext
  <1>6. CASE SendResult \/ SendError
    BY <1>2, <1>6 DEF SendResult, SendError
  <1>7. CASE LoopStep /\ ~SendResult /\ ~SendError
    BY <1>1, <1>7 DEF LoopStep, LoopAborted, PersistPending, PersistHook, PersistSaved, PersistFails, Fails,
                      CaptureStreams, PublishResult, PublishError, CloseStreams, Finish
  <1>8. CASE SelectStep \/ Disconnected
    BY <1>1, <1>8 DEF SelectStep, TurnParks, TurnEnds, SessionFails, EventRefused, Aborted, RequestDone, IdleTimeout,
                Fails, Disconnected
  <1>9. CASE \/ SignalAbort \/ AbortCancels \/ AbortReturns \/ (\E b \in Batches : BatchStep(b))
             \/ StopActive \/ StopStep \/ UNCHANGED vars
    BY <1>1, <1>9 DEF SignalAbort, AbortCancels, AbortReturns, BatchStep, Expire, ExpireAborted, CloseForgets,
                StopActive, StopStep, StopPending, StopCancelAll, StopAborted, StopWaits, vars
  <1> QED
    BY <1>3, <1>4, <1>5, <1>6, <1>7, <1>8, <1>9 DEF Next

Served  == {"setup", "deliver", "forget", "open", "waiting", "remember", "hook", "answered"}
Serving == Served \cup {"attach"}

\* A request that is served, but for the first, has completed its batch.
ServedOK ==
    \A q \in Requests : rpc[q] \in Served /\ q # First =>
        target[q] \in Batches /\ batch[target[q]] = "completed"

OneEach ==
    \A p, q \in Requests : rpc[p] \in Serving /\ rpc[q] \in Serving /\ target[p] = target[q] => p = q

KnownOK == \A q \in Requests : rpc[q] = "complete" => Known(target[q])

\* A request with an update, or with a goroutine for it.
Drawn(q) == got[q] # NoItem \/ drain[q] # "none"

\* Whoever is served follows on requests that were served before it, one for
\* each earlier turn.
ChainOK ==
    \A q \in Requests : rpc[q] \in Served =>
        \A n \in 0..(target[q] - 1) : \E r \in Requests : target[r] = n /\ Drawn(r)

\* Nobody is given the update of a later turn than its own.
NoLater == \A q \in Requests : got[q] # NoItem => got[q].turn <= target[q]

LEMMA KnownStays ==
  TypeInv /\ [Next]_vars => \A b \in Batches : Known(b) => Known(b)'
  <1> SUFFICES ASSUME TypeInv, [Next]_vars, NEW b \in Batches, Known(b) PROVE Known(b)'
    OBVIOUS
  <1> USE DEF TypeInv
  <1>1. PICK q \in Requests :
            \/ rpc[q] = "answered" /\ got[q] = [turn |-> b - 1, kind |-> "calls"]
            \/ rpc[q] = "open" /\ \E n \in 1..Len(evs[q]) : evs[q][n] = [turn |-> b - 1, kind |-> "calls"]
    BY DEF Known
  <1>2. rpc'[q] = rpc[q] /\ got'[q] = got[q]
    <2>1. rpc[q] \in {"answered", "open"} /\ Moves(q)
      BY <1>1, MovesNext
    <2> QED
      BY <2>1 DEF Moves, Rests, Begins, Goes, Steps, Opens, GetsAnswer
  <1>3. CASE rpc[q] = "answered" /\ got[q] = [turn |-> b - 1, kind |-> "calls"]
    BY <1>2, <1>3 DEF Known
  <1>4. CASE rpc[q] = "open" /\ \E n \in 1..Len(evs[q]) : evs[q][n] = [turn |-> b - 1, kind |-> "calls"]
    BY <1>2, <1>4, EventsStay DEF Known
  <1> QED
    BY <1>1, <1>3, <1>4

\* A request that is served was served before, is the first, or completes its
\* batch now.
LEMMA ServedBefore ==
  ASSUME TypeInv, TurnsOK, [Next]_vars, NEW q \in Requests, rpc'[q] \in Served
  PROVE  /\ target'[q] = target[q] /\ mode'[q] = mode[q]
         /\ \/ rpc[q] \in Served
            \/ q = First /\ rpc[q] = "attach"
            \/ /\ rpc[q] = "complete" /\ target[q] \in Batches /\ q # First
               /\ batch[target[q]] = "open" /\ batch' = [batch EXCEPT ![target[q]] = "completed"]
               /\ \A p \in Requests : p # q => rpc'[p] = rpc[p]
  <1>1. Moves(q) /\ (rpc[q] = "attach" => q = First)
    BY MovesNext DEF TurnsOK, FirstOK
  <1>2. rpc[q] = "complete" => target[q] \in Batches /\ q # First
    BY DEF TurnsOK, TargetsOK, FirstOK, Continuing
  <1> QED
    BY <1>1, <1>2 DEF Moves, Rests, Begins, Goes, Steps, Opens, GetsAnswer, Served

LEMMA ServedNext == TypeInv /\ CourseOK /\ TurnsOK /\ ServedOK /\ [Next]_vars => ServedOK'
  <1> SUFFICES ASSUME TypeInv, CourseOK, TurnsOK, ServedOK, [Next]_vars,
                      NEW q \in Requests, rpc'[q] \in Served, q # First
               PROVE  target'[q] \in Batches /\ batch'[target'[q]] = "completed"
    BY DEF ServedOK
  <1>1. CASE rpc[q] \in Served
    BY <1>1, ServedBefore, BatchMoves DEF ServedOK
  <1>2. CASE rpc[q] = "complete" /\ target[q] \in Batches /\ batch' = [batch EXCEPT ![target[q]] = "completed"]
    BY <1>2, ServedBefore, CourseTypes DEF TypeInv
  <1> QED
    BY <1>1, <1>2, ServedBefore

LEMMA OneEachNext ==
  TypeInv /\ CourseOK /\ TurnsOK /\ ServedOK /\ OneEach /\ [Next]_vars /\ TurnsOK' => OneEach'
  <1> SUFFICES ASSUME TypeInv, CourseOK, TurnsOK, ServedOK, OneEach, [Next]_vars, TurnsOK',
                      NEW p \in Requests, NEW q \in Requests,
                      rpc'[p] \in Serving, rpc'[q] \in Serving, target'[p] = target'[q], p # q
               PROVE  FALSE
    BY DEF OneEach
  <1>1. ServedOK'
    BY ServedNext
  <1>2. \A r \in Requests : r # First /\ rpc'[r] \in Serving => rpc'[r] \in Served /\ target'[r] \in Batches
    BY <1>1 DEF TurnsOK, FirstOK, Serving, ServedOK
  <1>3. target'[First] = 0 /\ 0 \notin Batches
    BY TurnArithmetic DEF TurnsOK, FirstOK
  <1>4. p # First /\ q # First
    BY <1>2, <1>3
  <1>5. rpc'[p] \in Served /\ rpc'[q] \in Served /\ target[p] = target[q]
    BY <1>2, <1>4, ServedBefore
  <1>6. CASE rpc[p] \in Served /\ rpc[q] \in Served
    BY <1>5, <1>6 DEF OneEach, Serving
  <1>7. ASSUME NEW r \in {p, q}, rpc[r] = "complete", batch[target[r]] = "open",
               \A s \in Requests : s # r => rpc'[s] = rpc[s]
        PROVE  FALSE
    <2>1. PICK s \in {p, q} : s # r
      OBVIOUS
    <2>2. rpc[s] \in Served /\ s # First
      BY <1>4, <1>5, <1>7, <2>1
    <2> QED
      BY <1>5, <1>7, <2>1, <2>2 DEF ServedOK
  <1> QED
    BY <1>4, <1>5, <1>6, <1>7, ServedBefore

LEMMA KnownOKNext == TypeInv /\ TurnsOK /\ KnownOK /\ [Next]_vars => KnownOK'
  <1> SUFFICES ASSUME TypeInv, TurnsOK, KnownOK, [Next]_vars, NEW q \in Requests, rpc'[q] = "complete"
               PROVE  Known(target[q])'
    BY DEF KnownOK
  <1>1. PICK b \in Batches : Known(b) /\ target'[q] = b
    <2>1. CASE Rests(q)
      BY <2>1 DEF Rests, KnownOK, TurnsOK, TargetsOK, Continuing
    <2>2. CASE Begins(q)
      BY <2>2 DEF Begins
    <2> QED
      BY <2>1, <2>2, MovesNext DEF Moves, Goes, Steps, Opens, GetsAnswer
  <1>2. Known(b)'
    BY <1>1, KnownStays
  <1> QED
    BY <1>1, <1>2 DEF Known

LEMMA DrawnStays ==
  ASSUME TypeInv, WaysOK, [Next]_vars, NEW r \in Requests, Drawn(r)
  PROVE  target'[r] = target[r] /\ Drawn(r)' /\ rpc[r] \in Served
  <1>1. Ways(r) /\ Moves(r) /\ NoItem \notin Items
    BY MovesNext, ItemParts DEF WaysOK
  <1> QED
    BY <1>1 DEF Drawn, Ways, Moves, Rests, Begins, Goes, Steps, Opens, GetsAnswer, Served

LEMMA DrawnServed ==
  ASSUME WaysOK, NEW r \in Requests, Drawn(r)
  PROVE  rpc[r] \in Served
  BY DEF WaysOK, Ways, Drawn, Served

\* Who was told of an open batch was served in the turn that ended in it.
LEMMA ToldByPrevious ==
  ASSUME TypeInv, CourseOK, TurnsOK, StreamedOwnTurn, WaysOK, ServedOK, NoLater,
         NEW b \in Batches, Known(b), batch[b] = "open"
  PROVE  \E r \in Requests : target[r] = b - 1 /\ Drawn(r)
  <1> USE AskTypes, CourseTypes, TurnArithmetic DEF TypeInv
  <1>1. PICK r \in Requests :
            \/ rpc[r] = "answered" /\ got[r] = [turn |-> b - 1, kind |-> "calls"]
            \/ rpc[r] = "open" /\ \E n \in 1..Len(evs[r]) : evs[r][n] = [turn |-> b - 1, kind |-> "calls"]
    BY DEF Known
  <1>2. CASE rpc[r] = "open" /\ \E n \in 1..Len(evs[r]) : evs[r][n] = [turn |-> b - 1, kind |-> "calls"]
    BY <1>2 DEF StreamedOwnTurn, WaysOK, Ways, Drawn
  <1>3. CASE rpc[r] = "answered" /\ got[r] = [turn |-> b - 1, kind |-> "calls"]
    <2>1. got[r] # NoItem
      BY <1>3 DEF WaysOK, Ways
    <2>2. b - 1 <= target[r]
      <3>1. got[r].turn <= target[r]
        BY <2>1 DEF NoLater
      <3>2. got[r].turn = b - 1
        BY <1>3
      <3> QED
        BY <3>1, <3>2
    <2>3. CASE target[r] = b - 1
      BY <2>1, <2>3 DEF Drawn
    <2>4. CASE target[r] >= b
      <3>1. r # First
        BY <2>4 DEF TurnsOK, FirstOK
      <3>2. target[r] \in Batches /\ batch[target[r]] = "completed"
        BY <1>3, <3>1 DEF ServedOK, Served
      <3> QED
        BY <2>4, <3>2 DEF CourseOK
    <2> QED
      BY <2>2, <2>3, <2>4
  <1> QED
    BY <1>1, <1>2, <1>3

LEMMA ChainNext ==
  /\ TypeInv /\ CourseOK /\ TurnsOK /\ StreamedOwnTurn
  /\ WaysOK /\ ServedOK /\ KnownOK /\ ChainOK /\ NoLater /\ [Next]_vars
  => ChainOK'
  <1> SUFFICES ASSUME TypeInv, CourseOK, TurnsOK, StreamedOwnTurn,
                      WaysOK, ServedOK, KnownOK, ChainOK, NoLater, [Next]_vars,
                      NEW q \in Requests, rpc'[q] \in Served, NEW n \in 0..(target'[q] - 1)
               PROVE  \E r \in Requests : target'[r] = n /\ Drawn(r)'
    BY DEF ChainOK
  <1> USE AskTypes, TurnArithmetic DEF TypeInv
  <1>1. target'[q] = target[q] /\ target[q] \in Nat
    BY ServedBefore
  <1>2. SUFFICES \E r \in Requests : target[r] = n /\ Drawn(r)
    BY DrawnStays
  <1>3. CASE rpc[q] \in Served
    BY <1>1, <1>3 DEF ChainOK
  <1>4. CASE q = First
    BY <1>1, <1>4 DEF TurnsOK, FirstOK
  <1>5. CASE rpc[q] = "complete" /\ target[q] \in Batches /\ batch[target[q]] = "open"
    <2>1. PICK p \in Requests : target[p] = target[q] - 1 /\ Drawn(p)
      BY <1>5, ToldByPrevious DEF KnownOK
    <2>2. CASE n = target[q] - 1
      BY <2>1, <2>2
    <2>3. CASE n # target[q] - 1
      <3>1. n \in 0..(target[p] - 1)
        BY <1>1, <2>1, <2>3
      <3>2. rpc[p] \in Served
        BY <2>1, DrawnServed
      <3> QED
        BY <3>1, <3>2 DEF ChainOK
    <2> QED
      BY <2>2, <2>3
  <1> QED
    BY <1>3, <1>4, <1>5, ServedBefore

\* A request without an update is the last one served.
LEMMA Latest ==
  ASSUME TypeInv, TurnsOK, WaysOK, ServedOK, OneEach, ChainOK,
         NEW q \in Requests, rpc[q] \in Serving, ~Drawn(q), NEW p \in Requests, rpc[p] \in Serving
  PROVE  target[p] <= target[q]
  <1> USE AskTypes, TurnArithmetic DEF TypeInv
  <1> SUFFICES ASSUME target[p] > target[q] PROVE FALSE
    OBVIOUS
  <1>1. rpc[p] \in Served
    BY DEF TurnsOK, FirstOK, Serving
  <1>2. target[q] \in 0..(target[p] - 1)
    OBVIOUS
  <1>3. PICK r \in Requests : target[r] = target[q] /\ Drawn(r)
    BY <1>1, <1>2 DEF ChainOK
  <1>4. rpc[r] \in Serving
    BY <1>3, DrawnServed DEF Serving
  <1> QED
    BY <1>3, <1>4 DEF OneEach

\* The requests that have had an update, or whose goroutine has.
Taken == {q \in Requests : got[q] # NoItem \/ drain[q] = "gone"}

LEMMA TakenBelow ==
  ASSUME TypeInv, TurnsOK, WaysOK, ServedOK, OneEach, ChainOK, IsFiniteSet(Taken),
         NEW q \in Requests, rpc[q] \in Serving, ~Drawn(q)
  PROVE  Cardinality(Taken) \in Nat /\ Cardinality(Taken) <= target[q]
  <1> USE AskTypes, TurnArithmetic DEF TypeInv
  <1>1. \A p \in Taken : p \in Requests /\ Drawn(p) /\ rpc[p] \in Serving
    BY DrawnServed DEF Taken, Drawn, Serving
  <1>2. ASSUME NEW p \in Taken PROVE target[p] \in 0..(target[q] - 1)
    <2>1. target[p] <= target[q]
      BY <1>1, Latest
    <2>2. target[p] # target[q]
      BY <1>1 DEF OneEach
    <2> QED
      BY <1>1, <2>1, <2>2
  <1> DEFINE f == [p \in Taken |-> target[p]]
             T == 0..(target[q] - 1)
  <1>3. f \in Injection(Taken, T)
    <2>1. f \in [Taken -> T]
      BY <1>2
    <2>2. \A p, r \in Taken : f[p] = f[r] => p = r
      BY <1>1 DEF OneEach
    <2> QED
      BY <2>1, <2>2 DEF Injection, IsInjective
  <1>4. IsFiniteSet(T) /\ Cardinality(T) = target[q]
    <2>1. target[q] \in Nat /\ 0 \in Int /\ target[q] - 1 \in Int
      OBVIOUS
    <2> QED
      BY <2>1, FS_Interval
  <1>5. Cardinality(Taken) <= Cardinality(T)
    <2> HIDE DEF f, T
    <2> QED
      BY <1>3, <1>4, FS_Injection
  <1> QED
    BY <1>4, <1>5, FS_CardinalityType

----------------------------------------------------------------------------
(* The count of updates.                                                     *)

Over == closed /\ updates = <<>>

\* Every update that was published is in the buffer or has been given to somebody.
CountOK == Over \/ (IsFiniteSet(Taken) /\ Cardinality(Taken) + Len(updates) = Published)

FlowInv == WaysOK /\ QueueOK /\ ServedOK /\ OneEach /\ KnownOK /\ ChainOK /\ NoLater /\ CountOK

\* Who gets an update gets the next one, and had none.
LEMMA NextUpdate ==
  ASSUME TypeInv, WaysOK, QueueOK, CountOK, [Next]_vars, NEW q \in Requests, got'[q] # got[q]
  PROVE  /\ rpc[q] \in Serving /\ ~Drawn(q) /\ target'[q] = target[q]
         /\ IsFiniteSet(Taken) /\ got'[q].turn = Cardinality(Taken)
         /\ got'[q].turn = turn \/ Waiting = {}
  <1> USE AskTypes, PublishCounts DEF TypeInv
  <1>1. Moves(q) /\ Ways(q)
    BY MovesNext DEF WaysOK
  <1>2. GetsAnswer(q)
    BY <1>1 DEF Moves, Rests, Begins, Goes, Opens
  <1>3. rpc[q] \in Serving /\ ~Drawn(q) /\ target'[q] = target[q]
    BY <1>1, <1>2 DEF GetsAnswer, Ways, Drawn, Serving, Served
  <1> DEFINE Goal == /\ IsFiniteSet(Taken) /\ got'[q].turn = Cardinality(Taken)
                     /\ got'[q].turn = turn \/ Waiting = {}
  <1> SUFFICES Goal
    BY <1>3
  <1>4. ASSUME NEW i \in Items, i.turn = turn, SendUpdate(i), ~Last PROVE Goal
    <2>1. rpc[q] = "waiting" /\ got'[q] = i
      BY <1>2, <1>4, SendGets DEF GetsAnswer
    <2>2. updates = <<>> /\ ~closed
      <3>1. q \in Waiting
        BY <2>1 DEF Waiting
      <3> QED
        BY <1>4, <3>1 DEF QueueOK, Last
    <2>3. IsFiniteSet(Taken) /\ Cardinality(Taken) = turn
      BY <1>4, <2>2, FS_CardinalityType DEF CountOK, Over, Published
    <2> QED
      BY <1>4, <2>1, <2>3
  <1>5. CASE PublishResult \/ PublishError
    BY <1>4, <1>5, PublishCounts
  <1>6. ASSUME NEW p \in Requests, Attach(p) \/ Forget(p) PROVE Goal
    <2>1. Receive(p)
      BY <1>2, <1>6 DEF Attach, Forget
    <2>2. p = q /\ updates # <<>> /\ got'[q] = Head(updates)
      BY <2>1, ReceiveGets
    <2>3. Head(updates) = updates[1] /\ 1 \in 1..Len(updates) /\ Len(updates) \in Nat
      BY <2>2
    <2>4. got'[q].turn = Published - Len(updates)
      BY <2>2, <2>3 DEF QueueOK
    <2>5. IsFiniteSet(Taken) /\ Cardinality(Taken) + Len(updates) = Published /\ Cardinality(Taken) \in Nat
      BY <2>2, FS_CardinalityType DEF CountOK, Over
    <2>6. Waiting = {}
      BY <2>2 DEF QueueOK
    <2> QED
      BY <2>3, <2>4, <2>5, <2>6
  <1>7. ASSUME UNCHANGED got PROVE FALSE
    BY <1>7
  <1>8. ASSUME NEW p \in Requests, NEW m \in {"json", "stream"},
               Launch(p, m) \/ (\E b \in Batches : Find(p, b, m)) PROVE FALSE
    BY <1>7, <1>8 DEF Launch, Find
  <1>9. ASSUME NEW p \in Requests,
               Complete(p) \/ Discard(p) \/ Setup(p) \/ Deliver(p) \/ Leave(p) \/ Remember(p) \/ Hook(p) PROVE FALSE
    BY <1>7, <1>9 DEF Complete, Discard, Setup, Deliver, Leave, Remember, Hook
  <1>10. ASSUME NEW p \in Requests, HelperStep(p) \/ CancelContext(p) PROVE FALSE
    BY <1>7, <1>10 DEF HelperStep, StartDrain, DrainEnds, WatchCheck, WatchEnds, CancelContext
  <1>11. CASE LoopStep
    BY <1>5, <1>7, <1>11 DEF LoopStep, LoopAborted, PersistPending, PersistHook, PersistSaved, PersistFails, Fails,
                       CaptureStreams, SendResult, SendError, CloseStreams, Finish
  <1>12. ASSUME SelectStep \/ Disconnected PROVE FALSE
    BY <1>7, <1>12 DEF SelectStep, TurnParks, TurnEnds, SessionFails, EventRefused, Aborted, RequestDone, IdleTimeout,
                Fails, Disconnected
  <1>13. ASSUME \/ SignalAbort \/ AbortCancels \/ AbortReturns \/ (\E b \in Batches : BatchStep(b))
                \/ StopActive \/ StopStep \/ UNCHANGED vars
         PROVE  FALSE
    BY <1>7, <1>13 DEF SignalAbort, AbortCancels, AbortReturns, BatchStep, Expire, ExpireAborted, CloseForgets,
                StopActive, StopStep, StopPending, StopCancelAll, StopAborted, StopWaits, vars
  <1> QED
    BY <1>6, <1>8, <1>9, <1>10, <1>11, <1>12, <1>13 DEF Next, RequestStep

LEMMA NoLaterNext ==
  TypeInv /\ TurnsOK /\ FlowInv /\ [Next]_vars => NoLater'
  <1> SUFFICES ASSUME TypeInv, TurnsOK, FlowInv, [Next]_vars, NEW q \in Requests, got'[q] # NoItem
               PROVE  got'[q].turn <= target'[q]
    BY DEF NoLater
  <1> USE DEF FlowInv
  <1>1. CASE got'[q] = got[q]
    <2>1. rpc[q] # "idle" /\ got[q] # NoItem
      BY <1>1 DEF WaysOK, Ways
    <2>2. target'[q] = target[q]
      BY <2>1, MovesNext DEF Moves, Rests, Begins, Goes, Opens, GetsAnswer
    <2> QED
      BY <1>1, <2>1, <2>2 DEF NoLater
  <1>2. CASE got'[q] # got[q]
    BY <1>2, NextUpdate, TakenBelow
  <1> QED
    BY <1>1, <1>2

\* What takes an update is counted, and leaves the rest.
LEMMA TakenFrame ==
  ASSUME TypeInv, WaysOK, QueueOK, [Next]_vars, ~PublishResult, ~PublishError
  PROVE  \/ Taken' = Taken /\ updates' = updates
         \/ Over'
         \/ \E q \in Requests : /\ q \notin Taken /\ Taken' = Taken \cup {q}
                                /\ updates # <<>> /\ updates' = Tail(updates)
  <1> USE AskTypes DEF TypeInv
  <1> DEFINE Takes(q) == /\ q \notin Taken /\ Taken' = Taken \cup {q}
                         /\ updates # <<>> /\ updates' = Tail(updates)
             Goal == \/ Taken' = Taken /\ updates' = updates
                     \/ Over'
                     \/ \E q \in Requests : Takes(q)
  <1> SUFFICES Goal
    OBVIOUS
  <1>1. ASSUME UNCHANGED <<got, drain, updates>> PROVE Goal
    BY <1>1 DEF Taken
  <1>2. ASSUME NEW q \in Requests, NEW m \in {"json", "stream"},
               Launch(q, m) \/ (\E b \in Batches : Find(q, b, m)) PROVE Goal
    BY <1>1, <1>2 DEF Launch, Find
  <1>3. ASSUME NEW q \in Requests, Attach(q) \/ Forget(q) PROVE Goal
    <2>1. q \notin Taken /\ drain[q] = "none"
      BY <1>3 DEF Attach, Forget, WaysOK, Ways, Taken
    <2>2. CASE mode[q] = "stream"
      <3>1. drain' = [drain EXCEPT ![q] = "starting"] /\ UNCHANGED <<got, updates>>
        BY <1>3, <2>2 DEF Attach, Forget
      <3> QED
        BY <2>1, <3>1 DEF Taken
    <2>3. CASE mode[q] # "stream"
      <3>1. Receive(q) /\ UNCHANGED drain
        BY <1>3, <2>3 DEF Attach, Forget
      <3>2. CASE UNCHANGED <<got, updates>>
        BY <1>1, <3>1, <3>2
      <3>3. CASE updates # <<>> /\ updates' = Tail(updates) /\ got'[q] = Head(updates) /\ Head(updates) \in Items
        <4>1. got'[q] # NoItem
          BY <3>3, ItemParts
        <4>2. \A p \in Requests : p # q => got'[p] = got[p] /\ drain'[p] = drain[p]
          BY <3>1, ReceiveGets
        <4>3. Takes(q)
          BY <2>1, <3>3, <4>1, <4>2 DEF Taken
        <4> QED
          BY <4>3
      <3> QED
        BY <3>1, <3>2, <3>3, ReceiveGets
    <2> QED
      BY <2>2, <2>3
  <1>4. ASSUME NEW q \in Requests,
               Complete(q) \/ Discard(q) \/ Setup(q) \/ Deliver(q) \/ Leave(q) \/ Remember(q) \/ Hook(q) PROVE Goal
    BY <1>1, <1>4 DEF Complete, Discard, Setup, Deliver, Leave, Remember, Hook
  <1>5. ASSUME NEW q \in Requests, StartDrain(q) PROVE Goal
    <2>1. drain[q] = "starting" /\ UNCHANGED got /\ got[q] = NoItem /\ q \notin Taken
      BY <1>5 DEF StartDrain, WaysOK, Ways, Taken
    <2>2. CASE updates = <<>>
      BY <1>5, <2>1, <2>2 DEF StartDrain, Taken
    <2>3. CASE updates # <<>>
      <3>1. Takes(q)
        BY <1>5, <2>1, <2>3 DEF StartDrain, Taken
      <3> QED
        BY <3>1
    <2> QED
      BY <2>2, <2>3
  <1>6. ASSUME NEW q \in Requests, DrainEnds(q) PROVE Goal
    <2>1. CASE drain[q] = "waiting"
      BY <1>6, <2>1 DEF DrainEnds, Over, QueueOK, Waiting
    <2>2. CASE drain[q] = "starting"
      BY <1>6, <2>2 DEF DrainEnds, Taken
    <2> QED
      BY <1>6, <2>1, <2>2 DEF DrainEnds
  <1>7. ASSUME NEW q \in Requests, WatchCheck(q) \/ WatchEnds(q) \/ CancelContext(q) PROVE Goal
    BY <1>1, <1>7 DEF WatchCheck, WatchEnds, CancelContext
  <1>8. CASE LoopStep
    BY <1>1, <1>8 DEF LoopStep, LoopAborted, PersistPending, PersistHook, PersistSaved, PersistFails, Fails,
                      CaptureStreams, SendResult, SendError, CloseStreams, Finish
  <1>9. CASE SelectStep \/ Disconnected
    BY <1>1, <1>9 DEF SelectStep, TurnParks, TurnEnds, SessionFails, EventRefused, Aborted, RequestDone, IdleTimeout,
                Fails, Disconnected
  <1>10. CASE \/ SignalAbort \/ AbortCancels \/ AbortReturns \/ (\E b \in Batches : BatchStep(b))
              \/ StopActive \/ StopStep \/ UNCHANGED vars
    BY <1>1, <1>10 DEF SignalAbort, AbortCancels, AbortReturns, BatchStep, Expire, ExpireAborted, CloseForgets,
                StopActive, StopStep, StopPending, StopCancelAll, StopAborted, StopWaits, vars
  <1> QED
    BY <1>2, <1>3, <1>4, <1>5, <1>6, <1>7, <1>8, <1>9, <1>10 DEF Next, RequestStep, HelperStep

\* r.closed is not opened again.
LEMMA ClosedStays == LaunchOK /\ [Next]_vars /\ closed => closed'
  <1> SUFFICES ASSUME LaunchOK, [Next]_vars, closed PROVE closed'
    OBVIOUS
  <1>1. ASSUME NEW q \in Requests, NEW m \in {"json", "stream"},
               Launch(q, m) \/ (\E b \in Batches : Find(q, b, m)) PROVE closed'
    BY <1>1 DEF Launch, Find
  <1>2. ASSUME NEW q \in Requests, RequestStep(q) PROVE closed'
    BY <1>2 DEF RequestStep, Attach, Complete, Discard, Setup, Deliver, Forget, Leave, Remember, Hook
  <1>3. ASSUME NEW q \in Requests, HelperStep(q) \/ CancelContext(q) PROVE closed'
    BY <1>3 DEF HelperStep, StartDrain, DrainEnds, WatchCheck, WatchEnds, CancelContext
  <1>4. CASE LoopStep
    BY <1>4 DEF LoopStep, LoopAborted, PersistPending, PersistHook, PersistSaved, PersistFails, Fails,
                CaptureStreams, PublishResult, SendResult, PublishError, SendError, CloseStreams, Finish
  <1>5. CASE SelectStep \/ Disconnected
    BY <1>5 DEF SelectStep, TurnParks, TurnEnds, SessionFails, EventRefused, Aborted, RequestDone, IdleTimeout,
                Fails, Disconnected
  <1>6. CASE \/ SignalAbort \/ AbortCancels \/ AbortReturns \/ (\E b \in Batches : BatchStep(b))
             \/ StopActive \/ StopStep \/ UNCHANGED vars
    BY <1>6 DEF SignalAbort, AbortCancels, AbortReturns, BatchStep, Expire, ExpireAborted, CloseForgets,
                StopActive, StopStep, StopPending, StopCancelAll, StopAborted, StopWaits, vars
  <1> QED
    BY <1>1, <1>2, <1>3, <1>4, <1>5, <1>6 DEF Next

LEMMA CountInit == Init => CountOK
  <1> SUFFICES ASSUME Init PROVE CountOK
    OBVIOUS
  <1>1. Taken = {} /\ updates = <<>> /\ Published = 0
    BY DEF Init, Taken, Published, Last
  <1> QED
    BY <1>1, FS_EmptySet DEF CountOK

LEMMA CountNext ==
  TypeInv /\ TurnsOK /\ LaunchOK /\ WaysOK /\ QueueOK /\ CountOK /\ [Next]_vars => CountOK'
  <1> SUFFICES ASSUME TypeInv, TurnsOK, LaunchOK, WaysOK, QueueOK, CountOK, [Next]_vars PROVE CountOK'
    OBVIOUS
  <1> USE AskTypes, PublishCounts DEF TypeInv
  <1>1. ASSUME NEW q, q \notin Taken, Taken' = Taken \cup {q}, IsFiniteSet(Taken)
        PROVE  IsFiniteSet(Taken') /\ Cardinality(Taken') = Cardinality(Taken) + 1 /\ Cardinality(Taken) \in Nat
    BY <1>1, FS_AddElement, FS_CardinalityType
  <1>2. ASSUME NEW i \in Items, SendUpdate(i), ~Last, Published' = turn + 1 PROVE CountOK'
    <2>1. Published = turn /\ ~Over
      BY <1>2 DEF Published, Over, QueueOK, Last
    <2>2. IsFiniteSet(Taken) /\ Cardinality(Taken) + Len(updates) = turn /\ Cardinality(Taken) \in Nat
      BY <2>1, FS_CardinalityType DEF CountOK
    <2>3. ASSUME NEW q \in Requests, q \in Waiting, q \notin Taken, Taken' = Taken \cup {q}, UNCHANGED updates
          PROVE  CountOK'
      <3>1. updates = <<>> /\ updates' = <<>>
        BY <2>3 DEF QueueOK
      <3>2. IsFiniteSet(Taken') /\ Cardinality(Taken') = Cardinality(Taken) + 1
        BY <1>1, <2>2, <2>3
      <3>3. Len(updates) = 0 /\ Len(updates') = 0
        BY <3>1
      <3>4. Cardinality(Taken') + Len(updates') = Published'
        BY <1>2, <2>2, <3>2, <3>3
      <3> QED
        BY <3>2, <3>4 DEF CountOK
    <2>4. ASSUME NEW q \in Requests, rpc[q] = "waiting", got'[q] = i, UNCHANGED <<drain, updates>>,
                 \A p \in Requests : p # q => got'[p] = got[p]
          PROVE  CountOK'
      <3>1. q \notin Taken /\ q \in Waiting
        BY <2>4 DEF WaysOK, Ways, Taken, Waiting
      <3>2. Taken' = Taken \cup {q}
        BY <2>4, ItemParts DEF Taken
      <3> QED
        BY <2>3, <2>4, <3>1, <3>2
    <2>5. ASSUME NEW q \in Requests, drain[q] = "waiting", drain'[q] = "gone", UNCHANGED <<got, updates>>,
                 \A p \in Requests : p # q => drain'[p] = drain[p]
          PROVE  CountOK'
      <3>1. q \notin Taken /\ q \in Waiting
        BY <2>5 DEF WaysOK, Ways, Taken, Waiting
      <3>2. Taken' = Taken \cup {q}
        BY <2>5 DEF Taken
      <3> QED
        BY <2>3, <2>5, <3>1, <3>2
    <2>6. CASE updates' = Append(updates, i) /\ UNCHANGED <<rpc, got, drain>>
      <3>1. Taken' = Taken /\ Len(updates') = Len(updates) + 1 /\ Len(updates) \in Nat
        BY <2>6 DEF Taken
      <3> QED
        BY <1>2, <2>2, <3>1 DEF CountOK
    <2> QED
      BY <1>2, <2>4, <2>5, <2>6, SendGets
  <1>3. CASE ~PublishResult /\ ~PublishError
    <2>1. CASE Over
      BY <1>3, <2>1, ClosedStays, UpdatesFrame DEF Over, CountOK
    <2>2. CASE Over'
      BY <2>2 DEF CountOK
    <2>3. CASE ~Over /\ ~Over'
      <3>1. Published' = Published
        <4>1. ASSUME rpc[First] = "idle", loop' = "ended", closed', UNCHANGED updates PROVE Over'
          <5>1. turn = 0 /\ loop = "new" /\ ~Last
            BY <4>1 DEF TurnsOK, FirstOK, LaunchOK, Last
          <5>2. updates = <<>>
            BY <5>1 DEF QueueOK, Published
          <5> QED
            BY <4>1, <5>2 DEF Over
        <4> QED
          BY <1>3, <2>3, <4>1, PublishedFrame
      <3>2. IsFiniteSet(Taken) /\ Cardinality(Taken) + Len(updates) = Published /\ Cardinality(Taken) \in Nat
        BY <2>3, FS_CardinalityType DEF CountOK
      <3>3. CASE Taken' = Taken /\ updates' = updates
        BY <3>1, <3>2, <3>3 DEF CountOK
      <3>4. ASSUME NEW q \in Requests, q \notin Taken, Taken' = Taken \cup {q}, updates # <<>>, updates' = Tail(updates)
            PROVE  CountOK'
        <4>1. Len(updates') = Len(updates) - 1 /\ Len(updates) \in Nat
          BY <3>4
        <4>2. IsFiniteSet(Taken') /\ Cardinality(Taken') = Cardinality(Taken) + 1
          BY <1>1, <3>2, <3>4
        <4>3. Cardinality(Taken') + Len(updates') = Published'
          BY <3>1, <3>2, <4>1, <4>2
        <4> QED
          BY <4>2, <4>3 DEF CountOK
      <3> QED
        BY <1>3, <2>3, <3>3, <3>4, TakenFrame
    <2> QED
      BY <2>1, <2>2, <2>3
  <1> QED
    BY <1>2, <1>3, ItemParts

----------------------------------------------------------------------------
(* The callbacks, and the hooks on expiry.                                   *)

\* A request that streams the turn that runs.
Streams(q) == mode[q] = "stream" /\ target[q] = turn /\ rpc[q] \in Served

\* The callback is that of the request whose turn runs, and is taken once.
ResultOK ==
    /\ onResult # None => Streams(onResult)
    /\ loop \in Emitting /\ item.kind = "calls" => onResult = None
    /\ loop \in {"persist", "persistHook"} => cb # None /\ Streams(cb)

LEMMA StreamsOn ==
  ASSUME TypeInv, WaysOK, [Next]_vars, NEW q \in Requests, mode[q] = "stream", rpc[q] \in Served
  PROVE  mode'[q] = "stream" /\ target'[q] = target[q] /\ rpc'[q] \in Served
  <1>1. Moves(q) /\ Ways(q)
    BY MovesNext DEF WaysOK
  <1> QED
    BY <1>1 DEF Moves, Rests, Begins, Goes, Steps, Opens, GetsAnswer, Ways, Served

\* A request that is set up finds no result on its way.
LEMMA SetupIsAlone ==
  ASSUME TypeInv, CourseOK, TurnsOK, NEW q \in Requests, Attach(q) \/ Setup(q)
  PROVE  /\ ~(loop \in Emitting /\ item.kind = "calls") /\ target[q] = turn
         /\ AttachStream(q) /\ UNCHANGED <<loop, item, cb, turn>>
         /\ mode[q] = "stream" => rpc'[q] \in Served
  <1>1. \A b \in Batches : b > turn => batch[b] = "none"
    BY DEF Attach, Setup, TurnsOK, SetupOK, FirstOK
  <1>2. loop \in Emitting /\ item.kind = "calls" => turn + 1 \in Batches /\ batch[turn + 1] # "none"
    <2>1. SUFFICES ASSUME loop \in Emitting, item.kind = "calls" PROVE turn + 1 \in Batches /\ batch[turn + 1] # "none"
      OBVIOUS
    <2>2. turn \in Turns /\ turn < Parks
      BY <2>1, AskTypes DEF TypeInv, LoopOK
    <2>3. turn + 1 \in Batches
      BY <2>2, TurnArithmetic
    <2> QED
      BY <2>1, <2>3 DEF CourseOK
  <1>3. target[q] = turn
    BY DEF Attach, Setup, TurnsOK, SetupOK, FirstOK
  <1>4. ASSUME mode[q] = "stream" PROVE rpc'[q] \in Served
    BY <1>4, AskTypes DEF Attach, Setup, Served, TypeInv
  <1> QED
    BY <1>1, <1>2, <1>3, <1>4, TurnArithmetic, CourseTypes DEF Attach, Setup, TypeInv

LEMMA ResultNext ==
  TypeInv /\ CourseOK /\ TurnsOK /\ WaysOK /\ ResultOK /\ [Next]_vars => ResultOK'
  <1> SUFFICES ASSUME TypeInv, CourseOK, TurnsOK, WaysOK, ResultOK, [Next]_vars PROVE ResultOK'
    OBVIOUS
  <1>0. /\ onResult \in Requests \cup {None} /\ cb \in Requests \cup {None} /\ None \notin Requests
        /\ mode \in [Requests -> {"json", "stream"}]
    BY NoneAssumption, AskTypes DEF TypeInv, TypeOK, RunType, DataType
  <1>1. ASSUME NEW q \in Requests, Streams(q), turn' = turn PROVE Streams(q)'
    BY <1>1, StreamsOn DEF Streams
  <1>2. ASSUME UNCHANGED <<onResult, turn, cb>>,
               loop' \in Emitting /\ item'.kind = "calls" => loop \in Emitting /\ item.kind = "calls",
               loop' \in {"persist", "persistHook"} => loop \in {"persist", "persistHook"}
        PROVE  ResultOK'
    <2>1. onResult' # None => Streams(onResult)'
      BY <1>0, <1>1, <1>2 DEF ResultOK, Streams
    <2>2. loop' \in {"persist", "persistHook"} => cb' # None /\ Streams(cb)'
      BY <1>0, <1>1, <1>2 DEF ResultOK, Streams
    <2> QED
      BY <1>2, <2>1, <2>2 DEF ResultOK
  <1>3. ASSUME NEW q \in Requests, NEW m \in {"json", "stream"},
               Launch(q, m) \/ (\E b \in Batches : Find(q, b, m)) PROVE ResultOK'
    BY <1>2, <1>3 DEF Launch, Find, Emitting
  <1>4. ASSUME NEW q \in Requests, Attach(q) \/ Setup(q) PROVE ResultOK'
    <2>1. CASE mode[q] = "stream"
      <3>1. onResult' = q /\ Streams(q)'
        BY <1>4, <2>1, SetupIsAlone, MovesNext DEF AttachStream, Streams, Moves, Rests, Begins, Goes, Steps, Opens,
           GetsAnswer, Attach, Setup
      <3>2. Streams(onResult)'
        BY <3>1 DEF Streams
      <3>3. ~(loop \in Emitting /\ item.kind = "calls")
        BY <1>4, SetupIsAlone
      <3>4. loop \notin {"persist", "persistHook"}
        BY <3>3 DEF TypeInv, LoopOK, Emitting
      <3> QED
        BY <1>4, <3>2, <3>3, <3>4, SetupIsAlone DEF ResultOK
    <2>2. CASE mode[q] # "stream"
      BY <1>2, <1>4, <2>2, SetupIsAlone DEF AttachStream
    <2> QED
      BY <2>1, <2>2
  <1>5. ASSUME NEW q \in Requests,
               Complete(q) \/ Discard(q) \/ Deliver(q) \/ Forget(q) \/ Leave(q) \/ Remember(q) \/ Hook(q)
        PROVE  ResultOK'
    BY <1>2, <1>5 DEF Complete, Discard, Deliver, Forget, Leave, Remember, Hook
  <1>6. ASSUME NEW q \in Requests, HelperStep(q) \/ CancelContext(q) PROVE ResultOK'
    BY <1>2, <1>6 DEF HelperStep, StartDrain, DrainEnds, WatchCheck, WatchEnds, CancelContext
  <1>7. CASE LoopAborted \/ PersistPending \/ PersistHook \/ PersistSaved \/ PersistFails \/ CaptureStreams
    BY <1>2, <1>7 DEF LoopAborted, PersistPending, PersistHook, PersistSaved, PersistFails, Fails, CaptureStreams,
                      Emitting, TypeInv, TypeOK, LoopType, LoopOK
  <1>8. CASE PublishResult
    <2>1. /\ loop \in Emitting /\ loop' = "send" /\ UNCHANGED onResult
          /\ turn' = IF item.kind = "calls" THEN turn + 1 ELSE turn
      BY <1>8 DEF PublishResult, Emitting
    <2>2. onResult' # None => Streams(onResult)'
      BY <1>0, <1>1, <2>1 DEF ResultOK, Streams
    <2> QED
      BY <2>1, <2>2 DEF ResultOK, Emitting
  <1>9. CASE SendResult \/ PublishError \/ SendError \/ CloseStreams \/ Finish \/ Disconnected
    <2>1. /\ UNCHANGED <<onResult, turn>> /\ loop' \notin Emitting /\ loop' \notin {"persist", "persistHook"}
      BY <1>9 DEF SendResult, PublishError, SendError, CloseStreams, Finish, Disconnected, Emitting, TypeInv, LoopOK
    <2>2. onResult' # None => Streams(onResult)'
      BY <1>0, <1>1, <2>1 DEF ResultOK, Streams
    <2> QED
      BY <2>1, <2>2 DEF ResultOK
  <1>10. CASE TurnParks
    <2>1. /\ UNCHANGED turn /\ onResult' = None /\ cb' = onResult
          /\ loop' = IF onResult = None THEN "capture" ELSE "persist"
      BY <1>10 DEF TurnParks
    <2>2. onResult # None => Streams(cb)'
      BY <1>0, <1>1, <2>1 DEF ResultOK, Streams
    <2> QED
      BY <2>1, <2>2 DEF ResultOK
  <1>11. CASE TurnEnds
    BY <1>11 DEF TurnEnds, ResultOK
  <1>12. CASE SessionFails \/ EventRefused \/ Aborted \/ RequestDone \/ IdleTimeout
    BY <1>2, <1>12 DEF SessionFails, EventRefused, Aborted, RequestDone, IdleTimeout, Fails, Emitting
  <1>13. CASE \/ SignalAbort \/ AbortCancels \/ AbortReturns \/ (\E b \in Batches : BatchStep(b))
              \/ StopActive \/ StopStep \/ UNCHANGED vars
    BY <1>2, <1>13 DEF SignalAbort, AbortCancels, AbortReturns, BatchStep, Expire, ExpireAborted, CloseForgets,
                StopActive, StopStep, StopPending, StopCancelAll, StopAborted, StopWaits, vars
  <1> QED
    BY <1>3, <1>4, <1>5, <1>6, <1>7, <1>8, <1>9, <1>10, <1>11, <1>12, <1>13
    DEF Next, RequestStep, LoopStep, SelectStep

----------------------------------------------------------------------------
(* Everybody is given the update of its own turn.                            *)

LEMMA FlowInit == Init => FlowInv
  <1> SUFFICES ASSUME Init PROVE FlowInv
    OBVIOUS
  <1>1. ServedOK /\ OneEach /\ KnownOK /\ ChainOK /\ NoLater
    BY DEF Init, ServedOK, OneEach, KnownOK, ChainOK, NoLater, Served, Serving
  <1> QED
    BY <1>1, WaysInit, QueueInit, CountInit DEF FlowInv

LEMMA FlowNext == GatewayInv /\ FlowInv /\ [Next]_vars => FlowInv'
  <1> SUFFICES ASSUME GatewayInv, FlowInv, [Next]_vars PROVE FlowInv'
    OBVIOUS
  <1>1. TypeInv /\ CourseOK /\ TurnsOK /\ LaunchOK /\ StreamedOwnTurn /\ TurnsOK'
    BY GatewayNext DEF GatewayInv, StreamOK
  <1>2. WaysOK' /\ QueueOK' /\ CountOK'
    BY <1>1, WaysNext, QueueNext, CountNext DEF FlowInv
  <1>3. ServedOK' /\ OneEach'
    BY <1>1, ServedNext, OneEachNext DEF FlowInv
  <1>4. KnownOK' /\ ChainOK'
    BY <1>1, KnownOKNext, ChainNext DEF FlowInv
  <1>5. NoLater'
    BY <1>1, NoLaterNext
  <1> QED
    BY <1>2, <1>3, <1>4, <1>5 DEF FlowInv

\* When nobody is on the way to r.updates, each earlier turn's update is gone.
LEMMA TakenAll ==
  ASSUME TypeInv, TurnsOK, WaysOK, ChainOK, IsFiniteSet(Taken), Waiting = {},
         NEW q \in Requests, rpc[q] \in Served,
         \A p \in Requests \ {q} : drain[p] \notin {"starting", "missed"}, ~Drawn(q)
  PROVE  target[q] <= Cardinality(Taken)
  <1> USE AskTypes, TurnArithmetic DEF TypeInv
  <1> DEFINE T == 0..(target[q] - 1)
             Own == {p \in Taken : target[p] \in T}
             f == [p \in Own |-> target[p]]
  <1>1. ASSUME NEW n \in T PROVE \E p \in Own : target[p] = n
    <2>1. PICK p \in Requests : target[p] = n /\ Drawn(p)
      BY <1>1 DEF ChainOK
    <2>2. p # q
      BY <2>1
    <2>3. p \in Taken
      BY <2>1, <2>2 DEF Drawn, Taken, Waiting
    <2> QED
      BY <1>1, <2>1, <2>3
  <1>2. f \in Surjection(Own, T)
    BY <1>1 DEF Surjection
  <1>3. IsFiniteSet(Own) /\ Cardinality(Own) <= Cardinality(Taken)
    BY FS_Subset
  <1>4. IsFiniteSet(T) /\ Cardinality(T) = target[q]
    <2>1. target[q] \in Nat /\ 0 \in Int /\ target[q] - 1 \in Int
      OBVIOUS
    <2> QED
      BY <2>1, FS_Interval
  <1>5. Cardinality(T) <= Cardinality(Own)
    <2> HIDE DEF f, T, Own
    <2> QED
      BY <1>2, <1>3, FS_Surjection
  <1>6. Cardinality(Own) \in Nat /\ Cardinality(Taken) \in Nat
    BY <1>3, FS_CardinalityType
  <1> QED
    BY <1>3, <1>4, <1>5, <1>6

LEMMA OwnStep ==
  ASSUME GatewayInv, FlowInv, [Next]_vars, NEW q \in Requests, got'[q] # got[q]
  PROVE  got'[q].turn = target[q] \/ \E p \in Requests \ {q} : drain[p] \in {"starting", "missed"}
  <1> USE AskTypes, TurnArithmetic DEF GatewayInv, FlowInv, TypeInv
  <1>1. /\ rpc[q] \in Serving /\ ~Drawn(q) /\ IsFiniteSet(Taken) /\ got'[q].turn = Cardinality(Taken)
        /\ got'[q].turn = turn \/ Waiting = {}
    BY NextUpdate
  <1>2. Cardinality(Taken) \in Nat /\ Cardinality(Taken) <= target[q] /\ target[q] <= turn
    BY <1>1, TakenBelow DEF TurnsOK, TargetsOK
  <1>3. CASE got'[q].turn = turn
    BY <1>1, <1>2, <1>3
  <1>4. CASE rpc[q] = "attach"
    <2>1. target[q] = 0
      BY <1>4 DEF TurnsOK, FirstOK
    <2> QED
      BY <1>1, <1>2, <2>1
  <1>5. ASSUME Waiting = {}, rpc[q] \in Served, \A p \in Requests \ {q} : drain[p] \notin {"starting", "missed"}
        PROVE  got'[q].turn = target[q]
    <2>1. target[q] <= Cardinality(Taken)
      BY <1>1, <1>5, TakenAll
    <2> QED
      BY <1>1, <1>2, <2>1
  <1> QED
    BY <1>1, <1>3, <1>4, <1>5 DEF Serving

LEMMA ResultInit == Init => ResultOK
  BY DEF Init, ResultOK, Emitting

\* rememberRunner is between its two halves for batch b.
Hooking(b) ==
    \/ loop = "persistHook" /\ item.turn + 1 = b
    \/ \E q \in Requests : rpc[q] = "hook" /\ got[q].turn + 1 = b

\* Only batches that were captured are registered and hooked.
CapturedOK == \A b \in pending \cup hooked : batch[b] # "none"

\* The expiry of a batch is hooked once, by the request of the turn that parked.
HookedOnce ==
    \A b \in hooked : batch[b] # "completed" =>
        /\ ~(loop \in {"persist", "persistHook"} /\ item.turn + 1 = b)
        /\ \E q \in Requests : /\ rpc[q] \in Served /\ target[q] = b - 1
                               /\ mode[q] = "json" => rpc[q] = "answered"

\* A runner that is registered will be forgotten when its batch expires, is
\* about to be hooked, or was hooked too late.
ForgetsOK ==
    \A b \in pending : batch[b] \in {"open", "expired"} =>
        \/ b \notin hooked /\ ~Current(b)
        \/ b \in hooked /\ closing[b] # "done"
        \/ Hooking(b)

HookInv == ResultOK /\ CapturedOK /\ HookedOnce /\ ForgetsOK

LEMMA HookInit == Init => HookInv
  BY ResultInit DEF Init, HookInv, CapturedOK, HookedOnce, ForgetsOK

\* What a step does to the registry of runners, to the hooks and to those who
\* are about to set one.
RegistryStep(b) ==
    /\ b \in hooked' <=> b \in hooked
    /\ b \in pending' => \/ b \in pending
                         \/ PersistPending /\ b = item.turn + 1
                         \/ \E q \in Requests : Remember(q) /\ b = got[q].turn + 1
    /\ closing'[b] = "done" => closing[b] = "done" \/ b \notin hooked \/ b \notin pending'
    /\ loop = "persistHook" => loop' = "persistHook" /\ item' = item
    /\ loop' \in {"persist", "persistHook"} =>
          TurnParks \/ (loop \in {"persist", "persistHook"} /\ item' = item)

LEMMA RegistrySteps ==
  ASSUME TypeInv, LaunchOK, [Next]_vars, ~PersistHook, \A q \in Requests : ~Hook(q), NEW b \in Batches
  PROVE  RegistryStep(b)
  <1>1. ASSUME UNCHANGED <<hooked, closing, loop, item>>, pending' \subseteq pending PROVE RegistryStep(b)
    BY <1>1 DEF RegistryStep
  <1>2. ASSUME UNCHANGED <<hooked, pending, closing>>, loop # "persistHook",
               loop' \in {"persist", "persistHook"} => TurnParks
        PROVE  RegistryStep(b)
    BY <1>2 DEF RegistryStep
  <1>3. ASSUME NEW bs, NEW next \in {"hooks", "abort"}, CloseBatches(bs, next), UNCHANGED <<hooked, loop, item>>,
               pending' \subseteq pending
        PROVE  RegistryStep(b)
    <2>1. closing'[b] = "done" => closing[b] = "done"
      BY <1>3 DEF CloseBatches
    <2> QED
      BY <1>3, <2>1 DEF RegistryStep
  <1>4. ASSUME NEW q \in Requests, NEW m \in {"json", "stream"}, Launch(q, m) PROVE RegistryStep(b)
    BY <1>4 DEF Launch, LaunchOK, RegistryStep
  <1>5. ASSUME NEW q \in Requests, NEW m \in {"json", "stream"}, NEW c \in Batches, Find(q, c, m)
        PROVE  RegistryStep(b)
    BY <1>1, <1>5 DEF Find
  <1>6. ASSUME NEW q \in Requests, RequestStep(q), ~Discard(q), ~Remember(q) PROVE RegistryStep(b)
    BY <1>1, <1>6 DEF RequestStep, Attach, Complete, Setup, Deliver, Forget, Leave
  <1>7. ASSUME NEW q \in Requests, Discard(q) PROVE RegistryStep(b)
    BY <1>3, <1>7 DEF Discard
  <1>8. ASSUME NEW q \in Requests, Remember(q) PROVE RegistryStep(b)
    BY <1>8 DEF Remember, PutPending, RegistryStep
  <1>9. ASSUME NEW q \in Requests, HelperStep(q) \/ CancelContext(q) PROVE RegistryStep(b)
    BY <1>1, <1>9 DEF HelperStep, StartDrain, DrainEnds, WatchCheck, WatchEnds, CancelContext
  <1>10. CASE PersistPending
    BY <1>10 DEF PersistPending, PutPending, RegistryStep
  <1>11. CASE LoopStep /\ ~PersistPending
    BY <1>2, <1>11 DEF LoopStep, LoopAborted, PersistSaved, PersistFails, Fails, CaptureStreams, PublishResult,
                       SendResult, PublishError, SendError, CloseStreams, Finish, TypeInv, LoopOK
  <1>12. CASE TurnParks
    BY <1>12 DEF TurnParks, RegistryStep, TypeInv, TypeOK, BatchType
  <1>13. CASE (SelectStep /\ ~TurnParks) \/ Disconnected
    BY <1>2, <1>13 DEF SelectStep, TurnEnds, SessionFails, EventRefused, Aborted, RequestDone, IdleTimeout,
                       Fails, Disconnected
  <1>14. CASE AbortCancels \/ StopCancelAll
    BY <1>3, <1>14 DEF AbortCancels, StopCancelAll
  <1>15. ASSUME NEW c \in Batches, BatchStep(c) PROVE RegistryStep(b)
    <2>1. CASE Expire(c)
      BY <1>3, <2>1 DEF Expire
    <2>2. CASE ExpireAborted(c)
      BY <2>2 DEF ExpireAborted, RegistryStep, TypeInv, TypeOK, BatchType
    <2>3. CASE CloseForgets(c)
      BY <2>3 DEF CloseForgets, RegistryStep, TypeInv, TypeOK, BatchType
    <2> QED
      BY <1>15, <2>1, <2>2, <2>3 DEF BatchStep
  <1>16. CASE \/ SignalAbort \/ AbortReturns \/ StopActive \/ StopPending \/ StopAborted \/ StopWaits
              \/ UNCHANGED vars
    BY <1>1, <1>16 DEF SignalAbort, AbortReturns, StopActive, StopPending, StopAborted, StopWaits, vars
  <1> QED
    BY <1>4, <1>5, <1>6, <1>7, <1>8, <1>9, <1>10, <1>11, <1>12, <1>13, <1>14, <1>15, <1>16
    DEF Next, RequestStep, StopStep, LoopStep

\* Who is about to hook stays so.
LEMMA HookWaits ==
  ASSUME TypeInv, WaysOK, [Next]_vars, NEW q \in Requests, rpc[q] = "hook", ~Hook(q)
  PROVE  rpc'[q] = "hook" /\ got'[q] = got[q]
  <1>1. got'[q] = got[q]
    BY MovesNext DEF Moves, Rests, Begins, Goes, Opens, GetsAnswer
  <1> DEFINE Goal == rpc'[q] = "hook"
  <1> USE AskTypes DEF TypeInv
  <1> SUFFICES Goal
    BY <1>1
  <1>2. ASSUME UNCHANGED rpc PROVE Goal
    BY <1>2
  <1>3. ASSUME NEW p \in Requests, NEW m \in {"json", "stream"},
               Launch(p, m) \/ (\E b \in Batches : Find(p, b, m)) PROVE Goal
    BY <1>3 DEF Launch, Find
  <1>4. ASSUME NEW p \in Requests, Attach(p) \/ Forget(p) PROVE Goal
    BY <1>4, ReceiveGets DEF Attach, Forget
  <1>5. ASSUME NEW p \in Requests,
               Complete(p) \/ Discard(p) \/ Setup(p) \/ Deliver(p) \/ Leave(p) \/ Remember(p) \/ Hook(p) PROVE Goal
    BY <1>5 DEF Complete, Discard, Setup, Deliver, Leave, Remember, Hook
  <1>6. ASSUME NEW p \in Requests, HelperStep(p) \/ CancelContext(p) PROVE Goal
    BY <1>2, <1>6 DEF HelperStep, StartDrain, DrainEnds, WatchCheck, WatchEnds, CancelContext
  <1>7. CASE PublishResult \/ PublishError
    <2>1. PICK i \in Items : SendUpdate(i)
      BY <1>7, PublishCounts
    <2> QED
      BY <2>1, SendGets
  <1>8. CASE LoopStep /\ ~PublishResult /\ ~PublishError
    BY <1>2, <1>8 DEF LoopStep, LoopAborted, PersistPending, PersistHook, PersistSaved, PersistFails, Fails,
                      CaptureStreams, SendResult, SendError, CloseStreams, Finish
  <1>9. CASE SelectStep \/ Disconnected
    BY <1>2, <1>9 DEF SelectStep, TurnParks, TurnEnds, SessionFails, EventRefused, Aborted, RequestDone, IdleTimeout,
                      Fails, Disconnected
  <1>10. CASE \/ SignalAbort \/ AbortCancels \/ AbortReturns \/ (\E b \in Batches : BatchStep(b))
              \/ StopActive \/ StopStep \/ UNCHANGED vars
    BY <1>2, <1>10 DEF SignalAbort, AbortCancels, AbortReturns, BatchStep, Expire, ExpireAborted, CloseForgets,
                StopActive, StopStep, StopPending, StopCancelAll, StopAborted, StopWaits, vars
  <1> QED
    BY <1>3, <1>4, <1>5, <1>6, <1>7, <1>8, <1>9, <1>10 DEF Next, RequestStep

\* An answer with the calls of an open or expired batch was given to the
\* request whose turn ended in it.
LEMMA AnsweredByOwn ==
  ASSUME TypeInv, CourseOK, TurnsOK, FlowInv, NEW q \in Requests, rpc[q] = "hook",
         batch[got[q].turn + 1] # "completed"
  PROVE  /\ got[q] # NoItem /\ got[q].turn + 1 \in Batches /\ got[q].turn = target[q] /\ mode[q] = "json"
         /\ got[q].turn < turn
  <1> USE AskTypes, TurnArithmetic, CourseTypes DEF TypeInv, FlowInv
  <1>1. got[q] # NoItem /\ mode[q] = "json"
    BY DEF WaysOK, Ways
  <1>2. got[q].kind = "calls" /\ got[q].turn < turn /\ got[q].turn \in Turns
    BY <1>1, ItemParts DEF ToldOK, Told
  <1>3. got[q].turn + 1 \in Batches
    <2>1. got[q].turn \in Nat /\ turn \in Nat /\ turn <= Parks
      BY <1>2
    <2>2. got[q].turn < Parks
      BY <1>2, <2>1, ParksAssumption
    <2> QED
      BY <1>2, <2>2
  <1>4. got[q].turn <= target[q]
    BY <1>1 DEF NoLater
  <1>5. ASSUME got[q].turn < target[q] PROVE FALSE
    <2>1. rpc[q] \in Served /\ q # First
      BY <1>2, <1>5 DEF Served, TurnsOK, FirstOK
    <2>2. CASE target[q] = got[q].turn + 1
      BY <2>1, <2>2 DEF ServedOK
    <2>3. CASE target[q] # got[q].turn + 1
      <3>1. got[q].turn + 1 \in 0..(target[q] - 1)
        BY <1>2, <1>5, <2>3
      <3>2. PICK r \in Requests : target[r] = got[q].turn + 1 /\ Drawn(r)
        BY <2>1, <3>1 DEF ChainOK
      <3>3. rpc[r] \in Served /\ r # First
        BY <1>2, <3>2, DrawnServed DEF TurnsOK, FirstOK
      <3> QED
        BY <3>2, <3>3 DEF ServedOK
    <2> QED
      BY <2>2, <2>3
  <1> QED
    BY <1>1, <1>2, <1>3, <1>4, <1>5

\* rememberRunner's second half runs once for a batch.
LEMMA NotHookedYet ==
  ASSUME TypeInv, CourseOK, TurnsOK, FlowInv, HookedOnce, NEW b \in Batches, batch[b] # "completed",
         (PersistHook /\ item.turn + 1 = b) \/ (\E q \in Requests : Hook(q) /\ got[q].turn + 1 = b)
  PROVE  b \notin hooked
  <1> SUFFICES ASSUME b \in hooked PROVE FALSE
    OBVIOUS
  <1>1. CASE PersistHook /\ item.turn + 1 = b
    BY <1>1 DEF PersistHook, HookedOnce
  <1>2. ASSUME NEW q \in Requests, Hook(q), got[q].turn + 1 = b PROVE FALSE
    <2>1. rpc[q] = "hook"
      BY <1>2 DEF Hook
    <2>2. got[q].turn = target[q] /\ mode[q] = "json" /\ target[q] = b - 1
      <3>1. got[q].turn = target[q] /\ mode[q] = "json" /\ target[q] \in Nat
        BY <1>2, <2>1, AnsweredByOwn, AskTypes, TurnArithmetic DEF TypeInv
      <3> QED
        BY <1>2, <3>1
    <2>3. PICK p \in Requests : rpc[p] \in Served /\ target[p] = b - 1 /\ (mode[p] = "json" => rpc[p] = "answered")
      BY DEF HookedOnce
    <2>4. p = q
      BY <2>1, <2>2, <2>3 DEF FlowInv, OneEach, Serving, Served
    <2> QED
      BY <2>1, <2>2, <2>3, <2>4
  <1> QED
    BY <1>1, <1>2

\* The second half: forgotten at once, hooked, or too late.
LEMMA HookDoes ==
  ASSUME TypeInv, NEW c, HookExpiry(c)
  PROVE  /\ \A b \in Batches : b # c => (b \in hooked' <=> b \in hooked)
         /\ hooked \subseteq hooked' /\ pending' \subseteq pending
         /\ \/ ~Current(c) /\ UNCHANGED <<pending, hooked>>
            \/ Current(c) /\ batch[c] = "expired" /\ c \notin pending' /\ UNCHANGED hooked
            \/ Current(c) /\ batch[c] # "expired" /\ c \in hooked'
  BY DEF HookExpiry

LEMMA CurrentStays ==
  ASSUME TypeInv, CourseOK, [Next]_vars, NEW b \in Batches, batch[b] # "none"
  PROVE  batch'[b] # "none" /\ (~Current(b) => ~Current(b)')
  BY BatchMoves DEF Current

LEMMA CapturedNext ==
  TypeInv /\ CourseOK /\ LaunchOK /\ CapturedOK /\ [Next]_vars => CapturedOK'
  <1> SUFFICES ASSUME TypeInv, CourseOK, LaunchOK, CapturedOK, [Next]_vars, NEW b \in Batches,
                      b \in pending' \cup hooked', batch'[b] = "none"
               PROVE  FALSE
    <2>1. (TypeInv /\ [Next]_vars => TypeOK') /\ (TypeOK' => (pending \cup hooked)' \subseteq Batches)
      BY TypeNext DEF TypeOK, RegistryType
    <2> QED
      BY <2>1 DEF CapturedOK
  <1> USE AskTypes, TurnArithmetic, CourseTypes DEF TypeInv
  <1>1. batch[b] = "none"
    BY CurrentStays
  <1>2. b \notin pending /\ b \notin hooked
    BY <1>1 DEF CapturedOK
  <1>3. ASSUME NEW c, HookExpiry(c) PROVE FALSE
    BY <1>1, <1>2, <1>3 DEF HookExpiry, Current
  <1>4. CASE PersistHook
    BY <1>3, <1>4 DEF PersistHook
  <1>5. ASSUME NEW q \in Requests, Hook(q) PROVE FALSE
    BY <1>3, <1>5 DEF Hook
  <1>6. ASSUME PersistPending, b = item.turn + 1 PROVE FALSE
    BY <1>1, <1>6 DEF PersistPending, LoopOK, CourseOK, Emitting
  <1>7. ASSUME NEW q \in Requests, Remember(q), b = got[q].turn + 1 PROVE FALSE
    <2>1. got[q].kind = "calls" /\ got[q].turn < turn
      BY <1>7, ItemParts DEF Remember, ToldOK, Told
    <2>2. got[q].turn \in Nat /\ turn \in Nat
      <3>1. got[q] \in Items
        BY <2>1, ItemParts
      <3> QED
        BY <3>1, ItemParts
    <2>3. b <= turn
      BY <1>7, <2>1, <2>2
    <2> QED
      BY <1>1, <2>3 DEF CourseOK
  <1>8. CASE ~PersistHook /\ \A q \in Requests : ~Hook(q)
    BY <1>2, <1>6, <1>7, <1>8, RegistrySteps DEF RegistryStep
  <1> QED
    BY <1>4, <1>5, <1>8

LEMMA HookedOnceNext ==
  /\ TypeInv /\ CourseOK /\ TurnsOK /\ LaunchOK /\ FlowInv
  /\ ResultOK /\ CapturedOK /\ HookedOnce /\ [Next]_vars
  => HookedOnce'
  <1> SUFFICES ASSUME TypeInv, CourseOK, TurnsOK, LaunchOK, FlowInv, ResultOK, CapturedOK, HookedOnce, [Next]_vars,
                      NEW b \in Batches, b \in hooked', batch'[b] # "completed"
               PROVE  /\ ~(loop' \in {"persist", "persistHook"} /\ item'.turn + 1 = b)
                      /\ \E q \in Requests : /\ rpc'[q] \in Served /\ target'[q] = b - 1
                                             /\ mode'[q] = "json" => rpc'[q] = "answered"
    <2>1. (TypeInv /\ [Next]_vars => TypeOK') /\ (TypeOK' => hooked' \subseteq Batches)
      BY TypeNext DEF TypeOK, RegistryType
    <2> QED
      BY <2>1 DEF HookedOnce
  <1> USE AskTypes, TurnArithmetic, CourseTypes DEF TypeInv
  <1>1. batch[b] # "completed"
    BY BatchMoves
  <1>2. ASSUME NEW q \in Requests, rpc[q] \in Served, target[q] = b - 1, mode[q] = "json" => rpc[q] = "answered"
        PROVE  /\ rpc'[q] \in Served /\ target'[q] = b - 1
               /\ mode'[q] = "json" => rpc'[q] = "answered"
    <2>1. CASE mode[q] = "stream"
      BY <1>2, <2>1, StreamsOn DEF FlowInv
    <2>2. CASE rpc[q] = "answered"
      BY <1>2, <2>2, MovesNext DEF Moves, Rests, Begins, Goes, Steps, Opens, GetsAnswer
    <2> QED
      BY <1>2, <2>1, <2>2
  <1>3. CASE PersistHook
    <2>1. /\ HookExpiry(item.turn + 1) /\ loop' = "save" /\ loop = "persistHook" /\ item.kind = "calls"
          /\ item.turn = turn /\ loop \in Emitting /\ UNCHANGED reqVars
      BY <1>3 DEF PersistHook, LoopOK, Emitting
    <2>2. CASE b \in hooked
      BY <1>1, <1>2, <2>1, <2>2 DEF HookedOnce
    <2>3. CASE b = item.turn + 1
      <3>1. cb \in Requests /\ mode[cb] = "stream" /\ target[cb] = turn /\ rpc[cb] \in Served
        BY <2>1 DEF ResultOK, Streams, TypeOK, DataType
      <3> QED
        BY <2>1, <2>3, <3>1
    <2> QED
      BY <2>1, <2>2, <2>3, HookDoes
  <1>4. ASSUME NEW q \in Requests, Hook(q)
        PROVE  /\ ~(loop' \in {"persist", "persistHook"} /\ item'.turn + 1 = b)
               /\ \E p \in Requests : /\ rpc'[p] \in Served /\ target'[p] = b - 1
                                      /\ mode'[p] = "json" => rpc'[p] = "answered"
    <2>1. /\ HookExpiry(got[q].turn + 1) /\ rpc[q] = "hook" /\ UNCHANGED <<loop, item, mode, target>>
          /\ rpc' = [rpc EXCEPT ![q] = "answered"]
      BY <1>4 DEF Hook
    <2>2. CASE b \in hooked
      BY <1>1, <1>2, <2>1, <2>2 DEF HookedOnce
    <2>3. CASE b = got[q].turn + 1
      <3>1. got[q] # NoItem /\ got[q].turn = target[q] /\ got[q].turn < turn
        BY <1>1, <2>1, <2>3, AnsweredByOwn
      <3>2. target'[q] = b - 1 /\ rpc'[q] = "answered"
        BY <2>1, <2>3, <3>1
      <3>3. ~(loop' \in {"persist", "persistHook"} /\ item'.turn + 1 = b)
        <4>1. loop \in {"persist", "persistHook"} => item.turn = turn
          BY DEF LoopOK, Emitting
        <4> QED
          BY <2>1, <2>3, <3>1, <4>1
      <3> QED
        BY <3>2, <3>3 DEF Served
    <2> QED
      BY <2>1, <2>2, <2>3, HookDoes
  <1>5. CASE ~PersistHook /\ \A q \in Requests : ~Hook(q)
    <2>1. RegistryStep(b) /\ b \in hooked
      BY <1>5, RegistrySteps DEF RegistryStep
    <2>2. ~(loop' \in {"persist", "persistHook"} /\ item'.turn + 1 = b)
      <3>1. CASE TurnParks
        <4>1. item' = [turn |-> turn, kind |-> "calls"] /\ loop = "select" /\ turn < Parks
          BY <3>1 DEF TurnParks
        <4>2. batch[turn + 1] = "none" /\ batch[b] # "none"
          BY <2>1, <4>1 DEF CourseOK, CapturedOK
        <4> QED
          BY <4>1, <4>2
      <3>2. CASE ~TurnParks
        BY <1>1, <2>1, <3>2 DEF RegistryStep, HookedOnce
      <3> QED
        BY <3>1, <3>2
    <2> QED
      BY <1>1, <1>2, <2>1, <2>2 DEF HookedOnce
  <1> QED
    BY <1>3, <1>4, <1>5

LEMMA ForgetsNext ==
  /\ TypeInv /\ CourseOK /\ TurnsOK /\ LaunchOK /\ FlowInv
  /\ CapturedOK /\ HookedOnce /\ ForgetsOK /\ [Next]_vars
  => ForgetsOK'
  <1> SUFFICES ASSUME TypeInv, CourseOK, TurnsOK, LaunchOK, FlowInv, CapturedOK, HookedOnce, ForgetsOK, [Next]_vars,
                      NEW b \in Batches, b \in pending', batch'[b] \in {"open", "expired"}
               PROVE  \/ b \notin hooked' /\ ~Current(b)'
                      \/ b \in hooked' /\ closing'[b] # "done"
                      \/ Hooking(b)'
    <2>1. (TypeInv /\ [Next]_vars => TypeOK') /\ (TypeOK' => pending' \subseteq Batches)
      BY TypeNext DEF TypeOK, RegistryType
    <2> QED
      BY <2>1 DEF ForgetsOK
  <1> USE AskTypes, TurnArithmetic, CourseTypes DEF TypeInv
  <1> DEFINE Goal == \/ b \notin hooked' /\ ~Current(b)'
                     \/ b \in hooked' /\ closing'[b] # "done"
                     \/ Hooking(b)'
  <1> SUFFICES Goal
    OBVIOUS
  <1>1. ASSUME b \in pending PROVE batch[b] \in {"open", "expired"}
    BY <1>1, BatchMoves DEF CapturedOK
  \* Whoever was about to hook, and did not just now, still is.
  <1>2. ASSUME NEW q \in Requests, rpc[q] = "hook", got[q].turn + 1 = b, ~Hook(q) PROVE Hooking(b)'
    <2>1. rpc'[q] = "hook" /\ got'[q].turn + 1 = b
      BY <1>2, HookWaits DEF FlowInv
    <2> QED
      BY <2>1 DEF Hooking
  <1>3. ASSUME NEW c, HookExpiry(c), UNCHANGED <<batch, closing>>,
               loop = "persistHook" /\ item.turn + 1 = b /\ b # c => UNCHANGED <<loop, item>>,
               \A q \in Requests : rpc[q] = "hook" /\ got[q].turn + 1 = b /\ b # c => ~Hook(q),
               batch[c] # "completed" => c \notin hooked
        PROVE  Goal
    <2>1. b \in pending /\ batch[b] \in {"open", "expired"}
      BY <1>1, <1>3, HookDoes
    <2>2. CASE b = c
      BY <1>3, <2>1, <2>2, HookDoes DEF CourseOK, Current
    <2>3. CASE b # c
      <3>1. (b \in hooked' <=> b \in hooked) /\ (~Current(b) => ~Current(b)')
        BY <1>3, <2>1, <2>3, HookDoes, CurrentStays
      <3>2. loop = "persistHook" /\ item.turn + 1 = b => Hooking(b)'
        BY <1>3, <2>3 DEF Hooking
      <3>3. ASSUME NEW q \in Requests, rpc[q] = "hook", got[q].turn + 1 = b PROVE Hooking(b)'
        BY <1>2, <1>3, <2>3, <3>3
      <3> QED
        BY <1>3, <2>1, <3>1, <3>2, <3>3 DEF ForgetsOK, Hooking
    <2> QED
      BY <2>2, <2>3
  <1>4. CASE PersistHook
    <2>1. /\ HookExpiry(item.turn + 1) /\ UNCHANGED <<batch, closing, reqVars, item>> /\ loop = "persistHook"
      BY <1>4 DEF PersistHook
    <2>2. item.turn + 1 \in Batches
      BY <2>1 DEF LoopOK, Emitting
    <2>3. batch[item.turn + 1] # "completed" => item.turn + 1 \notin hooked
      BY <1>4, <2>2, NotHookedYet
    <2>4. \A q \in Requests : rpc[q] = "hook" => ~Hook(q)
      BY <2>1 DEF Hook
    <2> QED
      BY <1>3, <2>1, <2>3, <2>4
  <1>5. ASSUME NEW q \in Requests, Hook(q) PROVE Goal
    <2>1. /\ HookExpiry(got[q].turn + 1) /\ UNCHANGED <<batch, closing, loop, item>> /\ rpc[q] = "hook"
          /\ rpc' = [rpc EXCEPT ![q] = "answered"]
      BY <1>5 DEF Hook
    <2>2. batch[got[q].turn + 1] # "completed" => got[q].turn + 1 \notin hooked
      BY <1>5, <2>1, AnsweredByOwn, NotHookedYet
    <2>3. \A p \in Requests : rpc[p] = "hook" /\ got[p].turn + 1 = b /\ b # got[q].turn + 1 => ~Hook(p)
      <3>1. \A p \in Requests : p # q /\ rpc[p] = "hook" => ~Hook(p)
        BY <2>1 DEF Hook
      <3> QED
        BY <3>1
    <2> QED
      BY <1>3, <2>1, <2>2, <2>3
  <1>6. CASE ~PersistHook /\ \A q \in Requests : ~Hook(q)
    <2>1. RegistryStep(b)
      BY <1>6, RegistrySteps
    <2>2. CASE PersistPending /\ b = item.turn + 1
      BY <2>2 DEF PersistPending, Hooking
    <2>3. ASSUME NEW q \in Requests, Remember(q), b = got[q].turn + 1 PROVE Hooking(b)'
      BY <2>3 DEF Remember, Hooking
    <2>4. CASE b \in pending
      <3>1. batch[b] \in {"open", "expired"} /\ (~Current(b) => ~Current(b)')
        BY <1>1, <2>4, CurrentStays
      <3>2. loop = "persistHook" /\ item.turn + 1 = b => Hooking(b)'
        BY <2>1 DEF RegistryStep, Hooking
      <3>3. CASE Hooking(b)
        BY <1>2, <1>6, <3>2, <3>3 DEF Hooking
      <3>4. CASE ~Hooking(b)
        BY <2>1, <2>4, <3>1, <3>4 DEF ForgetsOK, RegistryStep
      <3> QED
        BY <3>3, <3>4
    <2> QED
      BY <2>1, <2>2, <2>3, <2>4 DEF RegistryStep
  <1> QED
    BY <1>4, <1>5, <1>6

LEMMA HookNext == GatewayInv /\ FlowInv /\ HookInv /\ [Next]_vars => HookInv'
  BY ResultNext, CapturedNext, HookedOnceNext, ForgetsNext DEF GatewayInv, FlowInv, HookInv

LEMMA HookImplies == TypeInv /\ CourseOK /\ HookInv => ExpiredForgotten
  <1> SUFFICES ASSUME TypeInv, CourseOK, HookInv, NEW b \in Batches,
                      b \in pending, batch[b] = "expired", closing[b] = "done"
               PROVE  \/ b \notin hooked /\ ~Current(b)
                      \/ loop = "persistHook" /\ item.turn + 1 = b
                      \/ \E q \in Requests : rpc[q] = "hook" /\ got[q].turn + 1 = b
    BY DEF ExpiredForgotten
  <1> QED
    BY DEF HookInv, ForgetsOK, Hooking

----------------------------------------------------------------------------
(* The theorems.                                                             *)

\* Every variable of the gateway keeps its type, for any number of requests and
\* of parked turns: what the loop, the requests' goroutines, the watchers, the
\* TTL timers and Stop do to the state they share.
THEOREM TypeCorrect == Spec => []TypeOK
  <1>1. GatewayInv => TypeOK
    BY DEF GatewayInv, TypeInv
  <1> QED
    BY <1>1, GatewayInvariant, PTL

\* The loop never sends on a stream it has closed, and never closes one twice:
\* emitResult, emitError and closeStreams each take the stream they close.
THEOREM StreamsStayOpen == Spec => []StreamsOpen
  <1>1. GatewayInv => StreamsOpen
    BY DEF GatewayInv, StreamOK
  <1> QED
    BY <1>1, GatewayInvariant, PTL

\* A stream carries the result of its own request's turn, although one session
\* serves its turns to one request after the other (enable*Stream, emitResult).
THEOREM StreamsAreOwn == Spec => []StreamedOwnTurn
  <1>1. GatewayInv => StreamedOwnTurn
    BY DEF GatewayInv, StreamOK
  <1> QED
    BY <1>1, GatewayInvariant, PTL

\* Whoever has been told of an open batch finds its runner in the pending
\* registry: rememberRunner comes before the answer and before the stream's
\* result, and only a batch that is over is forgotten.
THEOREM ParkedTurnsContinue == Spec => []KnownIsContinuable
  <1>1. GatewayInv => KnownIsContinuable
    BY KnownIsShown DEF GatewayInv, RegistryOK, ShownIsKept, KnownIsContinuable
  <1> QED
    BY <1>1, GatewayInvariant, PTL

\* The watcher of a request's context aborts the runner only if the context
\* ended before the request's own result was out: the generation and the
\* detachment keep it from a later request's turn.
THEOREM CancellationsStayHome == Spec => []CancellationStaysHome
  <1>1. GatewayInv => CancellationStaysHome
    BY DEF GatewayInv, WatchOK
  <1> QED
    BY <1>1, GatewayInvariant, PTL

\* When Stop has aborted what it found, nothing it should have found is left:
\* no open batch, no loop that has not been told to end, no parked runner.
THEOREM StopIsThorough == Spec => []StopReachesAll
  <1>1. GatewayInv => StopReachesAll
    BY StopImplies DEF GatewayInv
  <1> QED
    BY <1>1, GatewayInvariant, PTL

\* r.updates gives every request the update of its own turn, or an error,
\* unless the goroutine that discards an earlier stream's update has not
\* started (discardInitial): one request is served per turn, and each turn
\* publishes once (emitResult, emitError).
THEOREM UpdatesAreOwn == Spec => OwnUpdate
  <1>1. Init => GatewayInv /\ FlowInv
    BY GatewayInit, FlowInit
  <1>2. GatewayInv /\ FlowInv /\ [Next]_vars => (GatewayInv /\ FlowInv)'
    BY GatewayNext, FlowNext
  <1>3. GatewayInv /\ FlowInv /\ [Next]_vars =>
            [\A q \in Requests : got'[q] # got[q] =>
                got'[q].turn = target[q] \/ \E p \in Requests \ {q} : drain[p] \in {"starting", "missed"}]_vars
    BY OwnStep
  <1> QED
    BY <1>1, <1>2, <1>3, PTL DEF Spec, OwnUpdate

\* The expiry of a parked turn takes its runner out of the pending registry,
\* before rememberRunner hooks it, after, or in between; a runner whose next
\* turn had parked by then is left.
THEOREM ExpiredAreForgotten == Spec => []ExpiredForgotten
  <1> DEFINE Inv == GatewayInv /\ FlowInv /\ HookInv
  <1>1. Init => Inv
    BY GatewayInit, FlowInit, HookInit
  <1>2. Inv /\ [Next]_vars => Inv'
    BY GatewayNext, FlowNext, HookNext
  <1>3. Inv => ExpiredForgotten
    BY HookImplies DEF GatewayInv
  <1> QED
    BY <1>1, <1>2, <1>3, PTL DEF Spec
=============================================================================
