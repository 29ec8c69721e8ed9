---------------------------- MODULE TurnGateway ----------------------------
(* One SDK session and its turn runner (internal/copilotgw): the loop that   *)
(* consumes the session's events, the requests that start it and continue it *)
(* after it parked on client-owned tool calls, the watchers of their         *)
(* contexts, the tool-call TTL, and the gateway's Stop.                      *)
(*                                                                           *)
(* The model's turns are numbered: turn n ends in a parked batch, batch n+1, *)
(* or for good. Request First starts turn 0; a request that completes batch  *)
(* n is served by turn n. Batches keep the contract PendingBatch states and  *)
(* ToolBroker implements, here with their calls left out.                    *)
(*                                                                           *)
(* A session runs one turn after the other and shares nothing with another   *)
(* but the registries, whose entries are per runner and per batch: one       *)
(* runner is enough to see every interleaving that matters.                  *)
EXTENDS Naturals, Sequences

CONSTANTS
    Requests,    \* HTTP requests or WebSocket responses
    First,       \* the one that starts the session
    Parks,       \* bound: how often the model may ask for tools
    UpdatesCap,  \* capacity of r.updates (16 in the code)
    RpcReturns,  \* whether session.Abort and session.Disconnect ever return
    None

ASSUME FirstAssumption  == First \in Requests
ASSUME ParksAssumption  == Parks \in Nat
ASSUME UpdatesAssumption == UpdatesCap \in Nat \ {0}
ASSUME RpcAssumption    == RpcReturns \in BOOLEAN
ASSUME NoneAssumption   == None \notin Requests

Batches == 1..Parks
Turns   == 0..Parks
\* What a turn publishes, on r.updates and on its stream.
Items   == [turn : Turns, kind : {"calls", "stop", "error"}]

VARIABLES
    \* turnRunner
    loop,        \* where the loop goroutine is
    after,       \* what it does after the error it emits, or after its abort()
    item,        \* the result it is publishing
    cb,          \* the request whose onResult callback it has taken
    turn,        \* turns published so far
    sink,        \* the request whose stream is attached (r.chat or r.response)
    held,        \* the sink emitResult works on
    onResult,    \* the request whose callback is set
    gen, detached, \* r.requestGeneration, r.requestDetached
    abort,       \* progress of abort(): signalAbort, then the body of abortOnce
    updates,     \* the buffer of r.updates
    closed,      \* r.closed
    sdk,         \* whether the session may produce a turn event
    \* batches
    batch, closing, hooked,
    \* registries and broker
    tracked, pending, pendingClosed, active, activeClosed, brokerClosed,
    stop, snapshot,
    \* requests
    rpc, mode, target, runner, ctxDone, watch, watchGen, drain,
    got,         \* what a request has been answered (JSON)
    evs, chan,   \* terminal events and state of a request's stream
    early        \* requests whose context ended before their turn's result was out

loopData  == <<item, cb, turn, held, updates, closed>>
loopVars  == <<loop, after, loopData>>
runVars   == <<sink, onResult, gen, detached, abort, sdk>>
batchVars == <<batch, closing, hooked>>
regVars   == <<tracked, pending, pendingClosed, active, activeClosed, brokerClosed>>
stopVars  == <<stop, snapshot>>
reqVars   == <<rpc, mode, target, runner, ctxDone, watch, watchGen, drain, got, evs, chan, early>>
vars == <<loopVars, runVars, batchVars, regVars, stopVars, reqVars>>

NoItem == [turn |-> 0, kind |-> "none"]

Init ==
    /\ loop = "new" /\ after = "exit" /\ item = NoItem /\ cb = None /\ turn = 0
    /\ sink = None /\ held = None /\ onResult = None /\ gen = 0 /\ detached = FALSE
    /\ abort = "no" /\ updates = <<>> /\ closed = FALSE /\ sdk = "quiet"
    /\ batch = [b \in Batches |-> "none"] /\ closing = [b \in Batches |-> "no"] /\ hooked = {}
    /\ tracked = {} /\ pending = {} /\ pendingClosed = FALSE
    /\ active = FALSE /\ activeClosed = FALSE /\ brokerClosed = FALSE
    /\ stop = "no" /\ snapshot = FALSE
    /\ rpc = [q \in Requests |-> "idle"] /\ mode = [q \in Requests |-> "json"]
    /\ target = [q \in Requests |-> 0] /\ runner = [q \in Requests |-> TRUE]
    /\ ctxDone = {} /\ early = {}
    /\ watch = [q \in Requests |-> "none"] /\ watchGen = [q \in Requests |-> 0]
    /\ drain = [q \in Requests |-> "none"] /\ got = [q \in Requests |-> NoItem]
    /\ evs = [q \in Requests |-> <<>>] /\ chan = [q \in Requests |-> "none"]

----------------------------------------------------------------------------
(* Shared pieces.                                                            *)

\* closeBatch's first section. The failed calls release the SDK's handlers, so
\* the model may go on by itself.
CloseBatches(bs, next) ==
    /\ batch' = [b \in Batches |-> IF b \in bs THEN "expired" ELSE batch[b]]
    /\ closing' = [b \in Batches |-> IF b \in bs THEN next ELSE closing[b]]
    /\ sdk' = IF bs # {} THEN "busy" ELSE sdk

OpenBatches == {b \in Batches : batch[b] = "open"}

\* Mutant: a request that answers with pending calls does not register them.
Answer_Unremembered(q, i) ==
    /\ got' = [got EXCEPT ![q] = i]
    /\ rpc' = [rpc EXCEPT ![q] = "answered"]

\* What a request that reads r.updates does with what it got.
Answer(q, i) ==
    /\ got' = [got EXCEPT ![q] = i]
    /\ rpc' = [rpc EXCEPT ![q] = IF i.kind = "calls" /\ runner[q] THEN "remember" ELSE "answered"]

\* r.updates <- i: straight to a goroutine that is blocked reading, else into
\* the buffer, which must have room.
Waiting == {q \in Requests : rpc[q] = "waiting" \/ drain[q] = "waiting"}
SendUpdate(i) ==
    \/ \E q \in Waiting :
          /\ IF rpc[q] = "waiting"
             THEN Answer(q, i) /\ UNCHANGED drain
             ELSE drain' = [drain EXCEPT ![q] = "gone"] /\ UNCHANGED <<rpc, got>>
          /\ UNCHANGED updates
    \/ /\ Waiting = {}
       /\ Len(updates) < UpdatesCap
       /\ updates' = Append(updates, i)
       /\ UNCHANGED <<rpc, got, drain>>

\* <-r.updates, by a request that comes to wait for its result.
Receive(q) ==
    IF updates = <<>>
    THEN rpc' = [rpc EXCEPT ![q] = "waiting"] /\ UNCHANGED <<got, updates>>
    ELSE Answer(q, Head(updates)) /\ updates' = Tail(updates)

\* enable*Stream and setOnResult, for a request that streams.
AttachStream(q) ==
    IF mode[q] = "stream"
    THEN /\ sink' = q
         /\ onResult' = q
         /\ chan' = [chan EXCEPT ![q] = "open"]
    ELSE UNCHANGED <<sink, onResult, chan>>

WatchContext(q, g) ==
    /\ watch' = [watch EXCEPT ![q] = "armed"]
    /\ watchGen' = [watchGen EXCEPT ![q] = g]

\* pendingRunnerRegistry.put. Once the registry is closed it aborts the runner
\* instead, and waits for that.
PutPending(b) ==
    \/ ~pendingClosed /\ pending' = pending \cup {b}
    \/ pendingClosed /\ abort = "done" /\ UNCHANGED pending

\* The batch the runner holds (r.batch) is the last one captured.
Current(b) == batch[b] # "none" /\ \A c \in Batches : c > b => batch[c] = "none"

\* Mutant: a batch that has already expired is hooked like any other.
HookExpiry_NotImmediate(b) ==
    IF ~Current(b) THEN UNCHANGED <<pending, hooked>>
    ELSE hooked' = hooked \cup {b} /\ UNCHANGED pending

\* rememberRunner's second half: forget the runner when its batch expires, at
\* once if it has.
HookExpiry(b) ==
    IF ~Current(b) THEN UNCHANGED <<pending, hooked>>
    ELSE IF batch[b] = "expired" THEN pending' = pending \ {b} /\ UNCHANGED hooked
    ELSE hooked' = hooked \cup {b} /\ UNCHANGED pending

----------------------------------------------------------------------------
(* The request that starts the session.                                      *)

\* newTurnRunner: a gateway that is stopping accepts no runner.
Launch(q, m) ==
    /\ q = First
    /\ rpc[q] = "idle"
    /\ mode' = [mode EXCEPT ![q] = m]
    /\ \/ /\ ~activeClosed
          /\ active' = TRUE
          /\ loop' = "select"
          /\ rpc' = [rpc EXCEPT ![q] = "attach"]
          /\ UNCHANGED <<abort, closed>>
       \/ /\ activeClosed
          /\ abort' = "done"
          /\ closed' = TRUE
          /\ loop' = "ended"
          /\ rpc' = [rpc EXCEPT ![q] = "refused"]
          /\ UNCHANGED active
    /\ UNCHANGED <<after, item, cb, turn, held, updates, sink, onResult, gen, detached, sdk, batchVars,
                   tracked, pending, pendingClosed, activeClosed, brokerClosed, stopVars, target,
                   runner, ctxDone, watch, watchGen, drain, got, evs, chan, early>>

\* Mutant: nobody discards the updates of a streamed turn.
Attach_NoDiscard(q) ==
    /\ rpc[q] = "attach"
    /\ WatchContext(q, gen)
    /\ AttachStream(q)
    /\ sdk' = "busy"
    /\ IF mode[q] = "stream"
       THEN rpc' = [rpc EXCEPT ![q] = "open"] /\ UNCHANGED <<got, updates>>
       ELSE Receive(q)
    /\ UNCHANGED <<loop, after, item, cb, turn, held, closed, gen, detached, abort, batchVars, regVars,
                   stopVars, mode, target, runner, ctxDone, drain, evs, early>>

\* watchContext, the stream and its callback, and Send. (A Send that fails is
\* reported by the loop, as an error of the session: failSend.)
Attach(q) ==
    /\ rpc[q] = "attach"
    /\ WatchContext(q, gen)
    /\ AttachStream(q)
    /\ sdk' = "busy"
    /\ IF mode[q] = "stream"
       THEN /\ drain' = [drain EXCEPT ![q] = "starting"]
            /\ rpc' = [rpc EXCEPT ![q] = "open"]
            /\ UNCHANGED <<got, updates>>
       ELSE Receive(q) /\ UNCHANGED drain
    /\ UNCHANGED <<loop, after, item, cb, turn, held, closed, gen, detached, abort, batchVars, regVars,
                   stopVars, mode, target, runner, ctxDone, evs, early>>

----------------------------------------------------------------------------
(* A request that continues a parked turn.                                   *)

\* The client has been told of batch b: it holds the ids of its calls. What is
\* on a stream reaches it when the handler has been handed that stream.
Known(b) ==
    \E q \in Requests :
        \/ rpc[q] = "answered" /\ got[q] = [turn |-> b - 1, kind |-> "calls"]
        \/ rpc[q] = "open" /\ \E n \in 1..Len(evs[q]) : evs[q][n] = [turn |-> b - 1, kind |-> "calls"]

\* Find the batch, then its runner. What is not found is replayed from the
\* transcript, as a session of its own.
Find(q, b, m) ==
    /\ q # First
    /\ rpc[q] = "idle"
    /\ Known(b)
    /\ IF b \in tracked /\ batch[b] = "open"
       THEN /\ mode' = [mode EXCEPT ![q] = m]
            /\ target' = [target EXCEPT ![q] = b]
            /\ runner' = [runner EXCEPT ![q] = b \in pending]
            /\ rpc' = [rpc EXCEPT ![q] = "complete"]
       ELSE rpc' = [rpc EXCEPT ![q] = "refused"] /\ UNCHANGED <<mode, target, runner>>
    /\ UNCHANGED <<loopVars, runVars, batchVars, regVars, stopVars, ctxDone, watch, watchGen, drain,
                   got, evs, chan, early>>

\* CompleteToolOutputsWithSetup up to its callback, or its error.
Complete(q) ==
    /\ rpc[q] = "complete"
    /\ mode[q] = "json" \/ runner[q]
    /\ \/ /\ batch[target[q]] = "open"
          /\ batch' = [batch EXCEPT ![target[q]] = "completed"]
          /\ rpc' = [rpc EXCEPT ![q] = IF runner[q] THEN "setup" ELSE "deliver"]
       \/ /\ rpc' = [rpc EXCEPT ![q] = "refused"]
          /\ UNCHANGED batch
    /\ UNCHANGED <<loopVars, runVars, closing, hooked, regVars, stopVars, mode, target, runner,
                   ctxDone, watch, watchGen, drain, got, evs, chan, early>>

\* A stream needs the runner. Without one the batch is cancelled, and the
\* transcript replayed.
Discard(q) ==
    /\ rpc[q] = "complete"
    /\ mode[q] = "stream"
    /\ ~runner[q]
    /\ CloseBatches({target[q]} \cap OpenBatches, "hooks")
    /\ tracked' = tracked \ {target[q]}
    /\ pending' = pending \ {target[q]}
    /\ rpc' = [rpc EXCEPT ![q] = "refused"]
    /\ UNCHANGED <<loopVars, sink, onResult, gen, detached, abort, hooked, pendingClosed, active,
                   activeClosed, brokerClosed, stopVars, mode, target, runner, ctxDone, watch,
                   watchGen, drain, got, evs, chan, early>>

\* Mutant: a continuation does not move the request generation.
Setup_SameGeneration(q) ==
    /\ rpc[q] = "setup"
    /\ detached' = FALSE
    /\ WatchContext(q, gen)
    /\ AttachStream(q)
    /\ rpc' = [rpc EXCEPT ![q] = "deliver"]
    /\ UNCHANGED <<loopVars, gen, abort, sdk, batchVars, regVars, stopVars, mode, target, runner, ctxDone,
                   drain, got, evs, early>>

\* The callback: this request owns the runner from now on. It runs after the
\* batch was completed and before its outputs are delivered, without a lock.
Setup(q) ==
    /\ rpc[q] = "setup"
    /\ gen' = gen + 1
    /\ detached' = FALSE
    /\ WatchContext(q, gen + 1)
    /\ AttachStream(q)
    /\ rpc' = [rpc EXCEPT ![q] = "deliver"]
    /\ UNCHANGED <<loopVars, abort, sdk, batchVars, regVars, stopVars, mode, target, runner, ctxDone,
                   drain, got, evs, early>>

Deliver(q) ==
    /\ rpc[q] = "deliver"
    /\ sdk' = "busy"
    /\ rpc' = [rpc EXCEPT ![q] = "forget"]
    /\ UNCHANGED <<loopVars, sink, onResult, gen, detached, abort, batchVars, regVars, stopVars, mode,
                   target, runner, ctxDone, watch, watchGen, drain, got, evs, chan, early>>

\* broker.Remove and forgetRunner; then wait for the result, or hand out the
\* stream.
Forget(q) ==
    /\ rpc[q] = "forget"
    /\ tracked' = tracked \ {target[q]}
    /\ pending' = pending \ {target[q]}
    /\ IF mode[q] = "stream"
       THEN /\ drain' = [drain EXCEPT ![q] = "starting"]
            /\ rpc' = [rpc EXCEPT ![q] = "open"]
            /\ UNCHANGED <<got, updates>>
       ELSE Receive(q) /\ UNCHANGED drain
    /\ UNCHANGED <<loop, after, item, cb, turn, held, closed, runVars, batchVars, pendingClosed, active,
                   activeClosed, brokerClosed, stopVars, mode, target, runner, ctxDone, watch,
                   watchGen, evs, chan, early>>

----------------------------------------------------------------------------
(* Any request: its answer, its context, its helpers.                        *)

\* The other branch of the wait.
Leave(q) ==
    /\ rpc[q] = "waiting"
    /\ q \in ctxDone
    /\ rpc' = [rpc EXCEPT ![q] = "refused"]
    /\ UNCHANGED <<loopVars, runVars, batchVars, regVars, stopVars, mode, target, runner, ctxDone,
                   watch, watchGen, drain, got, evs, chan, early>>

\* rememberRunner, before a request answers with pending calls.
Remember(q) ==
    /\ rpc[q] = "remember"
    /\ PutPending(got[q].turn + 1)
    /\ rpc' = [rpc EXCEPT ![q] = "hook"]
    /\ UNCHANGED <<loopVars, runVars, batchVars, tracked, pendingClosed, active, activeClosed,
                   brokerClosed, stopVars, mode, target, runner, ctxDone, watch, watchGen, drain,
                   got, evs, chan, early>>

Hook(q) ==
    /\ rpc[q] = "hook"
    /\ HookExpiry(got[q].turn + 1)
    /\ rpc' = [rpc EXCEPT ![q] = "answered"]
    /\ UNCHANGED <<loopVars, runVars, batch, closing, tracked, pendingClosed, active, activeClosed,
                   brokerClosed, stopVars, mode, target, runner, ctxDone, watch, watchGen, drain,
                   got, evs, chan, early>>

\* discardInitial: the goroutine starts, and takes an update or waits for one.
StartDrain(q) ==
    /\ drain[q] = "starting"
    /\ IF updates = <<>>
       THEN drain' = [drain EXCEPT ![q] = "waiting"] /\ UNCHANGED updates
       ELSE drain' = [drain EXCEPT ![q] = "gone"] /\ updates' = Tail(updates)
    /\ UNCHANGED <<loop, after, item, cb, turn, held, closed, runVars, batchVars, regVars, stopVars, rpc,
                   mode, target, runner, ctxDone, watch, watchGen, got, evs, chan, early>>

\* The runner closes first. A goroutine that starts only then may choose this
\* branch although an update is there.
DrainEnds(q) ==
    /\ drain[q] \in {"starting", "waiting"}
    /\ closed
    /\ drain' = [drain EXCEPT ![q] = IF @ = "starting" THEN "missed" ELSE "gone"]
    /\ UNCHANGED <<loopVars, runVars, batchVars, regVars, stopVars, rpc, mode, target, runner, ctxDone,
                   watch, watchGen, got, evs, chan, early>>

\* The client goes away, the request times out, or its handler returns.
CancelContext(q) ==
    /\ rpc[q] # "idle"
    /\ q \notin ctxDone
    /\ ctxDone' = ctxDone \cup {q}
    /\ early' = IF target[q] >= turn THEN early \cup {q} ELSE early
    /\ UNCHANGED <<loopVars, runVars, batchVars, regVars, stopVars, rpc, mode, target, runner, watch,
                   watchGen, drain, got, evs, chan>>

\* watchContext's goroutine: the check is one step, the abort another.
WatchCheck(q) ==
    /\ watch[q] = "armed"
    /\ q \in ctxDone
    /\ watch' = [watch EXCEPT ![q] = IF watchGen[q] = gen /\ ~detached THEN "firing" ELSE "gone"]
    /\ UNCHANGED <<loopVars, runVars, batchVars, regVars, stopVars, rpc, mode, target, runner, ctxDone,
                   watchGen, drain, got, evs, chan, early>>

WatchEnds(q) ==
    /\ \/ watch[q] = "armed" /\ closed
       \/ watch[q] = "firing" /\ abort = "done"
    /\ watch' = [watch EXCEPT ![q] = "gone"]
    /\ UNCHANGED <<loopVars, runVars, batchVars, regVars, stopVars, rpc, mode, target, runner, ctxDone,
                   watchGen, drain, got, evs, chan, early>>

----------------------------------------------------------------------------
(* turnRunner.abort, by whoever calls it. Its body runs once and every       *)
(* caller returns when that is done; the loop is told first.                 *)

CallsAbort ==
    \/ loop = "abort"
    \/ loop = "persist" /\ pendingClosed
    \/ \E b \in Batches : closing[b] = "abort"
    \/ \E q \in Requests : watch[q] = "firing" \/ (rpc[q] = "remember" /\ pendingClosed)
    \/ stop = "abort" /\ snapshot

SignalAbort ==
    /\ abort = "no"
    /\ CallsAbort
    /\ abort' = "signalled"
    /\ UNCHANGED <<loopVars, sink, onResult, gen, detached, sdk, batchVars, regVars, stopVars, reqVars>>

\* CancelCurrent and Batch.Cancel.
AbortCancels ==
    /\ abort = "signalled"
    /\ abort' = "cancelled"
    /\ CloseBatches(OpenBatches, "hooks")
    /\ UNCHANGED <<loopVars, sink, onResult, gen, detached, hooked, regVars, stopVars, reqVars>>

\* session.Abort and session.Disconnect return. Events the sink holds already
\* may still reach the loop.
AbortReturns ==
    /\ abort = "cancelled"
    /\ abort' = "done"
    /\ UNCHANGED <<loopVars, sink, onResult, gen, detached, sdk, batchVars, regVars, stopVars, reqVars>>

----------------------------------------------------------------------------
(* The tool-call TTL, and the tail of closeBatch.                            *)

Expire(b) ==
    /\ batch[b] = "open"
    /\ CloseBatches({b}, "abort")
    /\ UNCHANGED <<loopVars, sink, onResult, gen, detached, abort, hooked, regVars, stopVars, reqVars>>

ExpireAborted(b) ==
    /\ closing[b] = "abort"
    /\ abort = "done"
    /\ closing' = [closing EXCEPT ![b] = "hooks"]
    /\ UNCHANGED <<loopVars, runVars, batch, hooked, regVars, stopVars, reqVars>>

\* The broker forgets the batch, and the expiry hook forgets the runner.
CloseForgets(b) ==
    /\ closing[b] = "hooks"
    /\ closing' = [closing EXCEPT ![b] = "done"]
    /\ tracked' = tracked \ {b}
    /\ pending' = IF b \in hooked THEN pending \ {b} ELSE pending
    /\ UNCHANGED <<loopVars, runVars, batch, hooked, pendingClosed, active, activeClosed,
                   brokerClosed, stopVars, reqVars>>

----------------------------------------------------------------------------
(* The loop. At its select it may pick any branch that is ready.             *)

\* Mutant: a batch captured after the broker shut down is kept all the same.
TurnParks_AfterStop ==
    /\ loop = "select"
    /\ sdk = "busy"
    /\ OpenBatches = {}
    /\ turn < Parks
    /\ batch' = [batch EXCEPT ![turn + 1] = "open"]
    /\ tracked' = tracked \cup {turn + 1}
    /\ sdk' = "quiet"
    /\ item' = [turn |-> turn, kind |-> "calls"]
    /\ cb' = onResult
    /\ onResult' = None
    /\ loop' = IF onResult = None THEN "capture" ELSE "persist"
    /\ UNCHANGED <<after, turn, held, updates, closed, sink, gen, detached, abort, closing, hooked, pending,
                   pendingClosed, active, activeClosed, brokerClosed, stopVars, reqVars>>

\* An assistant message with tool requests: the batch is captured, and, unless
\* the broker has shut down, registered.
TurnParks ==
    /\ loop = "select"
    /\ sdk = "busy"
    /\ OpenBatches = {}
    /\ turn < Parks
    /\ LET b == turn + 1 IN
       IF brokerClosed
       THEN /\ batch' = [batch EXCEPT ![b] = "expired"]
            /\ closing' = [closing EXCEPT ![b] = "hooks"]
            /\ UNCHANGED <<sdk, tracked>>
       ELSE /\ batch' = [batch EXCEPT ![b] = "open"]
            /\ tracked' = tracked \cup {b}
            /\ sdk' = "quiet"
            /\ UNCHANGED closing
    /\ item' = [turn |-> turn, kind |-> "calls"]
    /\ cb' = onResult
    /\ onResult' = None
    /\ loop' = IF onResult = None THEN "capture" ELSE "persist"
    /\ UNCHANGED <<after, turn, held, updates, closed, sink, gen, detached, abort, hooked, pending,
                   pendingClosed, active, activeClosed, brokerClosed, stopVars, reqVars>>

\* SessionIdle: the turn is over.
TurnEnds ==
    /\ loop = "select"
    /\ sdk = "busy"
    /\ OpenBatches = {}
    /\ item' = [turn |-> turn, kind |-> "stop"]
    /\ cb' = onResult
    /\ onResult' = None
    /\ loop' = IF onResult = None THEN "capture" ELSE "save"
    /\ UNCHANGED <<after, turn, held, updates, closed, sink, gen, detached, abort, sdk, batchVars,
                   regVars, stopVars, reqVars>>

\* Mutant: the loop returns without emitting the error.
Fails_Silently(from, next) ==
    /\ loop = from
    /\ loop' = next
    /\ after' = "exit"
    /\ UNCHANGED <<loopData, runVars, batchVars, regVars, stopVars, reqVars>>

Fails(from, next) ==
    /\ loop = from
    /\ loop' = "fail"
    /\ after' = next
    /\ UNCHANGED <<loopData, runVars, batchVars, regVars, stopVars, reqVars>>

\* SessionError; or an event the loop cannot accept (an output limit, a tool
\* request it cannot capture).
SessionFails == Fails("select", "disconnect")
EventRefused == sdk = "busy" /\ Fails("select", "abort")

\* The abort signal: whoever called abort() is doing the rest.
Aborted == abort # "no" /\ Fails("select", "exit")

\* The originating request's context, while the runner is still that request's.
RequestDone ==
    /\ loop = "select"
    /\ First \in ctxDone
    /\ gen = 0 /\ ~detached
    /\ loop' = "abort"
    /\ after' = "fail"
    /\ UNCHANGED <<loopData, runVars, batchVars, regVars, stopVars, reqVars>>

\* The idle ceiling. It is set above the tool-call TTL, so it does not run out
\* while the turn is parked.
IdleTimeout ==
    /\ loop = "select"
    /\ OpenBatches = {}
    /\ loop' = "abort"
    /\ after' = "fail"
    /\ UNCHANGED <<loopData, runVars, batchVars, regVars, stopVars, reqVars>>

\* The loop's own r.abort() returns.
LoopAborted ==
    /\ loop = "abort"
    /\ abort = "done"
    /\ loop' = after
    /\ after' = "exit"
    /\ UNCHANGED <<loopData, runVars, batchVars, regVars, stopVars, reqVars>>

\* emitResult: the callback (rememberRunner, then save), which may fail ...
PersistPending ==
    /\ loop = "persist"
    /\ PutPending(item.turn + 1)
    /\ loop' = "persistHook"
    /\ UNCHANGED <<after, loopData, runVars, batchVars, tracked,
                   pendingClosed, active, activeClosed, brokerClosed, stopVars, reqVars>>

PersistHook ==
    /\ loop = "persistHook"
    /\ HookExpiry(item.turn + 1)
    /\ loop' = "save"
    /\ UNCHANGED <<after, loopData, runVars, batch, closing, tracked,
                   pendingClosed, active, activeClosed, brokerClosed, stopVars, reqVars>>

PersistSaved ==
    /\ loop = "save"
    /\ loop' = "capture"
    /\ UNCHANGED <<after, loopData, runVars, batchVars, regVars, stopVars, reqVars>>

PersistFails == Fails("save", "abort")

\* Mutant: the stream of a parked turn stays attached.
CaptureStreams_KeepsSink ==
    /\ loop = "capture"
    /\ held' = sink
    /\ detached' = (detached \/ item.kind = "calls")
    /\ loop' = "publish"
    /\ UNCHANGED <<after, item, cb, turn, sink, updates, closed, onResult, gen, abort, sdk, batchVars,
                   regVars, stopVars, reqVars>>

\* ... then the streams, and for a parked turn the detachment from the request,
\* before anybody can see the result.
CaptureStreams ==
    /\ loop = "capture"
    /\ held' = sink
    /\ IF item.kind = "calls"
       THEN sink' = None /\ detached' = TRUE
       ELSE UNCHANGED <<sink, detached>>
    /\ loop' = "publish"
    /\ UNCHANGED <<after, item, cb, turn, updates, closed, onResult, gen, abort, sdk, batchVars, regVars,
                   stopVars, reqVars>>

PublishResult ==
    /\ loop = "publish"
    /\ SendUpdate(item)
    /\ turn' = IF item.kind = "calls" THEN turn + 1 ELSE turn
    /\ loop' = "send"
    /\ UNCHANGED <<after, item, cb, held, closed, runVars, batchVars, regVars, stopVars, mode, target,
                   runner, ctxDone, watch, watchGen, evs, chan, early>>

\* streamSink.send and close: the event is delivered unless the client is gone.
Delivered(q, i) == q # None /\ evs' = [evs EXCEPT ![q] = Append(@, i)]
Undelivered(q)  == (q # None => q \in ctxDone) /\ UNCHANGED evs

\* Mutant: the stream is looked up when the result is sent, not before it is
\* published.
SendResult_LateSink ==
    /\ loop = "send"
    /\ \/ /\ Delivered(sink, item)
          /\ chan' = IF item.kind = "calls" THEN [chan EXCEPT ![sink] = "closed"] ELSE chan
       \/ Undelivered(sink) /\ UNCHANGED chan
    /\ held' = None /\ cb' = None /\ item' = NoItem
    /\ sink' = IF item.kind = "calls" THEN None ELSE sink
    /\ loop' = IF item.kind = "calls" THEN "select" ELSE "disconnect"
    /\ UNCHANGED <<after, turn, updates, closed, onResult, gen, detached, abort, sdk, batchVars, regVars,
                   stopVars, rpc, mode, target, runner, ctxDone, watch, watchGen, drain, got, early>>

SendResult ==
    /\ loop = "send"
    /\ \/ /\ Delivered(held, item)
          /\ chan' = IF item.kind = "calls" THEN [chan EXCEPT ![held] = "closed"] ELSE chan
       \/ Undelivered(held) /\ UNCHANGED chan
    /\ held' = None /\ cb' = None /\ item' = NoItem
    /\ loop' = IF item.kind = "calls" THEN "select" ELSE "disconnect"
    /\ UNCHANGED <<after, turn, updates, closed, runVars, batchVars, regVars, stopVars, rpc, mode, target,
                   runner, ctxDone, watch, watchGen, drain, got, early>>

\* emitError.
PublishError ==
    /\ loop = "fail"
    /\ SendUpdate([turn |-> turn, kind |-> "error"])
    /\ loop' = "failSend"
    /\ UNCHANGED <<after, item, cb, turn, held, closed, runVars, batchVars, regVars, stopVars, mode, target,
                   runner, ctxDone, watch, watchGen, evs, chan, early>>

SendError ==
    /\ loop = "failSend"
    /\ sink' = None
    /\ \/ /\ Delivered(sink, [turn |-> turn, kind |-> "error"])
          /\ chan' = [chan EXCEPT ![sink] = "closed"]
       \/ Undelivered(sink) /\ UNCHANGED chan
    /\ loop' = after
    /\ after' = "exit"
    /\ cb' = None /\ item' = NoItem
    /\ UNCHANGED <<turn, held, updates, closed, onResult, gen, detached, abort, sdk, batchVars, regVars,
                   stopVars, rpc, mode, target, runner, ctxDone, watch, watchGen, drain, got, early>>

Disconnected ==
    /\ loop = "disconnect"
    /\ loop' = "exit"
    /\ UNCHANGED <<after, loopData, runVars, batchVars, regVars, stopVars, reqVars>>

\* The loop's deferred calls: closeStreams; the registry entry and r.closed.
CloseStreams ==
    /\ loop = "exit"
    /\ sink' = None
    /\ chan' = IF sink = None THEN chan ELSE [chan EXCEPT ![sink] = "closed"]
    /\ loop' = "finish"
    /\ UNCHANGED <<after, loopData, onResult, gen, detached, abort, sdk,
                   batchVars, regVars, stopVars, rpc, mode, target, runner, ctxDone, watch, watchGen,
                   drain, got, evs, early>>

Finish ==
    /\ loop = "finish"
    /\ active' = FALSE
    /\ closed' = TRUE
    /\ loop' = "ended"
    /\ UNCHANGED <<after, item, cb, turn, held, updates, runVars, batchVars, tracked, pending,
                   pendingClosed, activeClosed, brokerClosed, stopVars, reqVars>>

----------------------------------------------------------------------------
(* RealGateway.Stop.                                                         *)

StopActive ==
    /\ stop = "no"
    /\ stop' = "pending"
    /\ activeClosed' = TRUE
    /\ snapshot' = active
    /\ UNCHANGED <<loopVars, runVars, batchVars, tracked, pending, pendingClosed, active, brokerClosed, reqVars>>

StopPending ==
    /\ stop = "pending"
    /\ stop' = "cancel"
    /\ pendingClosed' = TRUE
    /\ pending' = {}
    /\ snapshot' = (snapshot \/ pending # {})
    /\ UNCHANGED <<loopVars, runVars, batchVars, tracked, active, activeClosed, brokerClosed, reqVars>>

StopCancelAll ==
    /\ stop = "cancel"
    /\ stop' = "abort"
    /\ brokerClosed' = TRUE
    /\ tracked' = {}
    /\ CloseBatches(tracked \cap OpenBatches, "hooks")
    /\ UNCHANGED <<loopVars, sink, onResult, gen, detached, abort, hooked, pending, pendingClosed,
                   active, activeClosed, snapshot, reqVars>>

StopAborted ==
    /\ stop = "abort"
    /\ snapshot => abort = "done"
    /\ stop' = IF snapshot THEN "wait" ELSE "done"
    /\ UNCHANGED <<loopVars, runVars, batchVars, regVars, snapshot, reqVars>>

\* The runner has closed, or five seconds are over.
StopWaits ==
    /\ stop = "wait"
    /\ stop' = "done"
    /\ UNCHANGED <<loopVars, runVars, batchVars, regVars, snapshot, reqVars>>

----------------------------------------------------------------------------
RequestStep(q) ==
    \/ Attach(q)
    \/ Complete(q)
    \/ Discard(q)
    \/ Setup(q)
    \/ Deliver(q)
    \/ Forget(q)
    \/ Leave(q)
    \/ Remember(q)
    \/ Hook(q)

HelperStep(q) ==
    \/ StartDrain(q)
    \/ DrainEnds(q)
    \/ WatchCheck(q)
    \/ WatchEnds(q)

\* What the loop does between two waits at its select.
LoopStep ==
    \/ LoopAborted
    \/ PersistPending
    \/ PersistHook
    \/ PersistSaved
    \/ PersistFails
    \/ CaptureStreams
    \/ PublishResult
    \/ SendResult
    \/ PublishError
    \/ SendError
    \/ CloseStreams
    \/ Finish

SelectStep ==
    \/ TurnParks
    \/ TurnEnds
    \/ SessionFails
    \/ EventRefused
    \/ Aborted
    \/ RequestDone
    \/ IdleTimeout

BatchStep(b) ==
    \/ Expire(b)
    \/ ExpireAborted(b)
    \/ CloseForgets(b)

StopStep ==
    \/ StopPending
    \/ StopCancelAll
    \/ StopAborted
    \/ StopWaits

Next ==
    \/ \E q \in Requests, m \in {"json", "stream"} : Launch(q, m) \/ \E b \in Batches : Find(q, b, m)
    \/ \E q \in Requests : RequestStep(q) \/ HelperStep(q) \/ CancelContext(q)
    \/ LoopStep
    \/ SelectStep
    \/ Disconnected
    \/ SignalAbort
    \/ AbortCancels
    \/ AbortReturns
    \/ \E b \in Batches : BatchStep(b)
    \/ StopActive
    \/ StopStep

Spec == Init /\ [][Next]_vars

\* Goroutines are scheduled and timers run out; the SDK's two calls return if
\* RpcReturns. No event of the session, no client and no shutdown is promised.
Fairness ==
    /\ \A q \in Requests : WF_vars(RequestStep(q)) /\ WF_vars(HelperStep(q))
    /\ WF_vars(LoopStep)
    /\ WF_vars(Aborted)
    /\ WF_vars(IdleTimeout)
    /\ WF_vars(SignalAbort)
    /\ WF_vars(AbortCancels)
    /\ RpcReturns => WF_vars(AbortReturns) /\ WF_vars(Disconnected)
    /\ \A b \in Batches : WF_vars(BatchStep(b))
    /\ WF_vars(StopStep)

FairSpec == Spec /\ Fairness

----------------------------------------------------------------------------
(* Properties.                                                               *)

\* The loop never sends on a closed channel, which would panic: a stream that
\* is attached, or that a result is being sent to, is open, and two streams are
\* never attached to one turn (emitResult detaches before it closes, emitError
\* and closeStreams take the sink they close).
StreamsOpen ==
    /\ sink # None => chan[sink] = "open"
    /\ held # None => chan[held] = "open"
    /\ \A q \in Requests : Len(evs[q]) <= 1

\* A stream carries the result of the turn its request asked for.
StreamedOwnTurn ==
    \A q \in Requests : \A n \in 1..Len(evs[q]) : evs[q][n].turn = target[q]

\* A parked turn the client was told of can be continued with a stream: its
\* runner is registered before the result leaves the gateway and for as long as
\* the batch is open (a stream continuation that finds no runner cancels the
\* live turn).
KnownIsContinuable ==
    \A b \in Batches : Known(b) /\ batch[b] = "open" /\ ~pendingClosed => b \in pending

\* The end of a request's context aborts the runner only if it came before the
\* request's own result: "Detach before publishing to any transport so
\* cancellation cannot win the narrow interval between result delivery and
\* detachment" (emitResult), and an earlier request's context never ends a
\* later request's turn (the request generation).
CancellationStaysHome ==
    \A q \in Requests : watch[q] = "firing" => q \in early

\* A batch that expired is not left in the pending registry, whichever of
\* rememberRunner and the expiry came first - unless the runner had already
\* captured another batch when rememberRunner came to hook the expiry.
ExpiredForgotten ==
    \A b \in Batches :
        b \in pending /\ batch[b] = "expired" /\ closing[b] = "done" =>
            \/ b \notin hooked /\ ~Current(b)
            \/ loop = "persistHook" /\ item.turn + 1 = b
            \/ \E q \in Requests : rpc[q] = "hook" /\ got[q].turn + 1 = b

\* When Stop has aborted what it found, no batch is open, no runner runs that
\* was not told to end, and none is parked where a continuation could find it.
StopReachesAll ==
    stop \in {"wait", "done"} =>
        /\ OpenBatches = {}
        /\ loop \notin {"new", "ended"} => abort # "no"
        /\ pending = {}

\* r.updates carries the results of all turns of a session. A request that
\* waits there is given the result of its own turn, or an error, unless the
\* goroutine that discards the updates of an earlier stream had not even
\* started when the next request came.
OwnUpdate ==
    [][\A q \in Requests : got'[q] # got[q] =>
          got'[q].turn = target[q] \/ \E p \in Requests \ {q} : drain[p] \in {"starting", "missed"}]_vars

\* No request waits forever: it is answered, refused, or cut off with its
\* context; a stream gets its result or is closed. (Except a stream that was attached
\* after the loop had closed the streams: ContinuationHasLoop.)
Settled(q) ==
    \/ rpc[q] \in {"idle", "answered", "refused"}
    \/ rpc[q] = "open" /\ (chan[q] = "closed" \/ evs[q] # <<>>)
    \/ q \in ctxDone
    \/ sink = q /\ loop \in {"finish", "ended"}
RequestsSettle == \A q \in Requests : []<>Settled(q)

\* A continuation that streams is never attached to a runner whose loop is
\* over, where nobody will send to it or close it: newTurnRunner calls a runner
\* without a loop "a request that can never complete" whose "stream channel is
\* never closed", and has callers "fail the request instead".
ContinuationHasLoop == loop \in {"finish", "ended"} => sink \in {None, First}

=============================================================================
