# copilot-api in TLA+

copilot-api is an OpenAI-compatible server (Chat Completions and Responses,
over HTTP, SSE and WebSocket) in front of the GitHub Copilot SDK. What makes it
hard is the lifetime of things - a tool call parks a live SDK session between two
HTTP requests, a WebSocket parks a primed session between two creates, and TTLs,
cancellations, disconnects and a shutdown race all of them - and that one turn is told
three times, streamed, answered and stored, and a chain of turns has to be told again
to a new session when the old one is gone. This directory holds the specifications of that part, the
instances TLC checks, and the proofs TLAPS checks.

    tlc -workers 2 -config BrokerRace.cfg MCToolBroker.tla     # any run of PROJECT.json
    tlapm ToolBrokerProofs.tla                                 # the proofs

`PROJECT.json` lists components, runs, mutants, hazards, findings, theorems, and
for every definition the source lines it stands for.

## The system

| part | state | operations | talks to |
| --- | --- | --- | --- |
| **Tool broker** (`toolproxy`) | `Broker.batches`, `byCall`, `closed`; per `Batch` its calls, `completed`, `expired`, timer, hooks; per turn (`RequestTools`) the current batch and the ids reserved for streamed calls | `CaptureRequests`, `handleInvocation`, `ReserveStreamingCall`, `Register`, `Remove`, `FindByCallIDs`, `FindByAnyCallIDs`, `Complete...`, `closeBatch`, `CancelAll` | called by the runner's loop, SDK handler goroutines, continuation requests, timers, Stop |
| **Turn runner** (`copilotgw/turn_runner.go`) | loop, stream sinks, `updates` channel, request generation and detachment, pins | `loop`, `emitResult`, `emitError`, `waitInitial`, `discardInitial`, `watchContext`, `abort` | reads the event sink, parks batches, answers requests, calls the SDK |
| **Registries and Stop** (`pending_registry`, `active_registry`, `warm_registry`, `real.go`) | which runner continues a batch; which runners and warm sessions are the gateway's to end | `put`, `take`, `drain`, `add`, `release`, `closeAndSnapshot`, `Stop` | |
| **Responses WebSocket** (`httpapi/responses_ws.go`) | slot, warm session, wait group, `closed`; `closeWith` | read loop, `handleWebSocketResponseCreate`, watchdogs, teardown | `WarmResponse`, `StreamResponse`, server shutdown |
| **Session event sink** (`session_events.go`) | channel, spill buffer, flusher, `stopped`, `dropped` | `send`, `attach`, `flush`, `discard` | SDK callback in, runner's loop out |
| **Session store** (`sessionstore`) | on disk: response records and tombstones, the retention link index, session directories; in memory: pins, `deletedIDs`, `orphanSessions` | `Ensure`, `PinResponse`, `PinSession`, `EnsureSession`, `SaveResponse`, `DeleteResponse`, `ClearInputPending`, `Prune` | runners, warm responses, client deletes, the retention loop and command |
| **Response chains** (`response_session.go`, `warm_response.go`, `response_hydration.go`, `continuations.go`) | per record its claim on undelivered input; warm sessions with the prompt they owe | `prepareResponseTurn`, `pendingInputForSession`, `WarmResponse`, hydration, `markPendingInputDelivered` | store, SDK sessions, tool broker |
| **Turn output** (`turn_runner.go`) | text, `reasoningAccumulator`, tool call fragments, item names and order, byte counts | the cases of the loop's event switch, `responseFromTurn`, `orderOutputItems` | SDK events in, stream events and one result out |
| **Response stream encoder** (`httpapi/responses_stream.go`, `stream_reconcile.go`) | item indices, what was streamed of each item, which parts are open | `writeResponseStreamEvents`, `finishIncompleteOutput`, the reconciliations | the runner's stream in; SSE, WebSocket or JSON out |
| **Chat stream encoder** (`httpapi/chat.go`) | streamed text and reasoning, calls by index | `streamChatEvents`, `chatToolCallStreams` | the same |
| **Model cache** (`models.go`) | catalog, age, refresh in flight, last forced refresh | `ensureModels`, `finishModelRefresh`, `refreshModelsInBackground`, `findModel` | every request |
| wire types, tool catalog, images, file provider, configuration, middleware | none, or per request | pure translation, validation, I/O | |

Requests reach the gateway; a new one starts a runner on an SDK session, whose
events pass the sink and are read by the runner's loop. When the model calls
client tools the loop captures the calls into a batch, publishes it to the broker
and answers the request; the SDK's handlers wait for outputs. A later request
looks the batch up by call id, completes it, and, if it streams, attaches its
channel to the runner it finds in the pending registry. Whatever is parked is
ended by its TTL, by an abort or by `Stop`. What the loop makes of the session's events
goes through the stream's channel to an encoder, which writes the client's events, and
to the store. A request that continues a stored response resumes its session, and first
replays what warm responses only buffered; when the session is gone the chain of records
is rebuilt in a new one.

### What makes each part correct

- *Broker*: a batch is closed once; it is answered whole or not at all; a client
  whose outputs were accepted was obeyed; the lookup leads to the batch that has
  the call, and keeps leading there while the batch is open; nobody waits for ever.
- *Runner*: a channel is closed once and never sent to again; a request gets the
  result of its own turn; only its own request's cancellation ends a turn; a turn
  the client was told is parked can be continued; Stop misses nobody.
- *Socket*: a warm session always has exactly one owner who will end it; it is in
  place when the client may ask for it; one response at a time; teardown leaves
  nothing behind and always finishes.
- *Sink*: order, and no silent loss; the callback never waits.
- *Store*: no session is deleted while a record needs it or a request has it pinned; a
  deleted response stays deleted; a crash between two writes errs on the safe side; what
  a client deletes does go.
- *Chains*: no warmed input is lost; the model generates no turn without what its chain
  said, in the order it was said; a rebuilt history is one a session can take.
- *Turn output and encoders*: a client can follow every stream to its end, failed ones
  included; an item keeps its place; turns do not leak into each other; what the client
  was shown is what was saved; a good turn is not reported as failed.
- *Model cache*: one fetch at a time; nobody fails, or waits, for another's sake; a model
  is not called missing on old evidence.

## Modules

| module | stands for | size |
| --- | --- | --- |
| `PendingBatch` | abstract: what the broker promises of a batch and its calls | 5 actions |
| `ToolBroker` | `toolproxy.go` (`Broker`, `Batch`, `RequestTools`) | implements `PendingBatch` |
| `ToolBrokerProofs` | proofs about `ToolBroker`, and of its refinement of `PendingBatch` | |
| `TurnGateway` | one SDK session: runner loop, its sinks and updates, the requests that use it, registries, expiry, Stop | |
| `TurnGatewayProofs` | proofs about `TurnGateway` | |
| `ResponsesSocket` | one WebSocket connection, its creates, the warm session, registries, the two shutdowns | |
| `ResponsesSocketProofs` | proofs about `ResponsesSocket` | |
| `EventStream` | abstract: what a runner may rely on when it reads events | 4 actions |
| `EventSink` | `session_events.go` | implements `EventStream` |
| `EventSinkProofs` | proofs about `EventSink` | |
| `ResponseLife` | abstract: what the store promises of a response and its session | 5 actions |
| `SessionStore` | `sessionstore/store.go`, `retention.go`, and the turns that use them | implements `ResponseLife` |
| `SessionStoreProofs` | proofs about `SessionStore` | |
| `TurnItems` | pieces of text, output items, the reconciliation of texts: what runner and encoders share | |
| `TurnOutput` | `turn_runner.go`: the loop's output state | |
| `ResponseEvents` | `responses_stream.go`, `stream_reconcile.go` | |
| `ChatChunks` | `chat.go`: the streamed answer | |
| `TurnDelivery` | abstract: what a client may rely on when it follows a turn | 6 actions |
| `TurnStream` | composes `TurnOutput` with the two encoders and a reading client | implements `TurnDelivery` |
| `TurnStreamProofs` | proofs about `TurnStream` | |
| `ResponseChain` | the continuation of responses: resume, replay, warm sessions, rebuilt chains | |
| `ResponseChainProofs` | proofs about `ResponseChain` | |
| `ModelCache` | `models.go`, and `findModel` | |
| `ModelCacheProofs` | proofs about `ModelCache` | |
| `MC*` | instances for TLC | |

The modules meet where one component sees another only through a narrow face:
`TurnGateway` uses a batch as `ToolBroker` promises it (open, completed, expired,
closed once; its hooks run after), `ResponsesSocket` a runner as `TurnGateway` does
(started, ended, aborted by Stop), and the loop's reads in `TurnGateway` are what
`EventStream` delivers. A request in `SessionStore` is the turn's preparation, run and end
as far as it pins, saves and releases; in `ResponseChain` it is the same turn as far as it
matters what the session is told. `TurnStream` takes the life of the runner, which
`TurnGateway` has, as one way to fail (`SessionFails`) and one to go on (`Continue`).

### ToolBroker

One thread of control per turn (the runner's loop), per SDK handler, per client,
per timer and for the shutdown; `pc` says where each stands. **One action is one
critical section** (`b.mu`, `batch.mu`, `rt.mu`), since between two of them
anything may happen: `Register` is `Bind`, `CheckOpen`, `Insert` (and
`CancelUnregistered`); a continuation is `FindByCallIDs` or `FindByAnyCallIDs` (with
`RemoveStale`), `Complete`, `Deliver` per call, `ForgetBatch`; closing a batch is
`StartClose` (flags), `CloseAborts` (the abort callback) and `CloseForgets`
(`broker.Remove`). `ensureCall` is `FindCall`, `MintCall`: minted ids are unique, so
an id is taken at most once. `EmptyId` is an SDK call without an id, `Streamable`
the SDK ids whose arguments are streamed before the call is announced
(`ReserveStreamingCall`). The contents of calls and outputs are not modelled.

### TurnGateway

`loop` is the runner's loop by the step it is about to take, `item` what it carries through
`emitResult`. `Requests` are a first request and its continuations, each JSON or streaming;
`rpc` is where the handler is. `sink` is the stream that is attached, `held` the one
`emitResult` captured, `chan`/`evs` the channel of each request, `updates` the buffered channel
shared by all turns (`UpdatesCap`, 16 in the code). A client knows of a parked batch (`Known`)
from an answer, or from a stream that its handler has been handed (`rpc = "open"`). `batch[b]`
is the state of the b-th parked batch; its expiry closes it, runs the runner's abort, then the
hook that forgets the runner. `RpcReturns` says whether the SDK's `Abort` and `Disconnect`
return. The steps of `Stop` are actions of their own.

### ResponsesSocket

Handlers run side by side: the slot is freed with the terminal frame, so the next
create may be received before the handler of the one before has returned. `h[c]` is
where the handler of create `c` is, `hold[c]` the warm session it took, `sess[c]` the SDK
session a `generate:false` create primed, `run[c]` whether `c` has a session in hand or a
runner. `conn` is `closeWith`, `broken` a dead transport, `reader` the read loop. The transport
dies with the peer, with a ping that is not answered, with a write that runs into its timeout
(`WriteTimesOut`, not forced by fairness), or when Stop ends the grace period.
`server` runs through `Server.Shutdown` and `RealGateway.Stop` (warm registry first,
then the runners), whose snapshots are `stopping` and `aborting`. `prev` is the
`previous_response_id`: none, a response the client has seen on this connection, or an
unknown one. `last` and `overlap` are history variables for `WarmInPlace`.

### EventSink

The sink with the flusher's loop cut at its lock (`FlushTake`), its select
(`FlushSend`, `FlushGivesUp`) and `Discard`. An event is its number.

### SessionStore

Everything the store does in memory, and every write, is under `s.mu`. An operation that
writes once is one action. One that writes more often holds `op`, the holder of the lock
with its next step, from the first write to the last: `SaveResponse` (link), `SaveRecord`,
`SaveMoved`; `DeleteResponse` (tombstone), `DeleteLink`, then `Cleanup`, `RemoveDir`,
`RemoveLinks`; `Release`, which may start a clean-up; `PruneResponse` and `PruneLink`.
Between two of these steps the process may `Crash` (memory and requests are lost, what was
written stays), the write may fail (`OpFails`), and what takes no lock goes on: reading the
record of a continued response, opening a session, the scan of a prune. A prune is `PruneBegins` (the
index), three scans in the order of the code, `PlanPrune` under the lock, and one action per
path. `touched` stands for a modification time newer than the scan's. `prune.plan` is
any subset of the unpinned records with any of the sessions all of whose references are in it: the
quotas only choose among these. `index` says whether the link directory exists;
`IndexLinks` is the index a rebuild renames into place.

`pc[r]` is where request `r` is: `PinPrevious`, `LoadPrevious`, `PinSession`,
`ResumeSession` continue a response, `PinFresh` and `CreateSession` start one, `PinOwn` and
`SaveResponse` store it, `EndTurn` and `Release` give the pins back. `minted`, `published`,
`moved` and `owed` are history variables. The set of links is read in one step, records
always decode, and a write that has returned survives a crash.

### TurnItems, TurnOutput, ResponseEvents, ChatChunks, TurnStream

A **text** is a sequence of pieces; a piece names the turn that produced it and its place
there, and whether JSON encoding has rewritten it (`Reencoded`: the runner re-encodes
finished arguments, the fragments are the model's own bytes). Its length is its number of
pieces; an item's identifier names the turn that minted it.

`TurnOutput`: `sdk` is what the model has produced in the turn and may still produce, `run`
the loop's locals under their names (`text`, `consolidated` and `deltas` of the
`reasoningAccumulator`, `ignoreLateFinalID`, `messageItemID`, `itemOrder`, the byte counts),
`sink` and `chan` the stream, `stored` the response as it was saved. There is one action per
case of the event switch: `TurnStarts`, `ReasoningDelta`, `ReasoningBlock` and
`LateReasoningBlock` (the same event, of this turn or of the one before), `MessageDelta`,
`ToolCallDelta`, `Message`, `Idle`; `SessionFails` is every way the loop gives up. A result is
saved before it is sent (`EmitResult`), and a save that fails fails the turn.

`ResponseEvents` is the encoder as a function from its locals and one event of the channel to
its locals and the events it writes (`wire`); `EncodeResponseEvent` has one operator per case
of the `select`, and `OnResponse` the reconciliation in the order of the code, with its four
early failures. `ChatChunks` does the same for chat. `TurnStream` runs them: `Encode` takes the
next event, `Timeout` and `ClientGone` end the stream, `Continue` brings the next request with
an encoder of its own. `view` is a client: it collects items, parts and texts as an OpenAI client
does, and `sound` turns false when an event does not fit what came before. A JSON request is
the same encoder, of which the client sees the last event.

What the model may send is constrained where the SDK is trusted: the deltas of a reasoning
block come before the content and the calls of its message, its final block may add to them
and may come after the turn's result but before the next turn's first event; only the last
message of a turn adds text to its deltas; and one turn has one reasoning block (`Blocks`; see
Known exceptions).

### ResponseChain

Requests arrive in the order of their ids, at any time. `rec` are the records, `sdk` the
sessions as logs - what a session was made with, then what was sent and answered -, `warm`
the sessions held in memory, `live` the calls a parked runner waits for. A text is a sequence
of `<<what, response>>`. A request prepares in one step: `StartFresh`, `UseWarm`, `Resume`
(replays `PendingRun`, the records back from the one continued that still claim their input
and share its session), `Synthesize` (the session cannot be resumed: `History` as events or,
if they cannot be written, `Transcript` as prose), `AnswerLive` and `AnswerFromRecord`. Then
`SaveWarm`, or `Send`, `Generate` and `ClearInputPending`, the last one record at a time and
able to fail; a streamed turn goes on while claims are settled. `Fails`, `DropWarm`,
`BatchGone`, `DeleteResponse` and `Crash` may come between any two of them. `line` is where
`previous_response_id` leads; `Chain` cuts it at `ChainLimit` (20 in the code) and at the first
record that is gone.

### ModelCache

`cache`, `recent` and `fetch` are `RealGateway`'s fields and the refreshes behind the done
channels; `req[c].at` is where a caller is. One action is one pass under the mutex:
`UseFresh`, `UseStale` (which may start the background refresh), `JoinRefresh`, `FetchOwn`, then
`Joined` or `JoinCancelled`; `FinishModelRefresh` publishes; `Found`, `Missed`, `LookAgain`,
`Missing` are `findModel`. A fetch returns any catalog, or fails; `Expire` and `IntervalPasses`
are time. A done channel that nobody holds is used again, so that the state is finite.

## Runs

All passing runs finish with no error; sizes are distinct states.

| run | instance | states | shows |
| --- | --- | --- | --- |
| `BrokerRace` | 1 turn, 2 handlers, 2 clients, 1 batch, an SDK id and the empty one, 2 call ids; symmetric clients and handlers | 1.6 M | every order of capture, invocation, two continuations, TTL, abort, shutdown |
| `BrokerLiveness` | 1 turn, 2 handlers of one SDK id, 1 client, nothing streamed, no symmetry | 111 k | every waiting handler is released, also where two share a record |
| `GatewayRace` | first request and one continuation each JSON or streaming, a turn that parks twice | 3.5 M | streams, results, cancellation, registries, Stop |
| `GatewayLiveness` | one park | 647 k | every request settles |
| `GatewayDeadStream` | one park | violated | finding 1 |
| `SocketRace` | 2 creates | 1.0 M | warm session ownership, teardown, shutdown, liveness of closing |
| `SinkOrder` | 10 events, channel of 2, spill of 3 | 1.8 k | order, loss, delivery |
| `StoreRace` | 2 requests, 2 sessions, one crash or failed write; a store of an earlier version or an empty one | 5.0 M | records, links, sessions, pins and marks under saves, deletes, prunes and faults |
| `StorePartialIndex` | as above, no fault, the index may be lost | violated | finding 2 |
| `StreamOutput` | 2 turns, 3 pieces of text each, one reasoning block, a tool whose arguments are streamed and one whose are not; named, unnamed, hidden and encrypted reasoning, a limit of 2 bytes; SSE, JSON, chat | 289 k | what the client is shown, in which form, and what is saved |
| `ChainContext` | 3 requests, chain limit 2 | 996 k | what a session is told, by whatever way it was continued, and the claims of warmed input |
| `ModelCatalog` | 3 requests with one question each, one model | 600 k | who fetches, who waits, who fails |

**Bounds.** `Parks`, `Events`, `UpdatesCap`, `MaxFaults`, `Turns`, `Pieces`, `Blocks`,
`ChanCap`, `Newest` and the sizes of the sets are the only bounds; each is a guard or a set in
the module's own text (`ChainLimit` is the code's own, made small). Two of everything that races
is where the races are: two continuations of a batch, two requests on a runner, two creates on a
connection, a second park so that one generation follows another. A batch with two calls is
needed for "whole or not at all". The sink's buffers are small enough that every run fills them
more than once; ten events exceed channel, spill, flusher and terminal error together. Two
responses are enough for one that continues another and for two that share a session, which is
where references are counted; one of them may be an earlier process's. One fault at any point is
followed by a restart, and prunes and deletes are not bounded. Three pieces of text are enough
for a reasoning delta, a message and a fragment in one turn, or for two pieces of one of them
with another behind; the second turn is there for what the first leaves behind. Three requests
make a chain with a middle: a warm record behind a warm record, a call, its outputs and what
continues them, a deleted record between two others, and a chain longer than the limit; random
simulation of five requests with a limit of three has found nothing else (for a limit of 2, see
Known exceptions). Three callers of the
model cache are one that fetches, one that joins it, and one that finds the catalog the others
have left, beside the background's fetch. `BrokerLiveness` leaves the empty SDK id, which handlers
cannot share, to `BrokerRace`; with it `WaiterReleased` holds as well, in 846 k states that take too
long for every day. Symmetry is used in safety runs only.

**Deadlock** is not checked: every model ends, when its clients and turns are
used up or the server has stopped, and liveness says what must have happened by then.

**Fairness.** Weak fairness of goroutines that can run (Go's scheduler), of timers
that were armed, and of the SDK's calls where `RpcReturns`. Nothing is assumed of
clients, who may never answer, never read and never close, of the SDK's events,
which may stop, or of a turn, which may take for ever: the TTL and the closing of the
connection must be enough, and the properties say so (`WaiterReleased`,
`RequestsSettle`, `CloseEndsConnection`, `SpillIsDelivered`). In `ModelCache` a fetch ends,
because the runtime answers it or its context ends (a request's own, or the timeout of the
background), but nothing says that one ever succeeds; `CallersReturn` is about a question, not
about callers that ask for ever.

**Exceptions in properties.** Where the code does not keep what one would like, the
property says exactly when: a handler whose call came after the completion (`Stray`),
updates discarded by a goroutine that had not started (`OwnUpdate`), a registry entry
whose batch expired before it was hooked (`ExpiredForgotten`), a warm session when two
creates overlap (`WarmInPlace`), links after a fault, which a later prune or
restart has to remove (`LinksAreLive`, `DeletedSessionGoes`), a stream that fails because the
model broke off a call it had streamed or because the output is over the limit
(`FailsForCause`), a model reported missing while the interval of forced refreshes still runs
(`MissIsChecked`).

## Findings

1. **A stream on a dead runner** (`GatewayDeadStream`, `ContinuationHasLoop`). A session
   error ends the loop but leaves a parked batch open and its runner registered; a
   streaming continuation then attaches to it, and its channel is never closed. The
   client waits until its context ends.
2. **A partial index** (`StorePartialIndex`, `SessionKept`). When the link index is lost under
   a running server, the next save makes it again with its own link only. It is taken as
   complete from then on, and a prune deletes the sessions of older stored responses. A test
   of the code treats the same loss as something a prune must survive.

## Known exceptions

Where the models show the code doing less than one would like, without a run of its own.
Most properties are stated so that they hold beside these. Three are violated by them, outside
the bounds of their runs: `RequestsSettle` with `RpcReturns = FALSE`, `FailsForCause` with
`Blocks = 2`, and `ContextComplete` with `WarmHydrationFails = TRUE` or five requests.

- **Broker.** `Register` checks `isOpen` (`toolproxy.go`:382) and inserts later; a close in
  between has already removed what is inserted, and the batch with its lookup entries stays
  until `Stop`, although the comment (366) has the broker forget it when it closes.
- **Runner.** On cancellation and on the idle ceiling the loop calls `abort` inline
  (`turn_runner.go`:633-645), and `Disconnect` on session errors, although the comments (233-234,
  395-400) keep these RPCs out of it. With `RpcReturns = FALSE` in `GatewayLiveness.cfg` TLC finds
  `RequestsSettle` violated: an RPC that hangs keeps the loop.
- **Socket.** The slot is freed with the terminal frame and once more by the deferred `finish`
  (`responses_ws.go`:199 and 449, against 163-165), which by then may free the slot of the next
  create; a third is accepted, and the idle watchdog may close the connection under a running
  response.
- **Turn output.** The runner keeps one reasoning text per turn: with `Blocks = 2` a second block
  whose final text does not extend the deltas of the first makes the encoder fail a good
  stream (`FailsForCause`). A call that was not streamed is announced with its full arguments,
  which the delta then repeats; an OpenAI client takes one of them, and so does `view`. The
  encoder counts a message's text twice, and the JSON around it, so that a turn the runner has
  saved as completed may be reported failed for its size. A stream that panics is failed
  without closing its items (not modelled). The chat encoder reconciles reasoning even when it is
  hidden.
- **Chains.** The prose of a warm session whose events could not be written is kept in memory only.
  With `WarmHydrationFails = TRUE` in `ChainContext.cfg` TLC finds `ContextComplete` violated: when
  the connection is lost the next resume replays the warm input, but not the chain before it
  (`warm_response.go`:213-321, against the comment `response_session.go`:188-190). Replay is at
  least once: a claim that could not be settled is sent again. A deleted record, and the limit of
  20, cut a chain: properties speak of what is left. The limit also
  ends the walk for the input that a session was never sent (`response_session.go`:199, of which
  the comment 176-188 promises all of that input): of a longer run of warm responses, when the warm
  session is lost, the oldest are not replayed, although each was accepted. As an invariant of
  `ChainContext.cfg`, `BufferedCollected` is violated by three warm responses in a row;
  `CollectedUpToLimit` proves that the limit is the only way to lose one. With five requests
  (`Newest = 5`) so is `ContextComplete`: after three warm ones a fourth continues the third, which
  leaves the first input out of the session, and a fifth goes back to the second, whose chain has
  the first in it.
- **Model cache.** An empty catalog is not a stale one and is fetched again by each caller. A forced
  refresh that fails, or is cancelled, still uses up its interval, so that a model can be
  reported missing without a successful check. Who joined a fetch that was cancelled fetches itself.

## Proofs

TLC checks small instances; the theorems below hold for every value of the
constants. Each is a `THEOREM` that ends in a temporal step over `Init => I`,
`I /\ [Next]_vars => I'` and `I => property`; the step that preserves `I` has one
case per action, or per group of actions with the same reason.

| module | theorem | says | assumes |
| --- | --- | --- | --- |
| `ToolBrokerProofs` | `TypeCorrect` | `[]TypeOK` | the assumptions of `ToolBroker`: `None` is no id, no turn is a handler, every handler is invoked by a turn |
| | `LookupIsSound` | `[]LookupSound` | |
| | `AckedIsDelivered` | `[]AckedMeansDelivered` | |
| | `OfferedIsReachable` | `[]OfferedReachable` | |
| | `StopIsClean` | `[]StopLeavesNoOpenBatch` | |
| | `IdentityIsNotSplit` | `[]NoSplitIdentity` | |
| | `BrokerImplementsContract` | `Spec => Contract!Spec`, of `PendingBatch` | |
| `TurnGatewayProofs` | `TypeCorrect` | `[]TypeOK` | `First` is a request, `Parks` a natural, `UpdatesCap` a positive one, `RpcReturns` Boolean, `None` no request |
| | `StreamsStayOpen`, `StreamsAreOwn` | `[]StreamsOpen`, `[]StreamedOwnTurn` | |
| | `ParkedTurnsContinue` | `[]KnownIsContinuable` | |
| | `CancellationsStayHome` | `[]CancellationStaysHome` | |
| | `StopIsThorough` | `[]StopReachesAll` | |
| | `UpdatesAreOwn` | `OwnUpdate`: who gets an update gets that of its own turn | |
| | `ExpiredAreForgotten` | `[]ExpiredForgotten` | |
| `ResponsesSocketProofs` | `TypeCorrect` | `[]TypeOK` | `None` is no create |
| | `WarmIsHeld`, `WarmIsAccounted` | each warm session has its owners on the connection and in the gateway | |
| | `ReturnCleansUp`, `StopIsComplete` | what is left when the handler, and when Stop, has returned | |
| | `SlotFreed` | the slot is free when the last frame is out | |
| | `WarmIsInPlace` | `[]WarmInPlace` | |
| `EventSinkProofs` | `SinkTypeCorrect` | `[]TypeOK`, the buffers' bounds | sizes are naturals, the buffers' positive; `Overflow` is no event |
| | `SinkImplementsStream` | `Spec => Stream!Spec` | |
| | `NothingIsLost` | `[]NoSilentLoss` | |
| `SessionStoreProofs` | `TypeCorrect` | `[]TypeOK` | the sentinels differ, ids of responses and sessions are disjoint, `None` is no operation; `IndexMayVanish = FALSE` |
| | `SessionsAreKept`, `IndexIsComplete` | `[]SessionKept`, `[]Indexed` | |
| | `PinnedIsKept` | no step removes what is pinned | |
| | `LinksFollowRecords` | `[]LinksAreLive` | |
| | `DeletesTakeSessions` | `[]DeletedSessionGoes` | |
| | `StoreImplementsLife` | `Spec => Life!Spec` | |
| `ResponseChainProofs` | `WarmedInputDelivered` | `[]PendingUntilDelivered` | responses are naturals and `None` is none, `ChainLimit` is a positive natural; nothing about `WarmHydrationFails` |
| | `Lines` | stored lines, and what records and requests say, fit each other | |
| | `HistoryIsSound` | `[]HistorySound` | |
| | `CollectedUpToLimit` | `[](ShortRuns => BufferedCollected)` | |
| | `Known` | what requests, warm sessions and records stand for tells their lines | `WarmHydrationFails = FALSE`, and `[]BufferedCollected` |
| | `TurnsKnowTheirChain` | `[]ContextComplete` | `WarmHydrationFails = FALSE`, and `[]ShortRuns` |
| `ModelCacheProofs` | `TypeCorrect` | `[]TypeOK` | finitely many callers; `"background"` is none of them; `None` is no caller, model or number |
| | `FetchesAreSingle` | `[]RefreshOwned` | |
| | `ChannelsClose`, `ChannelsSuffice` | who waits for a refresh waits for one that is running or published; a done channel can be had | |
| | `FailuresAreOwn` | `ErrorsAreOwn` | |
| | `MissesAreChecked` | `MissIsChecked` | |
| `TurnStreamProofs` | `TurnsAreApart` | `[]TurnsStayApart` | finitely many tools, each of a kind; surfaces and sessions are of their types; sizes are naturals |

**ToolBroker.** `TypeOK` is not inductive: actions index arrays with local variables.
`Locals` adds that a goroutine between taking a batch and returning has one, that the
batch has a turn, and that a closing batch which runs its abort has one registered.
`LookupSound` needs `Fresh`: batches and reservations have minted ids only, a reserved
id is in no batch yet, and no two reservations share one; that is what keeps the ids of
different batches apart. For `AckedMeansDelivered` the invariant `Delivery` follows a
continuation through its steps: the two closed flags exclude each other, a call fails
only with a batch that expired, a continuation that won has a completed batch, and
nobody else won the same batch. `OfferedReachable` takes three more: whatever is about to
delete an entry of the lookup - a close, a stale sweep, a completed continuation - belongs
to a batch that is closed already (`Gone`); what a turn announces are calls of its batch
(`Handed`); and a turn between registering and announcing finds its calls in the lookup
while the batch is open (`Indexed`). The runs have one turn with one batch; that any number
of turns may share the two maps of the broker, each with several batches, and that a
continuation may find the calls of two live ones, is what these theorems add.

The refinement maps each batch to `PendingBatch` by its flags; every critical
section is a step of the contract or a stutter. That takes, besides the invariants above, that a
batch nobody created is untouched (`Owned`), and that only a completed batch has answered calls
while a client about to deliver finds all of its batch's pending (`Answers`). `StopIsClean`
takes `Tracked`: an open batch is in the broker's map, or is about to be cancelled by the
shutdown, or is in the middle of `Register`, which will notice. `IdentityIsNotSplit` rests on
reservations: they only disappear.

**TurnGateway.** Nothing here is inductive alone. `GatewayInv` joins: the course of the session
(`CourseOK`: batches are captured in order, one open at a time, and the model is quiet
meanwhile), the requests on it (`TurnsOK`: one at a time is between completing a batch and
delivering its outputs, and the session stands still for it), that the loop is launched once
(`LaunchOK`), that the sink attached and the sink held belong to the turn that runs or is being sent
(`StreamOK`), that a runner is registered before its batch can be seen (`RegistryOK`, through the
callback of a stream and the answer of a JSON request), that an armed watcher of the current generation
watches the request whose turn runs (`WatchOK`), and the order in which Stop closes things (`StopOK`).

`UpdatesAreOwn` is an argument about counts, in `FlowInv`. The loop publishes one update per
turn (`QueueOK`, `Published`), and each is in the buffer or has been taken (`CountOK`), so that
who receives is given the update whose number is the number of those taken (`NextUpdate`). At
most one request is served per turn (`OneEach`, since a batch is completed once), and a request
that is served follows on one for each earlier turn that has its update or a goroutine for it
(`ChainOK`), since it can name a batch only after the turn that parked it was told. So no more
updates were taken than there were turns before its own (`TakenBelow`, by an injection), and no
fewer when nobody is late (`TakenAll`, by a surjection). It is why `Known` looks at `rpc`: a
client that could continue from a stream before its handler had it would overtake the goroutine
that discards that stream's update.

`ExpiredAreForgotten` builds on it, in `HookInv`: the two halves of `rememberRunner` run in the
request whose turn parked, or in the callback the loop took from it (`ResultOK`), and since
a request is given its own turn's update, nobody else hooks the same batch a second time
(`HookedOnce`). A registered runner is then about to be hooked, or hooked to a batch whose
hooks have not run, or was too late (`ForgetsOK`).

**ResponsesSocket.** The wait group equals the number of running handlers (`Counted`, by
finite-set lemmas). `WarmAccounted` is not inductive without two facts. `Unborn`: a
handler that is still making its session has given it to nobody, so it is in no
registry, in no snapshot, not installed and not held. `Snapshots`: a registry is closed in
the step that takes its snapshot, is empty afterwards, and a runner that runs when the
runners' registry is closed is in the snapshot. `StopEndsAll` follows from these two
at the last step; `ReturnIsFinal` from `Counted` and `WarmHeld`, since a connection
with nobody busy holds at most the installed session, and `close` ends that one.
The proofs cover any number of creates on a connection, and so the overlap of
Known exceptions: it costs a warm session its place, never its owner. `WarmIsInPlace` is about
creates that do not overlap: then only the last one generates (`OnlyLast`), no other one writes once its
terminal frame is being written (`LastWrites`), and its warm session is in place before that frame can
go out (`FramedInPlace`).

**EventSink.** `Flushing` ties the flusher's state to `flushing` and to the event in its
hands, and bounds the spill buffer while the sink is not stopped. Channel, hand and
spill buffer, in this order, are one queue: a report appends to it, the flusher leaves
it as it is, the runner takes its head, and giving up cuts it. That is the refinement
of `EventStream`, and with `Fifo` (which says which of its two cases holds) it gives
`NoSilentLoss`. The lemmas about `\o`, `Head`, `Tail` and `SubSeq` rest on the library's
`SequenceTheorems`.

**SessionStore.** `SessionKept` alone is not inductive: whether `RemoveDir` may take a directory
was decided steps before. `OpOK` says what the holder of the lock has established and still
relies on: a save has pinned the session it saves under and has its link in place, a removal has
counted no reference and seen no pin. It stays true because nothing that can run without the
lock pins, writes a record or removes anything. `RequestOK` says what a request has pinned at
each stage, `RecordOK` that a record is its own request's work, and `Indexed` turns "no link"
into "no record", so that counting links is enough. `IndexWhileUp` is where `IndexMayVanish =
FALSE` enters: finding 2 shows the theorems fail without it. `LinksFollowRecords` adds `RefInv`:
a link is its record's, or the operation under the lock is about to write the record or to
remove the link, and what a prune has scanned stays true of the records that were not `touched`
since. `DeletesTakeSessions` adds `OwedInv`: a session that a delete still owes to the client
has no reference left but one in the hands of the operation, and is pinned and marked for its
last pin, or in the hands of the operation that removes it. The refinement maps a response to
its life; `SaveRecord` publishes, the tombstone deletes, `PruneResponse` retires,
`EnsureSession` opens and `RemoveDir` closes a session, and every other step stutters.

**ResponseChain.** `PendingUntilDelivered` says that a warm record stops claiming its input only
when its session was sent it. The invariant `IInv` follows the input on its way there: whatever
is about to be sent, a request's prompt (`ReadyOK`) or what a warm session owes (`WarmOK`),
carries the input of every record it claims and goes to the session of those records
(`Carries`); what a sent request still has to settle has arrived (`ClaimsOK`), and stays, since
a session's log only grows (`SentOK`). A resume establishes `Carries` by `PendingRunCarries`:
the run that `PendingRun` chooses exists, by the minimum of a set of naturals, and all of it is
pending in one session. `Unsaved` keeps a request's own record out of the way until it is
written. The theorem covers any number of requests, chains of any length and any limit, warm
sessions whose hydration fails included.

`HistorySound` rests on `SInv`, which says what a request sees when it looks back. A stored
line ends in its own record, all of it is of records that are or were there, and each of
those has the beginning of the line for its own (`LinesOK`): a line is never rewritten, so
that whoever continues a record continues all of it. What a record answers stands right before
it on its line (`RecordsSpeak`), and a request, a parked runner and a warm session say what the
record they will become says (`RequestsSpeak`, `LiveOK`, `WarmRecords`). A chain is then a
segment of a line (`ChainIs`). What the fold over the chain makes is described place by place
(`Flattened`: each entry of a flattened sequence is at some offset in some part, and
conversely), so that a result is found behind its call, or behind the record itself if the
call was cut off, and nothing said on the chain is missing.

`ContextComplete` is about a text, a session's log, and a line. `Knows(R, text, l, b, own)` says
that for every chain that may end at place `b` of the line, wherever it starts, the text tells each
of its records, and has what they and `own` say as a subsequence, in their order. `KInv` states it
of everything that will become such a log: a request about to be sent (`ReadyOf`: session,
rebuilt base and prompt, put together), one that was sent (`SentOf`), a warm session and the
prompt it holds (`WarmOf`), the claims that either settles (`ClaimsKnow`), and a record
(`RecordOf`): one whose input was delivered has its line in its session; one on another session
than the record before it has all but itself there, so that a resume need not look further back
than the walk for buffered input does; and a turn is there with what its chain says from wherever
that starts. A resume puts
the run of pending records behind what the last delivered one is known by (`KnowsJoin`), a rebuilt
chain tells itself, and a log only grows (`Embeds` is kept by what is put before or behind). The steps
that only settle, delete or forget leave every text alone and make chains shorter.

Its two hypotheses are the two ways in which the code falls short of it. Where warm sessions
cannot be hydrated and are lost, the replay has no chain before it (Known exceptions). And where
more inputs wait for a session in a row than the walk visits, the oldest are dropped (Known exceptions again);
`ShortRuns` says that this never was the case. `Known` asks only what the argument needs,
`BufferedCollected`; `CollectedUpToLimit` derives it from `ShortRuns`. Neither restricts the number of
requests, the length of chains, or what fails. `Within`, by which `ContextComplete` compares
texts, is the greedy match of a recursive function; `EmbedsIsWithin` proves that it finds any
subsequence there is. Recursive functions over texts are opened by induction over the
naturals up to a length, as a fact about a set (`UpTo`), which the provers can do where they cannot
instantiate an induction theorem with an operator.

**ModelCache.** `RefreshOwned` is nearly inductive; `CacheInv` adds that exactly who waits holds
a channel (`Waits`), that a request whose own fetch runs waits for that one (`Fetching`), that
the fetch that ends is the registered one, so that every channel is closed (`AllClose`), and
what a request remembers of fetches that succeeded (`Remembers`, for `MissesAreChecked`). A
channel that nobody holds is used again; `ChannelsSuffice` shows by counting the holders that
one is always free, so that the bound holds nothing up.

**TurnStream.** `TurnsStayApart` says of the end of the pipeline that nothing in it is of another
turn; the invariant, `InATurn`, says it of every place on the way. `OwnState(t)` gives each its set
of values of turn `t`: what the model has produced, the runner's buffers and item order
(`SdkOK`, `RunOK`), the events on the channel and the response that was saved (`DeskOK`), the
state of the Responses or the chat encoder, and what the client has built (`ClientOK`). An operator
of the model then has one lemma, that it keeps to the turn of its arguments: reconciled
suffixes, the order of items, the events of a terminal response, each fold of a client
over what it reads. What the sets cannot say is why a boundary holds. A block that the model was
in when a tool ended the turn may come later, in the next turn, with or without its id: the
invariant has that the runner's block is the one the model is in (`BlocksAgree`), so that
`ToolBoundary` remembers the right one, and what comes late is dropped (`Ignored`). A runner that
waits for tool outputs has nothing left in its buffers (`Rested`), and the channel of a
stream that is done is empty, so that `Continue` starts turn `t + 1` with nothing of turn `t` but
that block. Folds and recursive functions (`FoldLeft`, `FlattenSeq`, `Chosen`) are opened by
`Recursion` and `UpTo`.

**Type invariants.** `TypeOK` of the broker, the gateway, the socket, the sink, the store and
the model cache, `LookupSound`, `ReturnIsFinal` and `Indexed` hold for every value of the
constants by these theorems, so no run repeats them.

**Checked by TLC only.** Liveness under fairness (`WaiterReleased`, `RequestsSettle`,
`CloseEndsConnection`, `SpillIsDelivered`, `CallersReturn`), which the installed provers cannot
treat, like ENABLED. `EventsWellFormed`, `IndexIsPosition` and
`FailsForCause` of `TurnStream`, and its refinement of `TurnDelivery`: they compare what nested
folds make of a whole stream on the side of the runner, of the encoder and of the client, byte for
byte, for each of three formats, where `TurnsStayApart` asks only whose the bytes are. No
module here declares a RECURSIVE operator.

## Not modelled

The tool catalog (the merge of loaded and requested tools), wire types, validation, schemas,
images, the encoding of hydrated events, loaded-tool events, error classification, the command
line and configuration, authentication and logging: translation without a protocol of its
own, or I/O. The SDK's file system provider: sandboxed file operations, path by path. Which
records the store's quotas prefer, its quarantine and its ownership markers, `purge` and the two
process locks; what a loss of power leaves of directory entries that were not synced. Usage
accounting, and the estimates of byte sizes beyond counting pieces; sequence numbers, which the
encoder counts up with each event it writes; the events of a warm response; panic recovery.
In `ResponseChain` preparing a request is one step, so that the record it reads is that of the
moment it resumes; inputs are not blank, and `UseWarm` does not look whether the record of the warm
session still exists, as the code does not. Tool outputs that name no previous response, and bring
their own history, are a request without a chain. In `TurnGateway` a stream's channel (32 events)
holds its terminal event, and the abort of a parked runner by outputs that install tools
(`continuations.go`:333) is left to `ResponseChain`, where it ends the runner. Time is abstract: a timer may fire at any moment after
it is armed.

## Plan

What is left, in the order of its worth:

1. `EventsWellFormed` as an inductive invariant of the encoder alone, for any order of its events.
2. The store's two process locks and `purge`: who may touch the directory, and when.
3. The catalog merge as a pure operator against its definition.
