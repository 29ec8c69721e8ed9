-------------------------- MODULE ResponsesSocket --------------------------
(* One Responses WebSocket connection (internal/httpapi/responses_ws.go):    *)
(* its read loop, the handlers of its response.create messages, its single   *)
(* response slot and its warm session; with the gateway's registries of warm *)
(* sessions and of runners, and the shutdown of server and gateway.          *)
(*                                                                           *)
(* A response.create either generates, or (generate:false) parks a primed    *)
(* SDK session, the warm session, that a later create may take over. Every   *)
(* create is named by the response it makes; prev[c] = c stands for an id    *)
(* that no response of this connection has.                                  *)
EXTENDS Integers, FiniteSets

CONSTANTS
    Creates,  \* response.create messages
    None

ASSUME NoneAssumption == None \notin Creates

VARIABLES
    conn,      \* closeWith: not called, closing, returned
    broken,    \* the transport is dead
    reader,    \* the read loop
    active, wg, warm, closed,           \* responsesWebSocketState
    h,         \* where the handler of a create is
    generate, prev, hold, out,          \* its request, the warm session it took, its outcome
    seen,      \* creates whose terminal frame was written
    last, overlap,                      \* history: last create accepted; was one accepted too early
    sess,      \* the SDK session a create primed
    tracked, warmClosed,                \* warmSessionRegistry
    run,       \* the runner of a create
    activeClosed,                       \* activeRunnerRegistry
    server, stopping, aborting          \* Server.Shutdown and RealGateway.Stop

connVars   == <<conn, broken, reader>>
stateVars  == <<active, wg, closed>>
reqVars    == <<generate, prev, last, overlap>>
warmVars   == <<warm, sess, tracked>>
serverVars == <<warmClosed, activeClosed, server, stopping, aborting>>
vars == <<connVars, stateVars, h, hold, out, seen, reqVars, warmVars, run, serverVars>>

\* A handler that has not reached its terminal frame.
Generating == {"prepare", "warming", "tracking", "install", "drop", "start", "resume",
               "started", "relay", "frame"}

TypeOK ==
    /\ conn \in {"open", "closing", "closed"} /\ broken \in BOOLEAN
    /\ reader \in {"reading", "closing", "returned"}
    /\ active \in BOOLEAN /\ wg \in Nat /\ closed \in BOOLEAN
    /\ warm \in Creates \cup {None}
    /\ h \in [Creates -> Generating \cup {"idle", "write", "closing", "finish", "done"}]
    /\ generate \in [Creates -> BOOLEAN]
    /\ prev \in [Creates -> Creates \cup {None}]
    /\ hold \in [Creates -> Creates \cup {None}]
    /\ out \in [Creates -> {"none", "completed", "failed", "error"}]
    /\ seen \subseteq Creates
    /\ last \in Creates \cup {None} /\ overlap \in BOOLEAN
    /\ sess \in [Creates -> {"none", "live", "used", "gone"}]
    /\ tracked \subseteq Creates /\ warmClosed \in BOOLEAN
    /\ run \in [Creates -> {"none", "held", "running"}]
    /\ activeClosed \in BOOLEAN
    /\ server \in {"up", "draining", "warm", "active", "stopped"}
    /\ stopping \subseteq Creates /\ aborting \subseteq Creates

Init ==
    /\ conn = "open" /\ broken = FALSE /\ reader = "reading"
    /\ active = FALSE /\ wg = 0 /\ closed = FALSE /\ warm = None
    /\ h = [c \in Creates |-> "idle"]
    /\ generate = [c \in Creates |-> FALSE] /\ prev = [c \in Creates |-> None]
    /\ hold = [c \in Creates |-> None] /\ out = [c \in Creates |-> "none"]
    /\ seen = {} /\ last = None /\ overlap = FALSE
    /\ sess = [c \in Creates |-> "none"]
    /\ tracked = {} /\ warmClosed = FALSE
    /\ run = [c \in Creates |-> "none"] /\ activeClosed = FALSE
    /\ server = "up" /\ stopping = {} /\ aborting = {}

----------------------------------------------------------------------------
(* Shared pieces.                                                            *)

Goto(c, step) == h' = [h EXCEPT ![c] = step]

\* WarmResponseSession.Disconnect: whoever comes first ends the session; for
\* everybody else, and for a session a runner has taken over, it does nothing.
Disconnect(ws) ==
    /\ sess' = [w \in Creates |-> IF w \in ws /\ sess[w] = "live" THEN "gone" ELSE sess[w]]
    /\ tracked' = tracked \ {w \in ws : sess[w] = "live"}

\* Mutant: what is replaced is forgotten, not disconnected.
ReplaceWarm_Forgets(w) ==
    /\ warm' = IF closed THEN None ELSE w
    /\ Disconnect(IF closed THEN {w} \ {None} ELSE {})

\* Install w, and disconnect what it replaces; refuse once the state is closed.
\* One step: what was swapped out under the mutex is only in the hands of this
\* goroutine, which disconnects it next, or in a registry, which may do it first.
ReplaceWarm(w) ==
    /\ warm' = IF closed THEN None ELSE w
    /\ Disconnect(({warm} \ {None, w}) \cup (IF closed THEN {w} \ {None} ELSE {}))

\* The handler ends in an error: fail() writes its envelope as the terminal frame.
Fail(c) ==
    /\ out' = [out EXCEPT ![c] = "error"]
    /\ Goto(c, "frame")

----------------------------------------------------------------------------
(* The read loop.                                                            *)

\* A response.create that gets the slot. (One that does not is answered with an
\* error, and that is all.)
Receive(c, g, p) ==
    /\ reader = "reading"
    /\ conn # "closed"
    /\ ~active
    /\ h[c] = "idle"
    /\ active' = TRUE
    /\ wg' = wg + 1
    /\ generate' = [generate EXCEPT ![c] = g]
    /\ prev' = [prev EXCEPT ![c] = p]
    /\ last' = c
    /\ overlap' = (overlap \/ \E d \in Creates : h[d] \in Generating)
    /\ Goto(c, "prepare")
    /\ UNCHANGED <<connVars, closed, hold, out, seen, warmVars, run, serverVars>>

\* The client closes, sends what the loop does not survive, or vanishes.
PeerLeaves ==
    /\ reader = "reading"
    /\ reader' = "closing"
    /\ broken' \in {broken, TRUE}
    /\ UNCHANGED <<conn, stateVars, h, hold, out, seen, reqVars, warmVars, run, serverVars>>

ReadFails ==
    /\ reader = "reading"
    /\ conn # "open" \/ broken
    /\ reader' = "closing"
    /\ UNCHANGED <<conn, broken, stateVars, h, hold, out, seen, reqVars, warmVars, run, serverVars>>

\* closeWith has returned: state.wait, then state.close; the connection is
\* unregistered.
ReaderReturns ==
    /\ reader = "closing"
    /\ conn = "closed"
    /\ wg = 0
    /\ closed' = TRUE
    /\ warm' = None
    /\ Disconnect({warm} \ {None})
    /\ reader' = "returned"
    /\ UNCHANGED <<conn, broken, active, wg, h, hold, out, seen, reqVars, run, serverVars>>

----------------------------------------------------------------------------
(* closeWith: whoever calls it, it runs once and every caller waits for it.  *)

CloseWith ==
    /\ conn = "open"
    /\ \/ reader = "closing"
       \/ server # "up"
       \/ \E c \in Creates : h[c] = "closing"
    /\ conn' = "closing"
    /\ UNCHANGED <<broken, reader, stateVars, h, hold, out, seen, reqVars, warmVars, run, serverVars>>

PingFails ==
    /\ conn = "open"
    /\ conn' = "closing"
    /\ broken' = TRUE
    /\ UNCHANGED <<reader, stateVars, h, hold, out, seen, reqVars, warmVars, run, serverVars>>

\* The peer does not read: a write runs into its timeout, and the WebSocket
\* library gives the transport up. The handler, and the read loop, then fail.
WriteTimesOut ==
    /\ ~broken
    /\ \E c \in Creates : h[c] \in {"relay", "write"} \/ (h[c] = "frame" /\ out[c] # "error")
    /\ broken' = TRUE
    /\ UNCHANGED <<conn, reader, stateVars, h, hold, out, seen, reqVars, warmVars, run, serverVars>>

IdleTimeout ==
    /\ conn = "open"
    /\ ~active
    /\ conn' = "closing"
    /\ UNCHANGED <<broken, reader, stateVars, h, hold, out, seen, reqVars, warmVars, run, serverVars>>

CloseReturns ==
    /\ conn = "closing"
    /\ conn' = "closed"
    /\ UNCHANGED <<broken, reader, stateVars, h, hold, out, seen, reqVars, warmVars, run, serverVars>>

----------------------------------------------------------------------------
(* handleWebSocketResponseCreate.                                            *)

PrepareFails(c) ==
    /\ h[c] = "prepare"
    /\ Fail(c)
    /\ UNCHANGED <<connVars, stateVars, hold, seen, reqVars, warmVars, run, serverVars>>

\* generate:false drops the warm session there is before it makes its own.
PrepareWarm(c) ==
    /\ h[c] = "prepare"
    /\ ~generate[c]
    /\ ReplaceWarm(None)
    /\ Goto(c, "warming")
    /\ UNCHANGED <<connVars, stateVars, hold, out, seen, reqVars, run, serverVars>>

\* WarmResponse opens an SDK session, saves the response, and has the gateway
\* track the session.
WarmResponse(c) ==
    /\ h[c] = "warming"
    /\ sess' = [sess EXCEPT ![c] = "live"]
    /\ Goto(c, "tracking")
    /\ UNCHANGED <<connVars, stateVars, hold, out, seen, reqVars, warm, tracked, run, serverVars>>

WarmFails(c) ==
    /\ h[c] = "warming"
    /\ Fail(c)
    /\ UNCHANGED <<connVars, stateVars, hold, seen, reqVars, warmVars, run, serverVars>>

SaveFails(c) ==
    /\ h[c] = "tracking"
    /\ Disconnect({c})
    /\ Fail(c)
    /\ UNCHANGED <<connVars, stateVars, hold, seen, reqVars, warm, run, serverVars>>

\* Mutant: a session that came too late for Stop is handed out all the same.
TrackWarmSession_Ignored(c) ==
    /\ h[c] = "tracking"
    /\ tracked' = IF warmClosed THEN tracked ELSE tracked \cup {c}
    /\ Goto(c, "install")
    /\ UNCHANGED <<connVars, stateVars, hold, out, seen, reqVars, warm, sess, run, serverVars>>

\* trackWarmSession: a gateway that is stopping refuses the session.
TrackWarmSession(c) ==
    /\ h[c] = "tracking"
    /\ IF warmClosed
       THEN Disconnect({c}) /\ Fail(c)
       ELSE /\ tracked' = tracked \cup {c}
            /\ Goto(c, "install")
            /\ UNCHANGED <<sess, out>>
    /\ UNCHANGED <<connVars, stateVars, hold, seen, reqVars, warm, run, serverVars>>

Install(c) ==
    /\ h[c] = "install"
    /\ ReplaceWarm(c)
    /\ out' = [out EXCEPT ![c] = "completed"]
    /\ Goto(c, "frame")
    /\ UNCHANGED <<connVars, stateVars, hold, seen, reqVars, run, serverVars>>

\* takeWarm: what is not for this request is dropped, in a second step where it
\* had to be compared.
TakeWarm(c) ==
    /\ h[c] = "prepare"
    /\ generate[c]
    /\ \/ /\ prev[c] = None
          /\ ReplaceWarm(None)
          /\ Goto(c, "start")
          /\ UNCHANGED hold
       \/ /\ prev[c] # None
          /\ warm = prev[c]
          /\ hold' = [hold EXCEPT ![c] = warm]
          /\ warm' = None
          /\ Goto(c, "start")
          /\ UNCHANGED <<sess, tracked>>
       \/ /\ prev[c] # None
          /\ warm # prev[c]
          /\ Goto(c, IF warm = None THEN "start" ELSE "drop")
          /\ UNCHANGED <<hold, warmVars>>
    /\ UNCHANGED <<connVars, stateVars, out, seen, reqVars, run, serverVars>>

DropWarm(c) ==
    /\ h[c] = "drop"
    /\ ReplaceWarm(None)
    /\ Goto(c, "start")
    /\ UNCHANGED <<connVars, stateVars, hold, out, seen, reqVars, run, serverVars>>

\* StreamResponse refuses the request before it looks at the warm session.
StreamFails(c) ==
    /\ h[c] = "start"
    /\ Disconnect({hold[c]} \ {None})
    /\ Fail(c)
    /\ UNCHANGED <<connVars, stateVars, hold, seen, reqVars, warm, run, serverVars>>

\* Tool outputs for a parked turn: its runner goes on.
StreamContinues(c) ==
    /\ h[c] = "start"
    /\ hold[c] = None
    /\ Goto(c, "relay")
    /\ UNCHANGED <<connVars, stateVars, hold, out, seen, reqVars, warmVars, run, serverVars>>

\* Mutant: the registry releases a session although Stop has its snapshot.
UseWarm_Unreleased(c) ==
    /\ h[c] = "start"
    /\ hold[c] # None
    /\ sess[hold[c]] = "live"
    /\ sess' = [sess EXCEPT ![hold[c]] = "used"]
    /\ tracked' = tracked \ {hold[c]}
    /\ run' = [run EXCEPT ![c] = "held"]
    /\ Goto(c, "started")
    /\ UNCHANGED <<connVars, stateVars, hold, out, seen, reqVars, warm, serverVars>>

\* WarmResponseSession.use hands the session to the request, if the registry
\* releases it.
UseWarm(c) ==
    /\ h[c] = "start"
    /\ hold[c] # None
    /\ sess[hold[c]] = "live"
    /\ ~warmClosed
    /\ sess' = [sess EXCEPT ![hold[c]] = "used"]
    /\ tracked' = tracked \ {hold[c]}
    /\ run' = [run EXCEPT ![c] = "held"]
    /\ Goto(c, "started")
    /\ UNCHANGED <<connVars, stateVars, hold, out, seen, reqVars, warm, serverVars>>

\* There is none, or the request does not match it, or it may not be used.
SkipWarm(c) ==
    /\ h[c] = "start"
    /\ Disconnect({hold[c]} \ {None})
    /\ Goto(c, "resume")
    /\ UNCHANGED <<connVars, stateVars, hold, out, seen, reqVars, warm, run, serverVars>>

OpenSession(c) ==
    /\ h[c] = "resume"
    /\ run' = [run EXCEPT ![c] = "held"]
    /\ Goto(c, "started")
    /\ UNCHANGED <<connVars, stateVars, hold, out, seen, reqVars, warmVars, serverVars>>

OpenFails(c) ==
    /\ h[c] = "resume"
    /\ Fail(c)
    /\ UNCHANGED <<connVars, stateVars, hold, seen, reqVars, warmVars, run, serverVars>>

\* Mutant: the runners' registry takes a runner after its snapshot.
StartRunner_Late(c) ==
    /\ h[c] = "started"
    /\ run' = [run EXCEPT ![c] = "running"]
    /\ Goto(c, "relay")
    /\ UNCHANGED <<connVars, stateVars, hold, out, seen, reqVars, warmVars, serverVars>>

\* The rest of prepareResponseTurn, which ends the session it cannot use; and
\* newTurnRunner, which aborts one that came too late for Stop.
StartRunner(c) ==
    /\ h[c] = "started"
    /\ \/ /\ ~activeClosed
          /\ run' = [run EXCEPT ![c] = "running"]
          /\ Goto(c, "relay")
          /\ UNCHANGED out
       \/ run' = [run EXCEPT ![c] = "none"] /\ Fail(c)
    /\ UNCHANGED <<connVars, stateVars, hold, seen, reqVars, warmVars, serverVars>>

\* The turn's result or its error comes through the stream, or the request times
\* out; the response.failed of an error is an event like any other.
RelayResult(c) ==
    /\ h[c] = "relay"
    /\ \/ /\ out' \in {[out EXCEPT ![c] = o] : o \in {"completed", "failed"}}
          /\ Goto(c, "frame")
       \/ Fail(c)
    /\ UNCHANGED <<connVars, stateVars, hold, seen, reqVars, warmVars, run, serverVars>>

\* closeWith has cancelled the work: the relay stops without a terminal frame.
RelayCancelled(c) ==
    /\ h[c] = "relay"
    /\ conn # "open"
    /\ Goto(c, "closing")
    /\ UNCHANGED <<connVars, stateVars, hold, out, seen, reqVars, warmVars, run, serverVars>>

\* A frame before the terminal one cannot be written.
EarlyFrameFails(c) ==
    /\ h[c] = "relay" \/ (h[c] = "frame" /\ out[c] # "error")
    /\ conn # "open" \/ broken
    /\ broken' = TRUE
    /\ Goto(c, "closing")
    /\ UNCHANGED <<conn, reader, stateVars, hold, out, seen, reqVars, warmVars, run, serverVars>>

\* Mutant: the slot is freed by the deferred finish alone.
ReleaseSlot_Later(c) ==
    /\ h[c] = "frame"
    /\ \A d \in Creates : h[d] # "write"
    /\ Goto(c, "write")
    /\ UNCHANGED <<connVars, stateVars, hold, out, seen, reqVars, warmVars, run, serverVars>>

\* The terminal frame: under the writer's mutex the slot is freed ...
ReleaseSlot(c) ==
    /\ h[c] = "frame"
    /\ \A d \in Creates : h[d] # "write"
    /\ active' = FALSE
    /\ Goto(c, "write")
    /\ UNCHANGED <<connVars, wg, closed, hold, out, seen, reqVars, warmVars, run, serverVars>>

\* Mutant: what a failed frame calls for is done after every frame.
WriteFrame_Clears(c) ==
    /\ h[c] = "write"
    /\ conn # "closed" /\ ~broken
    /\ seen' = seen \cup {c}
    /\ IF generate[c] THEN UNCHANGED warmVars ELSE ReplaceWarm(None)
    /\ Goto(c, "finish")
    /\ UNCHANGED <<connVars, stateVars, hold, out, reqVars, run, serverVars>>

\* ... and the frame is written.
WriteFrame(c) ==
    /\ h[c] = "write"
    /\ conn # "closed" /\ ~broken
    /\ seen' = seen \cup {c}
    /\ Goto(c, "finish")
    /\ UNCHANGED <<connVars, stateVars, hold, out, reqVars, warmVars, run, serverVars>>

WriteFails(c) ==
    /\ h[c] = "write"
    /\ conn # "open" \/ broken
    /\ broken' = TRUE
    /\ Goto(c, IF out[c] = "error" THEN "finish" ELSE "closing")
    /\ UNCHANGED <<conn, reader, stateVars, hold, out, seen, reqVars, warmVars, run, serverVars>>

\* closeWith returns to a handler. One that made a warm session drops what the
\* connection has.
HandlerClosed(c) ==
    /\ h[c] = "closing"
    /\ conn = "closed"
    /\ IF generate[c] THEN UNCHANGED warmVars ELSE ReplaceWarm(None)
    /\ Goto(c, "finish")
    /\ UNCHANGED <<connVars, stateVars, hold, out, seen, reqVars, run, serverVars>>

\* Mutant: the deferred call frees the slot only.
Finish_EndActive(c) ==
    /\ h[c] = "finish"
    /\ active' = FALSE
    /\ Goto(c, "done")
    /\ hold' = [hold EXCEPT ![c] = None]
    /\ UNCHANGED <<connVars, wg, closed, out, seen, reqVars, warmVars, run, serverVars>>

\* The deferred finish: endActive once more, and wg.Done. The handler is gone
\* with what it held.
Finish(c) ==
    /\ h[c] = "finish"
    /\ active' = FALSE
    /\ wg' = wg - 1
    /\ Goto(c, "done")
    /\ hold' = [hold EXCEPT ![c] = None]
    /\ UNCHANGED <<connVars, closed, out, seen, reqVars, warmVars, run, serverVars>>

\* The turn runner ends its SDK session (TurnGateway).
RunnerEnds(c) ==
    /\ run[c] = "running"
    /\ run' = [run EXCEPT ![c] = "none"]
    /\ aborting' = aborting \ {c}
    /\ UNCHANGED <<connVars, stateVars, h, hold, out, seen, reqVars, warmVars, warmClosed, activeClosed,
                   server, stopping>>

----------------------------------------------------------------------------
(* Shutdown: the server's, which closes the connections and waits for them   *)
(* until its grace period is over, then the gateway's.                       *)

Shutdown ==
    /\ server = "up"
    /\ server' = "draining"
    /\ UNCHANGED <<connVars, stateVars, h, hold, out, seen, reqVars, warmVars, run, warmClosed, activeClosed,
                   stopping, aborting>>

\* The connection has returned, or the grace period is over (CloseNow). Then
\* RealGateway.Stop: the warm sessions first.
StopWarm ==
    /\ server = "draining"
    /\ broken' = (broken \/ reader # "returned")
    /\ server' = "warm"
    /\ warmClosed' = TRUE
    /\ stopping' = tracked
    /\ tracked' = {}
    /\ UNCHANGED <<conn, reader, stateVars, h, hold, out, seen, reqVars, warm, sess, run, activeClosed, aborting>>

StopDisconnects(w) ==
    /\ w \in stopping
    /\ stopping' = stopping \ {w}
    /\ Disconnect({w})
    /\ UNCHANGED <<connVars, stateVars, h, hold, out, seen, reqVars, warm, run, warmClosed, activeClosed,
                   server, aborting>>

StopActive ==
    /\ server = "warm"
    /\ stopping = {}
    /\ server' = "active"
    /\ activeClosed' = TRUE
    /\ aborting' = {c \in Creates : run[c] = "running"}
    /\ UNCHANGED <<connVars, stateVars, h, hold, out, seen, reqVars, warmVars, run, warmClosed, stopping>>

StopAborts(c) ==
    /\ server = "active"
    /\ c \in aborting
    /\ run' = [run EXCEPT ![c] = "none"]
    /\ aborting' = aborting \ {c}
    /\ UNCHANGED <<connVars, stateVars, h, hold, out, seen, reqVars, warmVars, warmClosed, activeClosed,
                   server, stopping>>

Stopped ==
    /\ server = "active"
    /\ aborting = {}
    /\ server' = "stopped"
    /\ UNCHANGED <<connVars, stateVars, h, hold, out, seen, reqVars, warmVars, run, warmClosed, activeClosed,
                   stopping, aborting>>

----------------------------------------------------------------------------
\* The ids a client can name: those it was sent, and one of another connection.
Known(c) == {None, c} \cup seen

HandlerStep(c) ==
    \/ PrepareFails(c) \/ PrepareWarm(c)
    \/ WarmResponse(c) \/ WarmFails(c) \/ SaveFails(c) \/ TrackWarmSession(c) \/ Install(c)
    \/ TakeWarm(c) \/ DropWarm(c)
    \/ StreamFails(c) \/ StreamContinues(c) \/ UseWarm(c) \/ SkipWarm(c)
    \/ OpenSession(c) \/ OpenFails(c) \/ StartRunner(c)
    \/ RelayCancelled(c) \/ EarlyFrameFails(c)
    \/ ReleaseSlot(c) \/ WriteFrame(c) \/ WriteFails(c)
    \/ HandlerClosed(c) \/ Finish(c)

Next ==
    \/ \E c \in Creates, g \in BOOLEAN : \E p \in Known(c) : Receive(c, g, p)
    \/ \E c \in Creates : HandlerStep(c) \/ RelayResult(c) \/ RunnerEnds(c)
    \/ PeerLeaves \/ ReadFails \/ ReaderReturns
    \/ CloseWith \/ PingFails \/ WriteTimesOut \/ IdleTimeout \/ CloseReturns
    \/ Shutdown \/ StopWarm \/ StopActive \/ Stopped
    \/ \E c \in Creates : StopDisconnects(c) \/ StopAborts(c)

Spec == Init /\ [][Next]_vars

\* Goroutines are scheduled, and conn.Close, the store and the SDK's calls
\* return. A turn that nothing cancels may take for ever.
Fairness ==
    /\ \A c \in Creates : WF_vars(HandlerStep(c))
    /\ WF_vars(ReadFails) /\ WF_vars(ReaderReturns)
    /\ WF_vars(CloseWith) /\ WF_vars(CloseReturns)

FairSpec == Spec /\ Fairness

----------------------------------------------------------------------------
(* Properties.                                                               *)

\* No warm session is lost by the connection: as long as it is neither used nor
\* disconnected it is the connection's, or in the hands of the handler that is
\* making it, or of one that is about to use it (replaceWarm, takeWarm, close).
WarmHeld ==
    \A w \in Creates : sess[w] = "live" =>
        \/ warm = w
        \/ h[w] \in {"tracking", "install"}
        \/ \E c \in Creates : h[c] = "start" /\ hold[c] = w

\* Nor by the gateway: Stop will find it, or has it in its snapshot, or the
\* handler that is making it will be refused. And Stop never has in its snapshot
\* what a runner has taken over: "refusing here is what keeps a session from
\* ending up owned by neither registry" (warmSessionRegistry.release).
WarmAccounted ==
    \A w \in Creates :
        /\ sess[w] = "live" => w \in tracked \cup stopping \/ h[w] = "tracking"
        /\ sess[w] = "used" => w \notin tracked \cup stopping

\* When responsesWebSocket returns nothing of the connection is left: no
\* handler runs, and no warm session lives (state.shutdown waits, then closes).
ReturnIsFinal ==
    reader = "returned" =>
        \A c \in Creates : h[c] \in {"idle", "done"} /\ sess[c] # "live"

\* What the handlers hold when Stop passes ends too: when it is done no runner
\* runs, whenever it was started, and the only warm sessions that live are those
\* a handler is still making, which it will have to end.
StopEndsAll ==
    server = "stopped" =>
        \A c \in Creates : run[c] # "running" /\ (sess[c] = "live" => h[c] = "tracking")

\* The warm session is in place before the client can see the frame that ends
\* its response, and stays until the next create - unless two creates were
\* accepted at once (endActive, twice), or the client has gone.
WarmInPlace ==
    last # None /\ last \in seen /\ ~generate[last] /\ out[last] = "completed" /\ ~overlap /\ reader = "reading"
        => warm = last

\* The slot is taken only for a create whose terminal frame is not out: a
\* client that sends the next create the instant it sees that frame is not
\* refused.
SlotFreedWithFrame == active /\ conn = "open" /\ ~broken => \E c \in Creates : h[c] \in Generating

\* Once closeWith is called the connection's handler returns, its work ended.
CloseEndsConnection == conn # "open" ~> reader = "returned"

=============================================================================
