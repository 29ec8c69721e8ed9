----------------------------- MODULE ToolBroker -----------------------------
(* The tool-call broker of internal/toolproxy: how a model's tool calls are  *)
(* published to an API client and how the client's outputs find their way    *)
(* back to the SDK goroutines that are blocked on them.                      *)
(*                                                                           *)
(* Four kinds of goroutine meet here:                                        *)
(*   - a turn loop (one per request, named by its RequestTools), which       *)
(*     captures the tool requests the model announced;                       *)
(*   - SDK tool handlers, which the SDK invokes for the same calls, before   *)
(*     or after the announcement, and which block until an output arrives;   *)
(*   - client continuations, which look a batch up by call id and complete   *)
(*     it (or discard it);                                                   *)
(*   - whoever closes a batch: its TTL timer, an aborted turn, a shutdown.   *)
(* One step of the model is one critical section (RequestTools.mu, Batch.mu, *)
(* Broker.mu). RequestTools.mu is held over several steps, so it is a        *)
(* variable; the other two never are.                                        *)
EXTENDS FiniteSets, Naturals

CONSTANTS
    Turns,       \* RequestTools, each with the loop goroutine that owns it
    Handlers,    \* SDK tool-handler invocations
    InvokedBy,   \* the RequestTools each invocation belongs to
    Clients,     \* continuation requests
    Batches,     \* batch ids that can be minted
    SdkIds,      \* tool-call ids chosen by the model
    Streamable,  \* those of function tools that are not strict
    EmptyId,     \* the empty SDK id, which correlates with nothing
    CallIds,     \* "call_" + uuid ids that can be minted
    None         \* the nil pointer

ASSUME InvokedByAssumption == InvokedBy \in [Handlers -> Turns]
ASSUME NoneAssumption == None \notin Turns \cup Handlers \cup Batches \cup CallIds
ASSUME ThreadsAssumption == Turns \cap Handlers = {}

Threads == Turns \cup Handlers
TurnOf(t) == IF t \in Turns THEN t ELSE InvokedBy[t]

VARIABLES
    \* RequestTools
    current,     \* rt.batch
    lock,        \* which goroutine holds rt.mu
    reserved,    \* rt.reserved: ids already streamed to the client
    aborted,     \* turns whose abort (once) has run
    \* Batch
    owner,       \* the turn that created the batch; None: not created
    calls,       \* b.calls
    bySDKID,     \* b.bySDKID
    expired, completed, \* the two closed flags
    timer,       \* b.timer
    late,        \* time.Now() is after b.ExpiresAt
    bound,       \* b.broker is set
    hasAbort,    \* b.abort is set
    closing,     \* how far closeBatch has got after leaving b.mu
    outcome,     \* what became of each call: b.calls[k].once/outCh/errCh
    \* Broker
    batches, byCall, closed,
    \* goroutines
    toCancel,    \* batches a CancelCurrent or CancelAll has yet to Cancel
    minted,      \* call ids uuid.NewString has returned so far
    offered,     \* call ids a finished turn has handed to the client
    pc, bat, mine,            \* per turn loop and per handler
    cpc, cids, cbat, cstale, acked \* per client continuation

rtVars     == <<current, lock, reserved, aborted>>
batchVars  == <<owner, calls, bySDKID, expired, completed, timer, late, bound,
                hasAbort, closing, outcome>>
brokerVars == <<batches, byCall, closed>>
threadVars == <<pc, bat, mine>>
clientVars == <<cpc, cids, cbat, cstale, acked>>
vars == <<rtVars, batchVars, brokerVars, toCancel, minted, offered, threadVars, clientVars>>

----------------------------------------------------------------------------
Open(b)  == b \notin expired \cup completed

TypeOK ==
    /\ current  \in [Turns -> Batches \cup {None}]
    /\ lock     \in [Turns -> Threads \cup {None}]
    /\ reserved \in [Turns -> [SdkIds -> CallIds \cup {None}]]
    /\ aborted  \subseteq Turns
    /\ owner    \in [Batches -> Turns \cup {None}]
    /\ calls    \in [Batches -> SUBSET CallIds]
    /\ bySDKID  \in [Batches -> [SdkIds -> CallIds \cup {None}]]
    /\ expired  \subseteq Batches
    /\ completed \subseteq Batches
    /\ timer    \in [Batches -> {"unset", "armed", "spent"}]
    /\ late     \subseteq Batches
    /\ bound    \subseteq Batches
    /\ hasAbort \subseteq Batches
    /\ closing  \in [Batches -> {"no", "abort", "forget", "done"}]
    /\ outcome  \in [CallIds -> {"pending", "output", "taken", "failed"}]
    /\ batches  \subseteq Batches
    /\ byCall   \in [CallIds -> Batches \cup {None}]
    /\ closed   \in BOOLEAN
    /\ toCancel \subseteq Batches
    /\ minted   \subseteq CallIds
    /\ offered  \subseteq CallIds
    /\ pc   \in [Threads -> {"idle", "configure", "ensure", "bind", "check", "insert",
                             "cancel", "arm", "wait", "answered", "failed", "ended"}]
    /\ bat  \in [Threads -> Batches \cup {None}]
    /\ mine \in [Threads -> SUBSET CallIds]
    /\ cpc  \in [Clients -> {"idle", "sweep", "findAny", "sweepAny", "complete",
                             "deliver", "forget", "done"}]
    /\ cids \in [Clients -> SUBSET CallIds]
    /\ cbat \in [Clients -> Batches \cup {None}]
    /\ cstale \in [Clients -> SUBSET Batches]
    /\ acked \subseteq Clients

Init ==
    /\ current  = [r \in Turns |-> None]
    /\ lock     = [r \in Turns |-> None]
    /\ reserved = [r \in Turns |-> [s \in SdkIds |-> None]]
    /\ aborted  = {}
    /\ owner    = [b \in Batches |-> None]
    /\ calls    = [b \in Batches |-> {}]
    /\ bySDKID  = [b \in Batches |-> [s \in SdkIds |-> None]]
    /\ expired = {} /\ completed = {} /\ late = {} /\ bound = {} /\ hasAbort = {}
    /\ timer    = [b \in Batches |-> "unset"]
    /\ closing  = [b \in Batches |-> "no"]
    /\ outcome  = [k \in CallIds |-> "pending"]
    /\ batches = {} /\ closed = FALSE /\ toCancel = {} /\ minted = {} /\ offered = {}
    /\ byCall   = [k \in CallIds |-> None]
    /\ pc   = [t \in Threads |-> "idle"]
    /\ bat  = [t \in Threads |-> None]
    /\ mine = [t \in Threads |-> {}]
    /\ cpc  = [c \in Clients |-> "idle"]
    /\ cids = [c \in Clients |-> {}]
    /\ cbat = [c \in Clients |-> None]
    /\ cstale = [c \in Clients |-> {}]
    /\ acked = {}

----------------------------------------------------------------------------
(* Closing a batch and forgetting it.                                        *)


\* Mutant: the close path forgets that a client may have completed the batch.
StartClose_Completed(b, runAbort) ==
    IF b \notin expired
    THEN /\ expired' = expired \cup {b}
         /\ timer' = [timer EXCEPT ![b] = IF @ = "armed" THEN "spent" ELSE @]
         /\ outcome' = [k \in CallIds |->
                          IF k \in calls[b] /\ outcome[k] = "pending" THEN "failed" ELSE outcome[k]]
         /\ closing' = [closing EXCEPT ![b] =
                          IF runAbort /\ b \in hasAbort THEN "abort" ELSE "forget"]
    ELSE UNCHANGED <<expired, timer, outcome, closing>>

\* closeBatch up to the abort callback. Failing the calls and cancelling the
\* batch context follow the flag without a lock, but nobody can tell: once the
\* flag is set no output can be delivered, so a waiter that sees the failure a
\* moment later has only been scheduled later. A cancelled context is therefore
\* the flag itself (WaitFails).
StartClose(b, runAbort) ==
    IF Open(b)
    THEN /\ expired' = expired \cup {b}
         /\ timer' = [timer EXCEPT ![b] = IF @ = "armed" THEN "spent" ELSE @]
         /\ outcome' = [k \in CallIds |->
                          IF k \in calls[b] /\ outcome[k] = "pending" THEN "failed" ELSE outcome[k]]
         /\ closing' = [closing EXCEPT ![b] =
                          IF runAbort /\ b \in hasAbort THEN "abort" ELSE "forget"]
    ELSE UNCHANGED <<expired, timer, outcome, closing>>


\* Remove: drops the batch and the lookup entries it still owns. Its two
\* sections (Batch.mu, then Broker.mu) are one step: a call minted between them
\* belongs to a batch that is closed, which Register will not insert.
Remove(b) ==
    /\ batches' = batches \ {b}
    /\ byCall' = [k \in CallIds |-> IF k \in calls[b] /\ byCall[k] = b THEN None ELSE byCall[k]]


\* CancelCurrent's locked half: drop the reservations, pick the current batch.
CancelTurn(r) ==
    /\ lock[r] = None
    /\ aborted' = aborted \cup {r}
    /\ reserved' = [reserved EXCEPT ![r] = [s \in SdkIds |-> None]]
    /\ toCancel' = toCancel \cup ({current[r]} \ {None})

\* closeBatch runs the abort callback of an expired batch: turnRunner.abort,
\* whose body runs once however many times it is called.
CloseAborts(b) ==
    /\ closing[b] = "abort"
    /\ closing' = [closing EXCEPT ![b] = "forget"]
    /\ \/ owner[b] \in aborted /\ UNCHANGED <<aborted, reserved, toCancel>>
       \/ owner[b] \notin aborted /\ CancelTurn(owner[b])
    /\ UNCHANGED <<current, lock, owner, calls, bySDKID, expired, completed, timer, late, bound,
                   hasAbort, outcome, brokerVars, minted, offered, threadVars, clientVars>>

\* closeBatch's tail: the broker the batch was bound to forgets it.
CloseForgets(b) ==
    /\ closing[b] = "forget"
    /\ closing' = [closing EXCEPT ![b] = "done"]
    /\ IF b \in bound THEN Remove(b) ELSE UNCHANGED <<batches, byCall>>
    /\ UNCHANGED <<rtVars, owner, calls, bySDKID, expired, completed, timer, late, bound,
                   hasAbort, outcome, closed, toCancel, minted, offered, threadVars, clientVars>>

\* The TTL runs out. (Of a batch that is closed nothing reads the deadline, and
\* a timer that fires all the same does nothing: both are left out.)
Deadline(b) ==
    /\ owner[b] # None
    /\ Open(b)
    /\ b \notin late
    /\ late' = late \cup {b}
    /\ UNCHANGED <<rtVars, owner, calls, bySDKID, expired, completed, timer, bound, hasAbort,
                   closing, outcome, brokerVars, toCancel, minted, offered, threadVars, clientVars>>

TimerFires(b) ==
    /\ timer[b] = "armed"
    /\ b \in late
    /\ Open(b)
    /\ StartClose(b, TRUE)
    /\ UNCHANGED <<rtVars, owner, calls, bySDKID, completed, late, bound, hasAbort,
                   brokerVars, toCancel, minted, offered, threadVars, clientVars>>

\* Someone aborts the turn: its request was cancelled, it failed, it idled out.
CancelCurrent(r) ==
    /\ r \notin aborted
    /\ CancelTurn(r)
    /\ UNCHANGED <<current, lock, batchVars, brokerVars, minted, offered, threadVars, clientVars>>

\* Broker.CancelAll at gateway shutdown.
CancelAll ==
    /\ ~closed
    /\ closed' = TRUE
    /\ batches' = {}
    /\ byCall' = [k \in CallIds |-> None]
    /\ toCancel' = toCancel \cup batches
    /\ UNCHANGED <<rtVars, batchVars, minted, offered, threadVars, clientVars>>

\* The Batch.Cancel calls that follow either of the two above.
CancelNext(b) ==
    /\ b \in toCancel
    /\ toCancel' = toCancel \ {b}
    /\ StartClose(b, FALSE)
    /\ UNCHANGED <<rtVars, owner, calls, bySDKID, completed, late, bound, hasAbort,
                   brokerVars, minted, offered, threadVars, clientVars>>

----------------------------------------------------------------------------
(* The turn loop: streaming reservations and CaptureRequests.                *)


\* Mutant: a published call with this SDK id in the open batch does not matter.
ReserveStreamingCall_Published(r, s) ==
    /\ pc[r] = "idle"
    /\ lock[r] = None
    /\ s \in Streamable \ {EmptyId}
    /\ reserved[r][s] = None
    /\ \E k \in CallIds \ minted :
          /\ reserved' = [reserved EXCEPT ![r][s] = k]
          /\ minted' = minted \cup {k}
    /\ UNCHANGED <<current, lock, aborted, batchVars, brokerVars, toCancel, offered,
                   threadVars, clientVars>>

\* ReserveStreamingCall: the id the fragments carry is minted before the call
\* exists. (Where it declines, or answers an id already reserved, it changes
\* nothing.)
ReserveStreamingCall(r, s) ==
    /\ pc[r] = "idle"
    /\ lock[r] = None
    /\ s \in Streamable \ {EmptyId}
    /\ reserved[r][s] = None
    /\ ~(current[r] # None /\ Open(current[r]) /\ bySDKID[current[r]][s] # None)
    /\ \E k \in CallIds \ minted :
          /\ reserved' = [reserved EXCEPT ![r][s] = k]
          /\ minted' = minted \cup {k}
    /\ UNCHANGED <<current, lock, aborted, batchVars, brokerVars, toCancel, offered,
                   threadVars, clientVars>>

\* rt.mu is taken; the current batch is used if it is open, else replaced.
UseOpenBatch(t) ==
    LET r == TurnOf(t) IN
    /\ current[r] # None
    /\ Open(current[r])
    /\ bat' = [bat EXCEPT ![t] = current[r]]
    /\ UNCHANGED <<current, owner>>

NewBatch(t) ==
    LET r == TurnOf(t) IN
    /\ ~(current[r] # None /\ Open(current[r]))
    /\ \E b \in Batches :
          /\ owner[b] = None
          /\ owner' = [owner EXCEPT ![b] = r]
          /\ current' = [current EXCEPT ![r] = b]
          /\ bat' = [bat EXCEPT ![t] = b]

\* A call returns: its locals are gone.
Return(t, to) ==
    /\ pc' = [pc EXCEPT ![t] = to]
    /\ bat' = [bat EXCEPT ![t] = None]
    /\ mine' = [mine EXCEPT ![t] = {}]

Acquire(t) ==
    /\ lock[TurnOf(t)] = None
    /\ lock' = [lock EXCEPT ![TurnOf(t)] = t]

CaptureRequests(r) ==
    /\ pc[r] = "idle"
    /\ Acquire(r)
    /\ \/ UseOpenBatch(r) /\ pc' = [pc EXCEPT ![r] = "configure"] /\ UNCHANGED hasAbort
       \/ /\ NewBatch(r)
          /\ pc' = [pc EXCEPT ![r] = "ensure"]
          /\ hasAbort' = hasAbort \cup {bat'[r]}
    /\ UNCHANGED <<reserved, aborted, calls, bySDKID, expired, completed, timer, late, bound,
                   closing, outcome, brokerVars, toCancel, minted, offered, mine, clientVars>>

\* configure: a batch a handler opened first gets the turn's abort callback.
Configure(r) ==
    /\ pc[r] = "configure"
    /\ hasAbort' = hasAbort \cup {bat[r]}
    /\ pc' = [pc EXCEPT ![r] = "ensure"]
    /\ UNCHANGED <<rtVars, owner, calls, bySDKID, expired, completed, timer, late, bound, closing,
                   outcome, brokerVars, toCancel, minted, offered, bat, mine, clientVars>>

\* ensureCall, on the path that finds the call this SDK id already has ...
FindCall(t, s) ==
    /\ s # EmptyId
    /\ bySDKID[bat[t]][s] # None
    /\ mine' = [mine EXCEPT ![t] = @ \cup {bySDKID[bat[t]][s]}]
    /\ UNCHANGED <<calls, bySDKID, reserved, minted>>


\* ... and on the path that mints one, under the reserved id if there is one.
\* It does not look at the batch's flags: a batch that closed after it was
\* chosen gets the call all the same.
MintCall(t, s) ==
    LET r == TurnOf(t) IN
    /\ s = EmptyId \/ bySDKID[bat[t]][s] = None
    /\ \E k \in CallIds :
          /\ IF reserved[r][s] # None THEN k = reserved[r][s] ELSE k \notin minted
          /\ minted' = minted \cup {k}
          /\ reserved' = [reserved EXCEPT ![r][s] = None]
          /\ calls' = [calls EXCEPT ![bat[t]] = @ \cup {k}]
          /\ bySDKID' = [bySDKID EXCEPT ![bat[t]][s] = IF s = EmptyId THEN None ELSE k]
          /\ mine' = [mine EXCEPT ![t] = @ \cup {k}]

EnsureCall(t, s) ==
    /\ pc[t] = "ensure"
    /\ FindCall(t, s) \/ MintCall(t, s)
    /\ pc' = [pc EXCEPT ![t] = IF t \in Turns THEN "ensure" ELSE "bind"]
    /\ UNCHANGED <<current, lock, aborted, owner, expired, completed, timer, late, bound, hasAbort,
                   closing, outcome, brokerVars, toCancel, offered, bat, clientVars>>

\* Every request is planned: the reservations that are left belong to nobody.
ReleaseReservations(r) ==
    /\ pc[r] = "ensure"
    /\ r \in Turns
    /\ mine[r] # {}
    /\ reserved' = [reserved EXCEPT ![r] = [s \in SdkIds |-> None]]
    /\ pc' = [pc EXCEPT ![r] = "bind"]
    /\ UNCHANGED <<current, lock, aborted, batchVars, brokerVars, toCancel, minted, offered,
                   bat, mine, clientVars>>

\* An unconfigured tool, or arguments a strict tool refuses: the error return.
\* For a turn this ends the loop (turnRunner.loop emits the error and aborts).
RejectRequest(t) ==
    /\ pc[t] = "ensure"
    /\ lock' = [lock EXCEPT ![TurnOf(t)] = None]
    /\ Return(t, IF t \in Turns THEN "ended" ELSE "failed")
    /\ UNCHANGED <<current, reserved, aborted, batchVars, brokerVars, toCancel, minted, offered,
                   clientVars>>

----------------------------------------------------------------------------
(* Broker.Register, in its four sections, then startTimer and rt.mu.Unlock.  *)

\* bindBroker; a batch that has expired is removed instead.
Bind(t) ==
    /\ pc[t] = "bind"
    /\ \/ /\ bat[t] \notin expired
          /\ bound' = bound \cup {bat[t]}
          /\ pc' = [pc EXCEPT ![t] = "check"]
          /\ UNCHANGED <<batches, byCall>>
       \/ /\ bat[t] \in expired
          /\ Remove(bat[t])
          /\ pc' = [pc EXCEPT ![t] = "arm"]
          /\ UNCHANGED bound
    /\ UNCHANGED <<rtVars, owner, calls, bySDKID, expired, completed, timer, late, hasAbort, closing,
                   outcome, closed, toCancel, minted, offered, bat, mine, clientVars>>

\* isOpen and callIDs. The snapshot of the ids needs no variable: only the
\* holder of rt.mu adds calls, and that is this goroutine until it is done.
CheckOpen(t) ==
    /\ pc[t] = "check"
    /\ pc' = [pc EXCEPT ![t] = IF Open(bat[t]) THEN "insert" ELSE "arm"]
    /\ UNCHANGED <<rtVars, batchVars, brokerVars, toCancel, minted, offered, bat, mine, clientVars>>


\* Mutants: a batch is indexed at its first Register only; a broker that has
\* shut down still takes batches.
Insert_FirstOnly(t) ==
    /\ pc[t] = "insert"
    /\ \/ /\ closed
          /\ pc' = [pc EXCEPT ![t] = "cancel"]
          /\ UNCHANGED <<batches, byCall>>
       \/ /\ ~closed
          /\ batches' = batches \cup {bat[t]}
          /\ byCall' = [k \in CallIds |-> IF k \in calls[bat[t]] /\ bat[t] \notin batches
                                          THEN bat[t] ELSE byCall[k]]
          /\ pc' = [pc EXCEPT ![t] = "arm"]
    /\ UNCHANGED <<rtVars, batchVars, closed, toCancel, minted, offered, bat, mine, clientVars>>

Insert_AfterClose(t) ==
    /\ pc[t] = "insert"
    /\ batches' = batches \cup {bat[t]}
    /\ byCall' = [k \in CallIds |-> IF k \in calls[bat[t]] THEN bat[t] ELSE byCall[k]]
    /\ pc' = [pc EXCEPT ![t] = "arm"]
    /\ UNCHANGED <<rtVars, batchVars, closed, toCancel, minted, offered, bat, mine, clientVars>>

Insert(t) ==
    /\ pc[t] = "insert"
    /\ \/ /\ closed
          /\ pc' = [pc EXCEPT ![t] = "cancel"]
          /\ UNCHANGED <<batches, byCall>>
       \/ /\ ~closed
          /\ batches' = batches \cup {bat[t]}
          /\ byCall' = [k \in CallIds |-> IF k \in calls[bat[t]] THEN bat[t] ELSE byCall[k]]
          /\ pc' = [pc EXCEPT ![t] = "arm"]
    /\ UNCHANGED <<rtVars, batchVars, closed, toCancel, minted, offered, bat, mine, clientVars>>

\* A broker that has shut down takes no batch: Register cancels it.
CancelUnregistered(t) ==
    /\ pc[t] = "cancel"
    /\ StartClose(bat[t], FALSE)
    /\ pc' = [pc EXCEPT ![t] = "arm"]
    /\ UNCHANGED <<rtVars, owner, calls, bySDKID, completed, late, bound, hasAbort, brokerVars,
                   toCancel, minted, offered, bat, mine, clientVars>>


\* Mutant: only the announcement starts the TTL, not an invocation.
StartTimer_TurnOnly(t) ==
    /\ pc[t] = "arm"
    /\ timer' = [timer EXCEPT ![bat[t]] = IF t \in Turns /\ @ = "unset" THEN "armed" ELSE @]
    /\ lock' = [lock EXCEPT ![TurnOf(t)] = None]
    /\ \/ t \in Turns /\ Return(t, "idle") /\ offered' = offered \cup mine[t]
       \/ /\ t \in Handlers
          /\ pc' = [pc EXCEPT ![t] = "wait"]
          /\ UNCHANGED <<offered, bat, mine>>
    /\ UNCHANGED <<current, reserved, aborted, owner, calls, bySDKID, expired, completed, late,
                   bound, hasAbort, closing, outcome, brokerVars, toCancel, minted, clientVars>>

\* startTimer and the unlock. A timer that started at once could only run
\* ahead of the unlock into CloseAborts, which needs the same lock.
StartTimer(t) ==
    /\ pc[t] = "arm"
    /\ timer' = [timer EXCEPT ![bat[t]] = IF @ = "unset" THEN "armed" ELSE @]
    /\ lock' = [lock EXCEPT ![TurnOf(t)] = None]
    /\ \/ t \in Turns /\ Return(t, "idle") /\ offered' = offered \cup mine[t]
       \/ /\ t \in Handlers
          /\ pc' = [pc EXCEPT ![t] = "wait"]
          /\ UNCHANGED <<offered, bat, mine>>
    /\ UNCHANGED <<current, reserved, aborted, owner, calls, bySDKID, expired, completed, late,
                   bound, hasAbort, closing, outcome, brokerVars, toCancel, minted, clientVars>>

----------------------------------------------------------------------------
(* handleInvocation.                                                         *)

HandleInvocation(h) ==
    /\ pc[h] = "idle"
    /\ Acquire(h)
    /\ UseOpenBatch(h) \/ NewBatch(h)
    /\ pc' = [pc EXCEPT ![h] = "ensure"]
    /\ UNCHANGED <<reserved, aborted, calls, bySDKID, expired, completed, timer, late, bound,
                   hasAbort, closing, outcome, brokerVars, toCancel, minted, offered, mine,
                   clientVars>>

\* wait takes the output. The channel holds one: of two handlers invoked for
\* the same call only the first gets it.
WaitAnswered(h) ==
    /\ pc[h] = "wait"
    /\ \E k \in mine[h] :
          /\ outcome[k] = "output"
          /\ outcome' = [outcome EXCEPT ![k] = "taken"]
    /\ Return(h, "answered")
    /\ UNCHANGED <<rtVars, owner, calls, bySDKID, expired, completed, timer, late, bound, hasAbort,
                   closing, brokerVars, toCancel, minted, offered, clientVars>>

\* wait sees the call fail or the batch context cancelled.
WaitFails(h) ==
    /\ pc[h] = "wait"
    /\ bat[h] \in expired
    /\ Return(h, "failed")
    /\ UNCHANGED <<rtVars, batchVars, brokerVars, toCancel, minted, offered, clientVars>>

----------------------------------------------------------------------------
(* A client continuation: look the batch up, complete it, let go of it.      *)

\* The continuation returns without having completed the batch; what it does
\* next (an error, or a fresh turn from the transcript) is no business of it.
GiveUp(c) ==
    /\ cpc' = [cpc EXCEPT ![c] = "done"]
    /\ cids' = [cids EXCEPT ![c] = {}]
    /\ cbat' = [cbat EXCEPT ![c] = None]

Live(k)  == byCall[k] # None /\ Open(byCall[k])
Stale(k) == byCall[k] # None /\ ~Open(byCall[k])

\* FindByCallIDs. The ids are visited in map order up to the first that is
\* unknown or stale, or that leads to a second batch; any such outcome that
\* some order reaches is possible. A stale batch is remembered and removed
\* after Broker.mu is released.
FindByCallIDs(c, ids) ==
    /\ cpc[c] = "idle"
    /\ cids' = [cids EXCEPT ![c] = ids]
    /\ \/ /\ \A k \in ids : Live(k)
          /\ \E b \in Batches :
                /\ \A k \in ids : byCall[k] = b
                /\ cbat' = [cbat EXCEPT ![c] = b]
          /\ cpc' = [cpc EXCEPT ![c] = "complete"]
          /\ UNCHANGED cstale
       \/ /\ \E k \in ids : byCall[k] = None
          /\ cpc' = [cpc EXCEPT ![c] = "sweep"]
          /\ UNCHANGED <<cbat, cstale>>
       \/ /\ \E k \in ids : Stale(k) /\ cstale' = [cstale EXCEPT ![c] = {byCall[k]}]
          /\ cpc' = [cpc EXCEPT ![c] = "sweep"]
          /\ UNCHANGED cbat
       \/ /\ \E j, k \in ids : Live(j) /\ Live(k) /\ byCall[j] # byCall[k]
          /\ cpc' = [cpc EXCEPT ![c] = "sweep"]
          /\ UNCHANGED <<cbat, cstale>>
    /\ UNCHANGED <<rtVars, batchVars, brokerVars, toCancel, minted, offered, threadVars, acked>>

\* The stale batches are removed; each Remove only touches closed batches, so
\* their order is immaterial. A Chat continuation that found nothing ends here,
\* a Responses one tries again with the ids that do lead somewhere.
RemoveStale(c) ==
    /\ cpc[c] \in {"sweep", "sweepAny"}
    /\ batches' = batches \ cstale[c]
    /\ byCall' = [k \in CallIds |->
                    IF \E b \in cstale[c] : k \in calls[b] /\ byCall[k] = b THEN None ELSE byCall[k]]
    /\ cstale' = [cstale EXCEPT ![c] = {}]
    /\ \/ /\ cpc[c] = "sweep"
          /\ cpc' = [cpc EXCEPT ![c] = "findAny"]
          /\ UNCHANGED <<cids, cbat>>
       \/ /\ cpc[c] = "sweepAny" /\ cbat[c] # None
          /\ cpc' = [cpc EXCEPT ![c] = "complete"]
          /\ UNCHANGED <<cids, cbat>>
       \/ /\ cbat[c] = None
          /\ GiveUp(c)
    /\ UNCHANGED <<rtVars, batchVars, closed, toCancel, minted, offered, threadVars, acked>>

\* FindByAnyCallIDs: unknown and stale ids are skipped; two live batches are an
\* error that removes nothing.
FindByAnyCallIDs(c) ==
    LET live == {byCall[k] : k \in {j \in cids[c] : Live(j)}} IN
    /\ cpc[c] = "findAny"
    /\ \/ /\ Cardinality(live) > 1
          /\ cpc' = [cpc EXCEPT ![c] = "done"]
          /\ UNCHANGED <<cids, cbat, cstale>>
       \/ /\ Cardinality(live) < 2
          /\ cpc' = [cpc EXCEPT ![c] = "sweepAny"]
          /\ cstale' = [cstale EXCEPT ![c] = {byCall[k] : k \in {j \in cids[c] : Stale(j)}}]
          /\ cids' = [cids EXCEPT ![c] = {k \in @ : Live(k)}]
          /\ cbat' = [cbat EXCEPT ![c] = IF live = {} THEN None ELSE CHOOSE b \in live : TRUE]
    /\ UNCHANGED <<rtVars, batchVars, brokerVars, toCancel, minted, offered, threadVars, acked>>


\* Mutant: some of the outputs are enough.
Complete_Some(c) ==
    LET b == cbat[c] IN
    /\ cpc[c] = "complete"
    /\ Open(b)
    /\ b \notin late
    /\ cids[c] \subseteq calls[b]
    /\ completed' = completed \cup {b}
    /\ timer' = [timer EXCEPT ![b] = IF @ = "armed" THEN "spent" ELSE @]
    /\ cpc' = [cpc EXCEPT ![c] = "deliver"]
    /\ UNCHANGED <<rtVars, owner, calls, bySDKID, expired, late, bound, hasAbort, closing, outcome,
                   brokerVars, toCancel, minted, offered, threadVars, cids, cbat, cstale, acked>>

\* CompleteToolOutputsWithSetup up to b.mu.Unlock, when it succeeds.
Complete(c) ==
    LET b == cbat[c] IN
    /\ cpc[c] = "complete"
    /\ Open(b)
    /\ b \notin late
    /\ cids[c] = calls[b]
    /\ completed' = completed \cup {b}
    /\ timer' = [timer EXCEPT ![b] = IF @ = "armed" THEN "spent" ELSE @]
    /\ cpc' = [cpc EXCEPT ![c] = "deliver"]
    /\ UNCHANGED <<rtVars, owner, calls, bySDKID, expired, late, bound, hasAbort, closing, outcome,
                   brokerVars, toCancel, minted, offered, threadVars, cids, cbat, cstale, acked>>

\* ... and when it does not: the batch is closed already, is past its deadline
\* (and is closed on the spot), has not exactly the calls the client answers, or
\* one of the outputs has another kind or tool name than its call. The last is
\* left open: a client may get any output wrong.
RefuseOutputs(c) ==
    LET b == cbat[c] IN
    /\ cpc[c] = "complete"
    /\ IF b \in late
       THEN StartClose(b, TRUE)
       ELSE UNCHANGED <<expired, timer, outcome, closing>>
    /\ GiveUp(c)
    /\ UNCHANGED <<rtVars, owner, calls, bySDKID, completed, late, bound, hasAbort, brokerVars,
                   toCancel, minted, offered, threadVars, cstale, acked>>

\* The outputs reach the calls, each through its own once.
Deliver(c) ==
    /\ cpc[c] = "deliver"
    /\ outcome' = [k \in CallIds |->
                     IF k \in cids[c] /\ outcome[k] = "pending" THEN "output" ELSE outcome[k]]
    /\ cpc' = [cpc EXCEPT ![c] = "forget"]
    /\ acked' = acked \cup {c}
    /\ UNCHANGED <<rtVars, owner, calls, bySDKID, expired, completed, timer, late, bound, hasAbort,
                   closing, brokerVars, toCancel, minted, offered, threadVars, cids, cbat, cstale>>

\* A continuation that cannot use the parked turn (no runner to stream from, or
\* loaded tools to install) cancels the batch and replays the transcript.
Discard(c) ==
    /\ cpc[c] = "complete"
    /\ StartClose(cbat[c], FALSE)
    /\ cpc' = [cpc EXCEPT ![c] = "forget"]
    /\ UNCHANGED <<rtVars, owner, calls, bySDKID, completed, late, bound, hasAbort, brokerVars,
                   toCancel, minted, offered, threadVars, cids, cbat, cstale, acked>>

\* The gateway's g.broker.Remove(batch) after either of the two.
ForgetBatch(c) ==
    /\ cpc[c] = "forget"
    /\ Remove(cbat[c])
    /\ IF c \in acked
       THEN cpc' = [cpc EXCEPT ![c] = "done"] /\ UNCHANGED <<cids, cbat>>
       ELSE GiveUp(c)
    /\ UNCHANGED <<rtVars, batchVars, closed, toCancel, minted, offered, threadVars,
                   cstale, acked>>

----------------------------------------------------------------------------
TurnStep(r) ==
    \/ \E s \in SdkIds : ReserveStreamingCall(r, s)
    \/ CaptureRequests(r)
    \/ Configure(r)
    \/ ReleaseReservations(r)
    \/ CancelCurrent(r)

\* The steps of a goroutine that holds rt.mu.
LockedStep(t) ==
    \/ \E s \in SdkIds : EnsureCall(t, s)
    \/ RejectRequest(t)
    \/ Bind(t)
    \/ CheckOpen(t)
    \/ Insert(t)
    \/ CancelUnregistered(t)
    \/ StartTimer(t)

HandlerStep(h) ==
    \/ HandleInvocation(h)
    \/ WaitAnswered(h)
    \/ WaitFails(h)

BatchStep(b) ==
    \/ Deadline(b)
    \/ TimerFires(b)
    \/ CloseAborts(b)
    \/ CloseForgets(b)
    \/ CancelNext(b)

ClientStep(c) ==
    \/ \E ids \in (SUBSET offered) \ {{}} : FindByCallIDs(c, ids)
    \/ RemoveStale(c)
    \/ FindByAnyCallIDs(c)
    \/ Complete(c)
    \/ RefuseOutputs(c)
    \/ Deliver(c)
    \/ Discard(c)
    \/ ForgetBatch(c)

Next ==
    \/ \E r \in Turns : TurnStep(r)
    \/ \E t \in Threads : LockedStep(t)
    \/ \E h \in Handlers : HandlerStep(h)
    \/ \E b \in Batches : BatchStep(b)
    \/ \E c \in Clients : ClientStep(c)
    \/ CancelAll

Spec == Init /\ [][Next]_vars

\* Goroutines that run are scheduled; time passes; a client that was told a
\* batch goes on to complete it or not. Nothing makes the model announce or the
\* SDK invoke a call, a client come back, or anybody cancel.
Fairness ==
    /\ \A r \in Turns : WF_vars(Configure(r) \/ ReleaseReservations(r))
    /\ \A t \in Threads : WF_vars(LockedStep(t))
    /\ \A h \in Handlers : WF_vars(WaitAnswered(h)) /\ WF_vars(WaitFails(h))
    /\ \A b \in Batches : /\ WF_vars(Deadline(b))
                          /\ WF_vars(TimerFires(b))
                          /\ WF_vars(CloseAborts(b))
                          /\ WF_vars(CloseForgets(b))
                          /\ WF_vars(CancelNext(b))
    /\ \A c \in Clients : WF_vars(Deliver(c)) /\ WF_vars(ForgetBatch(c))

FairSpec == Spec /\ Fairness

----------------------------------------------------------------------------
(* Properties.                                                               *)

Registering(b) ==
    \E t \in Threads :
        /\ bat[t] = b
        /\ pc[t] \in {"ensure", "configure", "bind", "check", "insert", "cancel", "arm"}

\* The global lookup never leads a continuation to a batch that does not have
\* the call, nor to one the broker no longer tracks, and no call id belongs to
\* two batches (Register, Remove and CancelAll keep the two maps in step; ids
\* are minted, so one client's id never reaches another client's batch).
LookupSound ==
    /\ \A k \in CallIds : byCall[k] # None => k \in calls[byCall[k]] /\ byCall[k] \in batches
    /\ \A a, b \in Batches : a # b => calls[a] \cap calls[b] = {}

\* A call the client was handed can be continued for as long as its batch is
\* open: nothing removes a live batch's lookup entry (the comment in Remove
\* names the danger: "would strand a live batch that continuations can no
\* longer find").
OfferedReachable ==
    \A b \in Batches : \A k \in calls[b] \cap offered :
        Open(b) /\ ~closed => byCall[k] = b

\* A client whose outputs were accepted is never let down: every call of its
\* batch got its output, and no second client was told the same (the completed
\* flag wins over expiry, cancellation and a second continuation, and the close
\* path cannot fail a call of a completed batch).
AckedMeansDelivered ==
    \A c \in acked :
        /\ \A k \in cids[c] : outcome[k] \in {"output", "taken"}
        /\ \A d \in acked \ {c} : cbat[d] # cbat[c]

\* After a shutdown no batch stays open behind it: what CancelAll did not see
\* registered, Register refuses and cancels.
StopLeavesNoOpenBatch ==
    \A b \in Batches :
        closed /\ b \in bound /\ ~Registering(b) /\ b \notin toCancel => ~Open(b)

\* A call never has two client-visible ids: while an id is reserved for an SDK
\* call whose fragments are on the wire, the open batch has no call under that
\* SDK id, for it would be under another id and the fragments would accumulate
\* "under an id the client never receives" (ReserveStreamingCall's comment).
NoSplitIdentity ==
    \A r \in Turns, s \in SdkIds :
        reserved[r][s] # None /\ current[r] # None /\ Open(current[r])
            => bySDKID[current[r]][s] = None

\* A handler whose call came to its batch after a client had completed it, or
\* whose call was answered to another handler invoked for the same SDK id.
Stray(h) ==
    /\ bat[h] \in completed
    /\ \A k \in mine[h] :
          \/ outcome[k] = "taken"
          \/ \A c \in Clients : cbat[c] = bat[h] /\ cpc[c] # "complete" => k \notin cids[c]

\* No SDK goroutine is left blocked: a handler that waits for an output gets
\* it, or fails when the batch is closed by its TTL at the latest, with only the
\* two exceptions Stray names.
WaiterReleased == \A h \in Handlers : pc[h] = "wait" ~> (pc[h] \in {"answered", "failed"} \/ Stray(h))

\* The broker's batches are the abstract ones.
batchStatus == [b \in Batches |-> IF owner[b] = None THEN "absent"
                                  ELSE IF b \in expired THEN "expired"
                                  ELSE IF b \in completed THEN "completed" ELSE "open"]
callResult  == [k \in CallIds |-> CASE outcome[k] = "pending" -> "pending"
                                    [] outcome[k] = "failed"  -> "failed"
                                    [] OTHER -> "answered"]
suppliedFor == [b \in Batches |-> UNION {cids[c] : c \in {d \in Clients :
                                   cbat[d] = b /\ (cpc[d] = "deliver" \/ d \in acked)}}]
Contract == INSTANCE PendingBatch
            WITH status <- batchStatus, owes <- calls, accepted <- suppliedFor, result <- callResult

\* Every history of the broker is a history of PendingBatch: a batch closes
\* once, a client completes it with an output for every call it then has or not
\* at all, all of those calls are answered, calls fail only with their batch, and
\* a call never changes batch.
ImplementsPendingBatch == Contract!Spec
=============================================================================
