---------------------------- MODULE TurnOutput ----------------------------
(* What a turn runner's loop (internal/copilotgw/turn_runner.go) makes of    *)
(* the events of its SDK session: the deltas it forwards to the stream of    *)
(* the request, the output items it names on the way, and the one result,    *)
(* and response, it builds when the turn ends. A session runs several turns  *)
(* on one runner: a turn that asks for tools parks, and the request that     *)
(* brings their outputs continues it with a stream of its own.               *)
(*                                                                           *)
(* The runner's life (aborts, contexts, registries, batches) is TurnGateway; *)
(* here every way the loop can give up is one action.                        *)
EXTENDS TurnItems

CONSTANTS
    Blocks,     \* bound: reasoning blocks the model produces in a turn
    Surfaces,   \* how the client asks: "sse", "json" (Responses), "chat"
    Sessions,   \* how the sessions differ: records of the fields below
    ChanCap     \* events the stream's channel holds

ASSUME SurfacesAssumption == Surfaces \subseteq {"sse", "json", "chat"}

\* limit: COPILOT_MAX_TURN_OUTPUT_BYTES; hide: the client does not want the
\* reasoning; named: the model's reasoning blocks carry ids; opaque: it sends
\* encrypted reasoning along.
ASSUME SessionsAssumption ==
    Sessions \subseteq [limit : Nat, hide : BOOLEAN, named : BOOLEAN, opaque : BOOLEAN]

VARIABLES
    sdk,      \* the session: what the model has produced in this turn
    run,      \* the loop's locals and the runner's per-turn state
    sink,     \* the stream attached to the runner
    chan,     \* events on that stream's channel
    limit,    \* maxOutputBytes
    stored    \* the turn's response as persistence got it

turnVars == <<sdk, run, sink, chan, limit, stored>>

NoCalls == [k \in Tools |-> <<>>]

\* The model at the start of a turn of that session.
FreshTurn(turn, session, late) ==
    [turn |-> turn, named |-> session.named, opaque |-> session.opaque, begun |-> FALSE, n |-> 0, state |-> "running",
     block |-> <<>>, blocks |-> 0, blockState |-> "none", sealed |-> FALSE, message |-> <<>>,
     frags |-> NoCalls, late |-> late, tail |-> FALSE, badCalls |-> FALSE]

BlockId(s) == IF s.named THEN <<"block", s.turn, s.blocks>> ELSE NoId

\* The result of a turn is one of these; NoResponse before there is one.
NoResponse == [status |-> "none", output |-> <<>>, text |-> <<>>, reasoning |-> <<>>, calls |-> <<>>]

\* reasoningAccumulator.reset, text.Reset, resetOutputItems, clear(toolCalls).
FreshRun ==
    [text |-> <<>>, contentBytes |-> 0, reasoningBytes |-> 0, toolBytes |-> 0,
     consolidated |-> <<>>, deltas |-> <<>>, encrypted |-> FALSE, id |-> NoId,
     ignoreLateFinal |-> FALSE, ignoreLateFinalID |-> NoId,
     messageItemID |-> NoId, reasoningItemID |-> NoId, itemOrder |-> <<>>,
     alive |-> TRUE]

\* Mutant of ToolBoundary: a plain reset, without the late final's id.
ToolBoundaryForgets(r) == FreshRun

\* reason.markToolBoundary and the resets beside it.
ToolBoundary(r) == [FreshRun EXCEPT !.ignoreLateFinal = TRUE, !.ignoreLateFinalID = r.id]

-----------------------------------------------------------------------------
(* The stream sink. A send to a request that is gone is dropped.             *)

Streaming == sink.surface \in {"sse", "chat"}
Sent(events) == IF Streaming /\ ~sink.done THEN chan \o events ELSE chan

Announced(r, id) ==
    IF sink.surface # "sse" \/ Contains(r.itemOrder, id) THEN r
    ELSE [r EXCEPT !.itemOrder = Append(@, id)]

\* messageItemIDLocked and reasoningItemIDLocked: the first name wins.
MessageItemID(r) == IF r.messageItemID # NoId THEN r.messageItemID ELSE <<"msg", sdk.turn>>
ReasoningItemID(r, blockId) ==
    IF r.reasoningItemID # NoId THEN r.reasoningItemID
    ELSE IF blockId # NoId THEN <<"rs", blockId[2], blockId[3]>> ELSE <<"rs", sdk.turn, 0>>

DeltaEvent(kind, id, text) == [kind |-> kind, id |-> id, text |-> text]

-----------------------------------------------------------------------------
(* reasoningAccumulator                                                      *)

Resolved(r) == IF r.consolidated # <<>> THEN r.consolidated ELSE r.deltas

\* retainedSize and its two variants: with other text in the accumulator.
RetainedSize(r) == Len(Resolved(r)) + (IF r.encrypted THEN 1 ELSE 0)
RetainedSizeAfterDelta(r, text) ==
    RetainedSize(IF r.consolidated # <<>> THEN r ELSE [r EXCEPT !.deltas = @ \o text])
RetainedSizeAfterConsolidated(r, text) == Len(text) + (IF r.encrypted THEN 1 ELSE 0)

StopIgnoring(r) == [r EXCEPT !.ignoreLateFinal = FALSE, !.ignoreLateFinalID = NoId]

AddDelta(r, text, id) ==
    LET newTurn == \/ r.ignoreLateFinalID = NoId
                   \/ id # NoId /\ id # r.ignoreLateFinalID
        seen    == IF r.ignoreLateFinal /\ newTurn THEN StopIgnoring(r) ELSE r
    IN [seen EXCEPT !.id = IF id # NoId THEN id ELSE @,
                    !.deltas = IF r.consolidated = <<>> THEN @ \o text ELSE @]

IsLateFinal(r, id) ==
    r.ignoreLateFinal /\ (r.ignoreLateFinalID = NoId \/ id = NoId \/ id = r.ignoreLateFinalID)

AddConsolidated(r, text, id) ==
    IF IsLateFinal(r, id) THEN r
    ELSE [StopIgnoring(r) EXCEPT
            !.consolidated = IF text # <<>> THEN text ELSE @,
            !.deltas = IF text # <<>> THEN <<>> ELSE @,
            !.id = IF id # NoId THEN id ELSE @]

-----------------------------------------------------------------------------
(* responseFromTurn                                                          *)

\* reasoningOutputItem, with the id the stream used or else the block's.
ReasoningItems(r) ==
    IF Resolved(r) = <<>> /\ ~r.encrypted THEN <<>>
    ELSE <<Item(ReasoningItemID(r, r.id), "reasoning", Resolved(r), r.encrypted)>>

\* A message the stream announced is there even when its text is empty.
MessageItems(r, calls) ==
    IF r.text = <<>> /\ calls # <<>> /\ ~Contains(r.itemOrder, r.messageItemID) THEN <<>>
    ELSE <<Item(MessageItemID(r), "message", r.text, FALSE)>>

\* Mutant of OrderOutputItems: reasoning first, whatever was announced first.
OrderOutputItemsAsBuilt(items, order) == items

\* Announced items in the order of their announcement, the others behind.
OrderOutputItems(items, order) ==
    FlattenSeq([i \in DOMAIN order |-> WithId(items, order[i])])
    \o Chosen(items, {i \in DOMAIN items : ~Contains(order, items[i].id)})

ResponseFromTurn(r, calls) ==
    [status |-> "completed", text |-> r.text, reasoning |-> Resolved(r), calls |-> calls,
     output |-> OrderOutputItems(ReasoningItems(r) \o MessageItems(r, calls) \o calls, r.itemOrder)]

-----------------------------------------------------------------------------
(* Publishing                                                                *)

\* emitError: the waiting request, or the stream, is told and the sink taken.
\* The HTTP handler of a JSON request reads the same answer from r.updates.
EmitError ==
    /\ chan' = IF sink.done THEN chan ELSE Append(chan, [kind |-> "error"])
    /\ sink' = [sink EXCEPT !.surface = "none"]

GivesUp ==
    /\ EmitError
    /\ run' = [run EXCEPT !.alive = FALSE]

\* emitResult: the response is built and saved before anyone may see it; a
\* save that fails fails the turn. next: the runner after it. A JSON request
\* saves when it has the result, to the same effect.
EmitResult(r, calls, next) ==
    LET response == ResponseFromTurn(r, calls) IN
    \/ /\ stored' = response
       /\ chan' = IF sink.done THEN chan
                  ELSE Append(chan, [kind |-> "result", response |-> response])
       /\ sink' = [sink EXCEPT !.surface = "none"]
       /\ run' = next
    \/ sink.surface # "chat" /\ GivesUp /\ UNCHANGED stored

-----------------------------------------------------------------------------
(* The events of the session. What the model may do: a reasoning block comes *)
(* as deltas, as a final block, or both, before the content of the message   *)
(* it belongs to; the final block may add to the deltas, and may come late;  *)
(* the last message of a turn may add to its deltas; tool arguments come in  *)
(* fragments, whole, or both.                                                *)

Producing == sdk.state = "running" /\ run.alive /\ (Len(chan) < ChanCap \/ sink.done)
More(k)   == sdk.n + k <= Pieces
NewPieces(k) == [i \in 1..k |-> Piece(sdk.turn, sdk.n + i)]

\* AssistantTurnStartData, when the SDK sends it first.
TurnStarts ==
    /\ Producing
    /\ ~sdk.begun
    /\ sdk' = [sdk EXCEPT !.begun = TRUE, !.late = <<>>]
    /\ run' = FreshRun
    /\ UNCHANGED <<sink, chan, limit, stored>>

\* Deltas of a block precede the content and the calls of its message.
NewBlock == sdk.blockState # "streaming" /\ sdk.blocks < Blocks
BlockMayGrow ==
    \/ sdk.blockState = "streaming" /\ ~sdk.sealed
    \/ NewBlock /\ sdk.message = <<>> /\ sdk.frags = NoCalls

\* The session with k more pieces in the block, or in a new one.
GrowBlock(k, state) ==
    LET fresh == sdk.blockState # "streaming" IN
    [sdk EXCEPT !.begun = TRUE, !.n = @ + k, !.late = <<>>, !.blockState = state,
                !.blocks = IF fresh THEN @ + 1 ELSE @,
                !.sealed = IF fresh THEN FALSE ELSE @,
                !.block = IF fresh THEN NewPieces(k) ELSE @ \o NewPieces(k)]

ReasoningDelta ==
    /\ Producing /\ BlockMayGrow /\ More(1)
    /\ sdk' = GrowBlock(1, "streaming")
    /\ LET text == NewPieces(1)
           id   == BlockId(sdk')
           r    == [AddDelta(run, text, id) EXCEPT !.reasoningBytes = @ + 1]
           item == ReasoningItemID(r, id)
       IN IF \/ run.contentBytes + run.reasoningBytes + 1 > limit
             \/ run.contentBytes + RetainedSizeAfterDelta(run, text) > limit
          THEN GivesUp
          ELSE /\ run' = IF sink.surface = "sse"
                         THEN Announced([r EXCEPT !.reasoningItemID = item], item) ELSE r
               /\ chan' = Sent(<<DeltaEvent("reasoning_delta", item, text)>>)
               /\ UNCHANGED sink
    /\ UNCHANGED <<limit, stored>>

\* AssistantReasoningData, the final block; with or without an id.
ReasoningBlock ==
    /\ Producing
    /\ \E k \in 0..1, withId \in BOOLEAN :
         /\ More(k)
         /\ sdk.blockState = "streaming" \/ (NewBlock /\ k = 1)
         /\ sdk' = GrowBlock(k, "final")
         /\ LET id == IF withId THEN BlockId(sdk') ELSE NoId IN
            IF run.contentBytes + RetainedSizeAfterConsolidated(run, sdk'.block) > limit
            THEN GivesUp
            ELSE /\ run' = AddConsolidated(run, sdk'.block, id)
                 /\ UNCHANGED <<chan, sink>>
    /\ UNCHANGED <<limit, stored>>

\* The final block of the turn before, after that turn's result. It is no longer
\* than what was counted of it in that turn, so it is not over the limit here.
LateReasoningBlock ==
    /\ sdk.late # <<>>
    /\ run.alive
    /\ sdk' = [sdk EXCEPT !.late = <<>>]
    /\ \E id \in {NoId, sdk.late[1].id} :
         run' = AddConsolidated(run, sdk.late[1].text, id)
    /\ UNCHANGED <<sink, chan, limit, stored>>

MessageDelta ==
    /\ Producing /\ More(1) /\ ~sdk.tail
    /\ sdk' = [sdk EXCEPT !.begun = TRUE, !.n = @ + 1, !.late = <<>>, !.sealed = TRUE,
                          !.message = @ \o NewPieces(1)]
    /\ LET item == MessageItemID(run)
           r    == [run EXCEPT !.contentBytes = @ + 1]
       IN IF \/ run.contentBytes + 1 + run.reasoningBytes > limit
             \/ run.contentBytes + 1 + RetainedSize(run) > limit
          THEN GivesUp
          ELSE /\ run' = IF sink.surface = "sse"
                         THEN Announced([r EXCEPT !.messageItemID = item], item) ELSE r
               /\ chan' = Sent(<<DeltaEvent("delta", item, NewPieces(1))>>)
               /\ UNCHANGED sink
    /\ UNCHANGED <<limit, stored>>

\* ReserveStreamingCall admits the fragments of plain functions only.
Forwarded(tool) == Kind[tool] = "function"

ToolCallDelta(tool) ==
    /\ Producing /\ More(1)
    /\ sdk' = [sdk EXCEPT !.begun = TRUE, !.n = @ + 1, !.late = <<>>, !.sealed = TRUE,
                          !.frags[tool] = @ \o NewPieces(1)]
    /\ LET item == ToolItemId(sdk.turn, tool)
           r    == [run EXCEPT !.toolBytes = @ + 1]
       IN IF run.contentBytes + run.reasoningBytes + run.toolBytes + 1 > limit
          THEN GivesUp
          ELSE /\ run' = IF Forwarded(tool) THEN Announced(r, item) ELSE r
               /\ chan' = IF Forwarded(tool)
                          THEN Sent(<<DeltaEvent("tool_call_delta", item, NewPieces(1))>>) ELSE chan
               /\ UNCHANGED sink
    /\ UNCHANGED <<limit, stored>>

\* The call the finished request makes of a tool: its fragments and possibly
\* more, in the model's bytes when those are what encoding/json writes.
FinishedCall(tool, more, exact) ==
    LET text == sdk.frags[tool] \o more IN
    Item(ToolItemId(sdk.turn, tool), ItemType(Kind[tool]),
         IF exact THEN text ELSE Reencoded(text), FALSE)

\* The model breaks off a call it streamed: the request never comes, or adds
\* to fragments that are not the bytes of the finished arguments.
BrokenCall(tool, asked, adds, exact) ==
    /\ Forwarded(tool) /\ sdk.frags[tool] # <<>>
    /\ Contains(asked, tool) => ~exact /\ tool \in adds

\* AssistantMessageData: the message's text, its reasoning, its tool requests.
\* asked is the sequence of tools it asks for, adds those that add to their fragments.
Message(asked, adds, exact, extra, withReasoning) ==
    LET total  == extra + Cardinality(adds)
        \* what the i-th asked tool adds comes after the text and the tools before it
        Place(i) == extra + Cardinality({j \in 1..i : asked[j] \in adds})
        Added(i) == IF asked[i] \in adds THEN <<Piece(sdk.turn, sdk.n + Place(i))>> ELSE <<>>
        calls  == [i \in DOMAIN asked |-> FinishedCall(asked[i], Added(i), exact)]
        text   == run.text \o sdk.message \o NewPieces(extra)
        r      == [run EXCEPT !.text = text,
                              !.consolidated = IF withReasoning THEN sdk.block ELSE @,
                              !.deltas = IF withReasoning THEN <<>> ELSE @,
                              !.encrypted = @ \/ sdk.opaque]
        reasoning == IF withReasoning THEN sdk.block ELSE Resolved(run)
    IN /\ Producing /\ More(total)
       /\ withReasoning => sdk.block # <<>>
       /\ sdk.message # <<>> \/ extra > 0 \/ asked # <<>>
       /\ \A tool \in Range(asked) : sdk.frags[tool] # <<>> \/ tool \in adds
       /\ sdk' = [sdk EXCEPT !.begun = TRUE, !.n = @ + total, !.message = <<>>,
                             !.state = IF asked = <<>> THEN @ ELSE "waiting",
                             !.late = IF asked # <<>> /\ sdk.blockState = "streaming"
                                      THEN <<[text |-> sdk.block, id |-> BlockId(sdk)]>> ELSE <<>>,
                             !.frags = IF asked = <<>> THEN @ ELSE NoCalls,
                             !.sealed = TRUE, !.tail = @ \/ extra > 0,
                             !.badCalls = /\ asked # <<>>
                                          /\ \E tool \in Tools : BrokenCall(tool, asked, adds, exact)]
       /\ IF Len(text) + Len(reasoning) + (IF r.encrypted THEN 1 ELSE 0) + Len(TextOf(calls)) > limit
          THEN GivesUp /\ UNCHANGED stored
          ELSE IF asked = <<>> THEN run' = r /\ UNCHANGED <<chan, sink, stored>>
          ELSE EmitResult(r, calls, ToolBoundary(r))
       /\ UNCHANGED limit

\* SessionIdleData
Idle ==
    /\ Producing
    /\ sdk.begun /\ sdk.message = <<>>
    /\ sdk' = [sdk EXCEPT !.state = "ended",
                          !.badCalls = \E tool \in Tools : Forwarded(tool) /\ sdk.frags[tool] # <<>>]
    /\ EmitResult(run, <<>>, [run EXCEPT !.alive = FALSE])
    /\ UNCHANGED limit

\* SessionErrorData, an abort, the idle ceiling, the end of the event stream.
SessionFails ==
    /\ Producing
    /\ GivesUp
    /\ UNCHANGED <<sdk, limit, stored>>
=============================================================================
