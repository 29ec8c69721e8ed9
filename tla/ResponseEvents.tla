--------------------------- MODULE ResponseEvents ---------------------------
(* The encoder of a Responses stream (internal/httpapi): it turns the events *)
(* of one gateway turn into the sequence of events every transport writes    *)
(* (SSE, WebSocket, and the JSON body, which is the terminal event of it).   *)
(* The client is told of every output item (added, then done) and of its     *)
(* parts (added, deltas, done), and at last of the whole response.           *)
(*                                                                           *)
(* The state is the encoder's own: the locals of writeResponseStreamEvents   *)
(* in enc, with wire, the events it wrote.                                   *)
EXTENDS TurnItems

Written(event, id, idx, part, text) ==
    [event |-> event, id |-> id, idx |-> idx, part |-> part, text |-> text]

\* The frame that ends the stream, with its output.
Terminal(event, output) == [event |-> event, output |-> output]

\* The encoder after response.created and response.in_progress, which carry
\* no output. hide: the emission policy drops reasoning; max: the size limit.
NewEncoder(hide, max) ==
    [hide |-> hide, max |-> max, status |-> "open", why |-> "none", wire |-> <<>>, ids |-> <<>>,
     reasoningItemID |-> NoId, reasoningStarted |-> FALSE, reasoningSummaryDone |-> FALSE,
     reasoningItemDone |-> FALSE, reasoningText |-> <<>>,
     messageID |-> NoId, messageStarted |-> FALSE, messageDone |-> FALSE, messageText |-> <<>>,
     calls |-> <<>>]

-----------------------------------------------------------------------------
(* outputItemIndexer: an item has the index of its first announcement.       *)

Indexed(e, id) == IF Contains(e.ids, id) THEN e ELSE [e EXCEPT !.ids = Append(@, id)]
IndexOf(e, id) == SelectInSeq(e.ids, LAMBDA x : x = id) - 1

\* One event about an item.
Write(e, event, id, part, text) ==
    LET known == Indexed(e, id)
    IN [known EXCEPT !.wire = Append(@, Written(event, id, IndexOf(known, id), part, text))]

StreamedBytes(e) ==
    Len(e.reasoningText) + Len(e.messageText)
    + FoldLeft(LAMBDA n, call : n + Len(call.text), 0, e.calls)

-----------------------------------------------------------------------------
(* The parts of the stream                                                   *)

EmitReasoningStart(e) ==
    IF e.reasoningStarted THEN e
    ELSE Write(Write([e EXCEPT !.reasoningStarted = TRUE],
                     "item.added", e.reasoningItemID, 0, <<>>),
               "part.added", e.reasoningItemID, 0, <<>>)

CloseReasoningSummary(e) ==
    IF ~e.reasoningStarted \/ e.reasoningSummaryDone THEN e
    ELSE Write(Write([e EXCEPT !.reasoningSummaryDone = TRUE],
                     "text.done", e.reasoningItemID, 0, e.reasoningText),
               "part.done", e.reasoningItemID, 0, e.reasoningText)

\* text is the terminal item's summary, when there is one.
FinishReasoningItem(e, text) ==
    IF ~e.reasoningStarted \/ e.reasoningItemDone THEN e
    ELSE Write([CloseReasoningSummary(e) EXCEPT !.reasoningItemDone = TRUE],
               "item.done", e.reasoningItemID, 0, IF text = <<>> THEN e.reasoningText ELSE text)

\* The message's text, part and item are done.
FinishMessage(e, text) ==
    LET parts == Write(Write([e EXCEPT !.messageDone = TRUE],
                             "text.done", e.messageID, 0, e.messageText),
                       "part.done", e.messageID, 0, e.messageText)
    IN Write(parts, "item.done", e.messageID, 0, text)

\* An item announced and delivered whole, its text in one part. announced is
\* the text its announcement carries already.
WriteWhole(e, item, announced) ==
    LET id     == item.id
        added  == Write(Write(e, "item.added", id, 0, announced), "part.added", id, 0, <<>>)
        filled == IF item.text = <<>> THEN added ELSE Write(added, "delta", id, 0, item.text)
        closed == Write(Write(filled, "text.done", id, 0, item.text), "part.done", id, 0, item.text)
    IN Write(closed, "item.done", id, 0, item.text)

-----------------------------------------------------------------------------
(* Failure                                                                   *)

\* Mutant of FinishIncompleteOutput: the calls in progress are left open.
FinishIncompleteOutputNoCalls(e) ==
    LET reasoning == FinishReasoningItem(e, <<>>)
    IN IF ~e.messageStarted \/ e.messageDone THEN reasoning ELSE FinishMessage(reasoning, e.messageText)

\* finishIncompleteOutput: what is announced is closed as far as it got.
FinishIncompleteOutput(e) ==
    LET reasoning == FinishReasoningItem(e, <<>>)
        calls == FoldLeft(LAMBDA x, call : Write(x, "item.done", call.id, 0, call.text),
                          reasoning, e.calls)
    IN IF ~e.messageStarted \/ e.messageDone THEN calls ELSE FinishMessage(calls, e.messageText)

\* incompleteResponseOutput: the partial items, at the indices they had.
IncompleteResponseOutput(e) ==
    LET reasoning == IF e.reasoningStarted
                     THEN <<Item(e.reasoningItemID, "reasoning", e.reasoningText, FALSE)>> ELSE <<>>
        message == IF e.messageStarted
                   THEN <<Item(e.messageID, "message", e.messageText, FALSE)>> ELSE <<>>
    IN FlattenSeq([i \in DOMAIN e.ids |-> WithId(reasoning \o message \o e.calls, e.ids[i])])

WriteFailure(e, why) ==
    LET closed == FinishIncompleteOutput(e) IN
    [closed EXCEPT !.status = "failed", !.why = why,
                   !.wire = Append(@, Terminal("failed", IncompleteResponseOutput(closed)))]

-----------------------------------------------------------------------------
(* The cases of the select loop                                              *)

OnReasoningDelta(e, ev) ==
    IF e.hide THEN e
    ELSE LET started == EmitReasoningStart([e EXCEPT !.reasoningItemID = ev.id]) IN
         IF StreamedBytes(e) + Len(ev.text) > e.max THEN WriteFailure(started, "size")
         ELSE Write([started EXCEPT !.reasoningText = @ \o ev.text], "delta", ev.id, 0, ev.text)

OnDelta(e, ev) ==
    LET closed  == CloseReasoningSummary([e EXCEPT !.messageID = ev.id])
        started == IF closed.messageStarted THEN closed
                   ELSE Write(Write([closed EXCEPT !.messageStarted = TRUE],
                                    "item.added", ev.id, 0, <<>>),
                              "part.added", ev.id, 0, <<>>)
    IN IF StreamedBytes(e) + Len(ev.text) > e.max THEN WriteFailure(closed, "size")
       ELSE Write([started EXCEPT !.messageText = @ \o ev.text], "delta", ev.id, 0, ev.text)

\* A call's fragments go to the item itself: it has no parts.
OnToolCallDelta(e, ev) ==
    LET closed  == CloseReasoningSummary(e)
        started == IF Contains(IdsOf(e.calls), ev.id) THEN closed
                   ELSE Write([closed EXCEPT !.calls =
                                  Append(@, Item(ev.id, "function_call", <<>>, FALSE))],
                              "item.added", ev.id, 0, <<>>)
        streamed == [started EXCEPT !.calls = Joined(@, ev.id, ev.text)]
    IN IF StreamedBytes(e) + Len(ev.text) > e.max THEN WriteFailure(closed, "size")
       ELSE Write(streamed, "arguments.delta", ev.id, 0, ev.text)

-----------------------------------------------------------------------------
(* The terminal response                                                     *)

\* filterResponseReasoning: a copy without its reasoning.
FilterReasoning(output, hide) ==
    IF hide THEN Chosen(output, {i \in DOMAIN output : output[i].type # "reasoning"}) ELSE output

\* terminalOutputItem reports an item of the type under another id.
OtherId(output, id, type) == WithId(output, id) = <<>> /\ OfType(output, type) # <<>>

\* The summary the terminal response has for the streamed reasoning.
TerminalSummary(e, output) == TextOf(WithId(output, e.reasoningItemID))

\* reconcileStreamedReasoning: the terminal summary extends the streamed one
\* and the client is sent the rest, as a second part when the first is closed.
ReasoningDiverges(e, output) ==
    e.reasoningStarted
    /\ \/ OtherId(output, e.reasoningItemID, "reasoning")
       \/ /\ TerminalSummary(e, output) # <<>>
          /\ ~Extends(TerminalSummary(e, output), e.reasoningText)

OwedReasoning(e, output) ==
    IF ~e.reasoningStarted THEN <<>>
    ELSE TerminalStreamSuffix(TerminalSummary(e, output), e.reasoningText)

ReconcileStreamedReasoning(e, output) ==
    LET owed == OwedReasoning(e, output)
        id   == e.reasoningItemID
        inFirst == Write(e, "delta", id, 0, owed)
        inSecond == Write(Write(Write(Write(e, "part.added", id, 1, <<>>), "delta", id, 1, owed),
                                "text.done", id, 1, owed), "part.done", id, 1, owed)
    IN IF owed = <<>> THEN e
       ELSE [(IF e.reasoningSummaryDone THEN inSecond ELSE inFirst) EXCEPT !.reasoningText = @ \o owed]

\* reconcileUnstreamedReasoning: reasoning the stream never saw.
ReconcileUnstreamedReasoning(e, output) ==
    LET final == OfType(output, "reasoning") IN
    IF e.reasoningStarted \/ final = <<>> THEN e
    ELSE LET item == final[1]
             announced == [e EXCEPT !.reasoningStarted = TRUE, !.reasoningSummaryDone = TRUE,
                                    !.reasoningItemDone = TRUE, !.reasoningItemID = item.id]
         IN IF item.text # <<>> THEN WriteWhole(announced, item, item.text)
            ELSE Write(Write(announced, "item.added", item.id, 0, <<>>), "item.done", item.id, 0, <<>>)

\* reconcileStreamedToolCalls
CallsDiverge(e, output) ==
    \E i \in DOMAIN e.calls :
        LET call == e.calls[i] IN
        \/ WithId(output, call.id) = <<>>
        \/ ~ArgumentsAgree(TextOf(WithId(output, call.id)), call.text)

MessageText(e, output) == TextOf(WithId(output, e.messageID))

MessageDiverges(e, output) ==
    e.messageStarted /\ (\/ WithId(output, e.messageID) = <<>>
                         \/ ~Extends(MessageText(e, output), e.messageText))

\* The rest of the streamed message, or the message whole.
ReconcileMessage(e, output) ==
    IF e.messageStarted
    THEN LET owed == TerminalStreamSuffix(MessageText(e, output), e.messageText)
             full == IF owed = <<>> THEN e
                     ELSE Write([e EXCEPT !.messageText = @ \o owed], "delta", e.messageID, 0, owed)
         IN FinishMessage(full, MessageText(e, output))
    ELSE FoldLeft(LAMBDA x, item : WriteWhole(x, item, <<>>), e, OfType(output, "message"))

\* writeResponseOutputEvents: a call that was streamed is owed the rest of its
\* arguments, the others come whole, with the announcement and again as a
\* delta; a custom or search call is one item without deltas.
WriteCall(e, item) ==
    LET streamed == WithId(e.calls, item.id)
        started  == IF streamed # <<>> THEN e ELSE Write(e, "item.added", item.id, 0, item.text)
        owed     == ToolArgumentsSuffix(item.text, TextOf(streamed))
        filled   == IF owed = <<>> THEN started ELSE Write(started, "arguments.delta", item.id, 0, owed)
    IN CASE item.type = "function_call" ->
              Write(Write(filled, "arguments.done", item.id, 0, item.text),
                    "item.done", item.id, 0, item.text)
         [] item.type \in {"custom_tool_call", "tool_search_call"} ->
              Write(Write(e, "item.added", item.id, 0, item.text), "item.done", item.id, 0, item.text)
         [] OTHER -> e

OnResponse(e, response) ==
    LET output   == FilterReasoning(response.output, e.hide)
        reasoned == ReconcileStreamedReasoning(e, output)
        closed   == FinishReasoningItem(reasoned, TerminalSummary(reasoned, output))
        settled  == ReconcileUnstreamedReasoning(closed, output)
        owed     == TerminalStreamSuffix(MessageText(settled, output), settled.messageText)
        written  == FoldLeft(WriteCall, ReconcileMessage(settled, output), output)
    IN IF ReasoningDiverges(e, output) THEN WriteFailure(e, "diverged")
       ELSE IF StreamedBytes(e) + Len(OwedReasoning(e, output)) > e.max THEN WriteFailure(e, "size")
       ELSE IF CallsDiverge(e, output) THEN WriteFailure(reasoned, "diverged")
       ELSE IF PayloadBytes(output) > e.max THEN WriteFailure(reasoned, "size")
       ELSE IF MessageDiverges(settled, output) THEN WriteFailure(settled, "diverged")
       ELSE IF settled.messageStarted /\ StreamedBytes(settled) + Len(owed) > e.max
            THEN WriteFailure(settled, "size")
       ELSE [written EXCEPT !.status = "completed", !.wire = Append(@, Terminal("completed", output))]

\* One event of the channel.
EncodeResponseEvent(e, ev) ==
    CASE ev.kind = "reasoning_delta" -> OnReasoningDelta(e, ev)
      [] ev.kind = "delta"           -> OnDelta(e, ev)
      [] ev.kind = "tool_call_delta" -> OnToolCallDelta(e, ev)
      [] ev.kind = "result"          -> OnResponse(e, ev.response)
      [] ev.kind = "error"           -> WriteFailure(e, "upstream")
=============================================================================
