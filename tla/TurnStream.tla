----------------------------- MODULE TurnStream -----------------------------
(* A session's turns and the clients that follow them: the runner's loop     *)
(* (TurnOutput), the channel of the request's stream, and the encoder that   *)
(* serves it (ResponseEvents or ChatChunks). The client of a turn that asks  *)
(* for tools comes back with their outputs, and a new encoder, for the next  *)
(* one. Any of them may time out or go away.                                 *)
EXTENDS TurnOutput, ResponseEvents, ChatChunks

VARIABLES
    surface,  \* how the client of this turn asked
    enc,      \* the encoder that serves it; its wire is empty between steps
    view      \* what the client made of the events it was sent

vars == <<turnVars, surface, enc, view>>

-----------------------------------------------------------------------------
(* What a client makes of a Responses stream: it keeps items and parts, and  *)
(* notices an event that does not fit what came before it. It collects an    *)
(* item's text from the deltas, and from the finished item if it had none.   *)

NewView == [items |-> <<>>, output |-> <<>>, over |-> FALSE, sound |-> TRUE]

NewPart == [state |-> "open", text |-> <<>>]

\* The item an event is about, as the client has it after the event; ok: the
\* event fits.
ReadItem(it, w) ==
    LET n    == w.part + 1
        has  == n \in DOMAIN it.parts
        part == it.parts[n]
    IN CASE w.event = "part.added" ->
              [ok |-> n = Len(it.parts) + 1, it |-> [it EXCEPT !.parts = Append(@, NewPart)]]
         [] w.event = "delta" ->
              [ok |-> has /\ part.state = "open",
               it |-> [it EXCEPT !.text = @ \o w.text,
                                 !.parts = IF has THEN [it.parts EXCEPT ![n].text = @ \o w.text] ELSE @]]
         [] w.event = "text.done" ->
              [ok |-> has /\ part.state = "open" /\ part.text = w.text,
               it |-> [it EXCEPT !.parts = IF has THEN [@ EXCEPT ![n].state = "said"] ELSE @]]
         [] w.event = "part.done" ->
              [ok |-> has /\ part.state = "said" /\ part.text = w.text,
               it |-> [it EXCEPT !.parts = IF has THEN [@ EXCEPT ![n].state = "done"] ELSE @]]
         [] w.event = "arguments.delta" ->
              [ok |-> it.parts = <<>>, it |-> [it EXCEPT !.text = @ \o w.text]]
         [] w.event = "arguments.done" ->
              [ok |-> SameJSONValue(it.text, w.text), it |-> it]
         [] w.event = "item.done" ->
              [ok |-> /\ \A i \in DOMAIN it.parts : it.parts[i].state = "done"
                      /\ it.text = <<>> \/ SameJSONValue(it.text, w.text),
               it |-> [it EXCEPT !.open = FALSE, !.text = IF @ = <<>> THEN w.text ELSE @]]

\* An item is added under the next index, once; all is done before the end.
Read(v, w) ==
    IF v.over THEN [v EXCEPT !.sound = FALSE]
    ELSE IF w.event \in {"completed", "failed"}
    THEN [v EXCEPT !.over = TRUE, !.output = w.output, !.sound = @ /\ \A i \in DOMAIN v.items : ~v.items[i].open]
    ELSE IF w.event = "item.added"
    THEN [v EXCEPT !.items = Append(@, [id |-> w.id, open |-> TRUE, parts |-> <<>>, text |-> <<>>]),
                   !.sound = @ /\ w.idx = Len(v.items) /\ ~Contains(IdsOf(v.items), w.id)]
    ELSE IF w.idx + 1 \notin DOMAIN v.items THEN [v EXCEPT !.sound = FALSE]
    ELSE LET it == v.items[w.idx + 1]
             r  == ReadItem(it, w)
         IN [v EXCEPT !.items[w.idx + 1] = r.it,
                      !.sound = @ /\ it.open /\ it.id = w.id /\ r.ok]

\* The same for a chat stream: the texts, and the calls by their index.
NewChatView == [text |-> <<>>, reasoning |-> <<>>, calls |-> <<>>, finished |-> FALSE,
                over |-> FALSE, sound |-> TRUE]

ReadChunk(v, w) ==
    CASE v.over -> [v EXCEPT !.sound = FALSE]
      [] ~v.over /\ w.event = "reasoning" -> [v EXCEPT !.reasoning = @ \o w.text, !.sound = @ /\ ~v.finished]
      [] ~v.over /\ w.event = "content"   -> [v EXCEPT !.text = @ \o w.text, !.sound = @ /\ ~v.finished]
      [] ~v.over /\ w.event = "call" ->
           IF w.idx + 1 \in DOMAIN v.calls
           THEN [v EXCEPT !.calls[w.idx + 1].text = @ \o w.text,
                          !.sound = @ /\ ~v.finished /\ w.id = NoCall]
           ELSE [v EXCEPT !.calls = Append(@, [id |-> w.id, text |-> w.text]),
                          !.sound = @ /\ ~v.finished /\ w.idx = Len(v.calls) /\ w.id # NoCall]
      [] ~v.over /\ w.event \in {"finish", "error"} ->
           [v EXCEPT !.finished = TRUE, !.sound = @ /\ ~v.finished]
      [] ~v.over /\ w.event = "done" -> [v EXCEPT !.over = TRUE, !.sound = @ /\ v.finished]

\* The client after it read what the encoder wrote.
ReadWire(wire) ==
    IF surface = "chat" THEN FoldLeft(ReadChunk, view, wire) ELSE FoldLeft(Read, view, wire)

-----------------------------------------------------------------------------
(* Steps                                                                     *)

NewClient(kind) == IF kind = "chat" THEN NewChatView ELSE NewView
NewEnc(kind, hide) == IF kind = "chat" THEN NewChat(hide) ELSE NewEncoder(hide, limit)

Init ==
    /\ surface \in Surfaces
    /\ \E session \in Sessions :
         /\ limit = session.limit
         /\ sdk = FreshTurn(1, session, <<>>)
         /\ enc = NewEnc(surface, session.hide)
    /\ run = FreshRun
    /\ sink = [surface |-> surface, done |-> FALSE]
    /\ chan = <<>>
    /\ stored = NoResponse
    /\ view = NewClient(surface)

\* The request that brings the tool outputs attaches its stream; a session
\* stays with the API it was started by.
Continue(kind) ==
    /\ sdk.state = "waiting" /\ run.alive
    /\ sdk.turn < Turns
    /\ enc.status # "open"
    /\ kind \in Surfaces /\ (kind = "chat") = (surface = "chat")
    /\ sdk' = FreshTurn(sdk.turn + 1, sdk, sdk.late)
    /\ surface' = kind
    /\ sink' = [surface |-> kind, done |-> FALSE]
    /\ enc' = NewEnc(kind, enc.hide)
    /\ view' = NewClient(kind)
    /\ stored' = NoResponse
    /\ UNCHANGED <<run, chan, limit>>

\* The encoder's answer to an event. A JSON request has its answer at once: an
\* error is its status, a result is folded into its body.
Encoded(ev) ==
    IF surface = "chat" THEN EncodeChatEvent(enc, ev)
    ELSE IF surface = "json" /\ ev.kind = "error"
    THEN [enc EXCEPT !.status = "failed", !.why = "upstream"]
    ELSE EncodeResponseEvent(enc, ev)

\* When the encoder returns, the handler's context ends.
Serve(next) ==
    /\ enc.status = "open"
    /\ enc' = [next EXCEPT !.wire = <<>>]
    /\ view' = ReadWire(next.wire)
    /\ IF next.status = "open"
       THEN chan' = Tail(chan) /\ UNCHANGED sink
       ELSE chan' = <<>> /\ sink' = [sink EXCEPT !.done = TRUE]
    /\ UNCHANGED <<sdk, run, limit, stored, surface>>

Encode == chan # <<>> /\ Serve(Encoded(Head(chan)))

Timeout ==
    Serve(IF surface = "chat" THEN Fail(enc, "timeout")
          ELSE IF surface = "json" THEN [enc EXCEPT !.status = "failed", !.why = "timeout"]
          ELSE WriteFailure(enc, "timeout"))

\* The client is gone: nothing more is written.
ClientGone == Serve([enc EXCEPT !.status = "cut"])

\* A message asks for some tools in some order, and may finish what was streamed.
SomeMessage ==
    \E asked \in SetToAllKPermutations(Tools), exact, withReasoning \in BOOLEAN, extra \in 0..1 :
      \E adds \in SUBSET Range(asked) :
         /\ asked = <<>> => exact
         /\ Message(asked, adds, exact, extra, withReasoning)

Runner(step) == step /\ UNCHANGED <<surface, enc, view>>

Next ==
    \/ Runner(TurnStarts)
    \/ Runner(ReasoningDelta)
    \/ Runner(ReasoningBlock)
    \/ Runner(LateReasoningBlock)
    \/ Runner(MessageDelta)
    \/ \E tool \in Tools : Runner(ToolCallDelta(tool))
    \/ Runner(SomeMessage)
    \/ Runner(Idle)
    \/ Runner(SessionFails)
    \/ Encode
    \/ Timeout
    \/ ClientGone
    \/ \E kind \in Surfaces : Continue(kind)

Spec == Init /\ [][Next]_vars

-----------------------------------------------------------------------------
(* Properties                                                                *)

\* What the client is sent is a sequence its accumulator can follow: items and
\* parts open once and in order, deltas fall into the open part, what is said
\* to be done is what was sent, everything announced is done before the one
\* event that ends the stream, a failing one included; and in a chat stream a
\* call's index is opened by one chunk with its id, and nothing follows the end.
EventsWellFormed ==
    /\ view.sound
    /\ surface # "json" => (view.over <=> enc.status \in {"completed", "failed"})

\* An item's output_index is its position in the response that ends the
\* stream, complete or failed, and, unless reasoning is hidden, in the record.
IndexIsPosition ==
    surface # "chat" /\ view.over =>
        /\ IdsOf(view.output) = IdsOf(view.items)
        /\ enc.status = "completed" /\ ~enc.hide => IdsOf(stored.output) = IdsOf(view.items)

PiecesOf(output) == UNION {Range(output[i].text) : i \in DOMAIN output}
Shown ==
    IF surface = "chat" THEN Range(view.text) \cup Range(view.reasoning) \cup PiecesOf(view.calls)
    ELSE PiecesOf(view.items) \cup PiecesOf(view.output)

\* A turn shows and saves nothing of another turn, neither text nor items: not
\* the text before its tool boundary, nor a reasoning block that comes late.
TurnsStayApart ==
    /\ \A p \in Shown \cup PiecesOf(stored.output) \cup Range(stored.reasoning) : p.turn = sdk.turn
    /\ \A i \in DOMAIN stored.output :
         stored.output[i].id[2] = sdk.turn

\* A stream that fails although its turn did not fail has a reason: the model
\* broke off a call it had streamed, or the output is over the size limit.
FailsForCause ==
    /\ enc.why = "diverged" => sdk.badCalls
    /\ enc.why = "size" => sdk.n > limit \/ PayloadBytes(stored.output) > limit

\* The client's view of the turn and what was saved of it, with arguments up
\* to their encoding: item by item, and for a chat stream field by field.
Texts(items) ==
    [id \in Range(IdsOf(items)) |-> Reencoded(TextOf(WithId(items, id)))]

Field(id, text) == IF text = <<>> THEN <<>> ELSE <<[id |-> id, text |-> text]>>

ChatFields(v, hide) ==
    Field(<<"reasoning">>, IF hide THEN <<>> ELSE v.reasoning) \o Field(<<"content">>, v.text) \o v.calls

ShownTexts ==
    CASE surface = "chat" -> Texts(ChatFields(view, enc.hide))
      [] surface = "sse"  -> Texts(view.items)
      [] surface = "json" -> IF enc.status = "completed" THEN Texts(view.output) ELSE <<>>

SavedTexts ==
    IF stored = NoResponse THEN <<>>
    ELSE <<Texts(IF surface = "chat" THEN ChatFields(stored, enc.hide)
                 ELSE FilterReasoning(stored.output, enc.hide))>>

Delivery == INSTANCE TurnDelivery WITH
    shown <- ShownTexts, saved <- SavedTexts, outcome <- enc.status

\* The runner and the encoder implement TurnDelivery: nothing shown is taken
\* back, and a turn that is reported complete was shown as it was saved.
ImplementsTurnDelivery == Delivery!Spec
=============================================================================
