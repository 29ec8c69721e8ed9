----------------------------- MODULE ChatChunks -----------------------------
(* The encoder of a Chat Completions stream (internal/httpapi/chat.go): one  *)
(* chunk per delta, with tool calls by a stable index, then what the result  *)
(* adds to what was streamed, the finish chunk and [DONE].                   *)
EXTENDS TurnItems

NoCall == <<"call", 0>>

Chunk(kind, idx, id, text) == [event |-> kind, idx |-> idx, id |-> id, text |-> text]

\* The locals of streamChatEvents after the role chunk. hide: the emission
\* policy drops reasoning. order and streamed are chatToolCallStreams.
NewChat(hide) ==
    [hide |-> hide, status |-> "open", why |-> "none", wire |-> <<>>,
     streamedText |-> <<>>, streamedReasoning |-> <<>>, calls |-> <<>>]

Put(c, chunk) == [c EXCEPT !.wire = Append(@, chunk)]

\* writeChatReasoningDelta
PutReasoning(c, text) ==
    IF text = <<>> \/ c.hide THEN c ELSE Put(c, Chunk("reasoning", 0, NoCall, text))

PutContent(c, text) ==
    IF text = <<>> THEN c ELSE Put(c, Chunk("content", 0, NoCall, text))

\* index: a call has the index of its first chunk, which alone carries its id.
KnownCall(c, id) == Contains(IdsOf(c.calls), id)
CallIndex(c, id) ==
    IF KnownCall(c, id) THEN SelectInSeq(c.calls, LAMBDA x : x.id = id) - 1 ELSE Len(c.calls)
CallChunk(c, id, text) ==
    Chunk("call", CallIndex(c, id), IF KnownCall(c, id) THEN NoCall ELSE id, text)

\* index and record: text joins what was streamed of the call.
RecordCall(c, id, text) ==
    IF KnownCall(c, id)
    THEN [c EXCEPT !.calls = Joined(@, id, text)]
    ELSE [c EXCEPT !.calls = Append(@, [id |-> id, text |-> text])]

Fail(c, why) ==
    [c EXCEPT !.status = "failed", !.why = why,
              !.wire = @ \o <<Chunk("error", 0, NoCall, <<>>), Chunk("done", 0, NoCall, <<>>)>>]

-----------------------------------------------------------------------------
(* The result. A finished call is owed what its fragments did not deliver;   *)
(* fragments of a call that is not in the result cannot be answered.         *)

Delivered(c, id) == TextOf(WithId(c.calls, id))

TerminalCallsDiverge(c, calls) ==
    \/ \E i \in DOMAIN calls : ~ArgumentsAgree(calls[i].text, Delivered(c, calls[i].id))
    \/ \E i \in DOMAIN c.calls : WithId(calls, c.calls[i].id) = <<>>

\* terminalDeltas: all of them in one chunk of the wire, in the result's order.
TerminalDelta(c, call) ==
    LET owed == ToolArgumentsSuffix(call.text, Delivered(c, call.id)) IN
    IF KnownCall(c, call.id) /\ owed = <<>> THEN c
    ELSE RecordCall(Put(c, CallChunk(c, call.id, owed)), call.id, owed)

\* writeChatTerminalWithID: calls, then the finish chunk; then [DONE].
OnResult(c, response) ==
    LET owedReasoning == TerminalStreamSuffix(response.reasoning, c.streamedReasoning)
        reasoned == PutReasoning(c, owedReasoning)
        texted   == PutContent(reasoned, TerminalStreamSuffix(response.text, c.streamedText))
        called   == FoldLeft(TerminalDelta, texted, response.calls)
    IN IF ~Extends(response.reasoning, c.streamedReasoning) THEN Fail(c, "diverged")
       ELSE IF ~Extends(response.text, c.streamedText) THEN Fail(reasoned, "diverged")
       ELSE IF TerminalCallsDiverge(c, response.calls) THEN Fail(texted, "diverged")
       ELSE [called EXCEPT !.status = "completed",
                           !.wire = @ \o <<Chunk("finish", 0, NoCall, <<>>),
                                           Chunk("done", 0, NoCall, <<>>)>>]

\* One event of the channel.
EncodeChatEvent(c, ev) ==
    CASE ev.kind = "reasoning_delta" ->
            [PutReasoning(c, ev.text) EXCEPT !.streamedReasoning = @ \o ev.text]
      [] ev.kind = "delta" ->
            [PutContent(c, ev.text) EXCEPT !.streamedText = @ \o ev.text]
      [] ev.kind = "tool_call_delta" ->
            RecordCall(Put(c, CallChunk(c, ev.id, ev.text)), ev.id, ev.text)
      [] ev.kind = "result" -> OnResult(c, ev.response)
      [] ev.kind = "error"  -> Fail(c, "upstream")
=============================================================================
