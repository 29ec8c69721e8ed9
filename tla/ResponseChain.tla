--------------------------- MODULE ResponseChain ---------------------------
(* Chains of responses (internal/copilotgw: response_session, warm_response, *)
(* responses, response_hydration, continuations): a request continues a      *)
(* stored response, and the gateway sees to it that the SDK session it       *)
(* generates from knows what the chain before it said. It resumes the        *)
(* session of the response and replays the input that warm responses only    *)
(* buffered; or it rebuilds the chain in a new session, as session events    *)
(* or, when that fails, as prose in the prompt.                              *)
(*                                                                           *)
(* A text is the sequence of what it tells, entries <<what, response>>. A    *)
(* session is named after the request that made it. Files, pins and          *)
(* retention are SessionStore.                                               *)
EXTENDS Naturals, Sequences, SequencesExt

CONSTANTS
    Responses,           \* response ids, in the order the requests bring them
    None,
    ChainLimit,          \* responseContinuationChainLimit
    WarmHydrationFails   \* whether writing the events of a warm session can fail

ASSUME ResponsesAssumption == Responses \subseteq Nat /\ None \notin Responses
ASSUME LimitAssumption     == ChainLimit \in Nat \ {0} /\ WarmHydrationFails \in BOOLEAN

\* What an entry tells: what the client said, what the model answered, a tool
\* call and its result, as session events or, told, as text.
What  == {"input", "answer", "call", "told call", "result", "told result"}
Entry == What \X Responses

VARIABLES
    rec,    \* the response records
    sdk,    \* SDK sessions: what they were made with, and what was sent since
    req,    \* the requests
    warm,   \* warm sessions, in memory
    live    \* responses whose calls a parked runner waits for, in memory

vars == <<rec, sdk, req, warm, live>>

\* input: the record's InputText; answers: the response whose calls its
\* ToolOutputs answer; added: whether input was added to one of those outputs;
\* line: the ids that previous_response_id leads back to, oldest first.
NoRecord == [kind |-> "none", session |-> None, line |-> <<>>, pending |-> FALSE,
             input |-> <<>>, answers |-> None, added |-> FALSE, output |-> "none"]

\* prompt: what the request will send; base: the history that comes before it;
\* claims: the warm records whose input the prompt carries.
NewRequest == [phase |-> "new", kind |-> "turn", prev |-> None, session |-> None, base |-> <<>>,
               prompt |-> <<>>, claims |-> {}, input |-> <<>>, answers |-> None, added |-> FALSE,
               streaming |-> TRUE]

NoWarm == [held |-> FALSE, session |-> None, base |-> <<>>, prompt |-> <<>>, claims |-> {}]

Init ==
    /\ rec  = [r \in Responses |-> NoRecord]
    /\ sdk  = [r \in Responses |-> [base |-> <<>>, sent |-> <<>>]]
    /\ req  = [r \in Responses |-> NewRequest]
    /\ warm = [r \in Responses |-> NoWarm]
    /\ live = {}

Present(p) == rec[p].kind \in {"warm", "turn"}

Input(r) == <<"input", r>>

-----------------------------------------------------------------------------
(* Walks along a chain                                                       *)

From(l, start) == SubSeq(l, start, Len(l))

\* responseContinuationChain: back to the limit or the first that is gone.
ChainStarts(l) ==
    {i \in 1..Len(l) : i + ChainLimit > Len(l) /\ \A j \in i..(Len(l) - 1) : Present(l[j])}

Chain(p) ==
    LET starts == ChainStarts(rec[p].line)
    IN From(rec[p].line, CHOOSE i \in starts : \A j \in starts : i <= j)

\* pendingInputForSession: back to the first that has delivered its input or
\* belongs to another session. Tombstones claim nothing.
PendingStarts(p) ==
    LET l == rec[p].line IN
    {i \in 1..(Len(l) + 1) : /\ i + ChainLimit > Len(l)
                             /\ \A j \in i..Len(l) : rec[l[j]].pending /\ rec[l[j]].session = rec[p].session}

\* Fault: only the newest record is looked at.
PendingRunNewest(p) == IF rec[p].pending THEN <<p>> ELSE <<>>

PendingRun(p) ==
    From(rec[p].line, CHOOSE i \in PendingStarts(p) : \A j \in PendingStarts(p) : i <= j)

PendingIds(p)    == {PendingRun(p)[i] : i \in DOMAIN PendingRun(p)}
PendingPrompt(p) == [i \in DOMAIN PendingRun(p) |-> Input(PendingRun(p)[i])]

-----------------------------------------------------------------------------
(* A chain rebuilt                                                           *)

\* Fault: every function call becomes a tool request.
DeclaredUnanswered(chain) == {x \in Range(chain) : rec[x].output = "function"}

\* hydratableFunctionCall: a function call that a record of the chain answers.
Declared(chain) ==
    {x \in Range(chain) : rec[x].output = "function" /\ \E y \in Range(chain) : rec[y].answers = x}

Calls(x) == rec[x].output \in {"function", "custom"}

\* What the record's tool outputs tell: the result, and what was added to it.
Outputs(x, result) ==
    IF rec[x].answers = None THEN <<>>
    ELSE <<<<result, rec[x].answers>>>> \o (IF rec[x].added THEN <<Input(x)>> ELSE <<>>)

Answer(x) == IF rec[x].kind = "turn" THEN <<<<"answer", x>>>> ELSE <<>>

\* appendResponseRecordHistory: outputs first, they answer the record before.
RecordHistory(chain, x) ==
    Outputs(x, IF rec[x].answers \in Declared(chain) THEN "result" ELSE "told result")
    \o rec[x].input \o Answer(x)
    \o (IF Calls(x) THEN <<<<IF x \in Declared(chain) THEN "call" ELSE "told call", x>>>> ELSE <<>>)

History(chain) == FlattenSeq([i \in DOMAIN chain |-> RecordHistory(chain, chain[i])])

\* appendResponseRecordTranscript: the same in prose, outputs last.
RecordTranscript(x) ==
    rec[x].input \o Answer(x) \o (IF Calls(x) THEN <<<<"told call", x>>>> ELSE <<>>)
    \o Outputs(x, "told result")

Transcript(chain) == FlattenSeq([i \in DOMAIN chain |-> RecordTranscript(chain[i])])

-----------------------------------------------------------------------------
(* A request gets its session and its prompt: prepareResponseTurn for a turn *)
(* and WarmResponse for a warm one.                                          *)

Arrives(r) == req[r].phase = "new" /\ \A x \in Responses : x < r => req[x].phase # "new"

Ready(r, changes) ==
    req' = [req EXCEPT ![r] = [changes EXCEPT !.phase = "ready"]]

Plain(r, kind, prev, session, streaming) ==
    [NewRequest EXCEPT !.kind = kind, !.prev = prev, !.session = session, !.streaming = streaming,
                       !.input = <<Input(r)>>, !.prompt = <<Input(r)>>]

\* A new conversation, in a session of its own.
StartFresh(r, kind, streaming) ==
    /\ Arrives(r)
    /\ Ready(r, Plain(r, kind, None, r, streaming))
    /\ UNCHANGED <<rec, sdk, warm, live>>

\* use: the connection's warm session is that of the response continued, and
\* asks for the same configuration.
UseWarm(r, p) ==
    /\ Arrives(r) /\ warm[p].held
    /\ Ready(r, [Plain(r, "turn", p, warm[p].session, TRUE) EXCEPT
                   !.base = warm[p].base, !.prompt = warm[p].prompt \o @, !.claims = warm[p].claims])
    /\ warm' = [warm EXCEPT ![p] = NoWarm]
    /\ UNCHANGED <<rec, sdk, live>>

\* A turn that came on the connection of that warm session and cannot use it
\* disconnects it.
Discards(kind, p, streaming) ==
    \/ UNCHANGED warm
    \/ kind = "turn" /\ streaming /\ warm[p].held /\ warm' = [warm EXCEPT ![p] = NoWarm]

\* resumeSession succeeds: what is buffered for the session comes first.
Resume(r, kind, p, streaming) ==
    /\ Arrives(r) /\ Present(p)
    /\ Ready(r, [Plain(r, kind, p, rec[p].session, streaming) EXCEPT
                   !.prompt = PendingPrompt(p) \o @, !.claims = PendingIds(p)])
    /\ Discards(kind, p, streaming)
    /\ UNCHANGED <<rec, sdk, live>>

\* It fails: a new session, with the chain as its events when they can be
\* written, or else with the chain as prose before the prompt.
Rebuild(r, changes, p, hydrated) ==
    /\ Ready(r, [changes EXCEPT !.base = IF hydrated THEN <<>> ELSE Transcript(Chain(p))])
    /\ sdk' = [sdk EXCEPT ![r].base = IF hydrated THEN History(Chain(p)) ELSE <<>>]

Synthesize(r, kind, p, streaming, hydrated) ==
    /\ Arrives(r) /\ Present(p)
    /\ hydrated \/ kind = "turn" \/ WarmHydrationFails
    /\ Rebuild(r, Plain(r, kind, p, r, streaming), p, hydrated)
    /\ Discards(kind, p, streaming)
    /\ UNCHANGED <<rec, live>>

-----------------------------------------------------------------------------
(* Tool outputs                                                              *)

\* The client answers the calls of p, and may add input to an output.
Answers(r, p, session, added) ==
    [NewRequest EXCEPT !.prev = p, !.session = session, !.answers = p, !.added = added]

Told(result, p, r, added) == <<<<result, p>>>> \o (IF added THEN <<Input(r)>> ELSE <<>>)

\* The batch is open: the runner that waits for it goes on.
AnswerLive(r, p, added) ==
    /\ Arrives(r) /\ p \in live /\ Present(p)
    /\ live' = live \ {p}
    /\ req' = [req EXCEPT ![r] = [Answers(r, p, rec[p].session, added) EXCEPT !.phase = "sent"]]
    /\ sdk' = [sdk EXCEPT ![rec[p].session].sent = @ \o Told("result", p, r, added)]
    /\ UNCHANGED <<rec, warm>>

\* It is gone (or the outputs install tools, and the runner is aborted): a
\* turn in a new session, whose prompt tells the outputs. (Outputs that name no
\* response before them are a request without a chain, or refused.)
AnswerFromRecord(r, p, added, hydrated) ==
    /\ Arrives(r) /\ Present(p) /\ Calls(p)
    /\ Rebuild(r, [Answers(r, p, r, added) EXCEPT !.input = Told("told result", p, r, added),
                                                  !.prompt = Told("told result", p, r, added)],
               p, hydrated)
    /\ live' = live \ {p}
    /\ UNCHANGED <<rec, warm>>

-----------------------------------------------------------------------------
(* A warm response: saved, kept, generated from later                        *)

Saved(r, kind, pending, output) ==
    [kind |-> kind, session |-> req[r].session, pending |-> pending, input |-> req[r].input,
     line |-> Append(IF req[r].prev = None THEN <<>> ELSE rec[req[r].prev].line, r),
     answers |-> req[r].answers, added |-> req[r].added, output |-> output]

Done(r) == req' = [req EXCEPT ![r] = [NewRequest EXCEPT !.phase = "done"]]

SaveWarm(r) ==
    /\ req[r].phase = "ready" /\ req[r].kind = "warm"
    /\ rec' = [rec EXCEPT ![r] = Saved(r, "warm", TRUE, "none")]
    /\ warm' = [warm EXCEPT ![r] = [held |-> TRUE, session |-> req[r].session, base |-> req[r].base,
                                    prompt |-> req[r].prompt, claims |-> req[r].claims \cup {r}]]
    /\ Done(r)
    /\ UNCHANGED <<sdk, live>>

\* Disconnect: the connection ends, or the client warms or asks for another.
DropWarm(r) ==
    /\ warm[r].held
    /\ warm' = [warm EXCEPT ![r] = NoWarm]
    /\ UNCHANGED <<rec, sdk, req, live>>

-----------------------------------------------------------------------------
(* A turn: sent, generated, saved. The claims are settled after the send; a  *)
(* streamed turn goes on meanwhile.                                          *)

Send(r) ==
    /\ req[r].phase = "ready" /\ req[r].kind = "turn"
    /\ sdk' = [sdk EXCEPT ![req[r].session] =
                 [base |-> @.base \o req[r].base,
                  sent |-> @.sent \o req[r].prompt]]
    /\ req' = [req EXCEPT ![r].phase = "sent"]
    /\ UNCHANGED <<rec, warm, live>>

\* Fault: the claims are settled before the send.
ClearInputPendingFirst(r, id, fails) ==
    /\ req[r].phase \in {"ready", "sent", "saved"}
    /\ id \in req[r].claims /\ \A x \in req[r].claims : id <= x
    /\ req' = [req EXCEPT ![r].claims = @ \ {id}]
    /\ rec' = IF fails THEN rec ELSE [rec EXCEPT ![id].pending = FALSE]
    /\ UNCHANGED <<sdk, warm, live>>

\* markPendingInputDelivered, one record at a time; a failure is logged.
ClearInputPending(r, id, fails) ==
    /\ req[r].phase \in {"sent", "saved"}
    /\ id \in req[r].claims /\ \A x \in req[r].claims : id <= x
    /\ req' = [req EXCEPT ![r].claims = @ \ {id}]
    /\ rec' = IF fails THEN rec ELSE [rec EXCEPT ![id].pending = FALSE]
    /\ UNCHANGED <<sdk, warm, live>>

\* The turn ends with an answer, and possibly calls; its record is saved.
Generate(r, output) ==
    /\ req[r].phase = "sent"
    /\ req[r].streaming \/ req[r].claims = {}
    /\ rec' = [rec EXCEPT ![r] = Saved(r, "turn", FALSE, output)]
    /\ sdk' = [sdk EXCEPT ![req[r].session].sent =
                 @ \o (<<<<"answer", r>>>> \o (IF output = "text" THEN <<>> ELSE <<<<"call", r>>>>))]
    /\ live' = IF output = "text" THEN live ELSE live \cup {r}
    /\ req' = [req EXCEPT ![r].phase = "saved"]
    /\ UNCHANGED warm

\* The preparation, the send, the turn or the save fails.
Fails(r) ==
    /\ \/ req[r].phase = "ready"
       \/ req[r].phase = "sent" /\ (req[r].streaming \/ req[r].claims = {})
    /\ req' = [req EXCEPT ![r].phase = IF @ = "ready" THEN "done" ELSE "saved"]
    /\ UNCHANGED <<rec, sdk, warm, live>>

\* The batch expires or the runner ends.
BatchGone(p) ==
    /\ p \in live
    /\ live' = live \ {p}
    /\ UNCHANGED <<rec, sdk, req, warm>>

-----------------------------------------------------------------------------

DeleteResponse(p) ==
    /\ Present(p)
    /\ rec' = [rec EXCEPT ![p] =
                 [NoRecord EXCEPT !.kind = "deleted", !.session = rec[p].session, !.line = rec[p].line]]
    /\ UNCHANGED <<sdk, req, warm, live>>

\* The process ends and starts again: records and sessions are on disk.
Crash ==
    /\ req' = [r \in Responses |-> IF req[r].phase = "new" THEN req[r] ELSE [NewRequest EXCEPT !.phase = "done"]]
    /\ warm' = [r \in Responses |-> NoWarm]
    /\ live' = {}
    /\ UNCHANGED <<rec, sdk>>

Prepare(r) ==
    \/ \E kind \in {"turn", "warm"}, streaming \in BOOLEAN :
         /\ kind = "warm" => streaming
         /\ \/ StartFresh(r, kind, streaming)
            \/ \E p \in Responses : Resume(r, kind, p, streaming)
            \/ \E p \in Responses, hydrated \in BOOLEAN : Synthesize(r, kind, p, streaming, hydrated)
    \/ \E p \in Responses : UseWarm(r, p)
    \/ \E p \in Responses, added \in BOOLEAN : AnswerLive(r, p, added)
    \/ \E p \in Responses, added, hydrated \in BOOLEAN : AnswerFromRecord(r, p, added, hydrated)

Next ==
    \/ \E r \in Responses :
         \/ Prepare(r)
         \/ SaveWarm(r) \/ DropWarm(r)
         \/ Send(r) \/ Fails(r)
         \/ \E id \in Responses, fails \in BOOLEAN : ClearInputPending(r, id, fails)
         \/ \E output \in {"text", "function", "custom"} : Generate(r, output)
         \/ BatchGone(r) \/ DeleteResponse(r)
    \/ Crash

Spec == Init /\ [][Next]_vars

-----------------------------------------------------------------------------
(* Properties                                                                *)

Log(session) == sdk[session].base \o sdk[session].sent

InProse(what) == CASE what = "call" -> "told call" [] what = "result" -> "told result" [] OTHER -> what

\* What a text tells of a record, as events or as prose.
Tells(text, what, x) == \E i \in DOMAIN text : text[i] \in {<<what, x>>, <<InProse(what), x>>}

TellsRecord(text, x) ==
    /\ \A i \in DOMAIN rec[x].input : rec[x].input[i] \in Range(text)
    /\ rec[x].kind = "turn" => Tells(text, "answer", x)
    /\ Calls(x) => Tells(text, "call", x)
    /\ rec[x].answers # None => Tells(text, "result", rec[x].answers)
    /\ rec[x].added => Tells(text, "input", x)

\* The chain that the turn continued, and the turn.
Continued(r) ==
    LET before == Front(rec[r].line)
    IN IF before # <<>> /\ Present(Last(before)) THEN Append(Chain(Last(before)), r) ELSE <<r>>

\* What was said along a chain, in its order.
OwnInput(input, r) == IF Input(r) \in Range(input) THEN <<Input(r)>> ELSE <<>>

Spoken(chain) ==
    FlattenSeq([i \in DOMAIN chain |-> OwnInput(rec[chain[i]].input, chain[i]) \o Answer(chain[i])])

\* a is left of b when other entries are dropped from b: so much of a is
\* matched by the first n entries of b.
Within(a, b) ==
    LET matched[n \in 0..Len(b)] ==
          IF n = 0 THEN 0
          ELSE LET m == matched[n - 1]
               IN IF m < Len(a) /\ a[m + 1] = b[n] THEN m + 1 ELSE m
    IN matched[Len(b)] = Len(a)

\* No warmed input is lost: a warm record stops claiming its input only when the
\* input is in the SDK session of the record, so as long as it is not, the next
\* turn that resumes the session replays it. Sends fail, processes die, requests
\* race and warm records are chained (response_session.go, markPendingInputDelivered).
PendingUntilDelivered ==
    \A r \in Responses :
        rec[r].kind = "warm" /\ ~rec[r].pending => Input(r) \in Range(sdk[rec[r].session].sent)

\* All the input that waits for a session is collected when it is resumed: a
\* record is among those the next request claims when its input, and that of
\* every record after it, is pending for the session of the last
\* (pendingInputForSession).
BufferedCollected ==
    \A p \in Responses :
        Present(p) =>
            LET l == rec[p].line IN
            \A i \in DOMAIN l :
                (\A j \in i..Len(l) : rec[l[j]].pending /\ rec[l[j]].session = rec[p].session)
                    => l[i] \in PendingIds(p)

\* The model generated a saved turn knowing its chain: every input, answer, call
\* and result of the records it continues is in the log of its session, what was
\* said in the order it was said, whether the session was resumed, used warm,
\* hydrated or told in prose, and whatever was deleted, lost or still buffered
\* meanwhile (prepareResponseTurn).
ContextComplete ==
    \A r \in Responses :
        rec[r].kind = "turn" =>
            LET chain == Continued(r) log == Log(rec[r].session) IN
            /\ \A i \in DOMAIN chain : TellsRecord(log, chain[i])
            /\ Within(Spoken(chain), log)

\* A chain can always be written as session events that a resumed session takes:
\* a result only for a call that came before it, no call left waiting for its
\* result when the model speaks next, and nothing of the chain left out
\* (responseContinuationHistory, BuildChatHistoryJSONL).
HistorySound ==
    \A p \in Responses :
        Present(p) =>
            LET chain == Chain(p) h == History(chain) IN
            /\ \A i \in DOMAIN h :
                 /\ h[i][1] = "result" => \E j \in 1..(i - 1) : h[j] = <<"call", h[i][2]>>
                 /\ h[i][1] = "call" => \E j \in (i + 1)..Len(h) :
                      /\ h[j] = <<"result", h[i][2]>>
                      /\ \A k \in i..j : h[k][1] # "answer"
            /\ \A i \in DOMAIN chain : TellsRecord(h, chain[i])
=============================================================================
