----------------------------- MODULE TurnItems -----------------------------
(* What a turn's runner (internal/copilotgw) and the encoders of its stream  *)
(* (internal/httpapi) share: pieces of text, the output items they belong    *)
(* to, and the reconciliation of streamed text with the text a turn ends     *)
(* with.                                                                     *)
(*                                                                           *)
(* A text is a sequence of pieces, one per delta: a piece names the turn it  *)
(* was produced in and its place there, so that text of another turn and     *)
(* text out of order show. Its size in bytes is the number of its pieces.    *)
EXTENDS Naturals, Sequences, FiniteSets, SequencesExt

CONSTANTS
    Turns,         \* bound: model turns of the session, numbered from 1
    Pieces,        \* bound: pieces of text the model produces in a turn
    Tools,         \* the client's tools
    Kind,          \* what each of them is
    ItemOverhead   \* bytes an item adds to the JSON of a response

ToolKinds == {"function", "strict", "custom", "search"}

ASSUME TurnsAssumption == Turns \in Nat \ {0}
ASSUME ToolsAssumption == IsFiniteSet(Tools) /\ Kind \in [Tools -> ToolKinds]
ASSUME SizeAssumption  == Pieces \in Nat /\ ItemOverhead \in Nat

Piece(turn, n) == [turn |-> turn, n |-> n, form |-> "model"]

\* The same JSON value as encoding/json writes it: other bytes.
Reencoded(text) == [i \in DOMAIN text |-> [text[i] EXCEPT !.form = "encoded"]]

\* Two texts that decode to the same JSON value.
SameJSONValue(a, b) == Reencoded(a) = Reencoded(b)

\* The terminal text is what was streamed and possibly more.
Extends(terminal, streamed) == IsPrefix(streamed, terminal)

\* What the client is still owed of it.
TerminalStreamSuffix(terminal, streamed) == SubSeq(terminal, Len(streamed) + 1, Len(terminal))

\* Mutant of ArgumentsAgree: bytes are compared.
ArgumentsAgreeInBytes(terminal, delivered) == Extends(terminal, delivered)

\* Fragments that denote the finished arguments deliver the call; fragments
\* that are a prefix of its bytes deliver that much of it.
ArgumentsAgree(terminal, delivered) ==
    \/ delivered = <<>>
    \/ SameJSONValue(terminal, delivered)
    \/ Extends(terminal, delivered)

\* Mutant of ToolArgumentsSuffix: a call that was streamed is owed nothing.
ToolArgumentsSuffixOnce(terminal, delivered) ==
    IF delivered # <<>> THEN <<>> ELSE terminal

ToolArgumentsSuffix(terminal, delivered) ==
    IF SameJSONValue(terminal, delivered) THEN <<>> ELSE TerminalStreamSuffix(terminal, delivered)

-----------------------------------------------------------------------------
(* Output items. Identifiers are minted once: an identifier names the turn   *)
(* that minted it.                                                           *)

NoId == <<"none", 0>>

ToolItemId(turn, tool) ==
    <<CASE Kind[tool] = "custom" -> "ctc"
        [] Kind[tool] = "search" -> "tsc"
        [] OTHER -> "fc", turn, tool>>

ItemType(kind) ==
    CASE kind = "custom" -> "custom_tool_call"
      [] kind = "search" -> "tool_search_call"
      [] OTHER -> "function_call"

\* encrypted is the reasoning blob: present or not.
Item(id, type, text, encrypted) == [id |-> id, type |-> type, text |-> text, encrypted |-> encrypted]

IdsOf(items) == [i \in DOMAIN items |-> items[i].id]

\* The entries of a sequence at some of its places, in their order.
Chosen(seq, places) ==
    LET chosen[i \in 0..Len(seq)] ==
            IF i = 0 THEN <<>> ELSE IF i \in places THEN Append(chosen[i - 1], seq[i]) ELSE chosen[i - 1]
    IN chosen[Len(seq)]

OfType(items, type) == Chosen(items, {i \in DOMAIN items : items[i].type = type})

\* The item of that identifier, as a sequence of at most one.
WithId(items, id) ==
    IF \E i \in DOMAIN items : items[i].id = id
    THEN <<items[CHOOSE i \in DOMAIN items : items[i].id = id]>> ELSE <<>>

\* Text joins what there is of the item of that identifier.
Joined(items, id, text) ==
    [i \in DOMAIN items |-> IF items[i].id = id THEN [items[i] EXCEPT !.text = @ \o text] ELSE items[i]]

TextOf(items) == FlattenSeq([i \in DOMAIN items |-> items[i].text])

\* len(output) + len(output_text): the message's text counts twice.
PayloadBytes(items) ==
    LET ItemBytes(n, item) == n + ItemOverhead + Len(item.text) + (IF item.encrypted THEN 1 ELSE 0)
    IN FoldLeft(ItemBytes, Len(TextOf(OfType(items, "message"))), items)
=============================================================================
