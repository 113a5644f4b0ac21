------------------------------- MODULE WireStream ------------------------------
(***************************************************************************)
(* A model's turn as it comes over HTTP: the provider writes server-sent   *)
(* events, the transport cuts them anywhere, SseParser                     *)
(* (crates/btv-llm/src/sse.rs) puts them together again, and the           *)
(* TurnAggregator of the protocol (anthropic.rs, openai.rs) makes the turn *)
(* and the text shown meanwhile.  A text or a tool's arguments are numbered *)
(* pieces of a letter each, an event on the wire two bytes and the ends of  *)
(* its line and of an empty one; the two bytes of an event with a piece may *)
(* be those of its letter.                                                  *)
(***************************************************************************)
EXTENDS Naturals, Sequences, SequencesExt, FiniteSetsExt

CONSTANTS
  WireEvents,   \* bound: events of a turn
  MaxWire       \* bound: bytes the transport holds

ASSUME WireConstants == WireEvents \in Nat /\ MaxWire \in Nat

VARIABLES
  protocol,  \* "anthropic" or "openai" (DeepSeek speaks it too)
  coding,    \* wide: its letters have two bytes; lineEnd: "lf" or "crlf"
  meant,     \* the turn the provider means
  events,    \* how many events it has written
  stream,    \* "open", "stopped" (its reason is told), "closed" or "cut"
  wire,      \* written, not yet received
  buffer,    \* SseParser::buffer
  agg,       \* TurnAggregator
  shown,     \* the pieces of text handed on
  result,    \* the turn, when the stream has ended
  cut        \* history: the pieces whose letter came in two chunks

wireVars == <<protocol, coding, meant, events, stream, wire, buffer, agg, shown, result, cut>>

NoStop == "none"
NewTurn == [content |-> << >>, stop |-> NoStop, usage |-> 0]
NewAgg == [text |-> << >>, blocks |-> << >>, stop |-> NoStop, usage |-> 0]
NoResult == [content |-> << >>, stop |-> "no turn", usage |-> 0]

WireInit ==
  /\ protocol \in {"anthropic", "openai"}
  /\ meant = NewTurn /\ events = 0 /\ stream = "open"
  /\ wire = << >> /\ buffer = << >> /\ agg = NewAgg /\ shown = << >>
  /\ result = NoResult
  /\ coding \in [wide : BOOLEAN, lineEnd : {"lf", "crlf"}] /\ cut = {}

Texts(content) == FlattenSeq([i \in DOMAIN content |->
                    IF content[i].kind = "text" THEN content[i].pieces ELSE << >>])
Tools(content) == SelectSeq(content, LAMBDA b : b.kind = "tool")

-----------------------------------------------------------------------------
(* The provider.  Two line ends end an event. *)
NewLine == [event |-> [type |-> "newline"], half |-> 0]
CarriageReturn == [event |-> [type |-> "return"], half |-> 0]
LineEnd == IF coding.lineEnd = "lf" THEN <<NewLine>> ELSE <<CarriageReturn, NewLine>>
Emits(event) ==
  LET bytes == <<[event |-> event, half |-> 1], [event |-> event, half |-> 2]>> \o LineEnd \o LineEnd
  IN  /\ stream = "open" /\ events < WireEvents /\ Len(wire) + Len(bytes) <= MaxWire
      /\ events' = events + 1
      /\ wire' = wire \o bytes
      /\ UNCHANGED <<protocol, coding, buffer, agg, shown, result, cut>>

(* Anthropic: one block after the other, each with its pieces; a ping may  *)
(* come at any time.                                                       *)
StartsBlock(kind) ==
  /\ protocol = "anthropic"
  /\ Emits([type |-> "content_block_start", kind |-> kind])
  /\ meant' = [meant EXCEPT !.content = Append(@, [kind |-> kind, pieces |-> << >>])]
  /\ UNCHANGED stream
AddsToBlock ==
  /\ protocol = "anthropic" /\ meant.content # << >>
  /\ LET n == Len(meant.content)
     IN  /\ Emits([type |-> IF meant.content[n].kind = "text" THEN "text_delta" ELSE "input_json_delta",
                   piece |-> events])
         /\ meant' = [meant EXCEPT !.content[n].pieces = Append(@, events)]
  /\ UNCHANGED stream
Pings == protocol = "anthropic" /\ Emits([type |-> "ping"]) /\ UNCHANGED <<meant, stream>>

(* OpenAI: the text, and fragments of calls in any order of their indices, *)
(* a new one at the end.                                                   *)
AddsText ==
  /\ protocol = "openai"
  /\ Emits([type |-> "content", piece |-> events])
  /\ meant' = [meant EXCEPT !.content =
       <<[kind |-> "text", pieces |-> Append(Texts(meant.content), events)]>> \o Tools(meant.content)]
  /\ UNCHANGED stream
AddsToCall(index) ==
  /\ protocol = "openai" /\ index <= Len(Tools(meant.content))
  /\ Emits([type |-> "tool_calls", index |-> index, piece |-> events])
  /\ LET n == Len(meant.content) - Len(Tools(meant.content)) + index + 1
     IN  meant' = [meant EXCEPT !.content =
           IF n > Len(@) THEN Append(@, [kind |-> "tool", pieces |-> <<events>>])
           ELSE [@ EXCEPT ![n].pieces = Append(@, events)]]
  /\ UNCHANGED stream

(* The reason it stopped, with the usage; then the end ("[DONE]"), or the  *)
(* connection closes before, and takes with it what has not come.          *)
Stops(reason) ==
  /\ Emits([type |-> "stop", reason |-> reason, usage |-> events + 1])
  /\ meant' = [meant EXCEPT !.stop = reason, !.usage = events + 1]
  /\ stream' = "stopped"
Closes ==
  /\ \/ stream = "stopped" /\ stream' = "closed" /\ UNCHANGED wire
     \/ stream = "open" /\ stream' = "cut" /\ \E n \in 0 .. Len(wire) : wire' = SubSeq(wire, 1, n)
  /\ UNCHANGED <<protocol, coding, meant, events, buffer, agg, shown, result, cut>>

-----------------------------------------------------------------------------
(* The parser. *)

IsWide(byte) == coding.wide /\ "piece" \in DOMAIN byte.event

(* `from_utf8_lossy` of a chunk: a letter's byte that has come without the *)
(* other is a replacement character.                                       *)
Lossy(chunk) ==
  [i \in DOMAIN chunk |->
     [byte |-> chunk[i],
      lost |-> /\ IsWide(chunk[i])
               /\ (chunk[i].half = 1 /\ i = Len(chunk)) \/ (chunk[i].half = 2 /\ i = 1)]]

(* Where "\n\n" ends an event: "\r\n\r\n" has none. *)
Ends(text) == {i \in 2 .. Len(text) : text[i].byte = NewLine /\ text[i - 1].byte = NewLine}

(* The block of text between two of those, read as an event. *)
Unknown == WireEvents  \* none of the pieces
ParseBlock(block) ==
  LET event == block[1].byte.event
  IN  IF \E i \in DOMAIN block : block[i].lost THEN [event EXCEPT !.piece = Unknown] ELSE event

Blocks(text, ends) ==
  LET at == SetToSortSeq(ends, <)
  IN  [k \in DOMAIN at |->
         ParseBlock(SubSeq(text, IF k = 1 THEN 1 ELSE at[k - 1] + 1, at[k]))]

-----------------------------------------------------------------------------
(* The aggregators: what an event makes of the turn, and the text it gives. *)
LastBlockAdds(a, kind, piece) ==
  IF a.blocks # << >> /\ a.blocks[Len(a.blocks)].kind = kind
  THEN [a EXCEPT !.blocks[Len(a.blocks)].pieces = Append(@, piece)] ELSE a

HandleAnthropic(a, event) ==
  CASE event.type = "content_block_start" ->
         [a EXCEPT !.blocks = Append(@, [kind |-> event.kind, pieces |-> << >>])]
    [] event.type = "text_delta" -> LastBlockAdds(a, "text", event.piece)
    [] event.type = "input_json_delta" -> LastBlockAdds(a, "tool", event.piece)
    [] event.type = "stop" -> [a EXCEPT !.stop = event.reason, !.usage = event.usage]
    [] OTHER -> a

(* Bug: a fragment is added to the call that was begun last. *)
HandleOpenAiInOrder(a, event) ==
  CASE event.type = "content" -> [a EXCEPT !.text = Append(@, event.piece)]
    [] event.type = "tool_calls" /\ event.index < Len(a.blocks) -> LastBlockAdds(a, "tool", event.piece)
    [] event.type = "tool_calls" /\ event.index >= Len(a.blocks) ->
         [a EXCEPT !.blocks = Append(@, [kind |-> "tool", pieces |-> <<event.piece>>])]
    [] event.type = "stop" -> [a EXCEPT !.stop = event.reason, !.usage = event.usage]
    [] OTHER -> a

(* `while self.tool_calls.len() <= index` makes room for the fragment. *)
HandleOpenAi(a, event) ==
  CASE event.type = "content" -> [a EXCEPT !.text = Append(@, event.piece)]
    [] event.type = "tool_calls" ->
         LET n == event.index + 1
             room == [i \in 1 .. Max({n, Len(a.blocks)}) |->
                        IF i \in DOMAIN a.blocks THEN a.blocks[i] ELSE [kind |-> "tool", pieces |-> << >>]]
         IN  [a EXCEPT !.blocks = [room EXCEPT ![n].pieces = Append(@, event.piece)]]
    [] event.type = "stop" -> [a EXCEPT !.stop = event.reason, !.usage = event.usage]
    [] OTHER -> a

Handle(a, event) == IF protocol = "anthropic" THEN HandleAnthropic(a, event) ELSE HandleOpenAi(a, event)
TextOf(event) == IF event.type \in {"text_delta", "content"} THEN <<event.piece>> ELSE << >>

(* No reason given is the end of the turn. *)
FinishTurn(a) ==
  [content |-> (IF a.text = << >> THEN << >> ELSE <<[kind |-> "text", pieces |-> a.text]>>) \o a.blocks,
   stop |-> IF a.stop = NoStop THEN "end_turn" ELSE a.stop,
   usage |-> a.usage]

-----------------------------------------------------------------------------
(* A chunk comes: it goes through parser and aggregator. *)
Receives(length) ==
  /\ length \in 1 .. Len(wire)
  /\ LET text == buffer \o Lossy(SubSeq(wire, 1, length))
         ends == Ends(text)
         parsed == Blocks(text, ends)
     IN  /\ buffer' = SubSeq(text, Max(ends \cup {0}) + 1, Len(text))
         /\ agg' = FoldLeft(Handle, agg, parsed)
         /\ shown' = shown \o FlattenSeq([k \in DOMAIN parsed |-> TextOf(parsed[k])])
  /\ wire' = SubSeq(wire, length + 1, Len(wire))
  /\ cut' = cut \cup IF IsWide(wire[length]) /\ wire[length].half = 1
                     THEN {wire[length].event.piece} ELSE {}
  /\ UNCHANGED <<protocol, coding, meant, events, stream, result>>

(* The stream ends: the turn is what there is. *)
EndsStream ==
  /\ stream \in {"closed", "cut"} /\ wire = << >> /\ result = NoResult
  /\ result' = FinishTurn(agg)
  /\ UNCHANGED <<protocol, coding, meant, events, stream, wire, buffer, agg, shown, cut>>

WireNext ==
  \/ \E kind \in {"text", "tool"} : StartsBlock(kind)
  \/ AddsToBlock \/ Pings \/ AddsText
  \/ \E index \in 0 .. 1 : AddsToCall(index)
  \/ \E reason \in {"end_turn", "tool_use"} : Stops(reason)
  \/ Closes
  \/ \E length \in 1 .. MaxWire : Receives(length)
  \/ EndsStream

WireSpec == WireInit /\ [][WireNext]_wireVars

-----------------------------------------------------------------------------
(* A turn as it can be read: without the letters the transport cut. *)
Readable(content) ==
  [i \in DOMAIN content |->
     [content[i] EXCEPT !.pieces = [k \in DOMAIN @ |-> IF @[k] \in cut THEN Unknown ELSE @[k]]]]

(* Wherever the transport cuts the bytes ("Recebe bytes em pedaços         *)
(* arbitrários"), the turn is the one the provider meant, its blocks in    *)
(* order and each call's arguments its own, and the text shown is the      *)
(* turn's text; of a letter it cut between its bytes, in a text or in the  *)
(* arguments of a call, nothing is left but that there was one, and no     *)
(* other letter and no event is hurt.  A stream that was cut off gives a   *)
(* turn that ended, and shows the beginning of the text.  Where lines end  *)
(* with "\r\n" nothing is read, and an empty turn has ended.               *)
TurnIsAsMeant ==
  result # NoResult =>
    LET content == Readable(meant.content)
    IN  /\ coding.lineEnd = "lf" /\ stream = "closed" =>
             result = [meant EXCEPT !.content = content] /\ shown = Texts(content)
        /\ coding.lineEnd = "lf" /\ stream = "cut" =>
             result.stop = "end_turn" /\ IsPrefix(shown, Texts(content))
        /\ coding.lineEnd = "crlf" =>
             result = [NewTurn EXCEPT !.stop = "end_turn"] /\ shown = << >>

(* The provider's turn, if its stream came to its end: not true of the     *)
(* code, for the letters cut in two and for "\r\n" ("tolera").             *)
TurnIsWhole == result # NoResult /\ stream = "closed" => result = meant
=============================================================================
