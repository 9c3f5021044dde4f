------------------------------- MODULE Answer -------------------------------
(***************************************************************************)
(* The way back: Server.unmask (internal/proxy/proxy.go) puts the          *)
(* originals into the provider's answer.  A buffered answer is read whole  *)
(* and expanded; a streamed one goes line by line through the              *)
(* streamRehydrator (internal/proxy/stream.go), which holds back whatever  *)
(* could be the beginning of a replacement.  Beside it the answer is       *)
(* copied for the trace and read block by block (reassemble.go).           *)
(*                                                                         *)
(* A text is a sequence of characters from a small alphabet; a line of the *)
(* event stream is a record.  The mapping of a session is a function from  *)
(* replacements to originals, both texts.                                  *)
(***************************************************************************)
EXTENDS Integers, Sequences, SequencesExt, FiniteSets

CONSTANTS
  Scenarios,     \* the answers providers give; see ScenariosAssumption
  Chars,         \* the characters of texts
  TokenChars,    \* what stands between the brackets of a token
  MaxTokenLen,   \* how far back TokenTailLen looks
  MaxBlocks      \* bound: the blocks of an answer

None == -1
Text == Seq(Chars)

ASSUME CharsAssumption == {"{", "}", "escaped"} \subseteq Chars
ASSUME TokenCharsAssumption == TokenChars \cap {"[", "]"} = {}
ASSUME BoundsAssumption == MaxTokenLen \in Nat /\ MaxBlocks \in Nat \ {0}

ASSUME ScenariosAssumption ==
  \A s \in Scenarios :
    /\ s.shape \in {"messages", "chat", "document"}
    /\ DOMAIN s.known \subseteq Text \ {<<>>}   \* the session's mapping
    /\ \A m \in DOMAIN s.known : s.known[m] \in Text
    /\ s.ids \in BOOLEAN                       \* the provider writes "id:" lines
    /\ s.blocks \in 0..MaxBlocks               \* bounds: blocks, pieces of each
    /\ s.deltas \in Nat
    /\ s.pieces \subseteq Text \ {<<>>}         \* the pieces text arrives in
    /\ s.tools \in BOOLEAN                     \* a block may be a tool call,
    /\ s.fragments \subseteq Text               \* its arguments from s.fragments, where
    /\ \A f \in s.fragments : \A i \in DOMAIN f : f[i] # "quote"  \* a quote is escaped

-----------------------------------------------------------------------------
(* Texts and replacements: pkg/pii/token.go and detector/mask.go. *)

Least(m, n) == IF m < n THEN m ELSE n
Greatest(S) == CHOOSE k \in S : \A j \in S : j <= k

Start(text, k) == SubSeq(text, 1, k)
End(text, k) == SubSeq(text, Len(text) - k + 1, Len(text))

IsToken(text) ==
  /\ Len(text) >= 3
  /\ text[1] = "[" /\ text[Len(text)] = "]"
  /\ \A i \in 2..(Len(text) - 1) : text[i] \in TokenChars

StandInsOf(known) == {m \in DOMAIN known : ~IsToken(m)}

\* The length of a bracket left open at the end of the text.
TokenTailLen(text) ==
  Greatest({0} \union
    {k \in 1..Least(Len(text), MaxTokenLen) :
       /\ End(text, k)[1] = "["
       /\ \A i \in 2..k : End(text, k)[i] \in TokenChars})

BeginsAt(text, i, m) ==
  i + Len(m) - 1 <= Len(text) /\ SubSeq(text, i, i + Len(m) - 1) = m

\* Of the replacements at a position, a stand-in before a token, a longer stand-in
\* before a shorter; <<>> when there is none.
Preferred(here) ==
  IF here = {} THEN <<>>
  ELSE CHOOSE m \in here : \A o \in here :
         /\ IsToken(m) => IsToken(o)
         /\ ~IsToken(m) /\ ~IsToken(o) => Len(o) <= Len(m)

MatchAt(known, text, i) == Preferred({m \in DOMAIN known : BeginsAt(text, i, m)})

\* Expander.Unmask: one forward walk.
Expanded(known, text) ==
  LET walk[i \in 1..(Len(text) + 1)] ==
        LET from(m) == IF m = <<>> THEN <<text[i]>> \o walk[i + 1]
                       ELSE known[m] \o walk[i + Len(m)]
        IN  IF i > Len(text) THEN <<>> ELSE from(MatchAt(known, text, i))
  IN  walk[1]

\* Mutant: any beginning of a stand-in is held back, even inside a whole one.
NoFloor(known, text) == 0

\* The longest stand-in the text ends on.
WholeLen(known, text) ==
  Greatest({0} \union {Len(m) : m \in {o \in StandInsOf(known) :
                          Len(o) <= Len(text) /\ End(text, Len(o)) = o}})

\* Expander.TailLen: how much of the end could begin a replacement.
TailLen(known, text) ==
  LET begun == {k \in 1..Len(text) :
                  /\ k >= WholeLen(known, text)
                  /\ \E m \in StandInsOf(known) :
                       k < Len(m) /\ End(text, k) = Start(m, k)}
  IN  Greatest(begun \union {TokenTailLen(text)})

\* A tool call's arguments: a document, here one string in braces.  decodeJSONBody
\* reads nothing else, and the encoder escapes a quote an original brings in.
IsDocument(raw) ==
  /\ Len(raw) >= 2 /\ raw[1] = "{" /\ raw[Len(raw)] = "}"
  /\ \A i \in 2..(Len(raw) - 1) : raw[i] \notin {"{", "}"}

Escaped(text) == [i \in 1..Len(text) |-> IF text[i] = "quote" THEN "escaped" ELSE text[i]]

DocumentExpanded(known, raw) ==
  <<"{">> \o Escaped(Expanded(known, SubSeq(raw, 2, Len(raw) - 1))) \o <<"}">>

Restored(known, raw) ==
  IF IsDocument(raw) THEN DocumentExpanded(known, raw) ELSE Expanded(known, raw)

-----------------------------------------------------------------------------
(* Events and lines. *)

\* n numbers the provider's events.
Event(type, index, text, n) == [type |-> type, index |-> index, text |-> text, n |-> n]
NoEvent == Event("none", None, <<>>, 0)

NameOf(e) ==
  IF e.type \in {"text_delta", "json_delta"} THEN "content_block_delta" ELSE e.type

Line(kind, name, event, n) == [kind |-> kind, name |-> name, event |-> event, n |-> n]
Unnamed == ""
NameLine(name) == Line("name", name, NoEvent, 0)
DataLine(event) == Line("data", Unnamed, event, 0)
IdLine(n) == Line("id", Unnamed, NoEvent, n)
Blank == Line("blank", Unnamed, NoEvent, 0)
DoneLine == Line("done", Unnamed, NoEvent, 0)     \* data: [DONE]

\* What there was of a line when the connection broke: the beginning of one that shows
\* no field yet or is of no consequence, of a data line, of a name line.
StubLine == Line("stub", Unnamed, NoEvent, 0)
TornLine == Line("torn", Unnamed, NoEvent, 0)
CutLine == Line("cut", Unnamed, NoEvent, 0)
Partial == {"stub", "torn", "cut"}

\* What a break may leave of a line.  One that lacks but its end is read like the whole
\* line (data), like a stub (an id) or like a cut (a name).
PartsOf(line) ==
  {part \in {StubLine, TornLine, CutLine} :
     /\ line.kind # "blank"
     /\ part = TornLine => line.kind \in {"data", "done"}
     /\ part = CutLine => line.kind = "name"}

\* What a break leaves for the reader.
Remains == {<<>>, <<StubLine>>, <<TornLine>>, <<CutLine>>}

Named(name, lines) == IF name = Unnamed THEN lines ELSE <<NameLine(name)>> \o lines

\* A client keeps a delta without an index in its only block.
Slot(e) == IF e.index = None THEN 0 ELSE e.index

-----------------------------------------------------------------------------
VARIABLES
  scenario,   \* what the provider answers with, and the session's mapping
  source,     \* the provider: where it is in its answer
  feed,       \* the lines it has sent that the agent has not read
  arrived,    \* history: the text and the arguments of each block, as sent
  r,          \* the streamRehydrator
  out,        \* its buffer of rewritten lines
  client,     \* the caller: what it made of the lines delivered
  trace       \* the copy the responseRecorder keeps, read block by block

vars == <<scenario, source, feed, arrived, r, out, client, trace>>

Indices == 0..(MaxBlocks - 1)
Nothing == [b \in Indices |-> <<>>]
Known == scenario.known
Streams == scenario.shape # "document"

NewRehydrator ==
  [block |-> None, pending |-> <<>>, template |-> NoEvent, templateName |-> Unnamed,
   arguments |-> <<>>, argumentsIn |-> NoEvent, argumentsName |-> Unnamed,
   toolName |-> None, observing |-> FALSE, name |-> Unnamed, held |-> FALSE,
   done |-> FALSE, readErr |-> FALSE,
   model |-> FALSE, input |-> 0, output |-> 0, usageSent |-> FALSE,
   usage |-> <<>>, console |-> <<>>, degraded |-> 0,
   joined |-> FALSE]      \* history: what was released at the end joined a line cut short

Init ==
  /\ scenario \in Scenarios
  /\ source = [phase |-> "head", open |-> None, kind |-> "text", next |-> 0,
               deltas |-> 0, n |-> 0]
  /\ feed = <<>>
  /\ arrived = [text |-> Nothing, args |-> Nothing, tools |-> {}]
  /\ r = NewRehydrator
  /\ out = <<>>
  /\ client = [named |-> scenario.shape = "messages", name |-> Unnamed, event |-> NoEvent,
               id |-> 0, text |-> Nothing, args |-> Nothing, stopped |-> {}, done |-> FALSE,
               coherent |-> TRUE, result |-> "open"]
  /\ trace = [blocks |-> <<>>, filed |-> 0]

-----------------------------------------------------------------------------
(* The rehydrator.  A step of it takes and returns [r, out]: its state and the *)
(* lines it writes.                                                            *)

Wrote(x, lines) == [x EXCEPT !.out = @ \o lines]

\* What takeName does to the withheld name, once it has been read.
NameTaken(x) == [x EXCEPT !.r.name = Unnamed]

\* noteUsage: a count an event carries replaces the one held.  The last event
\* repeats the input count of the first.
NoteUsage(rr, e) ==
  CASE e.type = "message_start" -> [rr EXCEPT !.model = TRUE, !.input = 1]
    [] e.type = "message_delta" -> [rr EXCEPT !.input = 1, !.output = 1]
    [] OTHER -> rr

ReportUsage(rr) ==
  IF rr.usageSent THEN rr
  ELSE [rr EXCEPT !.usageSent = TRUE,
                  !.usage = IF rr.model THEN Append(@, <<rr.input, rr.output>>) ELSE @]

\* The callback onTool: the audit console and the recorder are told of a call.
Tell(rr, arguments, restored) ==
  [rr EXCEPT !.console = Append(@, [tool |-> rr.toolName, args |-> arguments,
                                    restored |-> restored]),
             !.toolName = None]

\* The held arguments go out whole in the event of their first slice.
HeldWritten(x, raw, whole) ==
  [r |-> [Tell(x.r, whole, whole # raw) EXCEPT
            !.arguments = <<>>, !.argumentsIn = NoEvent, !.argumentsName = Unnamed,
            !.degraded = IF IsDocument(raw) THEN @ ELSE @ + 1],
   out |-> x.out \o Named(x.r.argumentsName,
             <<DataLine([x.r.argumentsIn EXCEPT !.text = whole]), Blank>>)]

\* Mutant: arguments are released when some have arrived, not when an event is held.
ReleasedByLength(x) ==
  IF x.r.arguments = <<>> THEN x
  ELSE HeldWritten(x, x.r.arguments, Restored(Known, x.r.arguments))

\* expandedArguments: the document is expanded as one, and told of.
ArgumentsReleased(x) ==
  IF x.r.argumentsIn = NoEvent THEN x
  ELSE HeldWritten(x, x.r.arguments, Restored(Known, x.r.arguments))

\* tailEvent: what was held back goes out, expanded, in a copy of the last delta.
TailReleased(x) ==
  IF x.r.pending = <<>> THEN x
  ELSE [r |-> [x.r EXCEPT !.pending = <<>>],
        out |-> IF x.r.template = NoEvent THEN x.out
                ELSE x.out \o Named(x.r.templateName,
                       <<DataLine([x.r.template EXCEPT !.text = Expanded(Known, x.r.pending)]),
                         Blank>>)]

CloseBlock(x) == TailReleased(ArgumentsReleased(x))

\* Mutant: the delta a tail is released in is not kept.
CutBare(x, e, name, combined, tail) ==
  [r |-> [x.r EXCEPT !.pending = End(combined, tail)],
   out |-> x.out \o Named(name,
     <<DataLine([e EXCEPT !.text = Expanded(Known, Start(combined, Len(combined) - tail))]),
       Blank>>)]

\* The tail is held back as it arrived, the rest goes out expanded.
CutAt(x, e, name, combined, tail) ==
  [r |-> [x.r EXCEPT !.pending = End(combined, tail),
                     !.template = [e EXCEPT !.text = <<>>], !.templateName = name],
   out |-> x.out \o Named(name,
     <<DataLine([e EXCEPT !.text = Expanded(Known, Start(combined, Len(combined) - tail))]),
       Blank>>)]

\* A piece of text, behind what was held back of the one before.
TextRewritten(x, e, name) ==
  CutAt(x, e, name, x.r.pending \o e.text, TailLen(Known, x.r.pending \o e.text))

\* A slice of a tool call's arguments: held, the first one's event kept.
FragmentHeld(x, e, name) ==
  LET first == x.r.argumentsIn = NoEvent
  IN  [x EXCEPT !.r.argumentsIn = IF first THEN [e EXCEPT !.text = <<>>] ELSE @,
                !.r.argumentsName = IF first THEN name ELSE @,
                !.r.arguments = @ \o e.text,
                !.r.held = TRUE]

\* A start event says which tool its block calls, or that it calls none.
ToolOf(e) == IF e.type = "tool_start" THEN e.index ELSE None

\* An event of another block first closes the block before it.
BlockEntered(x, e) ==
  IF e.index = None \/ e.index = x.r.block THEN x
  ELSE [CloseBlock(x) EXCEPT !.r.block = e.index]

\* What an event becomes, its name taken.
EventWritten(x, e, name) ==
  CASE e.type = "block_stop" -> Wrote(CloseBlock(x), Named(name, <<DataLine(e)>>))
    [] e.type = "json_delta" -> FragmentHeld(x, e, name)
    [] e.type = "text_delta" -> TextRewritten(x, e, name)
    [] e.type \in {"text_start", "tool_start"} ->
         Wrote([x EXCEPT !.r.toolName = ToolOf(e)], Named(name, <<DataLine(e), Blank>>))
    [] OTHER -> Wrote(x, Named(name, <<DataLine(e), Blank>>))

\* rewrite, from the point where the line carries an event.
EventRewritten(x, e) ==
  LET entered == BlockEntered([x EXCEPT !.r = NoteUsage(x.r, e)], e)
  IN  EventWritten(NameTaken(entered), e, entered.r.name)

\* An event's name waits for its data line.
NameWithheld(x, line) == [x EXCEPT !.r.name = line.name]

\* The blank of an event that is held is dropped with it.
BlankRead(x, line) ==
  IF x.r.held THEN [x EXCEPT !.r.held = FALSE] ELSE Wrote(x, <<line>>)

\* Mutant: another field leaves the hold as it is.
OtherReadHeld(x, line) == Wrote(x, <<line>>)

\* A comment, an id or a retry ends the hold; a line cut short passes for one.
OtherRead(x, line) == Wrote([x EXCEPT !.r.held = FALSE], <<line>>)

\* Not JSON: [DONE], or a line cut short.  Nothing may be held back past it.
UnreadableRead(x, line) ==
  LET closed == CloseBlock([x EXCEPT !.r.held = FALSE])
  IN  Wrote(NameTaken(closed), Named(closed.r.name, <<line>>))

\* rewrite, for a session that has something to put back.
Rewritten(x, line) ==
  CASE line.kind \in {"name", "cut"} -> NameWithheld(x, line)
    [] line.kind = "blank" -> BlankRead(x, line)
    [] line.kind \in {"id", "stub"} -> OtherRead(x, line)
    [] line.kind \in {"done", "torn"} -> UnreadableRead(x, line)
    [] line.kind = "data" -> EventRewritten([x EXCEPT !.r.held = FALSE], line.event)

\* Mutant: the arguments of a call told of are not let go.
ArgumentsKept(rr) ==
  IF rr.observing THEN [Tell(rr, rr.arguments, FALSE) EXCEPT !.observing = FALSE] ELSE rr

\* reportArguments: the call is told of, nothing is rewritten.
ArgumentsReported(rr) ==
  IF rr.observing
  THEN [Tell(rr, rr.arguments, FALSE) EXCEPT !.observing = FALSE, !.arguments = <<>>]
  ELSE rr

\* observe: a session that minted nothing gets its stream as it is; the counts
\* and the tool calls are read off it.
Observed(rr, line) ==
  LET e == line.event
      noted == NoteUsage(rr, e)
      entered == IF e.index = None \/ e.index = noted.block THEN noted
                 ELSE [ArgumentsReported(noted) EXCEPT !.block = e.index]
  IN  CASE line.kind # "data" -> rr
        [] e.type = "block_stop" -> ArgumentsReported(entered)
        [] e.type = "json_delta" ->
             [entered EXCEPT !.arguments = @ \o e.text, !.observing = TRUE]
        [] e.type \in {"text_start", "tool_start"} -> [entered EXCEPT !.toolName = ToolOf(e)]
        [] OTHER -> entered

Read(x, line) ==
  IF DOMAIN Known = {} THEN [r |-> Observed(x.r, line), out |-> Append(x.out, line)]
  ELSE Rewritten(x, line)

\* flush: the stream has ended, whatever is held goes out.
Flushed(x) == CloseBlock([x EXCEPT !.r = ArgumentsReported(x.r)])

\* What is written behind a line that has no end becomes a part of it.
Joined(lines) == <<StubLine>> \o SubSeq(lines, 3, Len(lines))

-----------------------------------------------------------------------------
(* The copy for the trace: assembleBlocks, one line at a time. *)

\* The blocks with one for the index, opened if there is none.
Opened(blocks, index) ==
  IF \E i \in DOMAIN blocks : blocks[i].index = index THEN blocks
  ELSE Append(blocks, [index |-> index, label |-> "text", said |-> <<>>])

Added(blocks, index, text) ==
  [i \in DOMAIN blocks |->
     IF blocks[i].index = index THEN [blocks[i] EXCEPT !.said = @ \o text] ELSE blocks[i]]

\* Mutant: a block keeps the label it was opened with.
LabelledNever(blocks, index, label) == blocks

Labelled(blocks, index, label) ==
  [i \in DOMAIN blocks |->
     IF blocks[i].index = index THEN [blocks[i] EXCEPT !.label = label] ELSE blocks[i]]

Assembled(blocks, line) ==
  LET e == line.event
      opened == Opened(blocks, Slot(e))
  IN  CASE e.type \in {"text_start", "tool_start"} -> Labelled(opened, Slot(e), e.type)
        [] e.type \in {"text_delta", "json_delta"} -> Added(opened, Slot(e), e.text)
        [] OTHER -> blocks

\* responseRecorder.Close files the answer, once.
Filed(t) == IF t.filed = 0 THEN [t EXCEPT !.filed = 1] ELSE t

-----------------------------------------------------------------------------
(* The caller: an SSE client.  It gathers the fields of an event until a blank *)
(* line and then acts on it by its name.                                      *)

\* A name without data is an event whose payload is empty and does not parse; a
\* name must be the one the data came under; an id never marks a later event.
Sound(c) ==
  IF c.event = NoEvent THEN c.name = Unnamed
  ELSE /\ c.name \in {Unnamed, NameOf(c.event)}
       /\ c.named => c.name # Unnamed      \* the format gives every event a name
       /\ c.id # 0 => c.event.n <= c.id

Acted(c) ==
  LET e == c.event
  IN  CASE e.type = "text_delta" -> [c EXCEPT !.text[Slot(e)] = @ \o e.text]
        [] e.type = "json_delta" -> [c EXCEPT !.args[Slot(e)] = @ \o e.text]
        [] e.type = "block_stop" -> [c EXCEPT !.stopped = @ \union {Slot(e)}]
        [] OTHER -> c

Took(c, line) ==
  IF c.done THEN c
  ELSE CASE line.kind = "name" -> [c EXCEPT !.name = line.name]
         [] line.kind = "data" -> [c EXCEPT !.event = line.event]
         [] line.kind = "id" -> [c EXCEPT !.id = line.n]
         [] line.kind \in Partial -> c
         [] line.kind = "done" -> [c EXCEPT !.done = TRUE]
         [] line.kind = "blank" ->
              [Acted(c) EXCEPT !.coherent = c.coherent /\ Sound(c),
                               !.name = Unnamed, !.event = NoEvent, !.id = 0]

\* What a caller makes of lines, one after the other.
Taken(c, lines) ==
  LET after[i \in 0..Len(lines)] == IF i = 0 THEN c ELSE Took(after[i - 1], lines[i])
  IN  after[Len(lines)]

-----------------------------------------------------------------------------
(* The provider. *)

Lines(e) ==
  LET data == <<DataLine(e)>> \o (IF scenario.ids THEN <<IdLine(e.n)>> ELSE <<>>) \o <<Blank>>
  IN  IF scenario.shape = "messages" THEN Named(NameOf(e), data) ELSE data

Arriving(e) ==
  CASE e.type = "text_delta" -> [arrived EXCEPT !.text[Slot(e)] = @ \o e.text]
    [] e.type = "json_delta" -> [arrived EXCEPT !.args[Slot(e)] = @ \o e.text,
                                                !.tools = @ \union {Slot(e)}]
    [] OTHER -> arrived

\* An event is sent; in a document it is simply there.
Sends(e, after) ==
  /\ feed = <<>>
  /\ source' = [after EXCEPT !.n = @ + 1]
  /\ IF Streams THEN feed' = Lines(e) /\ UNCHANGED arrived
     ELSE arrived' = Arriving(e) /\ UNCHANGED feed
  /\ UNCHANGED <<scenario, r, out, client, trace>>

Sent(type, index, text) == Event(type, index, text, source.n + 1)

Alive == client.result = "open" /\ source.phase # "over"

\* The message begins: its model, and what the request cost.
SendHead ==
  /\ Alive /\ source.phase = "head"
  /\ Sends(Sent("message_start", None, <<>>), [source EXCEPT !.phase = "blocks"])

\* A block begins.  A chat answer is one block that nothing announces.
SendBlockStart(kind) ==
  /\ Alive /\ source.phase = "blocks" /\ scenario.shape # "chat"
  /\ source.open = None /\ source.next < scenario.blocks
  /\ kind = "tool" => scenario.tools
  /\ Sends(Sent(IF kind = "tool" THEN "tool_start" ELSE "text_start", source.next, <<>>),
           [source EXCEPT !.open = source.next, !.kind = kind, !.next = @ + 1, !.deltas = 0])

SendText(piece) ==
  /\ Alive /\ source.phase = "blocks" /\ source.deltas < scenario.deltas
  /\ IF scenario.shape = "chat" THEN TRUE ELSE source.open # None /\ source.kind = "text"
  /\ Sends(Sent("text_delta", source.open, piece), [source EXCEPT !.deltas = @ + 1])

\* What a provider may have sent of a document.
IsSlice(raw) ==
  \A i \in DOMAIN raw : (raw[i] = "{" <=> i = 1) /\ (raw[i] = "}" => i = Len(raw))

SendFragment(fragment) ==
  /\ Alive /\ source.phase = "blocks" /\ source.deltas < scenario.deltas
  /\ source.open # None /\ source.kind = "tool"
  /\ IsSlice(arrived.args[source.open] \o fragment)
  /\ Sends(Sent("json_delta", source.open, fragment), [source EXCEPT !.deltas = @ + 1])

\* The provider ends a tool call once its arguments are whole, or when it has sent
\* none beyond the empty slice that opens every call.
SendBlockStop ==
  /\ Alive /\ source.phase = "blocks" /\ source.open # None
  /\ source.kind = "tool" =>
       arrived.args[source.open] = <<>> \/ IsDocument(arrived.args[source.open])
  /\ Sends(Sent("block_stop", source.open, <<>>), [source EXCEPT !.open = None])

\* A message without text or tool: a keep-alive.
SendPing ==
  /\ Alive /\ source.phase = "blocks" /\ source.deltas < scenario.deltas
  /\ scenario.ids
  /\ Sends(Sent("ping", None, <<>>), [source EXCEPT !.deltas = @ + 1])

\* The message ends: what the answer cost.
SendTail ==
  /\ Alive /\ source.phase = "blocks" /\ source.open = None
  /\ Sends(Sent("message_delta", None, <<>>), [source EXCEPT !.phase = "tail"])

\* The sentinel that ends a chat.
SendDone ==
  /\ Alive /\ source.phase = "tail" /\ feed = <<>> /\ scenario.shape = "chat"
  /\ feed' = <<DoneLine, Blank>>
  /\ source' = [source EXCEPT !.phase = "sentinel"]
  /\ UNCHANGED <<scenario, arrived, r, out, client, trace>>

\* The answer is whole, or the connection breaks, between two lines or in one: with
\* an error ("failed"), or short, which looks like a clean end.
EndOfAnswer(how, left) ==
  /\ Alive
  /\ how = "whole" => /\ feed = <<>>
                      /\ source.phase = IF scenario.shape = "chat" THEN "sentinel" ELSE "tail"
  /\ left # <<>> => feed # <<>> /\ Head(left) \in PartsOf(Head(feed))
  /\ feed' = left
  /\ source' = [source EXCEPT !.phase = "over", !.kind = how]
  /\ UNCHANGED <<scenario, arrived, r, out, client, trace>>

-----------------------------------------------------------------------------
(* The agent and the caller. *)

\* Read, while its buffer is empty: a line is read, rewritten and recorded.
ReadLine ==
  /\ Streams /\ client.result = "open" /\ out = <<>> /\ ~r.done /\ feed # <<>>
  /\ Head(feed).kind \notin Partial
  /\ LET line == Head(feed)
         x == Read([r |-> r, out |-> <<>>], line)
     IN  /\ r' = x.r
         /\ out' = x.out
         /\ trace' = [trace EXCEPT !.blocks = Assembled(@, line)]
         /\ arrived' = IF line.kind = "data" THEN Arriving(line.event) ELSE arrived
  /\ feed' = Tail(feed)
  /\ UNCHANGED <<scenario, source, client>>

\* The error of the reading was not io.EOF.
Failed == source.kind = "failed"

\* Read finds the end, behind a line cut short perhaps: what is held goes out, and an
\* error is kept until the buffer has been delivered.
ReadEnd ==
  /\ Streams /\ client.result = "open" /\ out = <<>> /\ ~r.done
  /\ source.phase = "over" /\ (feed # <<>> => Head(feed).kind \in Partial)
  /\ LET before == [r |-> r, out |-> <<>>]
         x == IF feed = <<>> THEN before ELSE Read(before, Head(feed))
         y == Flushed(x)
         joined == feed = <<StubLine>> /\ y.out # x.out
     IN  /\ r' = [ReportUsage(y.r) EXCEPT !.done = TRUE, !.readErr = Failed, !.joined = joined]
         /\ out' = IF joined THEN Joined(y.out) ELSE y.out
  /\ feed' = <<>>
  /\ UNCHANGED <<scenario, source, arrived, client, trace>>

\* The reverse proxy copies the buffer to the caller.
Deliver ==
  /\ client.result = "open" /\ out # <<>>
  /\ client' = Taken(client, out)
  /\ out' = <<>>
  /\ UNCHANGED <<scenario, source, feed, arrived, r, trace>>

\* Read has nothing left to deliver: the end, or the failure kept for it.  The
\* reverse proxy closes the body, and with it the recorder.
Finish ==
  /\ Streams /\ client.result = "open" /\ out = <<>> /\ r.done
  /\ client' = [client EXCEPT !.result = IF r.readErr THEN "error" ELSE "end"]
  /\ r' = ReportUsage(r)
  /\ trace' = Filed(trace)
  /\ UNCHANGED <<scenario, source, feed, arrived, out>>

\* The caller goes away in the middle: the body is closed as it stands.
HangUp ==
  /\ Streams /\ client.result = "open"
  /\ client' = [client EXCEPT !.result = "hung up"]
  /\ r' = ReportUsage(r)
  /\ trace' = Filed(trace)
  /\ UNCHANGED <<scenario, source, feed, arrived, out>>

\* reportToolCalls: a call's input is expanded in place and told of, before the
\* document that holds it is expanded.
CallReported(rr, b) ==
  LET whole == Restored(Known, arrived.args[b])
  IN  Tell([rr EXCEPT !.toolName = b], whole, whole # arrived.args[b])

\* The calls of a document, in its order.
CallsReported(rr) ==
  LET after[b \in 0..MaxBlocks] ==
        IF b = 0 THEN rr
        ELSE IF b - 1 \in arrived.tools THEN CallReported(after[b - 1], b - 1) ELSE after[b - 1]
  IN  after[MaxBlocks]

\* A buffered answer: read whole or refused, reported, expanded.
Buffered ==
  /\ ~Streams /\ client.result = "open" /\ source.phase = "over"
  /\ IF source.kind # "whole"
     THEN /\ client' = [client EXCEPT !.result = "error"]
          /\ UNCHANGED r
     ELSE LET inPlace == [b \in Indices |-> IF b \in arrived.tools
                                            THEN Restored(Known, arrived.args[b]) ELSE <<>>]
          IN  /\ client' = [client EXCEPT
                   !.result = "end",
                   !.text = [b \in Indices |-> Expanded(Known, arrived.text[b])],
                   !.args = [b \in Indices |-> Restored(Known, inPlace[b])]]
              /\ r' = CallsReported([r EXCEPT !.usage = <<<<1, 1>>>>])
  /\ trace' = Filed(trace)
  /\ UNCHANGED <<scenario, source, feed, arrived, out>>

Next ==
  \/ SendHead \/ SendBlockStop \/ SendPing \/ SendTail \/ SendDone
  \/ \E kind \in {"text", "tool"} : SendBlockStart(kind)
  \/ \E piece \in scenario.pieces : SendText(piece)
  \/ \E fragment \in scenario.fragments : SendFragment(fragment)
  \/ \E how \in {"whole", "short", "failed"}, left \in Remains : EndOfAnswer(how, left)
  \/ ReadLine \/ ReadEnd \/ Deliver \/ Finish \/ HangUp \/ Buffered

Spec == Init /\ [][Next]_vars

-----------------------------------------------------------------------------
(* Properties. *)

Kinds == {"none", "message_start", "text_start", "tool_start", "text_delta",
          "json_delta", "block_stop", "ping", "message_delta"}

\* Every variable keeps its type; nothing is held for no block.
TypeOK ==
  /\ scenario \in Scenarios
  /\ source.phase \in {"head", "blocks", "tail", "sentinel", "over"}
  /\ source.open \in Indices \union {None}
  /\ r.block \in Indices \union {None}
  /\ r.template.type \in {"none", "text_delta"}
  /\ r.argumentsIn.type \in {"none", "json_delta"}
  /\ r.pending # <<>> => r.template # NoEvent
  /\ {r.done, r.readErr, r.held, r.observing, r.joined} \subseteq BOOLEAN
  /\ client.event.type \in Kinds
  /\ client.result \in {"open", "end", "error", "hung up"}
  /\ \A i \in DOMAIN out : out[i].kind \in {"name", "data", "id", "blank", "done"} \union Partial

\* What flush released of a block that had no stop, behind a line that had no end, is
\* not what the caller reads.
Garbled(b) == r.joined /\ ~client.done /\ b \notin client.stopped

\* What the caller has of a block, and the tail held back for it, are together
\* the expansion of all the text the block has had so far: no cut between two
\* events loses, doubles or moves a character, or restores less than the whole.
HeldOrDelivered ==
  Streams /\ out = <<>> /\ client.event = NoEvent /\ client.result # "hung up" =>
    \A b \in Indices : ~Garbled(b) =>
      LET held == IF Slot(r.template) = b THEN r.pending ELSE <<>>
      IN  client.text[b] \o Expanded(Known, held) = Expanded(Known, arrived.text[b])

\* A block is complete for the caller at its stop, at the sentinel of a chat or
\* at the end of the answer, be that a failure.
Complete(b) ==
  \/ b \in client.stopped
  \/ client.done
  \/ client.result \in {"end", "error"} /\ Streams /\ client.event = NoEvent
  \/ client.result = "end" /\ ~Streams

\* The caller has then the whole text and the whole arguments of the block, each
\* restored as one: streamed or buffered, split or not, a document stays one.
RestoredWhole ==
  \A b \in Indices : Complete(b) /\ ~Garbled(b) =>
    /\ client.text[b] = Expanded(Known, arrived.text[b])
    /\ client.args[b] = Restored(Known, arrived.args[b])

\* When a streamed answer has ended, wherever that was, the caller has all the text of
\* every block, restored: flush gives out what was held so that no character is lost.
HeldIsReleased ==
  client.result \in {"end", "error"} /\ Streams /\ client.event = NoEvent =>
    \A b \in Indices : client.text[b] = Expanded(Known, arrived.text[b])

\* Unless what was released joined a line cut short, every event the caller acts on
\* has data, under the name it was sent with, and no id of an earlier one; and an answer cut short by an error never ends like a
\* complete one.
SoundEvents ==
  /\ client.coherent \/ r.joined
  /\ r.joined => source.kind # "whole"
  /\ client.result = "end" => source.phase = "over" /\ source.kind # "failed"

\* The operator hears of the answer once: of its cost, as the last counts seen and
\* also when the caller goes away; and of every tool call whose arguments arrived,
\* under its own tool and with what the caller gets.
ReportedOnce ==
  LET told == {r.console[i].tool : i \in DOMAIN r.console}
  IN  /\ client.result # "open" /\ r.model =>
           Len(r.usage) = 1 /\ r.usage[1] \in {<<1, 0>>, <<1, 1>>}
      /\ told \subseteq arrived.tools
      /\ Len(r.console) = Cardinality(told)
      /\ \A i \in DOMAIN r.console :
           LET raw == arrived.args[r.console[i].tool]
           IN  /\ r.console[i].args = Restored(Known, raw)
               /\ r.console[i].restored <=> r.console[i].args # raw
      /\ \A b \in arrived.tools : Complete(b) => b \in told

\* The trace has the answer as it arrived, block by block in the order they
\* opened and with nothing restored, and is filed once, when the body is closed.
TraceVerbatim ==
  /\ trace.filed = (IF client.result = "open" THEN 0 ELSE 1)
  /\ Streams => \A i \in DOMAIN trace.blocks :
       LET block == trace.blocks[i]
       IN  /\ block.index = i - 1
           /\ block.said = (IF block.label = "tool_start" THEN arrived.args[block.index]
                             ELSE arrived.text[block.index])
=============================================================================
