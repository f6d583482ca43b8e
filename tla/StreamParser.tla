------------------------------ MODULE StreamParser ------------------------------
(***************************************************************************)
(* One request to a model: a goroutine of the llm client turns the answer  *)
(* of the provider into stream events on an unbuffered channel             *)
(* (llm/anthropic.go, llm/openai.go), and the loop of query.Query feeds    *)
(* them to a streamParser, which builds the assistant message and reports  *)
(* texts and tool calls on the way (query/stream_parser.go).               *)
(*                                                                         *)
(* The provider is external.  Its answer is a sequence of blocks: text,    *)
(* thinking, redacted thinking, tool calls with their input in pieces, and *)
(* blocks of a kind the client has no case for.  It may be cut at any      *)
(* point, with an error or without one.  The dialect is one of             *)
(*   "anthropic"   blocks are opened and closed by events of their own;    *)
(*   "openai"      no such events, the id of a tool call comes with its    *)
(*                 first piece only, as the OpenAI API sends it;           *)
(*   "openai_ids"  likewise, but every piece repeats the id.               *)
(* A text or thinking delta is a number of its own, the JSON of an input   *)
(* its opening piece "{" and its closing piece "}", or both in one.        *)
(***************************************************************************)
EXTENDS Naturals, Sequences, SequencesExt

CONSTANTS
  Dialects,       \* providers to consider, of those above
  HasFallback,    \* params.FallbackModel # ""
  MaxBlocks,      \* bound: blocks of an answer
  MaxEvents       \* bound: events of an answer

ASSUME DialectsAssumption == Dialects \subseteq {"anthropic", "openai", "openai_ids"}

VARIABLES
  dialect,    \* provider of this request
  model,      \* "main" or "fallback": the model of the client
  answer,     \* where the provider is: "none" (no stream), "start", "blocks", "tail", "closed"
  open,       \* block under way: [kind, index, json]
  sent,       \* events sent so far
  ch,         \* the event its goroutine is blocked on sending, if any
  ctxDone,    \* ctx.Err() # nil
  sp,         \* the streamParser
  outcome     \* of the loop: "reading", "message", "ptl", "error", "aborted"

provider == <<dialect, answer, open, sent>>
vars == <<dialect, model, answer, open, sent, ch, ctxDone, sp, outcome>>

NoUsage == [in |-> 0, out |-> 0]
NoBlock == [kind |-> "none", index |-> 0, json |-> ""]

BlockKinds == {"text", "tool_use", "thinking", "redacted_thinking", "other"}

(* A StreamEvent: its type, the kind of its block or error, the block it   *)
(* belongs to, and what it carries; id and text are 0 when it has none.    *)
Plain == [type |-> "message_stop", kind |-> "none", index |-> 0, id |-> 0,
          text |-> 0, json |-> "", usage |-> NoUsage]

(* The content of an assistant message: blocks with their texts, or the    *)
(* id and the input of a tool call.                                        *)
Block(kind, parts, id, input) == [kind |-> kind, parts |-> parts, id |-> id, input |-> input]

NewParser ==
  [currentText |-> <<>>, currentToolUse |-> <<>>, currentToolInputJSON |-> "",
   currentThinking |-> <<>>, currentRedacted |-> 0, currentBlockType |-> "none",
   currentUsage |-> NoUsage, content |-> <<>>, hasToolUse |-> FALSE, out |-> <<>>]

Init ==
  /\ dialect \in Dialects
  /\ model = "main" /\ answer = "none" /\ open = NoBlock /\ sent = <<>> /\ ch = <<>>
  /\ ctxDone = FALSE /\ sp = NewParser /\ outcome = "reading"

-----------------------------------------------------------------------------
(* The request (query.go:141-160).                                         *)

OpenStream ==
  /\ outcome = "reading" /\ answer = "none"
  /\ answer' = "start" /\ sp' = NewParser
  /\ UNCHANGED <<dialect, model, open, sent, ch, ctxDone, outcome>>

(* The provider is overloaded: the same request to the fallback model, as  *)
(* often as that is overloaded too.                                        *)
UseFallback ==
  /\ outcome = "reading" /\ answer = "none" /\ dialect = "anthropic" /\ HasFallback
  /\ model' = "fallback"
  /\ UNCHANGED <<dialect, answer, open, sent, ch, ctxDone, sp, outcome>>

RequestFails ==
  /\ outcome = "reading" /\ answer = "none"
  /\ outcome' \in {"ptl", "error"}
  /\ UNCHANGED <<dialect, model, answer, open, sent, ch, ctxDone, sp>>

-----------------------------------------------------------------------------
(* The provider, and the goroutine of the client that sends its events.    *)

Send(e) ==
  /\ ch = <<>> /\ Len(sent) < MaxEvents
  /\ ch' = <<e>> /\ sent' = Append(sent, e)
  /\ UNCHANGED <<dialect, model, ctxDone, sp, outcome>>

Serial == Len(sent) + 1
Blocks == Cardinality({e.index : e \in ToSet(sent)} \ {0})

(* What may follow of an input, and what two parts make; "bad" is no JSON. *)
NextJSON(json) == CASE json = "" -> {"{", "{}"} [] json = "{" -> {"}"} [] OTHER -> {}
Joined(json, piece) ==
  CASE json = "" -> piece [] piece = "" -> json
    [] json = "{" /\ piece = "}" -> "{}" [] OTHER -> "bad"

MessageStart ==
  /\ answer = "start" /\ dialect = "anthropic"
  /\ Send([Plain EXCEPT !.type = "message_start", !.usage = [in |-> 2, out |-> 1]])
  /\ answer' = "blocks" /\ UNCHANGED open

BlockStart ==
  /\ answer = "blocks" /\ dialect = "anthropic" /\ open = NoBlock /\ Blocks < MaxBlocks
  /\ \E k \in BlockKinds :
       /\ Send([Plain EXCEPT !.type = "content_block_start", !.kind = k,
                             !.index = Blocks + 1,
                             !.id = IF k = "tool_use" THEN Blocks + 1 ELSE 0,
                             !.text = IF k = "redacted_thinking" THEN Serial ELSE 0])
       /\ open' = [kind |-> k, index |-> Blocks + 1, json |-> ""]
  /\ UNCHANGED answer

BlockDelta ==
  /\ answer = "blocks" /\ dialect = "anthropic"
  /\ \/ /\ open.kind \in {"text", "thinking"}
        /\ Send([Plain EXCEPT !.type = "content_block_delta", !.kind = open.kind,
                              !.index = open.index, !.text = Serial])
        /\ UNCHANGED open
     \/ /\ open.kind \in {"tool_use", "other"}
        /\ \E piece \in NextJSON(open.json) :
             /\ Send([Plain EXCEPT !.type = "content_block_delta", !.kind = open.kind,
                                   !.index = open.index, !.json = piece])
             /\ open' = [open EXCEPT !.json = Joined(@, piece)]
  /\ UNCHANGED answer

(* A block is closed, be it complete or cut by the token limit.            *)
BlockStop ==
  /\ answer = "blocks" /\ dialect = "anthropic" /\ open # NoBlock
  /\ Send([Plain EXCEPT !.type = "content_block_stop", !.index = open.index])
  /\ open' = NoBlock /\ UNCHANGED answer

TextDelta ==
  /\ answer \in {"start", "blocks"} /\ dialect # "anthropic"
  /\ Send([Plain EXCEPT !.type = "assistant_text", !.text = Serial])
  /\ answer' = "blocks" /\ UNCHANGED open

(* The name and the id of a call come with its first piece, which may      *)
(* already hold some of the input; index is in every piece.                *)
ToolCallStart ==
  /\ answer \in {"start", "blocks"} /\ dialect # "anthropic"
  /\ open.json # "{" /\ Blocks < MaxBlocks
  /\ \E piece \in {""} \cup NextJSON("") :
       /\ Send([Plain EXCEPT !.type = "assistant_tool_use", !.kind = "tool_use",
                             !.index = Blocks + 1, !.id = Blocks + 1, !.json = piece])
       /\ open' = [kind |-> "tool_use", index |-> Blocks + 1, json |-> piece]
  /\ answer' = "blocks"

ToolCallDelta ==
  /\ answer = "blocks" /\ dialect # "anthropic" /\ open # NoBlock
  /\ \E piece \in NextJSON(open.json) :
       /\ Send([Plain EXCEPT !.type = "assistant_tool_use", !.index = open.index,
                             !.id = IF dialect = "openai_ids" THEN open.index ELSE 0,
                             !.json = piece])
       /\ open' = [open EXCEPT !.json = Joined(@, piece)]
  /\ UNCHANGED answer

MessageDelta ==
  /\ answer = "blocks" /\ (dialect = "anthropic" => open = NoBlock)
  /\ Send([Plain EXCEPT !.type = "message_delta",
                        !.usage = IF dialect = "anthropic" THEN [in |-> 0, out |-> 2] ELSE NoUsage])
  /\ answer' = "tail" /\ UNCHANGED open

LastEvent ==
  /\ answer = "tail"
  /\ Send(IF dialect = "anthropic" THEN Plain
          ELSE [Plain EXCEPT !.type = "usage", !.usage = [in |-> 2, out |-> 2]])
  /\ answer' = "closed" /\ UNCHANGED open

(* The connection breaks, or the context of the request is cancelled: an   *)
(* error event, and no other.                                              *)
StreamError ==
  /\ answer \in {"start", "blocks", "tail"}
  /\ \E k \in {"plain", "prompt_too_long"} : Send([Plain EXCEPT !.type = "error", !.kind = k])
  /\ answer' = "closed" /\ UNCHANGED open

(* The answer ends without an error, wherever it is.                       *)
StreamEnds ==
  /\ answer \in {"start", "blocks", "tail"} /\ ch = <<>>
  /\ answer' = "closed"
  /\ UNCHANGED <<dialect, model, open, sent, ch, ctxDone, sp, outcome>>

CancelContext ==
  /\ ~ctxDone /\ outcome = "reading"
  /\ ctxDone' = TRUE
  /\ UNCHANGED <<dialect, model, answer, open, sent, ch, sp, outcome>>

-----------------------------------------------------------------------------
(* The parser.  It works on sp; out is what it reports to the engine.      *)

(* An input that does not parse leaves the one of the block's start.       *)
FinalizeToolUse(p) ==
  IF p.currentToolUse = <<>> THEN p
  ELSE LET tool  == Head(p.currentToolUse)
           input == IF p.currentToolInputJSON = "{}" THEN "{}" ELSE tool.input
           block == Block("tool_use", <<>>, tool.id, input)
       IN  [p EXCEPT !.content = Append(@, block), !.out = Append(@, block),
                     !.currentToolUse = <<>>, !.hasToolUse = TRUE]

AddText(p) ==
  [p EXCEPT !.content = Append(@, Block("text", p.currentText, 0, "none")), !.currentText = <<>>]

(* What the stream left open: all of an OpenAI answer, the last block of   *)
(* an Anthropic one that was cut.                                          *)
FlushOpenAI(p) ==
  LET q == IF p.currentText # <<>> THEN AddText(p) ELSE p
  IN  [FinalizeToolUse(q) EXCEPT !.currentToolInputJSON =
         IF q.currentToolUse # <<>> THEN "" ELSE @]

MergeUsage(u, v) ==
  [in |-> IF v.in # 0 THEN v.in ELSE u.in, out |-> IF v.out # 0 THEN v.out ELSE u.out]

Shown(p, e) == Append(p.out, Block("text", <<e.text>>, 0, "none"))

(* The loop takes an event, unless its context is over by now.             *)
Takes(types) ==
  /\ outcome = "reading" /\ ~ctxDone /\ ch # <<>> /\ Head(ch).type \in types
  /\ ch' = <<>>
  /\ UNCHANGED <<provider, model, ctxDone>>

OnUsage ==
  /\ Takes({"message_start", "usage", "message_delta", "message_stop"})
  /\ sp' = [sp EXCEPT !.currentUsage = MergeUsage(@, Head(ch).usage)]
  /\ UNCHANGED outcome

OnBlockStart ==
  LET e == Head(ch)
      p == [sp EXCEPT !.currentBlockType = e.kind] IN
  /\ Takes({"content_block_start"})
  /\ sp' = CASE e.kind = "text" -> [p EXCEPT !.currentText = <<>>]
             [] e.kind = "tool_use" ->
                  [p EXCEPT !.currentToolUse = <<[id |-> e.id, input |-> "start"]>>,
                            !.currentToolInputJSON = ""]
             [] e.kind = "thinking" -> [p EXCEPT !.currentThinking = <<>>]
             [] e.kind = "redacted_thinking" -> [p EXCEPT !.currentRedacted = e.text]
             [] OTHER -> p
  /\ UNCHANGED outcome

OnBlockDelta ==
  LET e == Head(ch) IN
  /\ Takes({"content_block_delta"})
  /\ sp' = CASE e.kind = "text" ->
                  [sp EXCEPT !.currentText = Append(@, e.text), !.out = Shown(sp, e)]
             [] e.json # "" /\ sp.currentToolUse # <<>> ->
                  [sp EXCEPT !.currentToolInputJSON = Joined(@, e.json)]
             [] e.kind = "thinking" -> [sp EXCEPT !.currentThinking = Append(@, e.text)]
             [] OTHER -> sp
  /\ UNCHANGED outcome

OnBlockStop ==
  LET p == CASE sp.currentBlockType = "tool_use" ->
                  [FinalizeToolUse(sp) EXCEPT !.currentToolInputJSON = ""]
             [] sp.currentBlockType = "thinking" ->
                  [sp EXCEPT !.content = Append(@, Block("thinking", sp.currentThinking, 0, "none")),
                             !.currentThinking = <<>>]
             [] sp.currentBlockType = "redacted_thinking" ->
                  [sp EXCEPT !.content = Append(@, Block("redacted_thinking", <<sp.currentRedacted>>, 0, "none")),
                             !.currentRedacted = 0]
             [] OTHER -> AddText(sp) IN
  /\ Takes({"content_block_stop"})
  /\ sp' = [p EXCEPT !.currentBlockType = "none"]
  /\ UNCHANGED outcome

OnText ==
  /\ Takes({"assistant_text"})
  /\ sp' = [sp EXCEPT !.currentText = Append(@, Head(ch).text), !.out = Shown(sp, Head(ch))]
  /\ UNCHANGED outcome

\* Mutant: the call under way is dropped when another starts, as it once was
\* (query_test.go:420).
OverwriteToolUse ==
  LET e == Head(ch) IN
  /\ Takes({"assistant_tool_use"})
  /\ sp' = IF sp.currentToolUse # <<>> /\ Head(sp.currentToolUse).id = e.id
           THEN [sp EXCEPT !.currentToolInputJSON = Joined(@, e.json)]
           ELSE [sp EXCEPT !.currentToolUse = <<[id |-> e.id, input |-> "nil"]>>,
                           !.currentToolInputJSON = e.json]
  /\ UNCHANGED outcome

(* Another id than that of the call under way starts a call.               *)
OnToolUse ==
  LET e == Head(ch) IN
  /\ Takes({"assistant_tool_use"})
  /\ sp' = IF sp.currentToolUse # <<>> /\ Head(sp.currentToolUse).id = e.id
           THEN [sp EXCEPT !.currentToolInputJSON = Joined(@, e.json)]
           ELSE [FinalizeToolUse(sp) EXCEPT
                   !.currentToolUse = <<[id |-> e.id, input |-> "nil"]>>,
                   !.currentToolInputJSON = e.json]
  /\ UNCHANGED outcome

OnError ==
  /\ Takes({"error"})
  /\ outcome' = IF Head(ch).kind = "prompt_too_long" THEN "ptl" ELSE "error"
  /\ UNCHANGED sp

(* The next event finds the context over: the loop is left, whatever it    *)
(* is, and the goroutine of the client may stay behind with what it sends. *)
Abort ==
  /\ outcome = "reading" /\ ctxDone /\ ch # <<>>
  /\ ch' = <<>> /\ outcome' = "aborted"
  /\ UNCHANGED <<provider, model, ctxDone, sp>>

(* The channel is closed: a message, whatever of it has arrived.           *)
StreamOver ==
  /\ outcome = "reading" /\ answer = "closed" /\ ch = <<>>
  /\ sp' = FlushOpenAI(sp) /\ outcome' = "message"
  /\ UNCHANGED <<provider, model, ch, ctxDone>>

Next ==
  \/ OpenStream \/ UseFallback \/ RequestFails
  \/ MessageStart \/ BlockStart \/ BlockDelta \/ BlockStop
  \/ TextDelta \/ ToolCallStart \/ ToolCallDelta
  \/ MessageDelta \/ LastEvent \/ StreamError \/ StreamEnds \/ CancelContext
  \/ OnUsage \/ OnBlockStart \/ OnBlockDelta \/ OnBlockStop
  \/ OnText \/ OnToolUse \/ OnError \/ Abort \/ StreamOver

Spec == Init /\ [][Next]_vars

-----------------------------------------------------------------------------
(* Properties.                                                             *)

(* What the events of an answer hold of block i: its kind, its texts (those *)
(* of block 0 are all that an OpenAI answer says) and whether its input is *)
(* complete.                                                               *)
EventsOf(es, i) == {e \in ToSet(es) : e.index = i}
KindOf(es, i)   == (CHOOSE e \in EventsOf(es, i) : e.type = "content_block_start").kind
TextsOf(es, i)  == FlattenSeq([n \in DOMAIN es |->
                     IF es[n].index = i /\ es[n].text # 0 THEN <<es[n].text>> ELSE <<>>])
Pieces(es, i)   == {e.json : e \in EventsOf(es, i)}
InputOf(es, i, start) ==
  IF "{}" \in Pieces(es, i) \/ {"{", "}"} \subseteq Pieces(es, i) THEN "{}" ELSE start
IsClosed(es, i) == \E e \in EventsOf(es, i) : e.type = "content_block_stop"

(* What block i is in a message, and whether it is there: a block that was *)
(* closed, and of the one that was cut its text or its call.               *)
AnswerBlock(es, i) ==
  LET kind == KindOf(es, i) IN
  CASE kind = "tool_use" -> Block(kind, <<>>, i, InputOf(es, i, "start"))
    [] kind = "other"    -> Block("text", <<>>, 0, "none")
    [] OTHER             -> Block(kind, TextsOf(es, i), 0, "none")
Keeps(es, i) ==
  \/ IsClosed(es, i) \/ KindOf(es, i) = "tool_use"
  \/ KindOf(es, i) = "text" /\ TextsOf(es, i) # <<>>

BlocksOfAnswer(es, n) == FlattenSeq([i \in 1 .. n |->
                           IF Keeps(es, i) THEN <<AnswerBlock(es, i)>> ELSE <<>>])
CallsOfAnswer(es, n)  == [i \in 1 .. n |-> Block("tool_use", <<>>, i, InputOf(es, i, "nil"))]
Calls(content)        == FlattenSeq([j \in DOMAIN content |->
                           IF content[j].kind = "tool_use" THEN <<content[j]>> ELSE <<>>])
TextOf(content)       == FlattenSeq([j \in DOMAIN content |->
                           IF content[j].kind = "text" THEN content[j].parts ELSE <<>>])

(* Whatever order the blocks come in, however their pieces are cut and     *)
(* wherever the answer ends, the message is the answer: all blocks in      *)
(* their order, and of an OpenAI answer all of its text and its calls in   *)
(* their order, each with its whole input and no other's.  This needs ids  *)
(* in all pieces of a call.  What the engine was told agrees with it.      *)
MessageFaithful ==
  outcome = "message" =>
    /\ dialect = "anthropic"  => sp.content = BlocksOfAnswer(sent, Blocks)
    /\ dialect = "openai_ids" => Calls(sp.content) = CallsOfAnswer(sent, Blocks)
    /\ dialect # "anthropic"  => TextOf(sp.content) = TextsOf(sent, 0)
    /\ Calls(sp.out) = Calls(sp.content) /\ TextOf(sp.out) = TextOf(sp.content)
    /\ sp.hasToolUse <=> Calls(sp.content) # <<>>
    /\ \A e \in ToSet(sent) : e.usage.out = 2 => sp.currentUsage = [in |-> 2, out |-> 2]

=================================================================================
