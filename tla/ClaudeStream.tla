---------------------------- MODULE ClaudeStream ----------------------------
(***************************************************************************)
(* writeClaudeStreamingResponse (anthropic.go): reads the server-sent       *)
(* events of an OpenAI stream, converts each payload to Claude events with *)
(* the state claudeStreamState, and writes these to the client before it   *)
(* reads on.  The upstream may stop at any point, with or without [DONE],  *)
(* and the client may go away between two events.                          *)
(***************************************************************************)
EXTENDS Integers, FiniteSets, Sequences, SequencesExt

CONSTANTS
  Tools,        \* indexes of tool calls
  Payloads,     \* what the upstream sends, a subset of PayloadType
  MaxPayloads   \* bound: payloads of one stream

\* One delta of a tool call: does it name the function, does it carry a
\* fragment of the arguments.  A list of several converts like a list of one
\* in each of several payloads, and so do several reasoning texts.
CallType == [tool : Tools, named : BOOLEAN, args : BOOLEAN]

PayloadType ==
  [thinking : BOOLEAN, text : BOOLEAN,
   calls : {<<>>} \cup {<<c>> : c \in CallType},
   finish : {"", "stop", "length", "tool_calls"}, usage : BOOLEAN]

ASSUME StreamAssumption ==
  /\ Tools \subseteq Nat
  /\ IsFiniteSet(Tools)
  /\ Payloads \subseteq PayloadType
  /\ MaxPayloads \in Nat

NoBlock == -1
NoTool == -1

VARIABLES
  pc,        \* "read", "write", "done" or "failed"
  conv,      \* claudeStreamState
  pending,   \* the events converted and not yet written
  sawDone,   \* the local variable of that name
  eof,       \* the upstream's body has ended
  payloads,  \* how many payloads were read
  heard,     \* history: texts and reasoning texts in the order received
  argsHeard, \* history: argument fragments received for each tool
  phase, blocks, reason   \* what the client has seen, as in ClaudeProtocol

clientVars == <<phase, blocks, reason>>
heardVars == <<heard, argsHeard>>
vars == <<pc, conv, pending, sawDone, eof, payloads, heardVars, clientVars>>

\* claudeStreamState.  text and thinking are the index of the open block of
\* that kind (TextContentStarted is text # NoBlock); opened[t] is the block of a
\* started tool call and args[t] the fragments accumulated for it.
Conv0 ==
  [started |-> FALSE, text |-> NoBlock, thinking |-> NoBlock, next |-> 0,
   opened |-> [t \in Tools |-> NoBlock], args |-> [t \in Tools |-> 0],
   finish |-> "", sawTool |-> FALSE, closed |-> FALSE,
   deltaSent |-> FALSE, stopSent |-> FALSE, events |-> <<>>]

Init ==
  /\ pc = "read"
  /\ conv = Conv0
  /\ pending = <<>>
  /\ sawDone = FALSE
  /\ eof = FALSE
  /\ payloads = 0
  /\ heard = <<>>
  /\ argsHeard = [t \in Tools |-> 0]
  /\ phase = "none"
  /\ blocks = <<>>
  /\ reason = "none"
-----------------------------------------------------------------------------
(* Events.  n is how much a delta carries.                                 *)

Kind(k, t) == [kind |-> k, tool |-> t]
Start(i, k) == [type |-> "content_block_start", index |-> i, kind |-> k]
Delta(i, n) == [type |-> "content_block_delta", index |-> i, size |-> n]
Stop(i) == [type |-> "content_block_stop", index |-> i]

Emit(s, es) == [s EXCEPT !.events = @ \o es]
-----------------------------------------------------------------------------
(* The conversion, on the converter's state and the events so far.         *)

StopThinking(s) ==
  IF s.thinking = NoBlock THEN s
  ELSE [Emit(s, <<Stop(s.thinking)>>) EXCEPT !.thinking = NoBlock]

\* (Variant: the block stays the current one after its stop event.)
StopTextKeepsIndex(s) ==
  IF s.text = NoBlock THEN s ELSE Emit(s, <<Stop(s.text)>>)

StopText(s) ==
  IF s.text = NoBlock THEN s
  ELSE [Emit(s, <<Stop(s.text)>>) EXCEPT !.text = NoBlock]

MessageStarted(s) ==
  IF s.started THEN s
  ELSE [Emit(s, <<[type |-> "message_start"]>>) EXCEPT !.started = TRUE]

\* A reasoning text closes the text block and goes to the thinking block.
Thinking(s0) ==
  LET s1 == StopText(s0)
      s2 == IF s1.thinking # NoBlock THEN s1
            ELSE [Emit(s1, <<Start(s1.next, Kind("thinking", NoTool))>>)
                    EXCEPT !.thinking = s1.next, !.next = @ + 1]
  IN  Emit(s2, <<Delta(s2.thinking, 1)>>)

\* A text closes the thinking block and goes to the text block.
Text(s0) ==
  LET s1 == StopThinking(s0)
      s2 == IF s1.text # NoBlock THEN s1
            ELSE [Emit(s1, <<Start(s1.next, Kind("text", NoTool))>>)
                    EXCEPT !.text = s1.next, !.next = @ + 1]
  IN  Emit(s2, <<Delta(s2.text, 1)>>)

\* (Variant: what comes before the name is dropped.)
ToolCallFromNameOn(s0, c) ==
  LET s1 == [StopText(StopThinking(s0)) EXCEPT !.sawTool = TRUE]
      s2 == IF c.named /\ s1.opened[c.tool] = NoBlock
            THEN [Emit(s1, <<Start(s1.next, Kind("tool", c.tool))>>)
                    EXCEPT !.opened[c.tool] = s1.next, !.next = @ + 1]
            ELSE s1
  IN  IF c.args /\ s2.opened[c.tool] # NoBlock
      THEN [s2 EXCEPT !.args[c.tool] = @ + 1] ELSE s2

\* A tool call closes both; its block opens as soon as its name is known, and
\* its arguments are only accumulated.
ToolCall(s0, c) ==
  LET s1 == StopText(StopThinking(s0))
      s2 == [s1 EXCEPT !.sawTool = TRUE,
                       !.args[c.tool] = IF c.args THEN @ + 1 ELSE @]
  IN  IF c.named /\ s2.opened[c.tool] = NoBlock
      THEN [Emit(s2, <<Start(s2.next, Kind("tool", c.tool))>>)
              EXCEPT !.opened[c.tool] = s2.next, !.next = @ + 1]
      ELSE s2

\* The elements of a finite set of numbers in ascending order.
Ascending(S) ==
  CHOOSE s \in [1..Cardinality(S) -> S] : \A i, j \in DOMAIN s : i < j => s[i] < s[j]

\* What ends the tool calls, one after the other: the arguments, if any, in one
\* delta (2t), then the end of the block (2t + 1).
ToolEnds(s) ==
  LET open == {t \in Tools : s.opened[t] # NoBlock}
      order == Ascending({2 * t + 1 : t \in open}
                           \cup {2 * t : t \in {u \in open : s.args[u] > 0}})
  IN  [k \in DOMAIN order |->
         LET t == order[k] \div 2
         IN  IF order[k] % 2 = 0 THEN Delta(s.opened[t], s.args[t]) ELSE Stop(s.opened[t])]

\* (Variant: every block is closed again each time.)
FinalContentRepeats(s0) ==
  LET s1 == StopText(StopThinking(s0))
  IN  [Emit(s1, ToolEnds(s1)) EXCEPT !.closed = TRUE]

\* appendClaudeFinalContentEvents: closes every block, the first time only.
FinalContent(s0) ==
  LET s1 == StopText(StopThinking(s0))
  IN  IF s0.closed THEN s0 ELSE [Emit(s1, ToolEnds(s1)) EXCEPT !.closed = TRUE]

\* (Variant: what the upstream says counts, if it says something.)
StopReasonAsSaid(s) ==
  CASE s.finish = "length" -> "max_tokens"
    [] s.finish = "tool_calls" \/ (s.finish = "" /\ s.sawTool) -> "tool_use"
    [] OTHER -> "end_turn"

\* effectiveOpenAIFinishReason, mapped by mapOpenAIFinishReasonToClaude.
StopReason(s) ==
  CASE s.sawTool \/ s.finish = "tool_calls" -> "tool_use"
    [] ~s.sawTool /\ s.finish = "length" -> "max_tokens"
    [] OTHER -> "end_turn"

\* appendClaudeMessageDeltaAndStop: each of the two at most once.
DeltaAndStop(s) ==
  LET delta == IF s.deltaSent THEN <<>>
               ELSE <<[type |-> "message_delta", reason |-> StopReason(s)]>>
      stop == IF s.stopSent THEN <<>> ELSE <<[type |-> "message_stop"]>>
  IN  [Emit(s, delta \o stop) EXCEPT !.deltaSent = TRUE, !.stopSent = TRUE]

\* convertOpenAIStreamPayloadToClaudeEvents of a chunk.
Convert(s0, p) ==
  LET s1 == MessageStarted([s0 EXCEPT !.events = <<>>])
      s2 == IF p.thinking THEN Thinking(s1) ELSE s1
      s3 == IF p.text THEN Text(s2) ELSE s2
      s4 == IF p.calls = <<>> THEN s3 ELSE ToolCall(s3, p.calls[1])
      s5 == IF p.finish = "" THEN s4
            ELSE FinalContent([s4 EXCEPT !.finish = p.finish])
  IN  IF s5.finish # "" /\ p.usage THEN DeltaAndStop(s5) ELSE s5

\* finalizeClaudeStream.
Finalize(s) == DeltaAndStop(FinalContent([s EXCEPT !.events = <<>>]))
-----------------------------------------------------------------------------
(* The loop of writeClaudeStreamingResponse.                               *)

\* What is read has been converted to s; its events are written next.
Converted(s) ==
  /\ conv' = [s EXCEPT !.events = <<>>]
  /\ pending' = s.events
  /\ pc' = "write"

\* A chunk.  After the finish reason the upstream sends no content any more,
\* only usage; and nothing after [DONE].
ReadPayload(p) ==
  /\ pc = "read"
  /\ ~sawDone
  /\ payloads < MaxPayloads
  /\ conv.finish # "" => ~p.thinking /\ ~p.text /\ p.calls = <<>> /\ p.finish = ""
  /\ payloads' = payloads + 1
  /\ Converted(Convert(conv, p))
  /\ heard' = heard \o (IF p.thinking THEN <<"thinking">> ELSE <<>>)
                    \o (IF p.text THEN <<"text">> ELSE <<>>)
  /\ argsHeard' = [t \in Tools |->
       IF p.calls # <<>> /\ p.calls[1].tool = t /\ p.calls[1].args
       THEN argsHeard[t] + 1 ELSE argsHeard[t]]
  /\ UNCHANGED <<sawDone, eof, clientVars>>

\* The payload [DONE].
ReadDone ==
  /\ pc = "read"
  /\ ~sawDone
  /\ sawDone' = TRUE
  /\ Converted(Finalize(conv))
  /\ UNCHANGED <<eof, payloads, heardVars, clientVars>>

\* (Variant: only [DONE] closes the message.)
ReadEOFJustReturns ==
  /\ pc = "read"
  /\ eof' = TRUE
  /\ Converted(conv)
  /\ UNCHANGED <<sawDone, payloads, heardVars, clientVars>>

\* The end of the body: the message is closed here unless [DONE] has done so.
ReadEOF ==
  /\ pc = "read"
  /\ eof' = TRUE
  /\ Converted(IF sawDone THEN conv ELSE Finalize(conv))
  /\ UNCHANGED <<sawDone, payloads, heardVars, clientVars>>

\* The body breaks off with an error, or a payload is no JSON.
ReadFails ==
  /\ pc = "read"
  /\ pc' = "failed"
  /\ UNCHANGED <<conv, pending, sawDone, eof, payloads, heardVars, clientVars>>

\* The client's view of one event.
Sees(e) ==
  CASE e.type = "message_start" ->
         phase' = "open" /\ UNCHANGED <<blocks, reason>>
    [] e.type = "content_block_start" ->
         /\ blocks' = [i \in DOMAIN blocks \cup {e.index} |->
              IF i = e.index THEN [kind |-> e.kind, open |-> TRUE, size |-> 0]
              ELSE blocks[i]]
         /\ UNCHANGED <<phase, reason>>
    [] e.type = "content_block_delta" ->
         /\ blocks' = [blocks EXCEPT ![e.index].size = @ + e.size]
         /\ UNCHANGED <<phase, reason>>
    [] e.type = "content_block_stop" ->
         /\ blocks' = [blocks EXCEPT ![e.index].open = FALSE]
         /\ UNCHANGED <<phase, reason>>
    [] e.type = "message_delta" ->
         reason' = e.reason /\ UNCHANGED <<phase, blocks>>
    [] e.type = "message_stop" ->
         phase' = "ended" /\ UNCHANGED <<blocks, reason>>

\* writeClaudeSSEEvents, event by event.
WriteEvent ==
  /\ pc = "write"
  /\ pending # <<>>
  /\ Sees(Head(pending))
  /\ pending' = Tail(pending)
  /\ UNCHANGED <<pc, conv, sawDone, eof, payloads, heardVars>>

WriteFails ==
  /\ pc = "write"
  /\ pending # <<>>
  /\ pc' = "failed"
  /\ UNCHANGED <<conv, pending, sawDone, eof, payloads, heardVars, clientVars>>

\* All is written: the loop reads on, or returns after the end of the body.
WriteDone ==
  /\ pc = "write"
  /\ pending = <<>>
  /\ pc' = IF eof THEN "done" ELSE "read"
  /\ UNCHANGED <<conv, pending, sawDone, eof, payloads, heardVars, clientVars>>

Next ==
  \/ \E p \in Payloads : ReadPayload(p)
  \/ ReadDone \/ ReadEOF \/ ReadFails
  \/ WriteEvent \/ WriteFails \/ WriteDone

Spec == Init /\ [][Next]_vars
-----------------------------------------------------------------------------
\* The blocks the converter believes to be open.
Open(s) ==
  ({s.text, s.thinking} \cup IF s.closed THEN {} ELSE {s.opened[t] : t \in Tools})
    \ {NoBlock}

\* Between two payloads the client's open blocks are those the converter
\* believes to be open, each under its own index: the two may only drift apart
\* when an event is forgotten or sent for the wrong block.
BlocksAgree ==
  pc = "read" =>
    /\ {i \in DOMAIN blocks : blocks[i].open} = Open(conv)
    /\ DOMAIN blocks = 0..(conv.next - 1)

\* The texts and reasoning texts shown, block after block.
Shown ==
  FlattenSeq([k \in 1..Cardinality(DOMAIN blocks) |->
    IF blocks[k - 1].kind.kind = "tool" THEN <<>>
    ELSE [n \in 1..blocks[k - 1].size |-> blocks[k - 1].kind.kind]])

\* The block of a tool call holds all of its arguments, each fragment once, also those
\* that come before the name of the call.
ArgumentsComplete ==
  phase = "ended" =>
    \A i \in DOMAIN blocks : blocks[i].kind.kind = "tool" =>
      blocks[i].size = argsHeard[blocks[i].kind.tool]

\* A client that sees the message end has seen everything the upstream said,
\* in that order, and all arguments of each tool call that has a name, however
\* text, reasoning and tool calls alternate and however the upstream ends.
ContentComplete == (phase = "ended" => Shown = heard) /\ ArgumentsComplete

\* A message with a tool call tells the client to run it, also when the
\* upstream says "stop" or "length" or nothing.
ToolCallsAreAnnounced ==
  phase = "ended" /\ (\E i \in DOMAIN blocks : blocks[i].kind.kind = "tool") =>
    reason = "tool_use"

\* A stream that returns without an error has ended its message.
DoneMeansEnded == pc = "done" => phase = "ended"

Protocol == INSTANCE ClaudeProtocol
  WITH Kinds <- {Kind(k, NoTool) : k \in {"text", "thinking"}}
                  \cup {Kind("tool", t) : t \in Tools},
       Reasons <- {"tool_use", "max_tokens", "end_turn"},
       NoReason <- "none"

\* Whatever the upstream sends and wherever it stops, the events are a stream
\* a Claude client can follow.
ImplementsClaudeProtocol == Protocol!Spec
=============================================================================
