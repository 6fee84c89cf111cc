----------------------------- MODULE ClaudeTurn -----------------------------
(***************************************************************************)
(* One turn of a Claude conversation through the proxy: the client offers   *)
(* its tools (their schemas are the subject of ToolSchemas), the reply of   *)
(* the upstream reaches the client streamed (ClaudeStream) or complete          *)
(* (convertOpenAINonStreamResponseToClaude), the client runs the tools it   *)
(* names, and its next request, the whole conversation, is converted back   *)
(* (convertClaudeMessagesRequestToOpenAI).  The proxy keeps nothing between *)
(* the two requests.                                                        *)
(***************************************************************************)
EXTENDS ClaudeStream, ToolSchemas

CONSTANTS
  RawId,        \* the upstream's id of each tool call
  Cleaned,      \* what sanitizeClaudeToolID leaves of an id, "" if nothing
  FreshId,      \* the id generated for a tool call without a usable one
  Replies,      \* complete replies of the upstream, a subset of ReplyType
  Earlier,      \* what may precede the turn: system prompt and messages
  Additions,    \* what the user may write beside the tool results
  ToolLists,    \* lists of tools the client may offer
  ToolChoices,      \* the client's choice among the tools
  Values,       \* arguments to tell parameter schemas apart, without nulls
  ResultItems   \* contents of a tool result, sequences of "text", "image", "other"

\* A body is a sequence of opaque pieces; a blank text has the body <<>>.
Part(type, id, body) == [type |-> type, id |-> id, body |-> body]
Pieces(piece, n) == [k \in 1..n |-> piece]

\* openAIMessage: content is a list of items, of which a plain text is one.
ReplyType ==
  [reasoning : Seq({"thinking"}),
   content : Seq([type : {"text", "reasoning", "tool_calls"}, tool : Tools]),
   calls : Seq([tool : Tools, args : Nat]),
   finish : {"", "stop", "length", "tool_calls"}]

ASSUME TurnAssumption ==
  /\ \A t \in Tools : {RawId[t], FreshId[t]} \subseteq DOMAIN Cleaned
  /\ \A i \in DOMAIN Cleaned :
       Cleaned[i] # "" => Cleaned[i] \in DOMAIN Cleaned /\ Cleaned[Cleaned[i]] = Cleaned[i]
  /\ \A t \in Tools : Cleaned[FreshId[t]] = FreshId[t]
  /\ Replies \subseteq ReplyType

\* sanitizeClaudeToolID of an id of the upstream.  (An id that the client sends
\* is one the proxy made, or another service's; Claude ids are clean.)
SanitizeId(t) == IF Cleaned[RawId[t]] = "" THEN FreshId[t] ELSE Cleaned[RawId[t]]

VARIABLES
  streamed,    \* the "stream" of the request
  turn,        \* "new", "offered", "asked", "replied" or "sent"
  tools,       \* the tools of the client's request and its choice
  offered,     \* the same as the upstream gets it
  message,     \* the reply the client has: its content and stop_reason
  request,     \* the next request as the upstream gets it
  answered,    \* history: the tool results the client has sent
  said,        \* history: the upstream's complete reply
  called,      \* history: streamed tool calls, in the order they were named
  mentioned    \* history: streamed tool calls, named or not

toolVars == <<tools, offered>>
turnVars == <<streamed, turn, toolVars, message, request, answered, said, called, mentioned>>

NoTools == [list |-> <<>>, choice |-> [type |-> "auto", name |-> ""]]
NoReply == [reasoning |-> <<>>, content |-> <<>>, calls |-> <<>>, finish |-> ""]

InitTurn ==
  /\ Init
  /\ streamed = FALSE
  /\ turn = "new"
  /\ tools = NoTools
  /\ offered = NoTools
  /\ message = [content |-> <<>>, reason |-> "none"]
  /\ request = <<>>
  /\ answered = <<>>
  /\ said = NoReply
  /\ called = <<>>
  /\ mentioned = {}
-----------------------------------------------------------------------------
(* The client's tools.                                                     *)

\* convertClaudeToolDefinitionToOpenAI, then normalizeToolSchemas.  A tool of the
\* service loses its name.
ConvertTool(t) ==
  IF t.builtin THEN [type |-> "web_search", name |-> "", parameters |-> t.parameters]
  ELSE [type |-> "function", name |-> t.name, parameters |-> NormalizeParameters(t.parameters)]

\* convertClaudeToolChoiceToOpenAI.
ConvertChoice(choice, list) ==
  LET builtin == \E t \in ToSet(list) : t.builtin /\ t.name = choice.name
  IN  CASE choice.type = "any" -> [type |-> "required", name |-> ""]
        [] choice.type = "tool" /\ builtin -> [type |-> "web_search", name |-> ""]
        [] choice.type = "tool" /\ ~builtin -> [type |-> "function", name |-> choice.name]
        [] OTHER -> choice

\* The client's request goes upstream.
Offer ==
  /\ turn = "new"
  /\ \E list \in ToolLists, choice \in ToolChoices :
       /\ tools' = [list |-> list, choice |-> choice]
       /\ offered' = [list |-> [k \in DOMAIN list |-> ConvertTool(list[k])],
                      choice |-> ConvertChoice(choice, list)]
  /\ turn' = "offered"
  /\ UNCHANGED <<streamed, message, request, answered, said, called, mentioned, vars>>

\* The upstream begins to reply, as the request's "stream" says.
Begin ==
  /\ turn = "offered"
  /\ streamed' \in BOOLEAN
  /\ turn' = "asked"
  /\ tools' = NoTools
  /\ offered' = NoTools
  /\ UNCHANGED <<message, request, answered, said, called, mentioned, vars>>
-----------------------------------------------------------------------------
(* Upstream to client, complete.                                           *)

MapFinishReason(f) ==
  CASE f = "tool_calls" -> "tool_use"
    [] f = "length" -> "max_tokens"
    [] OTHER -> "end_turn"

\* (Variant: the finish reason alone decides.)
CompleteReasonAsSaid(r) == MapFinishReason(r.finish)

\* The tool calls overrule "stop" and a missing finish reason, but not "length".
CompleteReason(r) ==
  IF MapFinishReason(r.finish) = "end_turn" /\ r.calls # <<>>
  THEN "tool_use" ELSE MapFinishReason(r.finish)

ToolUse(t, n) == Part("tool_use", SanitizeId(t), Pieces("args", n))

\* convertOpenAIContentToClaudeBlocks.
ContentBlock(c) ==
  CASE c.type = "text" -> Part("text", "", <<"text">>)
    [] c.type = "reasoning" -> Part("thinking", "", <<"thinking">>)
    [] c.type = "tool_calls" -> ToolUse(c.tool, 1)

\* collectReasoningTexts: a block for each text.
ReasoningBlocks(texts) == [k \in DOMAIN texts |-> Part("thinking", "", <<"thinking">>)]

\* convertOpenAINonStreamResponseToClaude.
Complete(r) ==
  [content |->
     ReasoningBlocks(r.reasoning)
       \o [k \in DOMAIN r.content |-> ContentBlock(r.content[k])]
       \o [k \in DOMAIN r.calls |-> ToolUse(r.calls[k].tool, r.calls[k].args)],
   reason |-> CompleteReason(r)]
-----------------------------------------------------------------------------
(* Client to upstream.                                                     *)

OfType(parts, types) == SelectSeq(parts, LAMBDA p : p.type \in types)
Bodies(parts) == FlattenSeq([k \in DOMAIN parts |-> parts[k].body])

\* convertClaudeToolResultContentToOpenAI of a list.  An item that is neither
\* text nor image is encoded into a text only if there is nothing else.
ResultContent(items) ==
  LET kept == SelectSeq(items, LAMBDA i : i # "other")
  IN  IF kept # <<>> THEN kept
      ELSE IF items = <<>> THEN <<>> ELSE <<"text">>

OpenAIMessage(role, content) ==
  [role |-> role, content |-> content, reasoning |-> <<>>, calls |-> <<>>, id |-> ""]

\* buildOpenAIToolResultMessage.
ToolMessage(p) ==
  [OpenAIMessage("tool", ResultContent(p.body)) EXCEPT !.id = Cleaned[p.id]]

ToolMessages(parts) ==
  LET answers == SelectSeq(parts, LAMBDA p : p.id # "")
  IN  [k \in DOMAIN answers |-> ToolMessage(answers[k])]

ResultTypes == {"tool_result", "web_search_tool_result"}

\* (Variant: tool results where they stand, behind the user's text.)
MessagePartsInPlace(m) ==
  LET mine == m.role = "assistant"
      uses == OfType(m.content, {"tool_use", "server_tool_use"})
  IN  [content |-> Bodies(OfType(m.content, {"text", "image"})),
       reasoning |-> IF mine THEN Bodies(OfType(m.content, {"thinking"})) ELSE <<>>,
       calls |-> IF mine THEN [k \in DOMAIN uses |-> [id |-> Cleaned[uses[k].id], args |-> uses[k].body]]
                 ELSE <<>>,
       before |-> <<>>,
       after |-> ToolMessages(OfType(m.content, ResultTypes))]

\* convertClaudeMessageContent.  The results of a user's message come before
\* its text, those of tools the service itself ran after the call.
MessageParts(m) ==
  LET mine == m.role = "assistant"
      uses == OfType(m.content, {"tool_use", "server_tool_use"})
      after == IF mine THEN ResultTypes \ {"tool_result"} ELSE {}
  IN  [content |-> Bodies(OfType(m.content, {"text", "image"})),
       reasoning |-> IF mine THEN Bodies(OfType(m.content, {"thinking"})) ELSE <<>>,
       calls |-> IF mine THEN [k \in DOMAIN uses |-> [id |-> Cleaned[uses[k].id], args |-> uses[k].body]]
                 ELSE <<>>,
       before |-> ToolMessages(OfType(m.content, ResultTypes \ after)),
       after |-> ToolMessages(OfType(m.content, after))]

\* (Variant: an assistant's message without text is taken for an empty one.)
SaysNothingWithoutText(parts) == parts.content = <<>>

SaysNothing(parts) ==
  parts.content = <<>> /\ parts.calls = <<>> /\ parts.reasoning = <<>>

\* One message of the conversation.  One that says nothing is left out, and the
\* results behind it with it.
ConvertMessage(m) ==
  LET parts == MessageParts(m)
  IN  parts.before \o
      IF SaysNothing(parts) THEN <<>>
      ELSE <<[OpenAIMessage(m.role, parts.content)
                EXCEPT !.reasoning = parts.reasoning, !.calls = parts.calls]>>
           \o parts.after

\* convertClaudeSystemToOpenAIMessage.
SystemMessage(texts) ==
  IF FlattenSeq(texts) = <<>> THEN <<>>
  ELSE <<OpenAIMessage("system", FlattenSeq(texts))>>

\* The messages of convertClaudeMessagesRequestToOpenAI.
ConvertMessages(system, ms) ==
  SystemMessage(system) \o FlattenSeq([k \in DOMAIN ms |-> ConvertMessage(ms[k])])

\* injectUpstreamMetadata: a system message if there is none, and a mark round the
\* content of a user's message if that is a single text.
InjectMetadata(ms) ==
  (IF \E m \in ToSet(ms) : m.role = "system" THEN <<>>
   ELSE <<OpenAIMessage("system", <<"marker">>)>>)
  \o [k \in DOMAIN ms |->
        IF ms[k].role = "user" /\ ms[k].content = <<"text">>
        THEN [ms[k] EXCEPT !.content = <<"marked text">>] ELSE ms[k]]
-----------------------------------------------------------------------------
(* The turn.                                                               *)

\* A step of the streamed reply.
StreamStep ==
  /\ turn = "asked"
  /\ streamed
  /\ \/ \E p \in Payloads :
          /\ ReadPayload(p)
          /\ LET fresh == SelectSeq(p.calls, LAMBDA c : c.named /\ c.tool \notin ToSet(called))
             IN  called' = called \o [k \in DOMAIN fresh |-> fresh[k].tool]
          /\ mentioned' = mentioned \cup {c.tool : c \in ToSet(p.calls)}
     \/ /\ ReadDone \/ ReadEOF \/ ReadFails \/ WriteEvent \/ WriteFails \/ WriteDone
        /\ UNCHANGED <<called, mentioned>>
  /\ UNCHANGED <<streamed, turn, toolVars, message, request, answered, said>>

\* The message the client puts together from the events.
BlockPart(b) ==
  IF b.kind.kind = "tool" THEN ToolUse(b.kind.tool, b.size)
  ELSE Part(b.kind.kind, "", Pieces(b.kind.kind, b.size))

Assembled ==
  [content |-> [k \in 1..Cardinality(DOMAIN blocks) |-> BlockPart(blocks[k - 1])],
   reason |-> reason]

\* The client has read the stream to the end of the message.
TakeMessage ==
  /\ turn = "asked"
  /\ streamed
  /\ pc = "done"
  /\ phase = "ended"
  /\ message' = Assembled
  /\ turn' = "replied"
  /\ UNCHANGED <<streamed, toolVars, request, answered, said, called, mentioned, vars>>

\* writeClaudeNonStreamResponse.
CompleteReply ==
  /\ turn = "asked"
  /\ ~streamed
  /\ \E r \in Replies : message' = Complete(r) /\ said' = r
  /\ turn' = "replied"
  /\ UNCHANGED <<streamed, toolVars, request, answered, called, mentioned, vars>>

\* The client answers every tool call in one message, in any order, and the
\* user may write before or behind the results.
Answers ==
  LET uses == OfType(message.content, {"tool_use"})
      orders == {f \in [DOMAIN uses -> DOMAIN uses] : \A i, j \in DOMAIN uses : f[i] = f[j] => i = j}
  IN  {[k \in DOMAIN uses |-> Part("tool_result", uses[f[k]].id, items)] :
         f \in orders, items \in ResultItems}

NextRequest ==
  /\ turn = "replied"
  /\ \E e \in Earlier, a \in Answers :
     \E content \in {add \o a : add \in Additions} \cup {a \o add : add \in Additions} :
       LET user == [role |-> "user", content |-> content]
           reply == [role |-> "assistant", content |-> message.content]
       IN  /\ request' = InjectMetadata(ConvertMessages(e.system, e.messages \o <<reply, user>>))
           /\ answered' = a
  /\ turn' = "sent"
  /\ UNCHANGED <<streamed, toolVars, message, said, called, mentioned, vars>>

NextTurn ==
  \/ Offer
  \/ Begin
  \/ StreamStep
  \/ TakeMessage
  \/ CompleteReply
  \/ NextRequest

SpecTurn == InitTurn /\ [][NextTurn]_<<vars, turnVars>>
-----------------------------------------------------------------------------
CallIds(m) == {c.id : c \in ToSet(m.calls)}

\* The upstream may call a tool with the arguments the client has said it takes,
\* although definitions and null have gone from the schema; and it is told to use
\* the tool that the client has chosen.
ToolsMeanTheSame ==
  turn = "offered" =>
    /\ \A k \in DOMAIN tools.list :
         LET t == tools.list[k]
             o == offered.list[k]
         IN  o.type = "function" =>
               /\ o.name = t.name
               /\ \A v \in Values :
                    Accepts(o.parameters, <<>>, v)
                      <=> Accepts(t.parameters, Definitions(t.parameters), v)
    /\ tools.choice.type = "tool" =>
         \E k \in DOMAIN tools.list :
           /\ tools.list[k].name = tools.choice.name
           /\ offered.choice.type = offered.list[k].type
           /\ offered.choice.name = offered.list[k].name

\* An OpenAI service accepts the request: right behind an assistant's message
\* with tool calls come the tool messages that answer these calls, each exactly
\* once, and there are no others, wherever the client has put the results among
\* its parts and whatever the upstream's ids looked like.  The upstream of this
\* proxy wants one system message besides.
RequestAccepted ==
  /\ request # <<>> => Cardinality({i \in DOMAIN request : request[i].role = "system"}) = 1
  /\ \A i \in DOMAIN request :
       LET m == request[i] IN
       /\ m.role = "tool" =>
            \E j \in 1..(i - 1) :
              /\ m.id \in CallIds(request[j])
              /\ \A k \in (j + 1)..(i - 1) : request[k].role = "tool" /\ request[k].id # m.id
       /\ m.calls # <<>> =>
            /\ i + Len(m.calls) <= Len(request)
            /\ {request[i + k].id : k \in DOMAIN m.calls} = CallIds(m)
            /\ Cardinality(CallIds(m)) = Len(m.calls)

\* What the upstream has said in this turn, streamed or complete, as
\* the assistant's message that an OpenAI client would send back.
AsSaid ==
  LET rest == OfType(said.content, {"tool_calls"})
      calls == IF streamed
               THEN [k \in DOMAIN called |-> [tool |-> called[k], args |-> argsHeard[called[k]]]]
               ELSE [k \in DOMAIN rest |-> [tool |-> rest[k].tool, args |-> 1]] \o said.calls
      texts == IF streamed THEN SelectSeq(heard, LAMBDA h : h = "text")
               ELSE Pieces("text", Len(OfType(said.content, {"text"})))
      thoughts == IF streamed THEN SelectSeq(heard, LAMBDA h : h = "thinking")
                  ELSE said.reasoning \o Pieces("thinking", Len(OfType(said.content, {"reasoning"})))
  IN  [OpenAIMessage("assistant", texts) EXCEPT
         !.reasoning = thoughts,
         !.calls = [k \in DOMAIN calls |->
                      [id |-> SanitizeId(calls[k].tool), args |-> Pieces("args", calls[k].args)]]]

\* The upstream gets back what it has said: reasoning, text and every named tool
\* call with its arguments, after two conversions and the client in between, also
\* when it said reasoning or tool calls alone; and with it the texts and images
\* of the tool results.  (A result that mixes them with other items loses these.)
TurnComesBack ==
  turn = "sent" =>
    LET mine == SelectSeq(request, LAMBDA m : m.role = "assistant")
    IN  /\ AsSaid = OpenAIMessage("assistant", <<>>) \/ (mine # <<>> /\ Last(mine) = AsSaid)
        /\ \A a \in ToSet(answered) : "other" \notin ToSet(a.body) =>
             \E m \in ToSet(request) : m.role = "tool" /\ m.id = a.id /\ m.content = a.body

\* Streamed and complete tell the client the same: the same texts, thoughts and
\* tool calls and the same stop_reason.  (Left out: a stream without a finish
\* reason or with a call that never gets a name, and tool calls cut off by
\* "length", which are max_tokens when complete and tool_use when streamed.)
FormsAgree ==
  LET r == [reasoning |-> AsSaid.reasoning,
            content |-> [k \in DOMAIN AsSaid.content |-> [type |-> "text"]],
            calls |-> [k \in DOMAIN called |-> [tool |-> called[k], args |-> argsHeard[called[k]]]],
            finish |-> conv.finish]
  IN  /\ streamed
      /\ turn = "replied"
      /\ conv.finish # ""
      /\ mentioned \subseteq ToSet(called)
      /\ ~(conv.finish = "length" /\ called # <<>>)
      => /\ message.reason = Complete(r).reason
         /\ \A type \in {"text", "thinking"} :
              Bodies(OfType(message.content, {type})) = Bodies(OfType(Complete(r).content, {type}))
         /\ ToSet(OfType(message.content, {"tool_use"}))
              = ToSet(OfType(Complete(r).content, {"tool_use"}))
=============================================================================
