---------------------------- MODULE MCClaudeTurn ----------------------------
(* Small instances of ClaudeTurn for TLC. *)
EXTENDS ClaudeTurn

\* Two tool calls; a payload carries one or two kinds of content, and the
\* finish reason comes alone, with a tool call or, as "stop", with a text.
SomePayloads ==
  {p \in PayloadType :
     /\ p.calls # <<>> => p.calls[1].named \/ p.calls[1].args
     /\ p.finish # "" => ~p.thinking /\ (~p.text \/ (p.calls = <<>> /\ p.finish = "stop"))
     /\ p.usage => p.finish \in {"", "length"}
     /\ p.usage => ~p.thinking /\ ~p.text /\ p.calls = <<>>
     /\ ~(p.thinking /\ p.text /\ p.calls # <<>>)}

\* The second call comes with an id that loses characters; the first has none.
SomeRawId == [t \in Tools |-> IF t = 0 THEN "" ELSE "functions.f:1"]
SomeFreshId == [t \in Tools |-> "toolu_new"]
SomeCleaned ==
  [i \in {"", "functions.f:1", "functionsf1", "toolu_new", "toolu_old", "srvtoolu_old"} |->
     IF i = "functions.f:1" THEN "functionsf1" ELSE i]

\* Replies with up to one item of each kind, and both calls.
SomeReplies ==
  {r \in [reasoning : {<<>>, <<"thinking">>, <<"thinking", "thinking">>},
          content : {<<>>, <<[type |-> "text", tool |-> 0]>>,
                     <<[type |-> "reasoning", tool |-> 0], [type |-> "text", tool |-> 0]>>,
                     <<[type |-> "tool_calls", tool |-> 0], [type |-> "text", tool |-> 0]>>},
          calls : {<<>>, <<[tool |-> 1, args |-> 2]>>,
                   <<[tool |-> 0, args |-> 0], [tool |-> 1, args |-> 1]>>},
          finish : {"", "stop", "length", "tool_calls"}] :
     \A i \in DOMAIN r.content, j \in DOMAIN r.calls :
       r.content[i].type = "tool_calls" => r.calls[j].tool # r.content[i].tool}

User(parts) == [role |-> "user", content |-> parts]
Assistant(parts) == [role |-> "assistant", content |-> parts]
AText == Part("text", "", <<"text">>)
Blank == Part("text", "", <<>>)
Image == Part("image", "", <<"image">>)

\* A question; and a conversation with a blank message, a tool run by the client,
\* its result behind the user's text, a reply that says nothing, and a tool run by
\* the service.
SomeEarlier ==
  {[system |-> <<<<>>>>, messages |-> <<User(<<AText>>)>>],
   [system |-> <<<<"text">>, <<>>>>,
    messages |->
      <<User(<<Blank>>),
        Assistant(<<Part("thinking", "", <<"thinking">>), Part("tool_use", "toolu_old", <<"args">>)>>),
        User(<<AText, Part("tool_result", "toolu_old", <<"image">>)>>),
        Assistant(<<>>),
        User(<<AText, Image>>),
        Assistant(<<AText, Part("server_tool_use", "srvtoolu_old", <<"args">>),
                    Part("web_search_tool_result", "srvtoolu_old", <<"other">>), AText>>),
        User(<<AText>>)>>]}

SomeAdditions == {<<>>, <<Blank, AText>>}
SomeItems == {<<"text", "image">>, <<"text", "other">>}

\* Parameter schemas: one parameter x, or a recursive definition, with null in a
\* list of types, an enum, a combinator or as "nullable", directly or behind one
\* or two references.
Typed(n) == [type |-> Type(n)]
OneOf(names) == [type |-> [list |-> TRUE, names |-> names]]
Ref(n) == [k \in {"$ref"} |-> n]
Params(table) == [type |-> Type("object"), properties |-> table]

A == Atom("string", "a")
Simple ==
  {<<>>, Typed("string"), Typed("number"), OneOf(<<"null", "string">>),
   OneOf(<<"string", "number">>), [enum |-> <<A, Null, A>>], [const |-> A],
   [type |-> Type("string"), nullable |-> TRUE]}
Optional(schemas) ==
  [anyOf : {<<s, Typed("null")>> : s \in schemas} \cup {<<Typed("null"), s>> : s \in schemas}]
    \cup [oneOf : {<<s, Typed("null")>> : s \in schemas}
                    \cup {<<Typed("string"), s>> : s \in schemas}]

List == Params("x" :> Ref("A") @@ "next" :> [type |-> Type("array"), items |-> Ref("List")])
SomeDefinitions ==
  {[definitions |-> ("A" :> s)] : s \in Simple \cup Optional(Simple)}
    \cup {("$defs" :> ("A" :> s @@ "List" :> List)) : s \in Simple}
    \cup {("$defs" :> ("B" :> s)) @@ [definitions |-> ("A" :> Ref("B") @@ "List" :> List)]
             : s \in Simple}
SomeSchemas ==
  {Params("x" :> s) : s \in Simple \cup Optional(Simple)}
    \cup {Params("x" :> s) @@ d :
             s \in {Ref("A"), Ref("List")} \cup Optional({Ref("A")}), d \in SomeDefinitions}

SomeToolLists ==
  {<<[name |-> "search", builtin |-> TRUE, parameters |-> <<>>],
     [name |-> "f", builtin |-> FALSE, parameters |-> s]>> : s \in SomeSchemas}
SomeChoices ==
  {[type |-> c, name |-> ""] : c \in {"none", "auto", "any"}}
    \cup {[type |-> "tool", name |-> n] : n \in {"f", "search"}}

Atoms == {A, Atom("string", "b"), Atom("number", "1")}
Lists == {Object("x" :> a) : a \in Atoms}
           \cup {Object("x" :> a @@ "next" :> Array(<<Object("x" :> b)>>)) : a, b \in Atoms}
SomeValues ==
  {Object("x" :> v) : v \in Atoms \cup Lists \cup {Array(<<l>>) : l \in Lists}}
=============================================================================
