---------------------------- MODULE ToolSchemas ----------------------------
(***************************************************************************)
(* normalizeToolSchemas (server.go): before a request goes upstream, the    *)
(* JSON schema of each tool's parameters is rewritten: local $refs are      *)
(* replaced by what they name, and null is taken out of types, enums and    *)
(* combinators.                                                             *)
(*                                                                         *)
(* A schema is a function from those keywords it has: "$ref" to a name;     *)
(* "type" to [list, names]; "enum" to a sequence of values; "const" to a    *)
(* value; "anyOf", "oneOf" to a sequence of schemas; "properties",          *)
(* "definitions", "$defs" to a function from names to schemas; "items" to a *)
(* schema; "nullable" to a Boolean.                                         *)
(***************************************************************************)
EXTENDS Integers, Sequences, SequencesExt, TLC

\* A JSON value: an atom of its kind, an array or an object.
Atom(kind, atom) == [kind |-> kind, atom |-> atom, items |-> <<>>, fields |-> <<>>]
Array(items) == [kind |-> "array", atom |-> "", items |-> items, fields |-> <<>>]
Object(fields) == [kind |-> "object", atom |-> "", items |-> <<>>, fields |-> fields]
Null == Atom("null", "")

Type(n) == [list |-> FALSE, names |-> <<n>>]

Without(s, keys) == [k \in DOMAIN s \ keys |-> s[k]]
-----------------------------------------------------------------------------
\* extractDefinitions.
Definitions(s) ==
  (IF "$defs" \in DOMAIN s THEN s["$defs"] ELSE <<>>)
    @@ (IF "definitions" \in DOMAIN s THEN s["definitions"] ELSE <<>>)

\* isNullSchema.
IsNull(s) ==
  \/ "type" \in DOMAIN s /\ s.type = Type("null")
  \/ "const" \in DOMAIN s /\ s.const = Null
  \/ "enum" \in DOMAIN s /\ s.enum = <<Null>>

\* simplifyNullableCombinator.  A lone option's keywords replace the schema's.
Combinator(s, key) ==
  LET options == SelectSeq(s[key], LAMBDA o : ~IsNull(o))
  IN  CASE key \notin DOMAIN s -> s
        [] key \in DOMAIN s /\ Len(options) = 0 -> Without(s, {key})
        [] key \in DOMAIN s /\ Len(options) = 1 -> options[1] @@ Without(s, {key})
        [] OTHER -> [s EXCEPT ![key] = options]

\* The first type that is not null.
FirstType(t) ==
  LET names == SelectSeq(t.names, LAMBDA n : n # "null")
  IN  IF names = <<>> THEN "null" ELSE names[1]

\* normalizeTypeField.
TypeField(s) ==
  CASE "type" \notin DOMAIN s \/ ~s.type.list -> s
    [] "type" \in DOMAIN s /\ s.type.list /\ FirstType(s.type) = "null" ->
         Without(s, {"type"})
    [] OTHER -> [s EXCEPT !.type = Type(FirstType(s.type))]

\* normalizeEnumField: without nulls, and every value once.
EnumField(s) ==
  LET values == FoldLeft(LAMBDA seen, v : IF v = Null \/ v \in ToSet(seen) THEN seen
                                         ELSE Append(seen, v), <<>>, s.enum)
  IN  CASE "enum" \notin DOMAIN s -> s
        [] "enum" \in DOMAIN s /\ values = <<>> -> Without(s, {"enum"})
        [] OTHER -> [s EXCEPT !.enum = values]

\* normalizeConstField.
ConstField(s) ==
  IF "const" \in DOMAIN s /\ s.const = Null THEN Without(s, {"const"}) ELSE s

\* What normalizeSchemaMap does to a schema whose parts are normalised.
Simplify(s) ==
  ConstField(EnumField(TypeField(Combinator(Combinator(
    Without(s, {"definitions", "$defs", "nullable"}), "anyOf"), "oneOf"))))

\* tryResolveRef: only a $ref without siblings is one.
IsRef(s, defs) == DOMAIN s = {"$ref"} /\ s["$ref"] \in DOMAIN defs

\* (Variant: a part knows the definitions it has itself.)
ScopeOfItsOwn(s, outer) == Definitions(s)

\* mergeDefinitions: a schema's own definitions hide those around it.
Scope(s, outer) == Definitions(s) @@ outer

\* normalizeSchemaMap, with normalizeSchemaValue and normalizeSchemaSlice for the
\* parts.  The table of properties takes a level of depth of its own and is
\* treated as if it were a schema: a parameter that has the name of one of the
\* deleted keywords is deleted.
RECURSIVE Normalize(_, _, _)
Normalize(s, outer, depth) ==
  LET defs == Scope(s, outer)
      Slice(options) ==
        IF depth <= 1 THEN options
        ELSE [i \in DOMAIN options |-> Normalize(options[i], defs, depth - 2)]
      Table(ps) ==
        IF depth <= 1 THEN ps
        ELSE [n \in DOMAIN ps \ {"definitions", "$defs", "nullable"} |->
                Normalize(ps[n], defs, depth - 2)]
      parts == [k \in DOMAIN s \ {"definitions", "$defs"} |->
                  CASE k \in {"anyOf", "oneOf"} -> Slice(s[k])
                    [] k = "properties" -> Table(s[k])
                    [] k = "items" -> Normalize(s[k], defs, depth - 1)
                    [] OTHER -> s[k]]
  IN  CASE depth <= 0 -> s
        [] depth > 0 /\ IsRef(s, defs) -> Normalize(defs[s["$ref"]], defs, depth - 1)
        [] OTHER -> Simplify(parts)

\* normalizeToolSchemas of one tool's parameters.
NormalizeParameters(s) == Normalize(s, Definitions(s), 12)
-----------------------------------------------------------------------------
(* What a schema means (the JSON Schema standard): does it accept a value   *)
(* without nulls.  A list of types counts as its first type but null, as    *)
(* the comment in normalizeTypeField says.                                  *)

RECURSIVE Accepts(_, _, _)
Accepts(s, defs, v) ==
  /\ "$ref" \in DOMAIN s =>
       s["$ref"] \in DOMAIN defs /\ Accepts(defs[s["$ref"]], defs, v)
  /\ "type" \in DOMAIN s => v.kind = FirstType(s.type)
  /\ "enum" \in DOMAIN s => v \in ToSet(s.enum)
  /\ "const" \in DOMAIN s => v = s.const
  /\ "anyOf" \in DOMAIN s => \E o \in ToSet(s["anyOf"]) : Accepts(o, defs, v)
  /\ "oneOf" \in DOMAIN s =>
       \E i \in DOMAIN s["oneOf"] :
         \A j \in DOMAIN s["oneOf"] : Accepts(s["oneOf"][j], defs, v) <=> i = j
  /\ "items" \in DOMAIN s /\ v.kind = "array" =>
       \A i \in DOMAIN v.items : Accepts(s.items, defs, v.items[i])
  /\ "properties" \in DOMAIN s /\ v.kind = "object" =>
       \A n \in DOMAIN s.properties \cap DOMAIN v.fields :
         Accepts(s.properties[n], defs, v.fields[n])
=============================================================================
