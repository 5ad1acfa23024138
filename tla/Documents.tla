----------------------------- MODULE Documents ------------------------------
(***************************************************************************)
(* The documents a package is loaded from, as the tree of nodes that both  *)
(* YAML readers (core/fsm/loader.c, core/recipe/loader.c) build, and the   *)
(* schemas (schemas/*.json) that say which trees are meant to load.        *)
(*                                                                         *)
(* A scalar keeps what the loaders look at: its text (compared, never      *)
(* taken apart), its length, its quotes, what YAML takes its plain text    *)
(* for (class, with the number n), how a number is spelled, and its tokens *)
(* as an expression.  Lengths and numbers are small: the limits are        *)
(* constants.  A number beyond binary64 has class "huge".                  *)
(*                                                                         *)
(* The spellings are plain, plus (+5), zeros (007), hex (0x), octal (0o),  *)
(* binary (0b, to YAML a text), point (.5), open (1.), digits (of which    *)
(* there are 32 to 47) and tiny (a power of ten below binary64).           *)
(***************************************************************************)
EXTENDS FsmExpression, FiniteSets

CONSTANTS
  NameMax,         \* 64 in the code
  DescriptionMax,  \* 512
  ExpressionMax,   \* 256
  LogMessageMax,   \* 256
  UIntMax,         \* 2^32 - 1
  CanIdMax,        \* 0x1FFFFFFF
  LongKeys         \* the keys longer than NameMax

ASSUME DocumentsAssumption ==
  /\ {NameMax, DescriptionMax, ExpressionMax, LogMessageMax} \subseteq Nat
  /\ UIntMax \in 1..IntMax /\ CanIdMax \in Nat

LOCAL INSTANCE SequencesExt
LOCAL INSTANCE TLC

Mapping(pairs) == [kind |-> "map", pairs |-> pairs]
List(items) == [kind |-> "seq", items |-> items]
Null == [kind |-> "null"]  \* a key without a value

Scalar(text, length, class, n, tokens) ==
  [kind |-> "scalar", text |-> text, length |-> length, quoted |-> FALSE, class |-> class, n |-> n,
   spelling |-> "plain", tokens |-> tokens]
Text(t) == Scalar(t, 1, "text", 0, <<Name("bare", t)>>)
Expr(tokens) == Scalar("e", 1, "text", 0, tokens)
Flag(b) == Scalar(IF b THEN "true" ELSE "false", 1, "bool", IF b THEN 1 ELSE 0, <<Bool(b)>>)
IntText(n) ==
  Scalar(ToString(n), 1, "int", n, IF n < 0 THEN <<Op("-"), Num(IntV(- n))>> ELSE <<Num(IntV(n))>>)
Real(q) == Scalar("0.5", 1, "real", q, <<Num(RealV(q))>>)
Huge == Scalar("1e999", 1, "huge", 0, <<>>)
SpelledAs(spelling, class, n, tokens) ==
  [Scalar(spelling \o ToString(n), 1, class, n, tokens) EXCEPT !.spelling = spelling]
Plus(n) == SpelledAs("plus", "int", n, <<Op("+"), Num(IntV(n))>>)
Padded(n) == SpelledAs("zeros", "int", n, <<Num(IntV(n))>>)
(* 0 and a name, as an expression.                                         *)
Based(spelling, n) ==
  SpelledAs(spelling, IF spelling = "binary" THEN "text" ELSE "int", n, <<Num(IntV(0)), Name("bare", spelling)>>)
Point(q) == SpelledAs("point", "real", q, <<Spelled(RealV(q), Unset)>>)
Open(n) == SpelledAs("open", "real", RealUnit * n, <<Num(IntV(n)), Op(".")>>)
Digits(n) == SpelledAs("digits", "int", n, <<Num(RealV(RealUnit * AsDouble(n)))>>)
Tiny == SpelledAs("tiny", "real", 0, <<Spelled(Unset, RealV(0))>>)
Quoted(scalar) == [scalar EXCEPT !.quoted = TRUE]
EmptyText == [Quoted(Text("")) EXCEPT !.length = 0, !.tokens = <<>>]
Long(length) == [Text("long") EXCEPT !.length = length]
LongExpr(length) == [Expr(<<Bool(TRUE)>>) EXCEPT !.length = length]

key_length(key) == IF key \in LongKeys THEN NameMax + 1 ELSE 1

Items(node) == IF node.kind = "seq" THEN ToSet(node.items) ELSE {}

RECURSIVE Nodes(_)
(* The node and all below it.                                              *)
Nodes(node) ==
  {node} \cup CASE node.kind = "map" -> UNION {Nodes(node.pairs[k]) : k \in DOMAIN node.pairs}
                [] node.kind = "seq" -> UNION {Nodes(item) : item \in Items(node)}
                [] OTHER -> {}

-----------------------------------------------------------------------------
(* What an author does to a document: replace a node, drop or add a key,   *)
(* drop or repeat an item.  Neither reader has a way to write an empty     *)
(* mapping or list, both refuse a repeated key.                            *)
Without(pairs, key) == [k \in DOMAIN pairs \ {key} |-> pairs[k]]
With(pairs, key, node) == [k \in DOMAIN pairs \cup {key} |-> IF k = key THEN node ELSE pairs[k]]

RECURSIVE Edits(_, _, _)
Edits(node, replacements, keys) ==
  (replacements \ {node}) \cup
  CASE node.kind = "map" ->
         UNION {{Mapping([node.pairs EXCEPT ![k] = d]) : d \in Edits(node.pairs[k], replacements, keys)} :
                k \in DOMAIN node.pairs}
         \cup {Mapping(Without(node.pairs, k)) : k \in {j \in DOMAIN node.pairs : DOMAIN node.pairs # {j}}}
         \cup {Mapping(With(node.pairs, k, Text("x"))) : k \in keys \ DOMAIN node.pairs}
    [] node.kind = "seq" ->
         UNION {{List([node.items EXCEPT ![i] = d]) : d \in Edits(node.items[i], replacements \ {Null}, keys)} :
                i \in DOMAIN node.items}
         \cup {List(RemoveAt(node.items, i)) : i \in {j \in DOMAIN node.items : Len(node.items) > 1}}
         \cup {List(Append(node.items, item)) : item \in Items(node)}
    [] OTHER -> {}

-----------------------------------------------------------------------------
(* Schemas, as far as schemas/*.json uses JSON Schema.  The limits of      *)
(* lengths, which the schemas leave open, are the loaders'.                *)
String(min, max) == [type |-> "string", min |-> min, max |-> max]
Enum(values) == [type |-> "enum", values |-> values]
Boolean == [type |-> "boolean"]
Integer(min, max) == [type |-> "integer", min |-> min, max |-> max]
Expression(sound) == [type |-> "expression", sound |-> sound]
Operand(sound) == [type |-> "operand", sound |-> sound]
Array(min, items) == [type |-> "array", min |-> min, items |-> items]
Free(min, max, values) == [type |-> "free", min |-> min, max |-> max, values |-> values]
Choice(bodies) == [type |-> "choice", bodies |-> bodies]
(* needs: the field an event requires.                                     *)
Selecting(required, properties, needs) ==
  [type |-> "object", required |-> required, properties |-> properties, needs |-> needs]
Object(required, properties) == Selecting(required, properties, [none |-> ""])

(* `may` says how a loader reads the schema: which numbers it takes in an  *)
(* integer field (integers) and as an operand (numbers, by spelling, and   *)
(* whether hexadecimal ones beyond int64), and where it is more lenient    *)
(* (also).                                                                 *)
(*   untyped  a plain number or boolean is taken as a string               *)
(*   null     a key without a value counts as absent                       *)
(*   quoted   a quoted number or boolean is taken as one                   *)
IsString(node, also) == node.kind = "scalar" /\ (node.quoted \/ node.class = "text" \/ "untyped" \in also)
IsOf(node, classes, also) ==
  node.kind = "scalar" /\ (~node.quoted \/ "quoted" \in also) /\ node.class \in classes
IsNumber(node, may) ==
  /\ node.kind = "scalar" /\ ~node.quoted
  /\ node.class \in {"int", "real"} \/ node.spelling = "binary"
  /\ node.spelling \in may.numbers
  /\ node.spelling = "hex" /\ node.n \notin IntMin..IntMax => may.wide
(* No names: only the form of an expression is judged.                     *)
EmptyContext ==
  [validate |-> TRUE, signals |-> [none |-> Unset], denied |-> {}, variables |-> [none |-> Unset],
   event |-> [type |-> "NONE", about |-> "", fields |-> [none |-> Unset]]]

IsSound(node, sound) ==
  node.length \in 1..ExpressionMax /\ (sound => validate(node.tokens, EmptyContext).error = "OK")

RECURSIVE Valid(_, _, _)
Valid(schema, node, may) ==
  CASE schema.type = "string" -> IsString(node, may.also) /\ node.length \in schema.min..schema.max
    [] schema.type = "enum" -> IsString(node, may.also) /\ node.text \in schema.values
    [] schema.type = "boolean" -> IsOf(node, {"bool"}, may.also)
    [] schema.type = "integer" ->
         IsOf(node, {"int"}, may.also) /\ node.spelling \in may.integers /\ node.n \in schema.min..schema.max
    [] schema.type = "expression" -> IsString(node, may.also) /\ IsSound(node, schema.sound)
    [] schema.type = "operand" ->
         \/ IsString(node, {}) /\ IsSound(node, schema.sound)
         \/ IsOf(node, {"bool"}, {}) \/ IsNumber(node, may)
    [] schema.type = "array" ->
         /\ node.kind = "seq" /\ Len(node.items) >= schema.min
         /\ \A item \in Items(node) : Valid(schema.items, item, may)
    [] schema.type = "free" ->
         /\ node.kind = "map" /\ Cardinality(DOMAIN node.pairs) >= schema.min
         /\ \A k \in DOMAIN node.pairs : key_length(k) <= schema.max /\ Valid(schema.values, node.pairs[k], may)
    [] schema.type = "choice" ->
         /\ node.kind = "map"
         /\ \E k \in DOMAIN schema.bodies :
              DOMAIN node.pairs = {k} /\ Valid(schema.bodies[k], node.pairs[k], may)
    [] schema.type = "object" ->
         /\ node.kind = "map" /\ DOMAIN node.pairs \subseteq DOMAIN schema.properties
         /\ LET present == {k \in DOMAIN node.pairs : node.pairs[k] # Null \/ "null" \notin may.also}
            IN  /\ schema.required \subseteq present
                /\ \A k \in present : Valid(schema.properties[k], node.pairs[k], may)
                /\ \A e \in DOMAIN schema.needs :
                     "event" \in present /\ node.pairs["event"].text = e => schema.needs[e] \in present
=============================================================================
