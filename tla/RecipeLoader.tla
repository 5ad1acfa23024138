---------------------------- MODULE RecipeLoader ----------------------------
(***************************************************************************)
(* core/recipe/loader.c from the tree of nodes on: the documents           *)
(* recipe_validate_set accepts, the strings it hands to recipe_build_set,  *)
(* and the one block of memory recipe_build_set counts out in a first pass *)
(* and fills in a second.  A string is its length, NoText the null pointer.*)
(***************************************************************************)
EXTENDS Documents

CONSTANTS
  CountMax,  \* UINT16_MAX
  SizeOf     \* the sizes of the C structures: [set, recipe, condition, action, value]

ASSUME SizeAssumption == \A s \in DOMAIN SizeOf : SizeOf[s] \in Nat

LOCAL INSTANCE SequencesExt

NoText == -1

recipe_ast_find_pair(map, key) == key \in DOMAIN map.pairs

recipe_field_string(node) == node.kind = "scalar" /\ (node.quoted \/ node.class = "text")

recipe_scalar_is_int(node) == node.class = "int"

(* Quoted or not.                                                          *)
recipe_field_uint(node, min, max) ==
  node.kind = "scalar" /\ recipe_scalar_is_int(node) /\ node.n \in min..max

recipe_field_bool(node) == node.kind = "scalar" /\ node.class = "bool"

recipe_field_double(node) == IF node.class = "real" THEN RealV(node.n) ELSE Unset

NoOperand == [is_expression |-> FALSE, literal |-> Unset]

(* A number within int64 is an integer, INT64_MIN too.  Beyond it a        *)
(* decimal is a real, if its digits fit the buffer, and a hexadecimal      *)
(* number is refused; an octal one always, its o being no digit.           *)
recipe_integer(node) ==
  CASE node.spelling \in {"octal", "digits"} -> Unset
    [] node.spelling = "hex" /\ node.n \notin IntMin..IntMax -> Unset
    [] OTHER -> IF node.n \in IntMin..IntMax THEN IntV(node.n) ELSE RealV(RealUnit * AsDouble(node.n))

recipe_field_operand(node) ==
  CASE node.kind # "scalar" -> NoOperand
    [] OTHER ->
       CASE recipe_field_string(node) ->
              IF node.length \in 1..ExpressionMax THEN [is_expression |-> TRUE, literal |-> Unset] ELSE NoOperand
         [] ~recipe_field_string(node) /\ node.class = "bool" ->
              [is_expression |-> FALSE, literal |-> BoolV(node.n = 1)]
         [] recipe_scalar_is_int(node) /\ ~node.quoted ->
              [is_expression |-> FALSE, literal |-> recipe_integer(node)]
         [] OTHER -> [is_expression |-> FALSE, literal |-> recipe_field_double(node)]

recipe_check_unknown_keys(map, allowed) == DOMAIN map.pairs \subseteq allowed

(* A required name.                                                        *)
recipe_read_name(map, key) ==
  /\ recipe_ast_find_pair(map, key)
  /\ recipe_field_string(map.pairs[key]) /\ map.pairs[key].length \in 1..NameMax

recipe_word(map, key, words) ==
  /\ recipe_ast_find_pair(map, key)
  /\ recipe_field_string(map.pairs[key]) /\ map.pairs[key].text \in words

recipe_valued(map) ==
  recipe_ast_find_pair(map, "value") /\ recipe_field_operand(map.pairs["value"]) # NoOperand

RECIPE_TRIGGER_KEYS == {"event", "interface", "message", "signal", "timer", "timeout_ms"}

recipe_parse_trigger(node) ==
  /\ node.kind = "map" /\ ~recipe_ast_find_pair(node, "type")
  /\ recipe_check_unknown_keys(node, RECIPE_TRIGGER_KEYS)
  /\ recipe_word(node, "event", {"can_rx", "signal_changed", "timer_expired", "timeout", "fault_raised",
                                 "power_mode_changed"})
  /\ \A k \in {"interface", "message", "signal", "timer"} :
       recipe_ast_find_pair(node, k) => recipe_read_name(node, k)
  /\ recipe_ast_find_pair(node, "timeout_ms") => recipe_field_uint(node.pairs["timeout_ms"], 1, UIntMax)
  /\ LET needs == [signal_changed |-> "signal", timer_expired |-> "timer", timeout |-> "timeout_ms"]
         event == node.pairs["event"].text
     IN  event \in DOMAIN needs => recipe_ast_find_pair(node, needs[event])

recipe_parse_condition(node) ==
  /\ node.kind = "map" /\ recipe_check_unknown_keys(node, {"expression"})
  /\ recipe_ast_find_pair(node, "expression")
  /\ recipe_field_string(node.pairs["expression"]) /\ node.pairs["expression"].length \in 1..ExpressionMax

recipe_parse_signal_values(node) ==
  /\ node.kind = "map" /\ DOMAIN node.pairs # {}
  /\ \A k \in DOMAIN node.pairs :
       key_length(k) \in 1..NameMax /\ recipe_field_operand(node.pairs[k]) # NoOperand

recipe_parse_send(body) ==
  /\ recipe_check_unknown_keys(body, {"interface", "message", "signals"})
  /\ recipe_read_name(body, "interface") /\ recipe_read_name(body, "message")
  /\ recipe_ast_find_pair(body, "signals") /\ recipe_parse_signal_values(body.pairs["signals"])

recipe_parse_set(body, target) ==
  recipe_check_unknown_keys(body, {target, "value"}) /\ recipe_read_name(body, target) /\ recipe_valued(body)

recipe_parse_start_timer(body) ==
  /\ recipe_check_unknown_keys(body, {"timer", "duration_ms", "repeat"}) /\ recipe_read_name(body, "timer")
  /\ recipe_ast_find_pair(body, "duration_ms") => recipe_field_uint(body.pairs["duration_ms"], 1, UIntMax)
  /\ recipe_ast_find_pair(body, "repeat") => recipe_field_bool(body.pairs["repeat"])

recipe_parse_log(body) ==
  /\ recipe_check_unknown_keys(body, {"level", "message"})
  /\ recipe_word(body, "level", {"info", "warning", "error"})
  /\ recipe_ast_find_pair(body, "message")
  /\ recipe_field_string(body.pairs["message"]) /\ body.pairs["message"].length \in 1..LogMessageMax

recipe_parse_raise_fault(body) ==
  /\ recipe_check_unknown_keys(body, {"code", "severity"}) /\ recipe_read_name(body, "code")
  /\ recipe_word(body, "severity", {"warning", "error", "critical"})

(* Any other key is refused; a transition even before its body is seen.    *)
recipe_parse_action(node) ==
  /\ node.kind = "map" /\ Cardinality(DOMAIN node.pairs) = 1
  /\ \A key \in DOMAIN node.pairs :
       LET body == node.pairs[key]
       IN  /\ key # "transition" /\ body.kind = "map"
           /\ CASE key = "send_message" -> recipe_parse_send(body)
                [] key = "set_signal" -> recipe_parse_set(body, "signal")
                [] key = "set_variable" -> recipe_parse_set(body, "variable")
                [] key = "start_timer" -> recipe_parse_start_timer(body)
                [] key \in {"stop_timer", "reset_timer"} ->
                     recipe_check_unknown_keys(body, {"timer"}) /\ recipe_read_name(body, "timer")
                [] key = "log" -> recipe_parse_log(body)
                [] key = "raise_fault" -> recipe_parse_raise_fault(body)
                [] OTHER -> FALSE

recipe_parse_recipe(node) ==
  LET given(k) == recipe_ast_find_pair(node, k)
      field(k) == node.pairs[k]
  IN  /\ node.kind = "map"
      /\ recipe_check_unknown_keys(node, {"name", "description", "enabled", "trigger", "conditions", "actions",
                                          "on_error"})
      /\ recipe_read_name(node, "name")
      /\ given("description") =>
           recipe_field_string(field("description")) /\ field("description").length <= DescriptionMax
      /\ given("enabled") => recipe_field_bool(field("enabled"))
      /\ given("trigger") /\ recipe_parse_trigger(field("trigger"))
      /\ given("conditions") =>
           field("conditions").kind = "seq" /\ \A c \in Items(field("conditions")) : recipe_parse_condition(c)
      /\ given("actions") /\ field("actions").kind = "seq" /\ Len(field("actions").items) \in 1..CountMax
      /\ \A a \in Items(field("actions")) : recipe_parse_action(a)
      /\ given("on_error") => recipe_word(node, "on_error", {"stop", "continue"})

-----------------------------------------------------------------------------
(* What the parsers leave behind: of each string its length.               *)
TextAt(map, key) ==
  IF map.kind = "map" /\ key \in DOMAIN map.pairs /\ map.pairs[key].kind = "scalar" THEN map.pairs[key].length
  ELSE NoText

operand_spec(node) ==
  LET operand == recipe_field_operand(node)
  IN  [is_expression |-> operand.is_expression, expression |-> IF operand.is_expression THEN node.length ELSE NoText]

no_operand_spec == [is_expression |-> FALSE, expression |-> NoText]

(* One of the fields names the target of the action.                       *)
action_spec(node) ==
  LET kind == CHOOSE k \in DOMAIN node.pairs : TRUE
      body == node.pairs[kind]
      values == IF kind = "send_message" THEN body.pairs["signals"].pairs ELSE [k \in {} |-> Null]
      names == SetToSeq(DOMAIN values)
  IN  [kind |-> kind,
       interface |-> TextAt(body, "interface"),
       message |-> TextAt(body, "message"),
       target |-> CASE kind = "set_signal" -> TextAt(body, "signal")
                    [] kind = "set_variable" -> TextAt(body, "variable")
                    [] kind = "raise_fault" -> TextAt(body, "code")
                    [] OTHER -> TextAt(body, "timer"),
       operand |-> IF kind \in {"set_signal", "set_variable"} THEN operand_spec(body.pairs["value"])
                   ELSE no_operand_spec,
       values |-> [i \in DOMAIN names |-> [name |-> key_length(names[i]), operand |-> operand_spec(values[names[i]])]]]

recipe_spec(node) ==
  [name |-> TextAt(node, "name"), description |-> TextAt(node, "description"),
   trigger |-> [k \in {"interface", "message", "signal", "timer"} |-> TextAt(node.pairs["trigger"], k)],
   conditions |-> IF recipe_ast_find_pair(node, "conditions")
                  THEN [i \in DOMAIN node.pairs["conditions"].items |->
                          TextAt(node.pairs["conditions"].items[i], "expression")]
                  ELSE <<>>,
   actions |-> [i \in DOMAIN node.pairs["actions"].items |-> action_spec(node.pairs["actions"].items[i])]]

SumOver(s, f(_)) == FoldLeft(LAMBDA total, x : total + f(x), 0, s)

(* The totals that recipe_validate_set leaves in the specification.        *)
total_conditions(recipes) == SumOver(recipes, LAMBDA r : Len(r.conditions))
total_actions(recipes) == SumOver(recipes, LAMBDA r : Len(r.actions))
total_values(recipes) == SumOver(recipes, LAMBDA r : SumOver(r.actions, LAMBDA a : Len(a.values)))

recipe_set_spec(root) ==
  [i \in DOMAIN root.pairs["recipes"].items |-> recipe_spec(root.pairs["recipes"].items[i])]

recipe_validate_set(root) ==
  /\ root.kind = "map" /\ recipe_check_unknown_keys(root, {"schema_version", "recipes"})
  /\ recipe_ast_find_pair(root, "schema_version")
  /\ root.pairs["schema_version"].kind = "scalar" /\ root.pairs["schema_version"].text = "0.2.0"
  /\ recipe_ast_find_pair(root, "recipes")
  /\ root.pairs["recipes"].kind = "seq" /\ Len(root.pairs["recipes"].items) \in 1..CountMax
  /\ LET items == root.pairs["recipes"].items
     IN  /\ \A i \in DOMAIN items : recipe_parse_recipe(items[i])
         /\ \A i, j \in DOMAIN items : items[i].pairs["name"].text = items[j].pairs["name"].text => i = j
  /\ total_actions(recipe_set_spec(root)) <= CountMax /\ total_conditions(recipe_set_spec(root)) <= CountMax

-----------------------------------------------------------------------------
(* The block: the structures in front, all strings behind.                 *)
recipe_align8(value) == 8 * ((value + 7) \div 8)

recipe_blob_reserve(cursor, size) == recipe_align8(cursor) + size

(* Mutant: the terminator is not counted.                                  *)
recipe_add_string_size_bare(length) == IF length = NoText THEN 0 ELSE length

recipe_add_string_size(length) == IF length = NoText THEN 0 ELSE length + 1

(* strlen of a null pointer is undefined: no string may be missing here.   *)
recipe_blob_string(length) == length + 1

recipe_blob_operand_string(operand) ==
  IF operand.is_expression /\ operand.expression # NoText THEN <<operand.expression>> ELSE <<>>

(* First pass: every string there is, whatever the kind of the action.     *)
counted_strings(r) ==
  <<r.name, r.description, r.trigger.interface, r.trigger.message, r.trigger.signal, r.trigger.timer>>
    \o r.conditions
    \o FlattenSeq([i \in DOMAIN r.actions |->
         <<r.actions[i].interface, r.actions[i].message, r.actions[i].target, r.actions[i].operand.expression>>
           \o FlattenSeq([v \in DOMAIN r.actions[i].values |->
                <<r.actions[i].values[v].name, r.actions[i].values[v].operand.expression>>])])

(* Second pass: the strings the kind of the action has.                    *)
action_strings(a) ==
  CASE a.kind = "send_message" ->
         <<a.interface, a.message>>
           \o FlattenSeq([v \in DOMAIN a.values |->
                <<a.values[v].name>> \o recipe_blob_operand_string(a.values[v].operand)])
    [] a.kind \in {"set_signal", "set_variable"} -> <<a.target>> \o recipe_blob_operand_string(a.operand)
    [] a.kind \in {"start_timer", "stop_timer", "reset_timer", "raise_fault"} -> <<a.target>>
    [] a.kind = "log" -> <<a.message>>

written_strings(r) ==
  LET given(length) == IF length = NoText THEN <<>> ELSE <<length>>
  IN  <<r.name>> \o given(r.description)
        \o given(r.trigger.interface) \o given(r.trigger.message) \o given(r.trigger.signal) \o given(r.trigger.timer)
        \o r.conditions
        \o FlattenSeq([i \in DOMAIN r.actions |-> action_strings(r.actions[i])])

Amounts(recipes) ==
  <<Len(recipes) * SizeOf.recipe, total_conditions(recipes) * SizeOf.condition,
    total_actions(recipes) * SizeOf.action, total_values(recipes) * SizeOf.value>>

(* What malloc is asked for.                                               *)
build_set_size(recipes) ==
  recipe_align8(SizeOf.set) + SumOver(Amounts(recipes), recipe_align8)
    + SumOver(recipes, LAMBDA r : SumOver(counted_strings(r), recipe_add_string_size))

(* The cursor after the last string.                                       *)
build_set_end(recipes) ==
  FoldLeft(recipe_blob_reserve, recipe_align8(SizeOf.set), Amounts(recipes))
    + SumOver(recipes, LAMBDA r : SumOver(written_strings(r), recipe_blob_string))
=============================================================================
