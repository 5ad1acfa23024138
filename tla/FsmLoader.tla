------------------------------ MODULE FsmLoader -----------------------------
(***************************************************************************)
(* core/fsm/loader.c from the tree of nodes on: which documents            *)
(* cancestry_fsm_set_load accepts.  As in the code a builder is a Boolean; *)
(* the definitions it fills hold the nodes it has read, so that here the   *)
(* document itself stands for them.  Messages and memory are left out.     *)
(*                                                                         *)
(* The code gives a key without a value the pointer of a missing key.      *)
(***************************************************************************)
EXTENDS Documents

fsm_map_value(node, key) ==
  IF node.kind = "map" /\ key \in DOMAIN node.pairs THEN node.pairs[key] ELSE Null

fsm_key_allowed(node, allowed) == node.kind = "map" /\ DOMAIN node.pairs \subseteq allowed

fsm_expect_map(node) == node.kind = "map"

(* A missing sequence is one of no items.                                  *)
fsm_expect_seq(node) == node.kind \in {"null", "seq"}

fsm_scalar_text(node, maximum) == node.kind = "scalar" /\ node.length <= maximum

(* A word of an enumeration; the limits of 16 and 32 exceed every word.     *)
fsm_word(node, words) == node.kind = "scalar" /\ node.text \in words

fsm_scalar_bool(node) == node.kind = "scalar" /\ ~node.quoted /\ node.class = "bool"

(* The scan stops at a sign, at a leading zero and at the b of 0b.         *)
fsm_scalar_uint(node, low, high) ==
  /\ node.kind = "scalar" /\ ~node.quoted /\ node.class = "int"
  /\ node.spelling \in {"plain", "hex", "octal", "digits"} /\ node.n \in low..high

Refused == [is_expression |-> FALSE, literal |-> Unset]

(* The bases other than ten: the digits after those that fill a uint64 are *)
(* dropped, so that the number keeps its leading ones only.                *)
Base == [hex |-> 16, octal |-> 8, binary |-> 2]

RECURSIVE Leading(_, _)
Leading(n, base) == IF n <= 2 * IntMax + 1 THEN n ELSE Leading(n \div base, base)

fsm_scan_based(node) ==
  LET magnitude == Leading(AbsOf(node.n), Base[node.spelling])
  IN  IF node.n < 0 THEN - magnitude ELSE magnitude

(* .5 and 1. are no numbers; 007 and powers beyond binary64 are malformed. *)
fsm_is_number(node) ==
  \/ node.class \in {"int", "real", "huge"} /\ node.spelling \notin {"point", "open"}
  \/ node.spelling = "binary"

(* The value of a plain number: beyond int64 a real.                       *)
fsm_scan_number(node) ==
  LET n == IF node.spelling \in DOMAIN Base THEN fsm_scan_based(node) ELSE node.n
  IN  CASE node.spelling \in {"zeros", "tiny"} \/ node.class = "huge" -> Unset  \* malformed
        [] node.spelling \notin {"zeros", "tiny"} /\ node.class = "real" -> RealV(n)
        [] OTHER -> IF AbsOf(n) > IntMax THEN RealV(RealUnit * AsDouble(n)) ELSE IntV(n)

fsm_operand(node) ==
  CASE node.kind # "scalar" \/ (node.kind = "scalar" /\ node.length > ExpressionMax) -> Refused
    [] OTHER ->
       CASE ~node.quoted /\ node.class = "bool" -> [is_expression |-> FALSE, literal |-> BoolV(node.n = 1)]
         [] ~node.quoted /\ fsm_is_number(node) -> [is_expression |-> FALSE, literal |-> fsm_scan_number(node)]
         [] OTHER -> [is_expression |-> TRUE, literal |-> Unset]

fsm_validate_expression(node) ==
  /\ node.kind = "scalar" /\ node.length <= ExpressionMax
  /\ validate(node.tokens, EmptyContext).error = "OK"

(* The pair of checks every operand of a definition goes through.          *)
fsm_checked_operand(node) ==
  LET operand == fsm_operand(node)
  IN  operand # Refused /\ (operand.is_expression => fsm_validate_expression(node))

fsm_event_type_from_name ==
  {"can_rx", "signal_changed", "timer_expired", "state_entered", "state_exited", "fault_raised",
   "power_mode_changed"}

fsm_name_index(names, name) == name \in names

(* Every item has a name of its own.                                       *)
fsm_collect_names(seq) ==
  /\ \A item \in Items(seq) : fsm_expect_map(item) /\ fsm_scalar_text(fsm_map_value(item, "name"), NameMax)
  /\ seq.kind = "seq" =>
       \A i, j \in DOMAIN seq.items :
         fsm_map_value(seq.items[i], "name").text = fsm_map_value(seq.items[j], "name").text => i = j

NamesOf(seq) == {fsm_map_value(item, "name").text : item \in Items(seq)}

-----------------------------------------------------------------------------
fsm_action_keys ==
  {"send_message", "set_signal", "set_variable", "start_timer", "stop_timer", "reset_timer", "log",
   "raise_fault", "transition"}

(* The values are kept under any key, however long.                        *)
fsm_build_send_message(body) ==
  LET signals == fsm_map_value(body, "signals")
  IN  /\ fsm_expect_map(body) /\ fsm_key_allowed(body, {"interface", "message", "signals"})
      /\ fsm_scalar_text(fsm_map_value(body, "interface"), NameMax)
      /\ fsm_scalar_text(fsm_map_value(body, "message"), NameMax)
      /\ signals.kind = "map" /\ DOMAIN signals.pairs # {}
      /\ \A k \in DOMAIN signals.pairs : fsm_checked_operand(signals.pairs[k])

(* The checks of the bodies: the fields there may be, a field with a name, *)
(* and one with a name that the machine declares.                          *)
fsm_fields(body, allowed) == fsm_expect_map(body) /\ fsm_key_allowed(body, allowed)
fsm_named(body, key) == fsm_scalar_text(fsm_map_value(body, key), NameMax)
fsm_declared(body, key, names) ==
  fsm_named(body, key) /\ fsm_name_index(names, fsm_map_value(body, key).text)

fsm_build_set(body, target) ==
  /\ fsm_fields(body, {target, "value"}) /\ fsm_named(body, target)
  /\ fsm_checked_operand(fsm_map_value(body, "value"))

fsm_build_start_timer(body, timers) ==
  LET duration == fsm_map_value(body, "duration_ms")
      repeat == fsm_map_value(body, "repeat")
  IN  /\ fsm_fields(body, {"timer", "duration_ms", "repeat"}) /\ fsm_declared(body, "timer", timers)
      /\ duration # Null => fsm_scalar_uint(duration, 1, UIntMax)
      /\ repeat # Null => fsm_scalar_bool(repeat)

(* The text of a log entry, the code of a fault, which may be as long as a *)
(* name (FAULT_CODE_MAX = NAME_MAX = 64).                                  *)
fsm_build_report(body, word, words, text, maximum) ==
  /\ fsm_fields(body, {word, text})
  /\ fsm_word(fsm_map_value(body, word), words)
  /\ fsm_scalar_text(fsm_map_value(body, text), maximum)

(* names: [timers, variables, states] of the machine.                      *)
fsm_action_body(key, body, names) ==
  CASE key = "send_message" -> fsm_build_send_message(body)
    [] key = "set_signal" -> fsm_build_set(body, "signal")
    [] key = "set_variable" -> fsm_build_set(body, "variable") /\ fsm_declared(body, "variable", names.variables)
    [] key = "start_timer" -> fsm_build_start_timer(body, names.timers)
    [] key \in {"stop_timer", "reset_timer"} ->
         fsm_fields(body, {"timer"}) /\ fsm_declared(body, "timer", names.timers)
    [] key = "log" -> fsm_build_report(body, "level", {"info", "warning", "error"}, "message", LogMessageMax)
    [] key = "raise_fault" -> fsm_build_report(body, "severity", {"warning", "error", "critical"}, "code", NameMax)
    [] key = "transition" -> fsm_fields(body, {"target"}) /\ fsm_declared(body, "target", names.states)

fsm_build_action(node, names) ==
  /\ fsm_expect_map(node)
  /\ DOMAIN node.pairs \subseteq fsm_action_keys /\ Cardinality(DOMAIN node.pairs) = 1
  /\ \A key \in DOMAIN node.pairs : node.pairs[key] # Null /\ fsm_action_body(key, node.pairs[key], names)

fsm_build_actions(seq, names) ==
  fsm_expect_seq(seq) /\ \A item \in Items(seq) : fsm_build_action(item, names)

TransitionKeys == {"event", "interface", "message", "signal", "timer", "guard", "actions", "target"}

(* Mutant: no event needs a field.                                         *)
fsm_selector_complete_never(event, field) == TRUE

(* These two events need the field they are filtered by.                   *)
fsm_selector_complete(event, field) ==
  /\ event = "timer_expired" => field.timer # Null
  /\ event = "signal_changed" => field.signal # Null

fsm_build_transition(node, names) ==
  LET field == [k \in TransitionKeys |-> fsm_map_value(node, k)]
  IN  /\ fsm_expect_map(node) /\ fsm_key_allowed(node, TransitionKeys)
      /\ fsm_word(field.event, fsm_event_type_from_name)
      /\ fsm_scalar_text(field.target, NameMax) /\ fsm_name_index(names.states, field.target.text)
      /\ \A k \in {"interface", "message", "signal", "timer"} : field[k] # Null => fsm_scalar_text(field[k], NameMax)
      /\ field.timer # Null => fsm_name_index(names.timers, field.timer.text)
      /\ fsm_selector_complete(field.event.text, field)
      /\ field.guard # Null => fsm_validate_expression(field.guard)
      /\ fsm_build_actions(field.actions, names)

fsm_build_transitions(seq, names) ==
  fsm_expect_seq(seq) /\ \A item \in Items(seq) : fsm_build_transition(item, names)

-----------------------------------------------------------------------------
fsm_build_variable(item) ==
  LET type == fsm_map_value(item, "type")
      default == fsm_map_value(item, "default")
  IN  /\ fsm_expect_map(item) /\ fsm_key_allowed(item, {"name", "type", "default"})
      /\ fsm_scalar_text(fsm_map_value(item, "name"), NameMax)
      /\ fsm_word(type, {"boolean", "integer", "float"})
      /\ default # Null => fsm_checked_operand(default)

fsm_build_timer(item) ==
  /\ fsm_expect_map(item) /\ fsm_key_allowed(item, {"name", "duration_ms", "repeat", "auto_start"})
  /\ fsm_scalar_text(fsm_map_value(item, "name"), NameMax)
  /\ fsm_scalar_uint(fsm_map_value(item, "duration_ms"), 1, UIntMax)
  /\ fsm_scalar_bool(fsm_map_value(item, "repeat"))
  /\ fsm_scalar_bool(fsm_map_value(item, "auto_start"))

fsm_build_state(item, names) ==
  /\ fsm_expect_map(item) /\ fsm_key_allowed(item, {"name", "entry", "exit", "transitions"})
  /\ fsm_scalar_text(fsm_map_value(item, "name"), NameMax)
  /\ fsm_build_actions(fsm_map_value(item, "entry"), names)
  /\ fsm_build_actions(fsm_map_value(item, "exit"), names)
  /\ fsm_build_transitions(fsm_map_value(item, "transitions"), names)

fsm_build_machine(node) ==
  LET field(k) == fsm_map_value(node, k)
      names == [states |-> NamesOf(field("states")), timers |-> NamesOf(field("timers")),
                variables |-> NamesOf(field("variables"))]
  IN  /\ fsm_expect_map(node)
      /\ fsm_key_allowed(node, {"name", "description", "initial", "variables", "timers", "states"})
      /\ fsm_scalar_text(field("name"), NameMax)
      /\ field("description") # Null => fsm_scalar_text(field("description"), DescriptionMax)
      /\ fsm_scalar_text(field("initial"), NameMax)
      /\ fsm_expect_seq(field("states")) /\ Items(field("states")) # {}
      /\ \A k \in {"states", "timers", "variables"} : fsm_collect_names(field(k))
      /\ fsm_name_index(names.states, field("initial").text)
      /\ fsm_expect_seq(field("variables")) /\ \A item \in Items(field("variables")) : fsm_build_variable(item)
      /\ fsm_expect_seq(field("timers")) /\ \A item \in Items(field("timers")) : fsm_build_timer(item)
      /\ \A item \in Items(field("states")) : fsm_build_state(item, names)

-----------------------------------------------------------------------------
(* A mapping of names the author chose.                                    *)
fsm_named_pairs(node) ==
  node.kind = "map" /\ DOMAIN node.pairs # {} /\ \A k \in DOMAIN node.pairs : key_length(k) <= NameMax

fsm_build_can_rx(item) ==
  LET id == fsm_map_value(item, "id")
      message == fsm_map_value(item, "message")
  IN  /\ fsm_expect_map(item) /\ fsm_key_allowed(item, {"interface", "id", "message"})
      /\ fsm_scalar_text(fsm_map_value(item, "interface"), NameMax)
      /\ id # Null => fsm_scalar_uint(id, 0, CanIdMax)
      /\ message # Null => fsm_scalar_text(message, NameMax)

fsm_build_subscriptions(node) ==
  LET field(k) == fsm_map_value(node, k)
  IN  /\ fsm_expect_map(node)
      /\ fsm_key_allowed(node, {"can_rx", "signals", "timers", "faults", "power_mode"})
      /\ \A k \in {"timers", "faults", "power_mode"} : field(k) # Null => fsm_scalar_bool(field(k))
      /\ fsm_expect_seq(field("signals")) /\ \A item \in Items(field("signals")) : fsm_scalar_text(item, NameMax)
      /\ fsm_expect_seq(field("can_rx")) /\ \A item \in Items(field("can_rx")) : fsm_build_can_rx(item)

fsm_build_instance(node, machines) ==
  LET field(k) == fsm_map_value(node, k)
      machine == CHOOSE m \in machines : fsm_map_value(m, "name").text = field("machine").text
      variables == field("variables")
      bindings == field("bindings")
  IN  /\ fsm_expect_map(node)
      /\ fsm_key_allowed(node, {"id", "machine", "enabled", "bindings", "variables", "subscriptions"})
      /\ fsm_scalar_text(field("id"), NameMax)
      /\ fsm_scalar_text(field("machine"), NameMax)
      /\ \E m \in machines : fsm_map_value(m, "name").text = field("machine").text
      /\ fsm_scalar_bool(field("enabled"))
      /\ bindings # Null =>
           fsm_named_pairs(bindings) /\ \A k \in DOMAIN bindings.pairs : bindings.pairs[k].kind = "scalar"
      /\ variables # Null =>
           /\ fsm_named_pairs(variables)
           /\ \A k \in DOMAIN variables.pairs :
                /\ k \in NamesOf(fsm_map_value(machine, "variables"))
                /\ fsm_checked_operand(variables.pairs[k])
      /\ field("subscriptions") # Null => fsm_build_subscriptions(field("subscriptions"))

fsm_root_node(root) ==
  LET version == fsm_map_value(root, "schema_version")
  IN  /\ fsm_expect_map(root) /\ fsm_key_allowed(root, {"schema_version", "state_machines", "instances"})
      /\ version.kind = "scalar" /\ version.text \in {"0.2.0", "0.3.0"}
      /\ Items(fsm_map_value(root, "state_machines")) # {}
      /\ Items(fsm_map_value(root, "instances")) # {}

(* No two items have the same text under the key.                          *)
fsm_distinct(seq, key) ==
  \A i, j \in DOMAIN seq.items :
    fsm_map_value(seq.items[i], key).text = fsm_map_value(seq.items[j], key).text => i = j

fsm_load_block(root) ==
  LET machines == fsm_map_value(root, "state_machines")
      instances == fsm_map_value(root, "instances")
  IN  /\ fsm_root_node(root)
      /\ \A machine \in Items(machines) : fsm_build_machine(machine)
      /\ fsm_distinct(machines, "name")
      /\ \A instance \in Items(instances) : fsm_build_instance(instance, Items(machines))
      /\ fsm_distinct(instances, "id")
=============================================================================
