------------------------------- MODULE Loaders ------------------------------
(***************************************************************************)
(* Packages as their authors write them: a document that loads is edited,  *)
(* step by step, and after every step offered to the loader it is for.     *)
(* Both loaders are written by hand after schemas/*.json, so that the      *)
(* properties compare them with the schemas, and with each other.          *)
(***************************************************************************)
EXTENDS FsmLoader, RecipeLoader

CONSTANTS
  Drafts,        \* of [language, document, edits]: documents, and how often each is edited
  Replacements,  \* what an author may write in place of a node, by the edits left
  NewKeys        \* and the keys he may add

VARIABLES language, document, edits

loader_vars == <<language, document, edits>>

LoadersInit == \E d \in Drafts : language = d.language /\ document = d.document /\ edits = d.edits

edit ==
  /\ edits > 0
  /\ document' \in Edits(document, Replacements[edits], NewKeys)
  /\ edits' = edits - 1
  /\ UNCHANGED language

-----------------------------------------------------------------------------
(* schemas/fsm-0.3.0.schema.json.                                          *)
AnyName == String(0, NameMax)
Unlimited == DescriptionMax + 1
SetBody(target, operand) ==
  Object({target, "value"}, [k \in {target, "value"} |-> IF k = "value" THEN operand ELSE AnyName])
FsmActions ==
  Choice([send_message |-> Object({"interface", "message", "signals"},
                                  [interface |-> AnyName, message |-> AnyName,
                                   signals |-> Free(1, Unlimited, Operand(TRUE))]),
          set_signal |-> SetBody("signal", Operand(TRUE)),
          set_variable |-> SetBody("variable", Operand(TRUE)),
          start_timer |-> Object({"timer"}, [timer |-> AnyName, duration_ms |-> Integer(1, UIntMax), repeat |-> Boolean]),
          stop_timer |-> Object({"timer"}, [timer |-> AnyName]),
          reset_timer |-> Object({"timer"}, [timer |-> AnyName]),
          log |-> Object({"level", "message"},
                         [level |-> Enum({"info", "warning", "error"}), message |-> String(0, LogMessageMax)]),
          raise_fault |-> Object({"code", "severity"},
                                 [code |-> AnyName, severity |-> Enum({"warning", "error", "critical"})]),
          transition |-> Object({"target"}, [target |-> AnyName])])
FsmTransition ==
  Selecting({"event", "target"},
            [event |-> Enum({"can_rx", "signal_changed", "timer_expired", "state_entered", "state_exited",
                             "fault_raised", "power_mode_changed"}),
             interface |-> AnyName, message |-> AnyName, signal |-> AnyName, timer |-> AnyName,
             guard |-> Expression(TRUE), actions |-> Array(0, FsmActions), target |-> AnyName],
            [timer_expired |-> "timer", signal_changed |-> "signal"])
FsmMachine ==
  Object({"name", "initial", "states"},
         [name |-> AnyName, description |-> String(0, DescriptionMax), initial |-> AnyName,
          variables |-> Array(0, Object({"name", "type"},
                                        [name |-> AnyName, type |-> Enum({"boolean", "integer", "float"}),
                                         default |-> Operand(TRUE)])),
          timers |-> Array(0, Object({"name", "duration_ms", "repeat", "auto_start"},
                                     [name |-> AnyName, duration_ms |-> Integer(1, UIntMax), repeat |-> Boolean,
                                      auto_start |-> Boolean])),
          states |-> Array(1, Object({"name"},
                                     [name |-> AnyName, entry |-> Array(0, FsmActions), exit |-> Array(0, FsmActions),
                                      transitions |-> Array(0, FsmTransition)]))])
FsmInstance ==
  Object({"id", "machine", "enabled"},
         [id |-> AnyName, machine |-> AnyName, enabled |-> Boolean,
          bindings |-> Free(1, NameMax, String(0, Unlimited)),
          variables |-> Free(1, NameMax, Operand(TRUE)),
          subscriptions |->
            Object({}, [can_rx |-> Array(0, Object({"interface"},
                                                   [interface |-> AnyName, id |-> Integer(0, CanIdMax),
                                                    message |-> AnyName])),
                        signals |-> Array(0, AnyName),
                        timers |-> Boolean, faults |-> Boolean, power_mode |-> Boolean])])
FsmSchema ==
  Object({"schema_version", "state_machines", "instances"},
         [schema_version |-> Enum({"0.2.0", "0.3.0"}), state_machines |-> Array(1, FsmMachine),
          instances |-> Array(1, FsmInstance)])

(* Every name used is declared, and declared once.                         *)
Declared(node, key) ==
  IF node.kind = "map" /\ key \in DOMAIN node.pairs /\ node.pairs[key].kind = "seq" THEN node.pairs[key].items ELSE <<>>
TextsOf(items, key) == [i \in DOMAIN items |-> items[i].pairs[key].text]
OnceEach(s) == \A i, j \in DOMAIN s : s[i] = s[j] => i = j
Refers(node, key, names) ==
  \A m \in Nodes(node) :
    m.kind = "map" /\ key \in DOMAIN m.pairs /\ m.pairs[key].kind = "scalar" =>
      \E i \in DOMAIN names : names[i] = m.pairs[key].text
MachineResolved(machine) ==
  LET names(key) == TextsOf(Declared(machine, key), "name")
  IN  /\ \A key \in {"states", "timers", "variables"} : OnceEach(names(key))
      /\ Refers(machine, "initial", names("states")) /\ Refers(machine, "target", names("states"))
      /\ Refers(machine, "timer", names("timers")) /\ Refers(machine, "variable", names("variables"))
InstanceResolved(instance, machines) ==
  \E m \in Items(machines) :
    /\ m.pairs["name"].text = instance.pairs["machine"].text
    /\ "variables" \in DOMAIN instance.pairs /\ instance.pairs["variables"] # Null =>
         \A k \in DOMAIN instance.pairs["variables"].pairs :
           \E v \in Items(List(Declared(m, "variables"))) : v.pairs["name"].text = k
Resolved(root) ==
  LET machines == root.pairs["state_machines"]
      instances == root.pairs["instances"]
  IN  /\ OnceEach(TextsOf(machines.items, "name")) /\ OnceEach(TextsOf(instances.items, "id"))
      /\ \A m \in Items(machines) : MachineResolved(m)
      /\ \A i \in Items(instances) : InstanceResolved(i, machines)

(* schemas/recipe-0.2.0.schema.json.                                       *)
RecipeName == String(1, NameMax)
RecipeSet(target) ==
  Object({target, "value"}, [k \in {target, "value"} |-> IF k = "value" THEN Operand(FALSE) ELSE RecipeName])
RecipeActions ==
  Choice([send_message |-> Object({"interface", "message", "signals"},
                                  [interface |-> RecipeName, message |-> RecipeName,
                                   signals |-> Free(1, NameMax, Operand(FALSE))]),
          set_signal |-> RecipeSet("signal"),
          set_variable |-> RecipeSet("variable"),
          start_timer |-> Object({"timer"}, [timer |-> RecipeName, duration_ms |-> Integer(1, UIntMax), repeat |-> Boolean]),
          stop_timer |-> Object({"timer"}, [timer |-> RecipeName]),
          reset_timer |-> Object({"timer"}, [timer |-> RecipeName]),
          log |-> Object({"level", "message"},
                         [level |-> Enum({"info", "warning", "error"}), message |-> String(1, LogMessageMax)]),
          raise_fault |-> Object({"code", "severity"},
                                 [code |-> RecipeName, severity |-> Enum({"warning", "error", "critical"})])])
RecipeSchema ==
  Object({"schema_version", "recipes"},
         [schema_version |-> Enum({"0.2.0"}),
          recipes |-> Array(1,
            Object({"name", "trigger", "actions"},
                   [name |-> RecipeName, description |-> String(0, DescriptionMax), enabled |-> Boolean,
                    trigger |-> Selecting({"event"},
                      [event |-> Enum({"can_rx", "signal_changed", "timer_expired", "timeout", "fault_raised",
                                       "power_mode_changed"}),
                       interface |-> RecipeName, message |-> RecipeName, signal |-> RecipeName, timer |-> RecipeName,
                       timeout_ms |-> Integer(1, UIntMax)],
                      [timeout |-> "timeout_ms", signal_changed |-> "signal", timer_expired |-> "timer"]),
                    conditions |-> Array(0, Object({"expression"}, [expression |-> Expression(FALSE)])),
                    actions |-> Array(1, RecipeActions),
                    on_error |-> Enum({"stop", "continue"})]))])

(* The limits of a whole file, and one recipe of each name.                *)
WithinLimits(root) ==
  LET recipes == root.pairs["recipes"].items
      count(key) == SumOver(recipes, LAMBDA r : Len(Declared(r, key)))
  IN  /\ Len(recipes) <= CountMax /\ count("actions") <= CountMax /\ count("conditions") <= CountMax
      /\ OnceEach(TextsOf(recipes, "name"))

-----------------------------------------------------------------------------
Spellings == {"plain", "plus", "zeros", "hex", "octal", "binary", "point", "open", "digits", "tiny"}

FsmReading ==
  [also |-> {"untyped", "null"}, integers |-> Spellings \ {"plus", "zeros"},
   numbers |-> Spellings \ {"zeros", "open", "tiny"}, wide |-> TRUE]

(* The state machines that load are those the schema allows, with every    *)
(* name resolved and every expression well formed, with these differences: *)
(* a plain number is taken as a name, a key without a value as a missing   *)
(* one and 0b1 as a number, while the integer +5 and the operands 007, 1.  *)
(* and 1e-999 are not (cancestry_fsm_set_load).                            *)
MachinesFollowSchema ==
  language = "machines" =>
    fsm_load_block(document) = (Valid(FsmSchema, document, FsmReading) /\ Resolved(document))

RecipeReading ==
  [also |-> {"quoted"}, integers |-> Spellings, numbers |-> Spellings \ {"octal", "binary", "digits"}, wide |-> FALSE]

(* The recipes that load are those the schema allows, but that integers    *)
(* and booleans may be quoted and that the operands 0o17, hexadecimal ones *)
(* beyond int64 and those of 32 digits are refused (recipe_validate_set).  *)
FollowsRecipeSchema ==
  recipe_validate_set(document) = (Valid(RecipeSchema, document, RecipeReading) /\ WithinLimits(document))

(* No string is written past the block, and none that is missing           *)
(* (recipe_build_set's two passes).                                        *)
BlobFits ==
  recipe_validate_set(document) =>
    LET recipes == recipe_set_spec(document)
    IN  /\ build_set_end(recipes) <= build_set_size(recipes)
        /\ \A i \in DOMAIN recipes : \A j \in DOMAIN written_strings(recipes[i]) : written_strings(recipes[i])[j] # NoText

(* INT64_MIN, an integer in a recipe and a real in a machine, and what     *)
(* only one of the loaders takes for a literal.                            *)
Disputed(node) ==
  /\ ~node.quoted
  /\ \/ node.spelling \in Spellings \ {"plain", "plus", "hex"}
     \/ node.spelling = "hex" /\ node.n \notin IntMin..IntMax
     \/ node.n = IntMin

ValueWritten(node) == IF node.class = "real" THEN node.n ELSE RealUnit * AsDouble(node.n)
IsWritten(literal, node) == literal.kind \in {"int", "real"} => to_real(literal) = ValueWritten(node)

(* What is a literal for one loader is the same literal for the other, but *)
(* for the disputed spellings, and those too have the value that is        *)
(* written, to each loader that takes them; only a number beyond uint64    *)
(* loses its last digits in a machine when its base is not ten             *)
(* (fsm_operand, recipe_field_operand).                                    *)
LiteralsAgree ==
  \A node \in {m \in Nodes(document) : m.kind = "scalar" /\ m.length \in 1..ExpressionMax} :
    LET machine == fsm_operand(node)
        recipe == recipe_field_operand(node)
    IN  /\ Disputed(node) \/ machine = recipe
        /\ IsWritten(recipe.literal, node)
        /\ IsWritten(machine.literal, node) \/ (node.spelling \in DOMAIN Base /\ AbsOf(node.n) > 2 * IntMax + 1)

(* The recipe packages that load are those of the schema, each fits the    *)
(* memory it is copied to, and a number in it is the number written, as in *)
(* a state machine, with the differences named above.                      *)
RecipesLoadSound ==
  language = "recipes" => FollowsRecipeSchema /\ BlobFits /\ LiteralsAgree
=============================================================================
