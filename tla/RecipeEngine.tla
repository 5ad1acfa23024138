---------------------------- MODULE RecipeEngine ----------------------------
(***************************************************************************)
(* The recipe engine of core/recipe (engine.c) between the event bus and   *)
(* the signal store, and the host that feeds it (examples/gateway/main.c): *)
(* an event is matched against every recipe in order; a recipe whose       *)
(* trigger and conditions hold runs its actions, which may write signals   *)
(* and put new events on the same bus.                                     *)
(*                                                                         *)
(* An expression is one read compared with or yielding a value; what the   *)
(* evaluator makes of a longer one is the subject of RecipeExpression.     *)
(* A state is between two actions.                                         *)
(***************************************************************************)
EXTENDS BoundedQueue, SignalStore

CONSTANTS
  Recipes,           \* all recipes, in set order and definition order
  SignalIds,         \* signals the codec namespace resolves to
  StoreSlots,     \* slots of the signal store
  VariableCapacity,  \* slots for recipe variables
  Interfaces,        \* physical interface names
  Bindings,          \* [alias -> physical]
  Messages,          \* [message name -> id, dlc, last_byte]
  TimerIds,          \* [timer name -> id]
  BusCapacity,
  Ingress,           \* events decoded frames may cause: <<signal, value>>
  External,          \* other events of the bus
  TimeMax,           \* bound: the host's clock
  MaxInputs,         \* bound: frames and external events
  MaxDispatches,     \* GATEWAY_MAX_DISPATCHES
  Hooks,             \* the hooks of the sink that are set: timer, log, fault
  Nil

ASSUME RecipeAssumption ==
  /\ StoreSlots \in Nat \ {0} /\ VariableCapacity \in Nat /\ BusCapacity \in Nat \ {0}

VARIABLES
  store,       \* the signal store: [signal id -> value] of the used slots
  variables,   \* [<<recipe, name>> -> value] of the used slots
  bus,
  run,         \* process_event in progress: event, recipe and action; Nil
  clock,
  inputs, dispatches,
  draining,    \* gateway_drain_bus has been called since it gave up
  announced,   \* history: [signal -> value] of the last admitted change event
  lost,        \* history: signals with a change event the bus refused
  last_time    \* history: timestamp of the event dispatched last

vars == <<store, variables, bus, run, clock, inputs, dispatches, draining, announced, lost, last_time>>
host_vars == <<clock, inputs, dispatches, draining, last_time>>

CAN_RX == 3
TIMER == 2
FRAME_MAX_LENGTH == 8

Event(type, about, value, class, time) ==
  [type |-> type, about |-> about, value |-> value, priority_class |-> class, timestamp_us |-> time]

Init ==
  /\ store = <<>> /\ variables = <<>>
  /\ bus = queue_init(BusCapacity)
  /\ run = Nil
  /\ clock = 0 /\ inputs = 0 /\ dispatches = 0 /\ draining = FALSE
  /\ announced = <<>> /\ lost = {}
  /\ last_time = 0

-----------------------------------------------------------------------------
(* Names.                                                                  *)

resolve_interface(name) ==
  CASE name \in Interfaces -> name
    [] name \notin Interfaces /\ name \in DOMAIN Bindings ->
         IF Bindings[name] \in Interfaces THEN Bindings[name] ELSE Nil
    [] OTHER -> Nil

resolve_message(name) == IF name \in DOMAIN Messages THEN Messages[name] ELSE Nil
resolve_signal(name) == IF name \in SignalIds THEN name ELSE Nil
resolve_timer(name) == IF name \in DOMAIN TimerIds THEN TimerIds[name] ELSE Nil

(* recipe_coerce_for_signal: what the encoder is handed; Unset: refused.   *)
coerce_for_signal(signal, x) ==
  LET rounded == round_half_away(x.v)
  IN  CASE x.kind = "real" /\ signal.type \in {"uint", "int"} /\ signal.scaled -> x
        [] x.kind = "real" /\ signal.type = "int" -> rounded
        [] x.kind = "real" /\ signal.type = "uint" /\ IsSet(rounded) /\ rounded.v >= 0 -> UIntV(rounded.v)
        [] x.kind = "int" /\ signal.type = "uint" /\ x.v >= 0 -> UIntV(x.v)
        [] x.kind = "uint" /\ signal.type = "uint" -> x
        [] x.kind = "int" /\ signal.type = "int" -> x
        [] x.kind = "uint" /\ signal.type \in {"int", "enum"} /\ x.v <= IntMax -> IntV(x.v)
        [] x.kind = "int" /\ signal.type = "enum" /\ x.v >= 0 -> x
        [] x.kind = "bool" /\ signal.type = "bool" -> x
        [] x.kind = "int" /\ signal.type = "bool" /\ x.v \in {0, 1} -> BoolV(x.v = 1)
        [] OTHER -> Unset

-----------------------------------------------------------------------------
(* Triggers and conditions.                                                *)

(* The filters that apply to an event type; any other makes the trigger    *)
(* unmatchable.                                                            *)
FilterFields == {"interface", "message", "signal", "timer", "timeout_ms"}
Applicable(type) ==
  CASE type = "CAN_RX" -> {"interface", "message"}
    [] type = "SIGNAL_CHANGED" -> {"signal"}
    [] type = "TIMER_EXPIRED" -> {"timer"}
    [] OTHER -> {}

trigger_filters_applicable(trigger) ==
  \A f \in FilterFields \ Applicable(trigger.event) : trigger[f] = Nil

(* A name that does not resolve matches nothing.  The timer filter looks   *)
(* at the number of the timer, not at whose timer it is.                   *)
trigger_matches(trigger, e) ==
  /\ trigger.event = e.type
  /\ trigger_filters_applicable(trigger)
  /\ CASE e.type = "CAN_RX" ->
            /\ trigger.interface # Nil => resolve_interface(trigger.interface) = e.about[1]
            /\ trigger.message # Nil => /\ resolve_message(trigger.message) # Nil
                                         /\ resolve_message(trigger.message).id = e.about[2]
       [] e.type = "SIGNAL_CHANGED" ->
            trigger.signal # Nil => resolve_signal(trigger.signal) = e.about
       [] e.type = "TIMER_EXPIRED" ->
            trigger.timer # Nil => resolve_timer(trigger.timer) = e.about[2]
       [] OTHER -> TRUE

(* One expression: a literal or a read; Unset is an expression fault.  The *)
(* signal that triggered the recipe is read from the event, whatever the   *)
(* store has been told since.                                              *)
evaluate_operand(r, o) ==
  CASE o.read = "literal" -> o.value
    [] o.read = "sig" /\ run.event.type = "SIGNAL_CHANGED" /\ run.event.about = o.name ->
         value_normalize(run.event.value)
    [] o.read = "sig" /\ ~(run.event.type = "SIGNAL_CHANGED" /\ run.event.about = o.name) ->
         value_normalize(Get(store, o.name))
    [] o.read = "var" -> Get(variables, <<r, o.name>>)

conditions_hold(r) ==
  \A k \in DOMAIN Recipes[r].conditions :
    LET c == Recipes[r].conditions[k]
    IN  value_equals(evaluate_operand(r, c), c.value)

-----------------------------------------------------------------------------
(* process_event.                                                          *)

Recipe == Recipes[run.r]
NextRecipe == IF run.r = Len(Recipes) THEN Nil ELSE [event |-> run.event, r |-> run.r + 1, a |-> 0]

invocable ==
  /\ Recipe.enabled
  /\ trigger_matches(Recipe.trigger, run.event)
  /\ conditions_hold(run.r)

skip_recipe ==
  /\ run # Nil /\ run.a = 0
  /\ ~invocable
  /\ run' = NextRecipe
  /\ UNCHANGED <<store, variables, bus, announced, lost, host_vars>>

invoke_recipe ==
  /\ run # Nil /\ run.a = 0
  /\ invocable
  /\ run' = IF Recipe.actions = <<>> THEN NextRecipe ELSE [run EXCEPT !.a = 1]
  /\ UNCHANGED <<store, variables, bus, announced, lost, host_vars>>

Action == Recipe.actions[run.a]
Does(kinds) == run # Nil /\ run.a > 0 /\ Action.kind \in kinds
Value == evaluate_operand(run.r, Action.operand)

(* The next action, or the next recipe: after the last one and, where      *)
(* on_error says so, after a failure.                                      *)
Done(ok) ==
  run' = IF run.a < Len(Recipe.actions) /\ (ok \/ Recipe.on_error = "CONTINUE")
         THEN [run EXCEPT !.a = @ + 1] ELSE NextRecipe

(* The governor may deny anything it is asked; without one all is denied.  *)
send_message ==
  /\ Does({"send_message"})
  /\ LET m == resolve_message(Action.message)
         ready == /\ resolve_interface(Action.interface) # Nil
                  /\ m # Nil
                  /\ m.dlc <= FRAME_MAX_LENGTH
                  /\ IsSet(Value) /\ IsSet(coerce_for_signal(Action.signal, Value))
                  /\ Action.signal.last_byte <= m.dlc
     IN  \E approved \in BOOLEAN : Done(ready /\ approved)
  /\ UNCHANGED <<store, variables, bus, announced, lost, host_vars>>

(* The change event of s on the bus, as a consequence of time `time`.      *)
announce(s, value, class, time) ==
  LET pushed == push(bus, Event("SIGNAL_CHANGED", s, value, class, time))
  IN  /\ bus' = pushed.queue
      /\ announced' = IF pushed.ok THEN Set(announced, s, value) ELSE announced
      /\ lost' = IF pushed.ok THEN lost \ {s} ELSE lost \cup {s}

(* Mutant: a slot never written reads as zero.                             *)
values_equal_unset(x, y) == IF IsSet(x) THEN x = y ELSE y.v = 0

(* recipe_values_equal: the kind counts, so an int and a uint differ.      *)
values_equal(x, y) == x = y

set_signal ==
  /\ Does({"set_signal"})
  /\ LET s == resolve_signal(Action.signal)
         ready == s # Nil /\ IsSet(Value)
     IN  \/ /\ ready /\ HasSlot(store, s, StoreSlots)
            /\ store' = Set(store, s, Value)
            /\ IF values_equal(Get(store, s), Value) THEN UNCHANGED <<bus, announced, lost>>
               ELSE announce(s, Value, GENERATED, run.event.timestamp_us)
            /\ Done(TRUE)
         \/ /\ Done(FALSE)  \* unresolved, expression fault, denied or no slot left
            /\ UNCHANGED <<store, bus, announced, lost>>
  /\ UNCHANGED <<variables, host_vars>>

set_variable ==
  /\ Does({"set_variable"})
  /\ LET v == <<run.r, Action.variable>>
         ok == IsSet(Value) /\ HasSlot(variables, v, VariableCapacity)
     IN  /\ variables' = IF ok THEN Set(variables, v, Value) ELSE variables
         /\ Done(ok)
  /\ UNCHANGED <<store, bus, announced, lost, host_vars>>

(* Timers and logs are the sink's business; without the hook the action    *)
(* fails.                                                                  *)
action_to_sink ==
  /\ Does({"start_timer", "stop_timer", "reset_timer", "log"})
  /\ Done((IF Action.kind = "log" THEN "log" ELSE "timer") \in Hooks)
  /\ UNCHANGED <<store, variables, bus, announced, lost, host_vars>>

(* Mutant: the fault keeps the timestamp of a freshly initialized event.   *)
FaultTime_unset == 0

FaultTime == run.event.timestamp_us

(* The sink hears of the fault even when the bus has no room for it; the   *)
(* action fails when nobody does.                                          *)
raise_fault ==
  /\ Does({"raise_fault"})
  /\ LET pushed == push(bus, Event("FAULT_RAISED", run.r, Unset, FAULT, FaultTime))
     IN  bus' = pushed.queue /\ Done(pushed.ok \/ "fault" \in Hooks)
  /\ UNCHANGED <<store, variables, announced, lost, host_vars>>

-----------------------------------------------------------------------------
(* The host.                                                               *)

Input ==
  /\ run = Nil
  /\ inputs < MaxInputs
  /\ inputs' = inputs + 1
  /\ clock' = IF clock < TimeMax THEN clock + 1 ELSE clock
  /\ draining' = TRUE
  /\ UNCHANGED <<variables, run, dispatches, last_time>>

(* gateway_ingest_frame for one signal: stored first, announced after.     *)
ingest_frame ==
  /\ Input
  /\ \E f \in Ingress :
       IF ~HasSlot(store, f[1], StoreSlots) \/ values_equal(Get(store, f[1]), f[2])
       THEN UNCHANGED <<store, bus, announced, lost>>
       ELSE /\ store' = Set(store, f[1], f[2])
            /\ announce(f[1], f[2], CAN_RX, clock')

(* Received frames, timers of the state machines, mode changes.            *)
external_event ==
  /\ Input
  /\ \E e \in External : bus' = push(bus, Event(e.type, e.about, Unset, e.class, clock')).queue
  /\ UNCHANGED <<store, announced, lost>>

(* Mutant: dispatches are not counted.                                     *)
Counted_never(n) == n

Counted(n) == n + 1

(* One turn of gateway_drain_bus, called after every input.  Beyond the    *)
(* bound the event is lost and the others wait for the next call, which    *)
(* loses one more.                                                         *)
drain_bus ==
  /\ run = Nil /\ draining
  /\ ~is_empty(bus)
  /\ bus' = pop(bus)
  /\ IF Counted(dispatches) <= MaxDispatches
     THEN /\ dispatches' = Counted(dispatches)
          /\ run' = [event |-> Head(bus.slots), r |-> 1, a |-> 0]
          /\ last_time' = Head(bus.slots).timestamp_us
          /\ UNCHANGED draining
     ELSE draining' = FALSE /\ UNCHANGED <<dispatches, run, last_time>>
  /\ UNCHANGED <<store, variables, announced, lost, clock, inputs>>

EngineStep ==
  \/ skip_recipe \/ invoke_recipe \/ send_message \/ set_signal \/ set_variable
  \/ action_to_sink \/ raise_fault

Next == EngineStep \/ ingest_frame \/ external_event \/ drain_bus

(* The host drains the bus until it is empty and the engine runs to the    *)
(* end of an event; frames need not come.                                  *)
Spec == Init /\ [][Next]_vars /\ WF_vars(EngineStep \/ drain_bus)

-----------------------------------------------------------------------------
(* Every value in the store has been announced on the bus, unless the bus  *)
(* refused the event: no path through ingress, recipes and their feedback  *)
(* on the same signal changes a value silently (recipe_action_set_signal). *)
NoSilentChange ==
  \A s \in DOMAIN store : s \in lost \/ Get(announced, s) = store[s]

(* All consequences of an event are dispatched before any later event: the *)
(* bus never goes back in time, although recipes put generated events on   *)
(* it behind newer ones (timestamps inherited by emit_generated).          *)
ConsequencesFirst == [][last_time' >= last_time]_vars

(* Draining ends, also when two recipes keep changing the signal they      *)
(* react to: the dispatch bound of the host cuts the loop.                 *)
DrainEnds == <>[](run = Nil)
=============================================================================
