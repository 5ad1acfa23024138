----------------------------- MODULE FsmEngine ------------------------------
(***************************************************************************)
(* The state machine engine of core/fsm (engine.c).  The definitions of    *)
(* machines and instances are data, as in the code; the engine interprets  *)
(* them.                                                                   *)
(*                                                                         *)
(* The engine is single threaded, but a sink callback may call back into   *)
(* it in the middle of an action list.  The C stack is therefore state:    *)
(* `stack` holds the calls in progress, innermost first, each with the     *)
(* steps it still has to do, and every action executes the first step of   *)
(* the innermost call.  The host calls when the stack is empty, and a      *)
(* callback when the first step is "sink".                                 *)
(*                                                                         *)
(* Left out: the trace ring, counters no property reads, message encoding  *)
(* (module Codec) and the expression language (module FsmExpression); a    *)
(* guard or operand here is a literal or one read.                         *)
(***************************************************************************)
EXTENDS BoundedQueue, FsmValues
LOCAL INSTANCE Functions

CONSTANTS
  Order,          \* the instances in declaration order
  Machine,        \* [instance -> machine definition]
  Def,            \* [instance -> enabled, subscriptions]
  Signals, SignalRead, SignalWrite,  \* the bus, and the package's capabilities
  Capability,     \* [physical interface -> tx, tx_ids]
  Bindings,       \* the package's aliases of physical interfaces
  Namespace,      \* messages of the registered codec maps
  QueueCapacity,  \* slots of an instance's incoming queue
  BusCapacity,    \* slots of the global queue
  MaxChain,       \* max_chain_depth
  MaxActions,     \* max_actions_per_event
  MaxEvents,      \* max_events_per_activation
  TimeTop,        \* CANCESTRY_TIME_US_MAX
  CountMod,       \* 2^32: a count of periods is a uint32_t
  None

IsSequence(s) == s \in Seq({s[k] : k \in DOMAIN s})

Instances == {Order[k] : k \in DOMAIN Order}
Timers(i) == DOMAIN Machine[i].timers
States(i) == DOMAIN Machine[i].states

(* What the loader has checked: transitions lead to declared states, a     *)
(* duration is at least 1.                                                 *)
SoundDuration(d) == d \in Nat \ {0}
SoundActions(i, list) ==
  /\ IsSequence(list)
  /\ \A k \in DOMAIN list :
       /\ list[k].kind = "transition" => list[k].target \in States(i)
       /\ list[k].kind = "start_timer" /\ list[k].duration # None => SoundDuration(list[k].duration)

SoundMachine(i) ==
  /\ None \notin States(i)
  /\ Machine[i].initial \in States(i)
  /\ IsSequence(Machine[i].timers)
  /\ \A t \in Timers(i) : SoundDuration(Machine[i].timers[t].duration)
  /\ \A s \in States(i) :
       /\ SoundActions(i, Machine[i].states[s].entry)
       /\ SoundActions(i, Machine[i].states[s].exit)
       /\ IsSequence(Machine[i].states[s].transitions)
       /\ \A k \in DOMAIN Machine[i].states[s].transitions :
            /\ Machine[i].states[s].transitions[k].target \in States(i)
            /\ SoundActions(i, Machine[i].states[s].transitions[k].actions)

ASSUME EngineAssumption ==
  /\ IsSequence(Order) /\ IsInjective(Order)
  /\ \A i \in Instances : SoundMachine(i)
  /\ QueueCapacity \in Nat \ {0} /\ BusCapacity \in Nat \ {0}
  /\ MaxChain \in Nat \ {0} /\ MaxActions \in Nat \ {0} /\ MaxEvents \in Nat \ {0}
  /\ TimeTop \in Nat /\ CountMod \in Nat \ {0}

VARIABLES
  inst,     \* instance tables
  stack,    \* calls in progress, innermost first
  bus,      \* the global queue
  signals,  \* values of the signal bus
  now       \* engine time: the clock as the last tick read it

engine_vars == <<inst, stack, bus, signals, now>>

TIMER == 2
CAN_RX == 3

FRAME_MAX_LENGTH == 8

(* A name resolves to a physical interface the package declared: itself,   *)
(* else by the instance's binding, else by the package's.  The first       *)
(* binding of an alias decides, also when its target is not declared.      *)
resolve_interface(i, name) ==
  LET target == CASE name \in DOMAIN Capability -> name
                  [] name \in DOMAIN Def[i].bindings -> Def[i].bindings[name]
                  [] name \in DOMAIN Bindings -> Bindings[name]
                  [] OTHER -> None
  IN  IF target \in DOMAIN Capability THEN target ELSE None

(* A message name, with the map's name or without; ambiguous is not found. *)
resolve_message(ref) ==
  LET found == {m \in Namespace : m.name = ref.name /\ ref.map \in {None, m.map}}
  IN  IF \E m \in found : found = {m} THEN CHOOSE m \in found : TRUE ELSE None

(* An event; `about` is what the payload names: the signal, <<instance,    *)
(* timer>>, <<instance, state>>, <<interface, can id>>, the instance.      *)
Event(type, about, class, time) ==
  [type |-> type, about |-> about, priority_class |-> class, timestamp_us |-> time]

-----------------------------------------------------------------------------
(* The call stack.                                                         *)

Top == Head(stack)
Step == Head(Top.todo)
At(op) == stack # <<>> /\ Step.op = op

Call(todo) == [todo |-> todo, activation |-> FALSE]

(* fsm_activation_t: the event (None on start), the remaining action       *)
(* budget, the suspend request.                                            *)
Activation(i, event, todo) ==
  [todo |-> todo, activation |-> TRUE, i |-> i, event |-> event,
   budget |-> MaxActions, suspend |-> FALSE]

Entered(frames) == stack' = frames \o stack

(* A call of the host, or of a sink; one with nothing to do returns.       *)
Enters(todo) == IF todo = <<>> THEN UNCHANGED stack ELSE Entered(<<Call(todo)>>)

(* The innermost call goes on with `todo` before the rest of its steps,    *)
(* and returns after the last one.                                         *)
Continued(frame, todo) ==
  LET rest == todo \o Tail(frame.todo)
  IN  stack' = IF rest = <<>> THEN Tail(stack)
               ELSE <<[frame EXCEPT !.todo = rest]>> \o Tail(stack)

Acts(list) == IF list = <<>> THEN <<>> ELSE <<[op |-> "actions", list |-> list]>>
Sink == [op |-> "sink"]
Chain(depth) == [op |-> "chain", depth |-> depth]
Finish == [op |-> "finish"]
Drain(i) == [op |-> "drain", i |-> i, processed |-> 0, entered |-> FALSE]

-----------------------------------------------------------------------------
(* Instance tables.                                                        *)

is_active(x) == x.lifecycle = "RUNNING"

Operand(i, variables, o) ==
  CASE o.read = "literal" -> value_normalize(o.value)
    [] o.read = "sig" -> IF o.name \in SignalRead THEN value_normalize(signals[o.name])
                                                  ELSE Unset
    [] o.read = "var" -> variables[o.name]

(* The default, then the instance's override: one that fails leaves the    *)
(* default in place.  Neither reads another variable here.                 *)
InitialValue(i, v) ==
  LET def == Machine[i].variables[v]
      own == IF v \in DOMAIN Def[i].variables THEN Def[i].variables[v] ELSE def.default
      Coerced(o) == coerce_to_declared(def.type, Operand(i, [x \in {} |-> Unset], o))
  IN  IF IsSet(Coerced(own)) THEN Coerced(own) ELSE Coerced(def.default)

(* fsm_instance_initialize: tables from the declaration, queue cleared.    *)
initialized(i, x) ==
  [x EXCEPT !.state = None, !.deferred = None, !.queue = clear(@),
            !.variables = [v \in DOMAIN Machine[i].variables |-> InitialValue(i, v)],
            !.timers = [t \in Timers(i) |->
              [running |-> FALSE, deadline_us |-> 0, duration |-> Machine[i].timers[t].duration,
               repeat |-> Machine[i].timers[t].repeat, origin |-> 0, ticks |-> 0,
               lapped |-> FALSE]]]

(* fsm_timer_arm.  `origin`, `ticks` and `lapped` are history: when the    *)
(* countdown was last based on the clock, the periods reported since, and  *)
(* whether their number was ever too large to be counted.  Durations are   *)
(* the microseconds fsm_us makes of them.                                  *)
armed(duration, repeat) ==
  [running |-> TRUE, duration |-> duration, repeat |-> repeat,
   deadline_us |-> sat_add(now, duration, TimeTop), origin |-> now, ticks |-> 0,
   lapped |-> FALSE]

Stopped(x) == [x EXCEPT !.timers = [t \in DOMAIN @ |-> [@[t] EXCEPT !.running = FALSE]]]

suspended(x) ==
  IF x.lifecycle = "RUNNING"
  THEN [x EXCEPT !.lifecycle = "SUSPENDED", !.deferred = None]
  ELSE x

faulted(x) ==
  IF x.lifecycle \in {"RUNNING", "SUSPENDED"}
  THEN Stopped([x EXCEPT !.lifecycle = "FAULT", !.deferred = None])
  ELSE x

disabled(x) ==
  Stopped([x EXCEPT !.lifecycle = "DISABLED", !.deferred = None, !.queue = clear(@)])

EngineInit ==
  /\ stack = <<>>
  /\ bus = queue_init(BusCapacity)
  /\ signals = [s \in Signals |-> Unset]
  /\ now = 0
  /\ inst = [i \in Instances |->
       initialized(i, [lifecycle |-> IF Def[i].enabled THEN "READY" ELSE "DISABLED",
         state |-> None, deferred |-> None, queue |-> queue_init(QueueCapacity),
         variables |-> <<>>, timers |-> <<>>, processing |-> FALSE,
         exhausted |-> FALSE, evaluated |-> 0])]

-----------------------------------------------------------------------------
(* Delivery.                                                               *)

(* A filter on interface, message and id, each optional.                   *)
match_can_rx(i, filter, e) ==
  /\ filter.interface # None => resolve_interface(i, filter.interface) = e.about[1]
  /\ filter.message # None => LET m == resolve_message(filter.message)
                              IN  m # None /\ m.id = e.about[2]
  /\ filter.can_id \in {None, e.about[2]}

declares_event(i, type) ==
  \E s \in DOMAIN Machine[i].states : \E k \in DOMAIN Machine[i].states[s].transitions :
    Machine[i].states[s].transitions[k].event = type

(* The subscription gate.  State events never pass it: they reach only the *)
(* instance that emits them.                                               *)
instance_accepts(i, e) ==
  LET sub == Def[i].subscriptions
  IN  CASE e.type = "CAN_RX" -> IF sub.has_can_rx
                                THEN \E f \in sub.can_rx : match_can_rx(i, f, e)
                                ELSE declares_event(i, e.type)
        [] e.type = "SIGNAL_CHANGED" -> IF sub.has_signals THEN e.about \in sub.signals
                                        ELSE declares_event(i, e.type)
        [] e.type = "TIMER_EXPIRED" -> ~sub.has_timers \/ sub.timers
        [] e.type = "FAULT_RAISED" -> IF sub.has_faults THEN sub.faults
                                      ELSE declares_event(i, e.type)
        [] e.type = "POWER_MODE_CHANGED" -> IF sub.has_power_mode THEN sub.power_mode
                                            ELSE declares_event(i, e.type)
        [] OTHER -> FALSE

(* One push into the incoming queue.                                       *)
queued(x, e) == [x EXCEPT !.queue = push(@, e).queue]

(* fsm_publish and fsm_queue_event: the bus first, then the own queue.     *)
emit(i, x, e, self) ==
  /\ bus' = push(bus, e).queue
  /\ inst' = [inst EXCEPT ![i] = IF self THEN queued(x, e) ELSE x]

ActivationTime == IF Top.event = None THEN now ELSE Top.event.timestamp_us

emit_generated(i, type, about, self) ==
  emit(i, inst[i], Event(type, about, IF type = "FAULT_RAISED" THEN FAULT ELSE GENERATED,
                         ActivationTime), self)

emit_state_event(i, type, s) == emit_generated(i, type, <<i, s>>, TRUE)

-----------------------------------------------------------------------------
(* Guards and selection.                                                   *)

transition_matches(i, tr, e) ==
  /\ tr.event = e.type
  /\ CASE e.type = "CAN_RX" -> match_can_rx(i, tr.about, e)
       [] e.type = "SIGNAL_CHANGED" -> tr.about = e.about
       [] e.type = "TIMER_EXPIRED" -> e.about = <<i, tr.about>>
       [] e.type \in {"STATE_ENTERED", "STATE_EXITED"} -> e.about[1] = i
       [] OTHER -> TRUE

(* "error" is an expression fault: a read refused or undefined.            *)
evaluate_guard(i, g) ==
  LET read == Operand(i, inst[i].variables, g)
  IN  CASE g.read = "always" -> "true"
        [] ~IsSet(read) -> "error"
        [] value_equals(read, g.value) -> "true"
        [] OTHER -> "false"

(* The first matching transition whose guard is not false decides.         *)
Candidates(i, e) ==
  LET trs == Machine[i].states[inst[i].state].transitions
  IN  {k \in DOMAIN trs : /\ transition_matches(i, trs[k], e)
                          /\ evaluate_guard(i, trs[k].guard) # "false"}

Selected(i, e) ==
  Machine[i].states[inst[i].state].transitions[
    CHOOSE k \in Candidates(i, e) : \A l \in Candidates(i, e) : k <= l]

(* The steps of one transition from the current state.                     *)
TransitionSteps(i, target, actions) ==
  LET from == inst[i].state
  IN  (IF from = None THEN <<>>
       ELSE Acts(Machine[i].states[from].exit) \o <<[op |-> "exited", state |-> from]>>)
        \o Acts(actions) \o <<[op |-> "commit", target |-> target]>>

(* fsm_process_queued_event up to the selection.                           *)
select_transition ==
  /\ At("select")
  /\ LET i == Top.i
         tr == Selected(i, Top.event)
     IN  CASE inst[i].state = None -> Continued(Top, <<>>)
           [] inst[i].state # None /\ Candidates(i, Top.event) = {} -> Continued(Top, <<Chain(0)>>)
           [] inst[i].state # None /\ Candidates(i, Top.event) # {} ->
                IF evaluate_guard(i, tr.guard) = "error"
                THEN Continued([Top EXCEPT !.suspend = TRUE], <<Chain(0)>>)
                ELSE Continued(Top, TransitionSteps(i, tr.target, tr.actions) \o <<Chain(1)>>)
  /\ UNCHANGED <<inst, bus, signals, now>>

-----------------------------------------------------------------------------
(* Actions of a machine.                                                   *)

(* fsm_run_actions: nothing more after an expression fault; without budget *)
(* the list is given up.                                                   *)
Runnable == ~Top.suspend /\ Top.budget > 0
Spent == [Top EXCEPT !.budget = @ - 1]
Faulting == [Spent EXCEPT !.suspend = TRUE]
Action == Head(Step.list)
Does(kind) == At("actions") /\ Runnable /\ Action.kind = kind
Acted(frame, todo) == Continued(frame, todo \o Acts(Tail(Step.list)))

give_up_actions ==
  /\ At("actions")
  /\ ~Runnable
  /\ Continued(Top, IF Top.suspend THEN <<>> ELSE <<Sink>>)
  /\ UNCHANGED <<inst, bus, signals, now>>

(* Whether the operand of the current action can be evaluated, and to what. *)
Evaluated == Operand(Top.i, inst[Top.i].variables, Action.operand)

(* What the package may send, before the governor is asked: a declared     *)
(* interface and id, a classic frame.                                      *)
tx_permitted(i, action) ==
  LET iface == resolve_interface(i, action.interface)
      m == resolve_message(action.message)
  IN  /\ iface # None /\ m # None
      /\ Capability[iface].tx /\ m.id \in Capability[iface].tx_ids
      /\ m.dlc <= FRAME_MAX_LENGTH

(* The governor answers in its callback; a denial or a value the signal    *)
(* cannot carry fails the action, and the next one runs.                   *)
send_message ==
  /\ Does("send_message")
  /\ \/ /\ tx_permitted(Top.i, Action)
        /\ IsSet(Evaluated)
        /\ IsSet(encoded_value(Action.signal, Evaluated))
        /\ Acted(Spent, <<Sink>>)
     \/ /\ tx_permitted(Top.i, Action)
        /\ ~IsSet(Evaluated)
        /\ Acted(Faulting, <<>>)
     \/ /\ tx_permitted(Top.i, Action) => IsSet(Evaluated)
        /\ Acted(Spent, <<>>)
  /\ UNCHANGED <<inst, bus, signals, now>>

set_signal ==
  /\ Does("set_signal")
  /\ LET s == Action.signal
     IN  \/ /\ s \in SignalWrite
            /\ IsSet(Evaluated)
            /\ signals' = [signals EXCEPT ![s] = Evaluated]
            /\ Acted(Spent, IF value_equals(signals[s], Evaluated) THEN <<Sink>>
                                ELSE <<Sink, [op |-> "changed", signal |-> s]>>)
         \/ /\ s \in SignalWrite
            /\ ~IsSet(Evaluated)
            /\ Acted(Faulting, <<>>)
            /\ UNCHANGED signals
         \/ /\ s \in SignalWrite => IsSet(Evaluated)
            /\ Acted(Spent, <<>>)
            /\ UNCHANGED signals
  /\ UNCHANGED <<inst, bus, now>>

signal_changed ==
  /\ At("changed")
  /\ LET sub == Def[Top.i].subscriptions
     IN  emit_generated(Top.i, "SIGNAL_CHANGED", Step.signal,
                        sub.has_signals /\ Step.signal \in sub.signals)
  /\ Continued(Top, <<>>)
  /\ UNCHANGED <<signals, now>>

set_variable ==
  /\ Does("set_variable")
  /\ LET v == Action.variable
         stored == coerce_to_declared(Machine[Top.i].variables[v].type, Evaluated)
     IN  inst' = IF IsSet(Evaluated) /\ IsSet(stored)
                 THEN [inst EXCEPT ![Top.i].variables[v] = stored] ELSE inst
  /\ Acted(IF IsSet(Evaluated) THEN Spent ELSE Faulting, <<>>)
  /\ UNCHANGED <<bus, signals, now>>

action_timer ==
  /\ \/ Does("start_timer") \/ Does("stop_timer") \/ Does("reset_timer")
  /\ LET t == Action.timer
         slot == inst[Top.i].timers[t]
         def == Machine[Top.i].timers[t]
     IN  inst' = [inst EXCEPT ![Top.i].timers[t] =
           CASE Action.kind = "start_timer" ->
                  armed(IF Action.duration = None THEN def.duration ELSE Action.duration,
                        IF Action.repeat = None THEN def.repeat ELSE Action.repeat)
             [] Action.kind = "stop_timer" -> [slot EXCEPT !.running = FALSE]
             [] Action.kind = "reset_timer" ->
                  [armed(slot.duration, slot.repeat) EXCEPT !.running = slot.running]]
  /\ Acted(Spent, <<Sink>>)
  /\ UNCHANGED <<bus, signals, now>>

log ==
  /\ Does("log")
  /\ Acted(Spent, <<Sink>>)
  /\ UNCHANGED <<inst, bus, signals, now>>

raise_fault ==
  /\ Does("raise_fault")
  /\ LET sub == Def[Top.i].subscriptions
     IN  emit_generated(Top.i, "FAULT_RAISED", Top.i, sub.has_faults /\ sub.faults)
  /\ Acted(Spent, IF Action.severity = "CRITICAL"
                      THEN <<Sink, [op |-> "contain"]>> ELSE <<Sink>>)
  /\ UNCHANGED <<signals, now>>

(* A critical fault, after the sink has heard of it.  The list goes on.    *)
contain_fault ==
  /\ At("contain")
  /\ inst' = [inst EXCEPT ![Top.i] = faulted(@)]
  /\ Continued(Top, <<>>)
  /\ UNCHANGED <<bus, signals, now>>

(* The first transition action wins.                                       *)
action_transition ==
  /\ Does("transition")
  /\ inst' = [inst EXCEPT ![Top.i].deferred = IF @ = None THEN Action.target ELSE @]
  /\ Acted(Spent, IF inst[Top.i].deferred = None THEN <<>> ELSE <<Sink>>)
  /\ UNCHANGED <<bus, signals, now>>

-----------------------------------------------------------------------------
(* Transition execution.                                                   *)

state_exited ==
  /\ At("exited")
  /\ IF Top.suspend THEN UNCHANGED <<inst, bus>>
     ELSE emit_state_event(Top.i, "STATE_EXITED", Step.state)
  /\ Continued(Top, <<>>)
  /\ UNCHANGED <<signals, now>>

(* The state change, not committed after an expression fault; the sink     *)
(* hears of it before the event and the entry actions.                     *)
commit ==
  /\ At("commit")
  /\ IF Top.suspend
     THEN Continued(Top, <<>>) /\ UNCHANGED inst
     ELSE /\ inst' = [inst EXCEPT ![Top.i].state = Step.target]
          /\ Continued(Top, <<Sink, [op |-> "entered", state |-> Step.target]>>)
  /\ UNCHANGED <<bus, signals, now>>

state_entered ==
  /\ At("entered")
  /\ emit_state_event(Top.i, "STATE_ENTERED", Step.state)
  /\ Continued(Top, Acts(Machine[Top.i].states[Step.state].entry))
  /\ UNCHANGED <<signals, now>>

(* Mutant: a request made by the entry actions of a deferred transition    *)
(* is not looked at.                                                       *)
run_deferred_chain_once ==
  /\ At("chain")
  /\ LET target == inst[Top.i].deferred
     IN  IF target = None \/ Top.suspend THEN Continued(Top, <<>>)
         ELSE Continued(Top, TransitionSteps(Top.i, target, <<>>))
  /\ inst' = [inst EXCEPT ![Top.i].deferred = None]
  /\ UNCHANGED <<bus, signals, now>>

(* One turn of the loop over pending requests; at the limit the instance   *)
(* is suspended instead.                                                   *)
run_deferred_chain ==
  /\ At("chain")
  /\ LET target == inst[Top.i].deferred
     IN  CASE target = None -> Continued(Top, <<>>)
           [] target # None /\ Top.suspend -> Continued(Top, <<>>)
           [] target # None /\ ~Top.suspend /\ Step.depth >= MaxChain ->
                Continued([Top EXCEPT !.suspend = TRUE], <<Sink>>)
           [] OTHER ->
                Continued(Top, TransitionSteps(Top.i, target, <<>>) \o <<Chain(Step.depth + 1)>>)
  /\ inst' = [inst EXCEPT ![Top.i].deferred = None]
  /\ UNCHANGED <<bus, signals, now>>

(* The end of an activation: an expression fault or a cut chain suspends.  *)
finish_activation ==
  /\ At("finish")
  /\ inst' = [inst EXCEPT ![Top.i] = IF Top.suspend THEN suspended(@) ELSE @]
  /\ Continued(Top, <<>>)
  /\ UNCHANGED <<bus, signals, now>>

-----------------------------------------------------------------------------
(* fsm_drain_instance: refused while an activation of the same instance is *)
(* in progress; otherwise one event after the other, to a bound.           *)

(* Mutant: re-entry is not refused.                                        *)
Busy_never(i, step) == FALSE

Busy(i, step) == inst[i].processing /\ ~step.entered

drain_refused ==
  /\ At("drain")
  /\ Busy(Step.i, Step)
  /\ Continued(Top, <<>>)
  /\ UNCHANGED <<inst, bus, signals, now>>

(* Mutant: the events of one activation are not counted.                   *)
Again_uncounted(step) == [step EXCEPT !.entered = TRUE]

Again(step) == [step EXCEPT !.processed = @ + 1, !.entered = TRUE]

BudgetSpent(step) == step.processed >= MaxEvents

drain_over ==
  /\ At("drain")
  /\ ~Busy(Step.i, Step)
  /\ LET x == inst[Step.i]
         waiting == ~is_empty(x.queue) /\ is_active(x)
     IN  /\ ~waiting \/ BudgetSpent(Step)
         /\ inst' = [inst EXCEPT ![Step.i].processing = FALSE,
                                 ![Step.i].exhausted = waiting]
  /\ Continued(Top, <<>>)
  /\ UNCHANGED <<bus, signals, now>>

drain_event ==
  /\ At("drain")
  /\ ~Busy(Step.i, Step)
  /\ LET x == inst[Step.i]
         e == Head(x.queue.slots)
     IN  /\ ~is_empty(x.queue) /\ is_active(x) /\ ~BudgetSpent(Step)
         /\ inst' = [inst EXCEPT ![Step.i].processing = TRUE, ![Step.i].queue = pop(@)]
         /\ stack' = <<Activation(Step.i, e, <<[op |-> "select"], Finish>>),
                       [Top EXCEPT !.todo = <<Again(Step)>> \o Tail(@)]>> \o Tail(stack)
  /\ UNCHANGED <<bus, signals, now>>

sink_returns ==
  /\ At("sink")
  /\ Continued(Top, <<>>)
  /\ UNCHANGED <<inst, bus, signals, now>>

-----------------------------------------------------------------------------
(* The calls of the host.                                                  *)

Called(i, x, todo) ==
  /\ inst' = [inst EXCEPT ![i] = x]
  /\ Enters(todo)
  /\ UNCHANGED <<bus, signals, now>>

instance_enable(i) ==
  /\ inst[i].lifecycle = "DISABLED"
  /\ Called(i, [initialized(i, inst[i]) EXCEPT !.lifecycle = "READY"], <<>>)

instance_suspend(i) ==
  /\ inst[i].lifecycle = "RUNNING"
  /\ Called(i, suspended(inst[i]), <<>>)

instance_resume(i) ==
  /\ inst[i].lifecycle = "SUSPENDED"
  /\ Called(i, [inst[i] EXCEPT !.lifecycle = "RUNNING"], <<Drain(i)>>)

instance_fault(i) ==
  /\ inst[i].lifecycle \in {"RUNNING", "SUSPENDED"}
  /\ Called(i, faulted(inst[i]), <<>>)

instance_reset(i) ==
  /\ inst[i].lifecycle \in {"FAULT", "SUSPENDED"}
  /\ Called(i, [initialized(i, inst[i]) EXCEPT !.lifecycle = "READY"], <<>>)

instance_disable(i) ==
  /\ inst[i].lifecycle # "DISABLED"
  /\ Called(i, disabled(inst[i]), <<>>)

(* A started table: empty queue, no state yet, auto-start timers running.  *)
started(i, x) ==
  [x EXCEPT !.lifecycle = "RUNNING", !.queue = clear(@), !.deferred = None, !.state = None,
            !.timers = [t \in DOMAIN @ |->
              IF Machine[i].timers[t].auto_start
              THEN armed(Machine[i].timers[t].duration, Machine[i].timers[t].repeat) ELSE @[t]]]

(* Then the initial state with its entry actions and the chain they ask    *)
(* for, then the queue.                                                    *)
instance_start(i) ==
  /\ inst[i].lifecycle = "READY"
  /\ inst' = [inst EXCEPT ![i] = started(i, @)]
  /\ Entered(<<Activation(i, None, <<[op |-> "commit", target |-> Machine[i].initial],
                                     Chain(1), Finish>>),
               Call(<<Drain(i)>>)>>)
  /\ UNCHANGED <<bus, signals, now>>

(* Mutant: the loop ends one instance early.                               *)
DrainSteps_short(e) == [k \in 1 .. Len(Order) - 1 |-> Drain(Order[k])]

(* The queues of all instances, whether the event reached them or not.     *)
DrainSteps(e) == [k \in DOMAIN Order |-> Drain(Order[k])]

(* Delivery to every running instance that accepts, then the queues.       *)
process_event(e) ==
  /\ inst' = [i \in Instances |->
       LET x == [inst[i] EXCEPT !.exhausted = FALSE]
       IN  IF is_active(x) /\ instance_accepts(i, e) THEN queued(x, e) ELSE x]
  /\ Enters(DrainSteps(e))

inject_event(i, e) ==
  /\ is_active(inst[i]) /\ instance_accepts(i, e)
  /\ Called(i, queued(inst[i], e), IF push(inst[i].queue, e).ok THEN <<Drain(i)>> ELSE <<>>)

-----------------------------------------------------------------------------
(* Time.                                                                   *)

Due(slot) == slot.running /\ now >= slot.deadline_us

(* Mutant: a periodic timer is based on the tick that noticed it.          *)
expired_rebased(slot) ==
  IF slot.repeat
  THEN [slot EXCEPT !.deadline_us = now + slot.duration, !.ticks = @ + 1]
  ELSE [slot EXCEPT !.running = FALSE]

(* fsm_timer_expired: periods that went by unseen are counted, in 32 bits, *)
(* and the deadline stays on the grid of the first one.                    *)
expired(slot) ==
  LET due == 1 + (now - slot.deadline_us) \div slot.duration
      periods == due % CountMod
  IN  IF slot.repeat
      THEN [slot EXCEPT !.deadline_us = sat_add(@, (slot.duration * periods) % (TimeTop + 1), TimeTop),
                        !.ticks = @ + periods, !.lapped = @ \/ due >= CountMod]
      ELSE [slot EXCEPT !.running = FALSE]

TimerSteps == [k \in DOMAIN Order |-> [op |-> "timers", i |-> Order[k]]]

engine_tick(clock) ==
  /\ now' = clock
  /\ Enters(TimerSteps)
  /\ UNCHANGED <<inst, bus, signals>>

(* The timers of a running instance one after the other, then its queue.   *)
TimerLoop(i) == [t \in Timers(i) |-> [op |-> "timer", i |-> i, timer |-> t]] \o <<Drain(i)>>

tick_instance ==
  /\ At("timers")
  /\ IF is_active(inst[Step.i])
     THEN /\ inst' = [inst EXCEPT ![Step.i].exhausted = FALSE, ![Step.i].evaluated = now]
          /\ Continued(Top, TimerLoop(Step.i))
     ELSE Continued(Top, <<>>) /\ UNCHANGED inst
  /\ UNCHANGED <<bus, signals, now>>

(* One timer: the event goes to the bus, then to the own queue if the      *)
(* instance wants timer events.                                            *)
timer_turn ==
  /\ At("timer")
  /\ LET i == Step.i
         t == Step.timer
         e == Event("TIMER_EXPIRED", <<i, t>>, TIMER, now)
     IN  IF Due(inst[i].timers[t])
         THEN emit(i, [inst[i] EXCEPT !.timers[t] = expired(@)], e, instance_accepts(i, e))
         ELSE UNCHANGED <<inst, bus>>
  /\ Continued(Top, <<>>)
  /\ UNCHANGED <<signals, now>>

(* What the engine does by itself once a call is in progress.              *)
EngineStep ==
  \/ select_transition \/ give_up_actions \/ send_message \/ set_signal \/ signal_changed
  \/ set_variable \/ action_timer \/ log \/ raise_fault \/ contain_fault \/ action_transition
  \/ state_exited \/ commit \/ state_entered \/ run_deferred_chain \/ finish_activation
  \/ drain_refused \/ drain_over \/ drain_event \/ sink_returns
  \/ tick_instance \/ timer_turn
=============================================================================
