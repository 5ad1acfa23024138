------------------------------ MODULE Gateway -------------------------------
(***************************************************************************)
(* A host of the state machine engine, after examples/gateway/main.c:      *)
(* frames are decoded into signals and change events on the bus, the bus   *)
(* is dispatched to the engine, the engine is ticked, instances are driven *)
(* through their life cycle, and the sink may call back.  The calls come   *)
(* in any order; the recipe engine, dispatched first, is module            *)
(* RecipeEngine.                                                           *)
(***************************************************************************)
EXTENDS FsmEngine

CONSTANTS
  Ingress,       \* <<signal, value>> pairs the decoded frames carry
  External,      \* events a host passes in: about other parts of the system
  Periods,       \* time that passes before a frame or a tick
  TimeMax,       \* bound: the clock stops here
  MaxDispatches, \* GATEWAY_MAX_DISPATCHES
  MaxInputs,     \* bound: frames, ticks and injected events
  MaxOrders,     \* bound: lifecycle calls of the host
  MaxCallbacks   \* bound: calls from within the sink

ASSUME GatewayAssumption == Periods \subseteq Nat /\ TimeMax \in 0 .. TimeTop

VARIABLES
  clock,         \* the injected clock
  dispatches,    \* world->dispatches
  inputs, orders, callbacks  \* how many there have been

vars == <<engine_vars, clock, dispatches, inputs, orders, callbacks>>

Init ==
  /\ EngineInit
  /\ clock = 0 /\ dispatches = 0 /\ inputs = 0 /\ orders = 0 /\ callbacks = 0

Idle == stack = <<>>

Advanced(d) == IF clock + d > TimeMax THEN TimeMax ELSE clock + d

Input ==
  /\ Idle
  /\ inputs < MaxInputs
  /\ inputs' = inputs + 1
  /\ UNCHANGED <<dispatches, orders, callbacks>>

(* Values of different kinds differ.                                       *)
gateway_value_equals(x, y) == x = y

(* gateway_ingest_frame for one decoded signal: stored first, then the     *)
(* event, and none for a value that did not move.                          *)
ingest_frame ==
  /\ Input
  /\ \E frame \in Ingress, d \in Periods :
       /\ clock' = Advanced(d)
       /\ IF gateway_value_equals(signals[frame[1]], frame[2]) THEN UNCHANGED <<signals, bus>>
          ELSE /\ signals' = [signals EXCEPT ![frame[1]] = frame[2]]
               /\ bus' = push(bus, Event("SIGNAL_CHANGED", frame[1], CAN_RX, clock')).queue
  /\ UNCHANGED <<inst, stack, now>>

tick ==
  /\ Input
  /\ \E d \in Periods : clock' = Advanced(d)
  /\ engine_tick(clock')

(* The seven calls that move an instance through its life cycle.           *)
Ordered(i) ==
  \/ instance_enable(i) \/ instance_start(i) \/ instance_resume(i)
  \/ instance_reset(i) \/ instance_suspend(i) \/ instance_fault(i) \/ instance_disable(i)

lifecycle ==
  /\ Idle
  /\ orders < MaxOrders
  /\ orders' = orders + 1
  /\ \E i \in Instances : Ordered(i)
  /\ UNCHANGED <<clock, dispatches, inputs, callbacks>>

inject ==
  /\ Input
  /\ \E i \in Instances, type \in DOMAIN External :
       inject_event(i, Event(type, External[type], CAN_RX, clock))
  /\ UNCHANGED clock

(* Timer and state events reach their instance inside the engine.          *)
event_for_fsm(type) ==
  type \in {"CAN_RX", "SIGNAL_CHANGED", "FAULT_RAISED", "POWER_MODE_CHANGED"}

(* One turn of gateway_drain_bus.  Beyond the bound the event is lost.     *)
drain_bus ==
  /\ Idle
  /\ ~is_empty(bus)
  /\ bus' = pop(bus)
  /\ dispatches' = IF dispatches < MaxDispatches THEN dispatches + 1 ELSE dispatches
  /\ IF dispatches < MaxDispatches /\ event_for_fsm(Head(bus.slots).type)
     THEN process_event(Head(bus.slots))
     ELSE UNCHANGED <<inst, stack>>
  /\ UNCHANGED <<signals, now, clock, inputs, orders, callbacks>>

(* A sink callback that calls into the engine before it returns: it passes *)
(* an event to all or to one, or orders an instance about, the one it was  *)
(* called for included.                                                    *)
callback ==
  /\ At("sink")
  /\ callbacks < MaxCallbacks
  /\ callbacks' = callbacks + 1
  /\ \/ \E type \in DOMAIN External : /\ process_event(Event(type, External[type], CAN_RX, clock))
                                      /\ UNCHANGED <<bus, signals, now>>
     \/ \E i \in Instances, type \in DOMAIN External :
          inject_event(i, Event(type, External[type], CAN_RX, clock))
     \/ \E i \in Instances : Ordered(i)
  /\ UNCHANGED <<clock, dispatches, inputs, orders>>

engine ==
  /\ EngineStep
  /\ UNCHANGED <<clock, dispatches, inputs, orders, callbacks>>

Next == ingest_frame \/ tick \/ lifecycle \/ inject \/ drain_bus \/ callback \/ engine

(* The engine runs to the end of a call by itself; when, and whether, the  *)
(* host calls again is up to the host.                                     *)
Spec == Init /\ [][Next]_vars /\ WF_vars(engine)

-----------------------------------------------------------------------------
Activations(i) == {k \in DOMAIN stack : stack[k].activation /\ stack[k].i = i}

(* A transition requested by an action is executed or dropped in the same  *)
(* call: the request never waits for a later event, through chains, cut    *)
(* chains, expression faults, critical faults and lifecycle calls made by  *)
(* a callback in the middle of an action list (fsm_run_deferred_chain).    *)
NoStaleDeferral == Idle => \A i \in Instances : inst[i].deferred = None

(* An instance works on one event at a time: a callback that delivers an   *)
(* event to an instance in the middle of one does not start a second       *)
(* (the processing flag of fsm_drain_instance).                            *)
OneEventAtATime ==
  \A i \in Instances :
    \A k, l \in Activations(i) : stack[k].event # None /\ stack[l].event # None => k = l

(* Violated: core/fsm/README.md says a callback "cannot nest a second      *)
(* activation".  The initial entry of instance_start runs outside the      *)
(* processing flag, so a callback of an initial entry action nests one.    *)
NoNestedActivation == \A i \in Instances : \A k, l \in Activations(i) : k = l

(* However ticks, suspensions and delays are spread, a running timer has   *)
(* reported one tick per full period since it was armed, at the time its   *)
(* instance last looked, whenever no tick is in the middle of its timers;  *)
(* a one-shot timer never overstays (fsm_timer_expired, fsm_timer_arm).    *)
(* It ends with the numbers of the code: a timer that was once looked at   *)
(* 2^32 periods late has lost count (engine.c:760), and at the end of time *)
(* every deadline that was cut off there is due (engine.c:762).            *)
TicksAccounted ==
  \A i \in Instances : \A t \in Timers(i) :
    LET slot == inst[i].timers[t]
        seen == inst[i].evaluated
    IN  slot.running /\ ~slot.lapped /\ seen \in slot.origin .. TimeTop - 1 /\ ~At("timer") =>
          slot.ticks = (seen - slot.origin) \div slot.duration

(* Between calls an event waits in a running instance only when the last   *)
(* call of the dispatcher ran into the event budget; nothing stalls        *)
(* because an event reached nobody (cancestry_fsm_engine_process_event).   *)
NoStall ==
  Idle => \A i \in Instances :
            is_active(inst[i]) /\ ~is_empty(inst[i].queue) => inst[i].exhausted

(* Every call into the engine returns, also for machines that react to     *)
(* their own entry for ever: the budgets end it (fsm_drain_instance).      *)
CallsReturn == (stack # <<>>) ~> (stack = <<>>)
=============================================================================
