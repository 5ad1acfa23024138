----------------------------- MODULE MCGateway ------------------------------
(***************************************************************************)
(* Two instances.  "gate" follows a signal: a message, a one-shot timer, a *)
(* chain of deferred transitions that ends or runs into the limit, a fault *)
(* it subscribes to itself.  "watch" has a periodic timer, reacts to its   *)
(* own entry for ever once started on it, reads a variable that may be     *)
(* unset and raises a critical fault in the middle of a list.              *)
(***************************************************************************)
EXTENDS Gateway

Lit(x) == [read |-> "literal", name |-> "none", value |-> x]
Sig(s, x) == [read |-> "sig", name |-> s, value |-> x]
Var(v, x) == [read |-> "var", name |-> v, value |-> x]
Always == [read |-> "always"]

On(event, about, guard, actions, target) ==
  [event |-> event, about |-> about, guard |-> guard, actions |-> actions, target |-> target]
State(entry, exit, transitions) == [entry |-> entry, exit |-> exit, transitions |-> transitions]

Message(name) == [map |-> None, name |-> name]
AnyFrame == [interface |-> "can0", message |-> None, can_id |-> None]

Send(m) == [kind |-> "send_message", interface |-> "body", message |-> Message(m),
            signal |-> [type |-> "uint", scaled |-> FALSE], operand |-> Lit(IntV(1))]
SetSignal(s, o) == [kind |-> "set_signal", signal |-> s, operand |-> o]
SetVariable(v, o) == [kind |-> "set_variable", variable |-> v, operand |-> o]
TimerAction(kind, t) == [kind |-> kind, timer |-> t, duration |-> None, repeat |-> None]
StartFor(t, duration) == [TimerAction("start_timer", t) EXCEPT !.duration = duration]
Log == [kind |-> "log"]
Raise(severity) == [kind |-> "raise_fault", severity |-> severity]
Goto(target) == [kind |-> "transition", target |-> target]

Gate ==
  [initial |-> "idle",
   variables |-> [count |-> [type |-> "int", default |-> Lit(IntV(0))]],
   timers |-> <<[duration |-> 2, repeat |-> FALSE, auto_start |-> FALSE]>>,
   states |->
    [idle |-> State(<<Log>>, <<>>,
       <<On("SIGNAL_CHANGED", "in", Sig("in", IntV(1)),
            <<Send("m"), TimerAction("start_timer", 1)>>, "run"),
         On("SIGNAL_CHANGED", "in", Sig("in", IntV(0)), <<>>, "spin")>>),
     run |-> State(<<SetSignal("out", Sig("in", IntV(0))), Goto("step"), Goto("idle")>>, <<>>, <<>>),
     step |-> State(<<TimerAction("reset_timer", 1), SetVariable("count", Lit(BoolV(TRUE)))>>,
                    <<TimerAction("stop_timer", 1)>>,
       <<On("TIMER_EXPIRED", 1, Always, <<Raise("WARNING")>>, "idle")>>),
     spin |-> State(<<Goto("spin")>>, <<>>, <<>>)]]

Watch ==
  [initial |-> "wait",
   variables |-> [seen |-> [type |-> "int", default |-> Lit(Unset)]],
   timers |-> <<[duration |-> 2, repeat |-> TRUE, auto_start |-> TRUE]>>,
   states |->
    [wait |-> State(<<>>, <<>>,
       <<On("SIGNAL_CHANGED", "in", Always, <<SetVariable("seen", Sig("out", IntV(0)))>>, "ping"),
         On("TIMER_EXPIRED", 1, Always, <<>>, "ping"),
         On("CAN_RX", AnyFrame, Always, <<Raise("CRITICAL"), StartFor(1, 3),
                                      Goto("wait")>>, "wait")>>),
     ping |-> State(<<>>, <<>>, <<On("STATE_ENTERED", None, Always, <<>>, "ping")>>)]]

MCOrder == <<"gate", "watch">>
MCMachine == [gate |-> Gate, watch |-> Watch]
Subscriptions(faults) ==
  [has_can_rx |-> FALSE, can_rx |-> {}, has_signals |-> FALSE, signals |-> {},
   has_timers |-> FALSE, timers |-> TRUE, has_faults |-> faults, faults |-> faults,
   has_power_mode |-> FALSE, power_mode |-> FALSE]
MCDef ==
  [gate |-> [enabled |-> TRUE, subscriptions |-> Subscriptions(TRUE), variables |-> <<>>, bindings |-> <<>>],
   watch |-> [enabled |-> TRUE, subscriptions |-> Subscriptions(FALSE), variables |-> <<>>, bindings |-> <<>>]]
MCIngress == {<<"in", IntV(0)>>, <<"in", IntV(1)>>}
MCExternal == [CAN_RX |-> <<"can0", 1>>]
MCCapability == [can0 |-> [tx |-> TRUE, tx_ids |-> {2}]]
MCBindings == [body |-> "can0"]
MCNamespace == {[map |-> "vehicle", name |-> "m", id |-> 2, dlc |-> 8]}
=============================================================================
