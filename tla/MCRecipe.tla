------------------------------ MODULE MCRecipe ------------------------------
(***************************************************************************)
(* Five recipes over three signals and a store of two slots: two that      *)
(* toggle the same signal for ever, one that stops on errors and one that  *)
(* goes on, one bound to a timer.                                          *)
(***************************************************************************)
EXTENDS RecipeEngine

Lit(x) == [read |-> "literal", name |-> "none", value |-> x]
Sig(s, x) == [read |-> "sig", name |-> s, value |-> x]
Var(v, x) == [read |-> "var", name |-> v, value |-> x]

AnyOf(event) == [event |-> event, interface |-> Nil, message |-> Nil, signal |-> Nil,
                 timer |-> Nil, timeout_ms |-> Nil]
SetSignal(s, o) == [kind |-> "set_signal", signal |-> s, operand |-> o]
SetVariable(v, o) == [kind |-> "set_variable", variable |-> v, operand |-> o]
Send(o) == [kind |-> "send_message", interface |-> "body", message |-> "m", operand |-> o,
            signal |-> [type |-> "uint", scaled |-> FALSE, last_byte |-> 1]]

OnChange(s, conditions, actions, on_error) ==
  [enabled |-> TRUE, trigger |-> [AnyOf("SIGNAL_CHANGED") EXCEPT !.signal = s],
   conditions |-> conditions, actions |-> actions, on_error |-> on_error]

MCRecipes ==
  <<OnChange("a", <<Sig("a", IntV(1))>>, <<SetSignal("a", Lit(IntV(0))), SetSignal("b", Sig("a", IntV(0)))>>, "STOP"),
    OnChange("a", <<Sig("a", IntV(0))>>, <<SetVariable("n", Sig("a", IntV(0))), SetSignal("b", Sig("a", IntV(0))), SetSignal("a", Lit(IntV(1)))>>, "CONTINUE"),
    OnChange("b", <<>>, <<Send(Sig("c", IntV(0))), SetSignal("c", Lit(IntV(1))), [kind |-> "log"]>>, "STOP"),
    [enabled |-> TRUE, trigger |-> [AnyOf("CAN_RX") EXCEPT !.interface = "body", !.message = "m"],
     conditions |-> <<>>, actions |-> <<SetVariable("k", Lit(IntV(1))), [kind |-> "raise_fault"]>>, on_error |-> "CONTINUE"],
    [enabled |-> TRUE, trigger |-> [AnyOf("TIMER_EXPIRED") EXCEPT !.timer = "t"],
     conditions |-> <<>>, actions |-> <<[kind |-> "start_timer"], Send(Lit(RealV(6)))>>, on_error |-> "CONTINUE"]>>

MCIngress == {<<"a", UIntV(0)>>, <<"a", IntV(1)>>, <<"c", IntV(1)>>}
MCExternal == {[type |-> "CAN_RX", about |-> <<"can0", 2>>, class |-> CAN_RX],
               [type |-> "TIMER_EXPIRED", about |-> <<"gate", 1>>, class |-> TIMER]}
MCBindings == [body |-> "can0"]
MCMessages == [m |-> [id |-> 2, dlc |-> 8]]
MCTimerIds == [t |-> 1]
=============================================================================
