--------------------------- MODULE FsmExpression ----------------------------
(***************************************************************************)
(* The expression evaluator of the state machines (core/fsm/expression.c): *)
(* one recursive-descent pass that parses and computes at once.  With a    *)
(* context it evaluates; without one (the loader's check of a guard) every *)
(* leaf is a wildcard, here the value Unset, and only the form is judged.  *)
(*                                                                         *)
(* A context is [validate, signals, denied, variables, event].  Every      *)
(* parser function returns the position it reached with a value or error;  *)
(* the depth it was entered with is an argument, so leaving restores it.   *)
(***************************************************************************)
EXTENDS ExpressionText

CONSTANT MaxDepth  \* CANCESTRY_FSM_EXPRESSION_MAX_DEPTH

Wild(x) == ~IsSet(x)

(* Names.                                                                  *)
CommonFields == {"event_id", "timestamp_us", "sequence", "cause_sequence", "priority_class", "type"}

(* The fields of the payload of each event type.                           *)
PayloadFields(type) ==
  CASE type = "CAN_RX" -> {"interface_id", "can_id", "length"}
    [] type = "SIGNAL_CHANGED" -> {"signal_id", "value"}
    [] type = "TIMER_EXPIRED" -> {"timer_id", "instance_id", "missed_count"}
    [] type \in {"STATE_ENTERED", "STATE_EXITED"} -> {"instance_id", "state_id"}
    [] type = "FAULT_RAISED" -> {"fault_code", "severity"}
    [] type = "POWER_MODE_CHANGED" -> {"from_mode", "to_mode", "reason_code"}
    [] OTHER -> {}

field_known(name) ==
  \/ name \in CommonFields
  \/ \E type \in {"CAN_RX", "SIGNAL_CHANGED", "TIMER_EXPIRED", "STATE_ENTERED",
                  "FAULT_RAISED", "POWER_MODE_CHANGED"} : name \in PayloadFields(type)

(* Unset where the field does not apply to the event.                      *)
field_value(e, name) ==
  IF name \in CommonFields \cup PayloadFields(e.type) THEN value_normalize(e.fields[name]) ELSE Unset

resolve(c, pos, n) ==
  LET read == CASE n.kind = "sig" /\ n.name \in DOMAIN c.signals -> value_normalize(c.signals[n.name])
                [] n.kind = "var" /\ n.name \in DOMAIN c.variables -> value_normalize(c.variables[n.name])
                [] n.kind = "evt" -> field_value(c.event, n.name)
                [] OTHER -> Unset
  IN  IF n.kind = "bare" \/ (n.kind = "evt" /\ ~field_known(n.name)) THEN Failed(pos, "NAMESPACE")
      ELSE IF c.validate THEN Ok(pos, Unset)
      ELSE IF n.kind = "sig" /\ n.name \in c.denied THEN Failed(pos, "UNAUTHORIZED")
      ELSE IF IsSet(read) THEN Ok(pos, read) ELSE Failed(pos, "UNDEFINED")

(* Arithmetic.                                                             *)
int_arith(pos, op, a, b) ==
  CASE op \in {"/", "%"} /\ b = 0 -> Failed(pos, "ZERO_DIVIDE")
    [] \/ op = "+" /\ AddOverflows(a, b)
       \/ op = "-" /\ SubOverflows(a, b)
       \/ op = "*" /\ MulOverflows(a, b)
       \/ op \in {"/", "%"} /\ DivOverflows(a, b) -> Failed(pos, "OVERFLOW")
    [] OTHER -> Ok(pos, IntV(IntResult(op, a, b)))

real_arith(pos, op, a, b) ==
  IF op = "/" /\ b = 0 THEN Failed(pos, "ZERO_DIVIDE")
  ELSE IF op = "%" THEN Failed(pos, "TYPE")
  ELSE IF ~is_finite(RealResult(op, a, b)) THEN Failed(pos, "NOT_A_NUMBER")
  ELSE Ok(pos, RealV(RealResult(op, a, b)))

arith(pos, op, x, y) ==
  IF Wild(x) \/ Wild(y) THEN Ok(pos, Unset)
  ELSE IF ~Numeric(x) \/ ~Numeric(y) THEN Failed(pos, "TYPE")
  ELSE IF "real" \in {x.kind, y.kind} THEN real_arith(pos, op, to_real(x), to_real(y))
  ELSE int_arith(pos, op, x.v, y.v)

compare(pos, op, x, y) ==
  IF Wild(x) \/ Wild(y) THEN Ok(pos, BoolV(FALSE))
  ELSE IF x.kind = "bool" /\ y.kind = "bool" /\ op \in {"==", "!="}
    THEN Ok(pos, BoolV((x = y) = (op = "==")))
  ELSE IF Numeric(x) /\ Numeric(y) THEN Ok(pos, BoolV(Compares(op, to_real(x), to_real(y))))
  ELSE Failed(pos, "TYPE")

(* Mutant: a wildcard is not a boolean.                                    *)
logic_strict(pos, op, x, y) ==
  IF x.kind # "bool" \/ y.kind # "bool" THEN Failed(pos, "TYPE")
  ELSE Ok(pos, BoolV(IF op = "and" THEN x.v = 1 /\ y.v = 1 ELSE x.v = 1 \/ y.v = 1))

(* and, or: both sides have been evaluated.                                *)
logic(pos, op, x, y) ==
  IF Wild(x) \/ Wild(y) THEN Ok(pos, BoolV(FALSE))
  ELSE IF x.kind # "bool" \/ y.kind # "bool" THEN Failed(pos, "TYPE")
  ELSE Ok(pos, BoolV(IF op = "and" THEN x.v = 1 /\ y.v = 1 ELSE x.v = 1 \/ y.v = 1))

negate(r) ==
  CASE r.error # "OK" \/ Wild(r.value) -> r
    [] r.error = "OK" /\ r.value.kind = "bool" -> Failed(r.pos, "TYPE")
    [] r.error = "OK" /\ r.value = IntV(IntMin) -> Failed(r.pos, "OVERFLOW")
    [] OTHER -> Ok(r.pos, [r.value EXCEPT !.v = - @])

invert(r) ==
  CASE r.error # "OK" \/ Wild(r.value) -> r
    [] r.error = "OK" /\ r.value.kind = "bool" -> Ok(r.pos, BoolV(r.value.v = 0))
    [] OTHER -> Failed(r.pos, "TYPE")

(* Built-in functions.                                                     *)
Arity == [min |-> 2, max |-> 2, clamp |-> 3, abs |-> 1, round |-> 1]

(* A number of the kind the arguments call for; a clamped integer has been *)
(* a double in between.                                                    *)
clamp(pos, args) ==
  LET low == to_real(args[2])
      high == to_real(args[3])
      x == to_real(args[1])
      clamped == IF x < low THEN low ELSE IF x > high THEN high ELSE x
  IN  IF low > high THEN Failed(pos, "DOMAIN")
      ELSE IF \E k \in 1..3 : args[k].kind = "real" THEN Ok(pos, RealV(clamped))
      ELSE IF IsSet(round_half_away(clamped)) THEN Ok(pos, round_half_away(clamped))
      ELSE Failed(pos, "DOMAIN")

extreme(pos, name, args) ==
  LET a == to_real(args[1])
      b == to_real(args[2])
      first == IF name = "min" THEN a <= b ELSE a >= b
      pick == args[IF first THEN 1 ELSE 2]
  IN  Ok(pos, IF "real" \in {args[1].kind, args[2].kind} THEN RealV(to_real(pick)) ELSE pick)

apply_call(pos, name, args) ==
  LET x == args[1]
  IN  IF Len(args) # Arity[name] THEN Failed(pos, "FUNCTION")
      ELSE IF \E k \in DOMAIN args : Wild(args[k])
        THEN Ok(pos, IF name = "round" THEN IntV(0) ELSE Unset)
      ELSE IF \E k \in DOMAIN args : ~Numeric(args[k]) THEN Failed(pos, "TYPE")
      ELSE CASE name = "round" /\ x.kind = "int" -> Ok(pos, x)
             [] name = "round" /\ x.kind = "real" ->
                  IF IsSet(round_half_away(x.v)) THEN Ok(pos, round_half_away(x.v)) ELSE Failed(pos, "DOMAIN")
             [] name = "abs" -> IF x = IntV(IntMin) THEN Failed(pos, "OVERFLOW")
                                ELSE Ok(pos, [x EXCEPT !.v = AbsOf(@)])
             [] name = "clamp" -> clamp(pos, args)
             [] name \in {"min", "max"} -> extreme(pos, name, args)

-----------------------------------------------------------------------------
(* The grammar.                                                            *)
(* Every function is reached through Parse, by the level of the grammar.   *)
RECURSIVE Parse(_, _, _, _, _), parse_args(_, _, _, _, _), Chain(_, _, _, _, _)

parse_call(t, c, pos, d) ==
  LET name == t[pos].name
      args == IF At(t, pos + 2) = ")" THEN [pos |-> pos + 2, args |-> <<>>, error |-> "OK"]
              ELSE parse_args(t, c, pos + 2, d, <<>>)
  IN  IF t[pos].kind # "bare" \/ name \notin DOMAIN Arity THEN Failed(pos, "FUNCTION")
      ELSE IF args.error # "OK" THEN Failed(args.pos, args.error)
      ELSE IF At(t, args.pos) # ")" THEN Failed(args.pos, "SYNTAX")
      ELSE apply_call(args.pos + 1, name, args.args)

(* At most three arguments, each one level deeper.                         *)
parse_args(t, c, pos, d, args) ==
  LET arg == IF d >= MaxDepth THEN Failed(pos, "DEPTH") ELSE Parse("or", t, c, pos, d + 1)
      all == Append(args, arg.value)
  IN  IF Len(args) = 3 THEN [pos |-> pos, args |-> args, error |-> "FUNCTION"]
      ELSE IF arg.error # "OK" THEN [pos |-> arg.pos, args |-> args, error |-> arg.error]
      ELSE IF At(t, arg.pos) = "," THEN parse_args(t, c, arg.pos + 1, d, all)
      ELSE [pos |-> arg.pos, args |-> all, error |-> "OK"]

parse_primary(t, c, pos, d) ==
  LET k == At(t, pos)
      inner == Parse("or", t, c, pos + 1, d)
  IN  CASE k = "(" -> IF inner.error # "OK" THEN inner
                      ELSE IF At(t, inner.pos) = ")" THEN Ok(inner.pos + 1, inner.value)
                      ELSE Failed(inner.pos, "SYNTAX")
        [] k \in {"num", "bool"} -> IF ~IsSet(t[pos].value) THEN Failed(pos, "SYNTAX")
                                   ELSE Ok(pos + 1, IF c.validate THEN Unset ELSE t[pos].value)
        [] k \in Names -> IF At(t, pos + 1) = "(" THEN parse_call(t, c, pos, d)
                          ELSE resolve(c, pos + 1, t[pos])
        [] OTHER -> Failed(pos, "SYNTAX")

parse_unary(t, c, pos, d) ==
  IF d >= MaxDepth THEN Failed(pos, "DEPTH")
  ELSE IF At(t, pos) = "-" THEN negate(Parse("unary", t, c, pos + 1, d + 1))
  ELSE parse_primary(t, c, pos, d + 1)

Combine(pos, op, x, y) ==
  IF op \in {"and", "or"} THEN logic(pos, op, x, y) ELSE arith(pos, op, x, y)

(* The loop of each binary level: operands as long as its operators follow.*)
Chain(level, t, c, left, d) ==
  LET op == At(t, left.pos)
      right == Parse(Tighter[level], t, c, left.pos + 1, d)
  IN  IF left.error # "OK" \/ op \notin Operators[level] THEN left
      ELSE IF right.error # "OK" THEN right
      ELSE Chain(level, t, c, Combine(right.pos, op, left.value, right.value), d)

parse_mul(t, c, pos, d) ==
  IF d >= MaxDepth THEN Failed(pos, "DEPTH")
  ELSE Chain("mul", t, c, Parse("unary", t, c, pos, d + 1), d + 1)

parse_add(t, c, pos, d) ==
  IF d >= MaxDepth THEN Failed(pos, "DEPTH")
  ELSE Chain("add", t, c, Parse("mul", t, c, pos, d + 1), d + 1)

(* At most one comparison.                                                 *)
parse_cmp(t, c, pos, d) ==
  LET left == Parse("add", t, c, pos, d)
      right == Parse("add", t, c, left.pos + 1, d)
  IN  IF left.error # "OK" THEN left
      ELSE IF At(t, left.pos) = "=" THEN Failed(left.pos, "SYNTAX")
      ELSE IF At(t, left.pos) \notin Comparisons THEN left
      ELSE IF right.error # "OK" THEN right
      ELSE compare(right.pos, At(t, left.pos), left.value, right.value)

parse_not(t, c, pos, d) ==
  IF d >= MaxDepth THEN Failed(pos, "DEPTH")
  ELSE IF At(t, pos) = "not" THEN invert(Parse("not", t, c, pos + 1, d + 1))
  ELSE parse_cmp(t, c, pos, d + 1)

parse_and(t, c, pos, d) == Chain("and", t, c, Parse("not", t, c, pos, d), d)

parse_or(t, c, pos, d) ==
  IF d >= MaxDepth THEN Failed(pos, "DEPTH")
  ELSE Chain("or", t, c, Parse("and", t, c, pos, d + 1), d + 1)

Parse(level, t, c, pos, d) ==
  CASE level = "or" -> parse_or(t, c, pos, d)
    [] level = "and" -> parse_and(t, c, pos, d)
    [] level = "not" -> parse_not(t, c, pos, d)
    [] level = "add" -> parse_add(t, c, pos, d)
    [] level = "mul" -> parse_mul(t, c, pos, d)
    [] level = "unary" -> parse_unary(t, c, pos, d)

-----------------------------------------------------------------------------
(* The whole text.                                                         *)
Whole(t, r) ==
  IF r.error = "OK" /\ r.pos <= Len(t) THEN Failed(r.pos, "TRAILING") ELSE r

evaluate(t, c) ==
  LET r == Whole(t, Parse("or", t, [c EXCEPT !.validate = FALSE], 1, 0))
  IN  IF r.error = "OK" /\ Wild(r.value) THEN Failed(r.pos, "UNDEFINED") ELSE r

validate(t, c) == Whole(t, Parse("or", t, [c EXCEPT !.validate = TRUE], 1, 0))
=============================================================================
