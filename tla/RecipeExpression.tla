-------------------------- MODULE RecipeExpression --------------------------
(***************************************************************************)
(* The built-in expression evaluator of the recipes (core/recipe/engine.c):*)
(* the same language as FsmExpression in a second implementation, without  *)
(* functions, validation or a bound on the nesting.  There is one kind of  *)
(* failure, and a signal that triggered the recipe is read from the event. *)
(***************************************************************************)
EXTENDS ExpressionText

Fault(pos) == Failed(pos, "FAULT")

(* The fields of an event a recipe may read.                               *)
EventField(e, name) ==
  CASE name \in {"timestamp_us", "sequence", "cause_sequence"} -> e.fields[name]
    [] name \in {"can_id", "interface_id"} /\ e.type = "CAN_RX" -> e.fields[name]
    [] name = "signal_value" /\ e.type = "SIGNAL_CHANGED" -> e.fields["value"]
    [] name = "fault_code" /\ e.type = "FAULT_RAISED" -> e.fields[name]
    [] name = "missed_count" /\ e.type = "TIMER_EXPIRED" -> e.fields[name]
    [] name = "to_mode" /\ e.type = "POWER_MODE_CHANGED" -> e.fields[name]
    [] OTHER -> Unset

resolve_name(c, n) ==
  CASE n.kind = "sig" /\ c.event.type = "SIGNAL_CHANGED" /\ c.event.about = n.name -> c.event.fields["value"]
    [] n.kind = "sig" /\ ~(c.event.type = "SIGNAL_CHANGED" /\ c.event.about = n.name)
         /\ n.name \in DOMAIN c.signals -> c.signals[n.name]
    [] n.kind = "var" /\ n.name \in DOMAIN c.variables -> c.variables[n.name]
    [] n.kind = "evt" -> EventField(c.event, n.name)
    [] OTHER -> Unset

(* Values.                                                                 *)
from_value(pos, x) == IF IsSet(x) THEN Ok(pos, value_normalize(x)) ELSE Fault(pos)

real_op(pos, op, a, b) ==
  IF op = "%" \/ (op = "/" /\ b = 0) THEN Fault(pos)
  ELSE IF ~is_finite(RealResult(op, a, b)) THEN Fault(pos)
  ELSE Ok(pos, RealV(RealResult(op, a, b)))

Multiply(pos, op, x, y) ==
  IF "bool" \in {x.kind, y.kind} THEN Fault(pos)
  ELSE IF "real" \in {x.kind, y.kind} THEN real_op(pos, op, to_real(x), to_real(y))
  ELSE IF \/ op = "*" /\ MulOverflows(x.v, y.v)
          \/ op # "*" /\ (y.v = 0 \/ DivOverflows(x.v, y.v)) THEN Fault(pos)
  ELSE Ok(pos, IntV(IntResult(op, x.v, y.v)))

Sum(pos, op, x, y) ==
  IF "bool" \in {x.kind, y.kind} THEN Fault(pos)
  ELSE IF "real" \in {x.kind, y.kind} THEN real_op(pos, op, to_real(x), to_real(y))
  ELSE IF (op = "+" /\ AddOverflows(x.v, y.v)) \/ (op = "-" /\ SubOverflows(x.v, y.v)) THEN Fault(pos)
  ELSE Ok(pos, IntV(IntResult(op, x.v, y.v)))

(* Mutant: booleans are ordered by their numbers.                          *)
Comparison_ordered(pos, op, x, y) ==
  IF (x.kind = "bool") # (y.kind = "bool") THEN Fault(pos)
  ELSE Ok(pos, BoolV(Compares(op, to_real(x), to_real(y))))

(* Of booleans every operator of two characters but == is taken for !=.    *)
Comparison(pos, op, x, y) ==
  IF x.kind = "bool" /\ y.kind = "bool"
  THEN IF op \in {"<", ">"} THEN Fault(pos) ELSE Ok(pos, BoolV((x = y) = (op = "==")))
  ELSE IF "bool" \in {x.kind, y.kind} THEN Fault(pos)
  ELSE Ok(pos, BoolV(Compares(op, to_real(x), to_real(y))))

Connective(pos, op, x, y) ==
  IF x.kind # "bool" \/ y.kind # "bool" THEN Fault(pos)
  ELSE Ok(pos, BoolV(IF op = "and" THEN x.v = 1 /\ y.v = 1 ELSE x.v = 1 \/ y.v = 1))

-----------------------------------------------------------------------------
(* The grammar.                                                            *)
(* Every function is reached through ExprAt, by the level of the grammar.  *)
RECURSIVE ExprAt(_, _, _, _), Loop(_, _, _, _)

expr_primary(t, c, pos) ==
  LET k == At(t, pos)
      inner == ExprAt("or", t, c, pos + 1)
  IN  CASE k = "(" -> IF inner.error # "OK" THEN inner
                      ELSE IF At(t, inner.pos) = ")" THEN Ok(inner.pos + 1, inner.value)
                      ELSE Fault(inner.pos)
        [] k \in {"num", "bool"} -> IF IsSet(t[pos].read) THEN Ok(pos + 1, t[pos].read) ELSE Fault(pos)
        [] k \in Names -> from_value(pos + 1, resolve_name(c, t[pos]))
        [] OTHER -> Fault(pos)

expr_unary(t, c, pos) ==
  LET r == ExprAt("unary", t, c, pos + 1)
  IN  IF At(t, pos) # "-" THEN expr_primary(t, c, pos)
      ELSE IF r.error # "OK" THEN r
      ELSE IF r.value.kind = "bool" \/ r.value = IntV(IntMin) THEN Fault(r.pos)
      ELSE Ok(r.pos, [r.value EXCEPT !.v = - @])

(* The loop of each binary level.                                          *)
Loop(level, t, c, left) ==
  LET op == At(t, left.pos)
      right == ExprAt(Tighter[level], t, c, left.pos + 1)
      joined == CASE level = "mul" -> Multiply(right.pos, op, left.value, right.value)
                  [] level = "add" -> Sum(right.pos, op, left.value, right.value)
                  [] level \in {"and", "or"} -> Connective(right.pos, op, left.value, right.value)
  IN  IF left.error # "OK" \/ op \notin Operators[level] THEN left
      ELSE IF right.error # "OK" THEN right
      ELSE Loop(level, t, c, joined)

expr_mul(t, c, pos) == Loop("mul", t, c, ExprAt("unary", t, c, pos))
expr_add(t, c, pos) == Loop("add", t, c, ExprAt("mul", t, c, pos))

expr_cmp(t, c, pos) ==
  LET left == ExprAt("add", t, c, pos)
      right == ExprAt("add", t, c, left.pos + 1)
  IN  IF left.error # "OK" THEN left
      ELSE IF At(t, left.pos) = "=" THEN Fault(left.pos)
      ELSE IF At(t, left.pos) \notin Comparisons THEN left
      ELSE IF right.error # "OK" THEN right
      ELSE Comparison(right.pos, At(t, left.pos), left.value, right.value)

expr_not(t, c, pos) ==
  LET r == ExprAt("not", t, c, pos + 1)
  IN  IF At(t, pos) # "not" THEN expr_cmp(t, c, pos)
      ELSE IF r.error # "OK" THEN r
      ELSE IF r.value.kind # "bool" THEN Fault(r.pos)
      ELSE Ok(r.pos, BoolV(r.value.v = 0))

expr_and(t, c, pos) == Loop("and", t, c, ExprAt("not", t, c, pos))
expr_or(t, c, pos) == Loop("or", t, c, ExprAt("and", t, c, pos))

ExprAt(level, t, c, pos) ==
  CASE level = "or" -> expr_or(t, c, pos)
    [] level = "and" -> expr_and(t, c, pos)
    [] level = "not" -> expr_not(t, c, pos)
    [] level = "add" -> expr_add(t, c, pos)
    [] level = "mul" -> expr_mul(t, c, pos)
    [] level = "unary" -> expr_unary(t, c, pos)

evaluate_condition(t, c) ==
  LET r == ExprAt("or", t, c, 1)
  IN  IF r.error = "OK" /\ r.pos <= Len(t) THEN Fault(r.pos) ELSE r
=============================================================================
