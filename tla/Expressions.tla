---------------------------- MODULE Expressions -----------------------------
(***************************************************************************)
(* Both evaluators of the expression language on the same texts, and what  *)
(* the language says a text means, by a definition that does not parse:    *)
(* the last operator of the weakest level outside parentheses splits a     *)
(* span, which is what left associativity and precedence come to.          *)
(*                                                                         *)
(* A text grows token by token from one of the alphabets.  It grows only   *)
(* from a prefix the checker of guards has no complaint about before its   *)
(* end: reading from left to right, the complaint would stay the same.     *)
(***************************************************************************)
EXTENDS FsmExpression, RecipeExpression, FiniteSets

CONSTANTS
  Alphabets,  \* a sequence of [tokens, length]: the tokens to use and how many
  Context     \* signals, variables and the event of the evaluation

VARIABLES alphabet, text

expression_vars == <<alphabet, text>>

ExpressionInit ==
  /\ alphabet \in DOMAIN Alphabets
  /\ text = <<>>

Written ==
  /\ Len(text) < Alphabets[alphabet].length
  /\ LET checked == validate(text, Context) IN checked.error = "OK" \/ checked.pos > Len(text)
  /\ \E k \in Alphabets[alphabet].tokens : text' = Append(text, k)
  /\ UNCHANGED alphabet

-----------------------------------------------------------------------------
(* The meaning of a span i..j: a value, Unset where the language says the  *)
(* expression faults.                                                      *)
Level == [or |-> {"or"}, and |-> {"and"}, cmp |-> Comparisons, add |-> {"+", "-"}, mul |-> {"*", "/", "%"}]

Count(k, i, j) == Cardinality({p \in i..j : text[p].kind = k})
Balanced(i, j) ==
  /\ Count("(", i, j) = Count(")", i, j)
  /\ \A p \in i..j : Count("(", i, p) >= Count(")", i, p)

(* Binary operators of a level, outside parentheses: after an operand.     *)
Splits(level, i, j) ==
  {p \in i + 1..j - 1 : /\ text[p].kind \in Level[level]
                        /\ text[p - 1].kind \in Names \cup {"num", "bool", ")"}
                        /\ Balanced(i, p - 1)}
Last(s) == CHOOSE p \in s : \A q \in s : q <= p

Exact(n) == IF n \in IntMin..IntMax THEN IntV(n) ELSE Unset

(* The remainder follows the quotient, and there is none where the         *)
(* quotient is not representable.                                          *)
Arithmetic(op, x, y) ==
  IF ~Numeric(x) \/ ~Numeric(y) \/ (op \in {"/", "%"} /\ y.v = 0) THEN Unset
  ELSE IF x.kind = "int" /\ y.kind = "int"
    THEN IF op = "%" /\ ~IsSet(Exact(Quot(x.v, y.v))) THEN Unset ELSE Exact(IntResult(op, x.v, y.v))
  ELSE IF op = "%" \/ ~is_finite(RealResult(op, to_real(x), to_real(y))) THEN Unset
  ELSE RealV(RealResult(op, to_real(x), to_real(y)))

Builtin(name, args) ==
  LET q == [k \in DOMAIN args |-> to_real(args[k])]
      ints == \A k \in DOMAIN args : args[k].kind = "int"
      Result(r) == IF ints THEN round_half_away(r) ELSE RealV(r)
  IN  IF name \notin DOMAIN Arity THEN Unset
      ELSE IF Len(args) # Arity[name] \/ \E k \in DOMAIN args : ~Numeric(args[k]) THEN Unset
      ELSE CASE name = "round" -> IF ints THEN args[1] ELSE round_half_away(q[1])
             [] name = "abs" -> IF ints THEN Exact(AbsOf(args[1].v)) ELSE RealV(AbsOf(q[1]))
             [] name \in {"min", "max"} ->
                  LET k == CHOOSE k \in 1..2 : \A m \in 1..2 :
                             /\ IF name = "min" THEN q[k] <= q[m] ELSE q[k] >= q[m]
                             /\ q[k] = q[m] => k <= m
                  IN  IF ints THEN args[k] ELSE RealV(q[k])
             [] name = "clamp" -> IF q[2] > q[3] THEN Unset
                                  ELSE Result(CHOOSE r \in {q[1], q[2], q[3]} :
                                                /\ q[2] <= r /\ r <= q[3]
                                                /\ (q[2] <= q[1] /\ q[1] <= q[3]) => r = q[1]
                                                /\ q[1] < q[2] => r = q[2]
                                                /\ q[1] > q[3] => r = q[3])

RECURSIVE Meaning(_, _, _), Arguments(_, _)

(* The values between commas outside parentheses.                          *)
Arguments(i, j) ==
  LET commas == {p \in i..j : text[p].kind = "," /\ Balanced(i, p - 1)}
      p == Last(commas)
  IN  IF commas = {} THEN <<Meaning("or", i, j)>>
      ELSE Append(Arguments(i, p - 1), Meaning("or", p + 1, j))

Leaf(i, j) ==
  CASE i = j /\ text[i].kind \in {"num", "bool"} -> text[i].value
    [] i = j /\ text[i].kind \in Names -> resolve(Context, i, text[i]).value
    [] i < j /\ text[i].kind = "(" /\ text[j].kind = ")" /\ Balanced(i + 1, j - 1) -> Meaning("or", i + 1, j - 1)
    [] i + 1 < j /\ text[i].kind = "bare" /\ text[i + 1].kind = "(" /\ text[j].kind = ")"
         /\ Balanced(i + 2, j - 1) ->
         Builtin(text[i].name, IF i + 2 = j THEN <<>> ELSE Arguments(i + 2, j - 1))
    [] OTHER -> Unset

Meaning(level, i, j) ==
  LET split == Splits(level, i, j)
      p == Last(split)
      op == text[p].kind
      Sides(left, right) == <<Meaning(left, i, p - 1), Meaning(right, p + 1, j)>>
      Logical(s) == IF s[1].kind = "bool" /\ s[2].kind = "bool"
                    THEN BoolV(IF op = "or" THEN s[1].v + s[2].v > 0 ELSE s[1].v + s[2].v = 2) ELSE Unset
      Compared(s) == IF Numeric(s[1]) /\ Numeric(s[2]) THEN BoolV(Compares(op, to_real(s[1]), to_real(s[2])))
                     ELSE IF s[1].kind = "bool" /\ s[2].kind = "bool" /\ op \in {"==", "!="}
                       THEN BoolV((s[1] = s[2]) = (op = "==")) ELSE Unset
      inner == Meaning(level, i + 1, j)
  IN  IF i > j THEN Unset
      ELSE CASE level = "or" -> IF split = {} THEN Meaning("and", i, j) ELSE Logical(Sides("or", "and"))
             [] level = "and" -> IF split = {} THEN Meaning("not", i, j) ELSE Logical(Sides("and", "not"))
             [] level = "not" -> IF text[i].kind # "not" THEN Meaning("cmp", i, j)
                                 ELSE IF inner.kind = "bool" THEN BoolV(inner.v = 0) ELSE Unset
             [] level = "cmp" -> IF split = {} THEN Meaning("add", i, j)
                                 ELSE IF Cardinality(split) = 1 THEN Compared(Sides("add", "add")) ELSE Unset
             [] level = "add" -> IF split = {} THEN Meaning("mul", i, j)
                                 ELSE LET s == Sides("add", "mul") IN Arithmetic(op, s[1], s[2])
             [] level = "mul" -> IF split = {} THEN Meaning("unary", i, j)
                                 ELSE LET s == Sides("mul", "unary") IN Arithmetic(op, s[1], s[2])
             [] level = "unary" -> IF text[i].kind # "-" THEN Leaf(i, j)
                                   ELSE IF ~Numeric(inner) THEN Unset
                                   ELSE IF inner.kind = "int" THEN Exact(- inner.v) ELSE RealV(- inner.v)

-----------------------------------------------------------------------------
Guard == evaluate(text, Context)
Checked == validate(text, Context)
Condition == evaluate_condition(text, Context)
Uses(kinds) == \E k \in DOMAIN text : text[k].kind \in kinds

(* A guard that is not nested too deeply has the value the language gives  *)
(* it, and faults exactly where the language says so: precedence,          *)
(* associativity, the int64 overflow checks and the built-ins of           *)
(* cancestry_fsm_expression_evaluate.                                      *)
EvaluatesToMeaning ==
  LET guard == Guard
  IN  guard.error # "DEPTH" => guard.value = Meaning("or", 1, Len(text))

(* What the loader's check accepts is never malformed at run time, and     *)
(* what works at run time is accepted, but for a division by a rounded     *)
(* number, which the check takes for zero (cancestry_fsm_expression_       *)
(* validate).                                                              *)
CheckPredictsRun ==
  LET run == Guard.error
      check == Checked.error
  IN  /\ check = "OK" => run \notin {"SYNTAX", "TRAILING", "DEPTH", "NAMESPACE", "FUNCTION"}
      /\ run = "OK" /\ check # "OK" =>
           check = "ZERO_DIVIDE" /\ \E k \in DOMAIN text : text[k].name = "round"

(* The event fields both evaluators know by the same name.                 *)
SharedFields == {"timestamp_us", "sequence", "cause_sequence", "can_id", "interface_id", "fault_code",
                 "missed_count", "to_mode"}
OnlySharedFields == \A k \in DOMAIN text : text[k].kind = "evt" => text[k].name \in SharedFields

(* The numbers as a condition reads them, and the signal the event is      *)
(* about as the event has it, not the bus.                                 *)
AsRead == [k \in DOMAIN text |-> [text[k] EXCEPT !.value = text[k].read]]
AsTriggered ==
  IF Context.event.type # "SIGNAL_CHANGED" THEN Context
  ELSE [Context EXCEPT !.signals = [n \in DOMAIN @ \cup {Context.event.about} |->
          IF n = Context.event.about THEN Context.event.fields["value"] ELSE @[n]]]

(* A guard and a recipe condition written the same behave the same once    *)
(* they read the same numbers and the same value of the signal that        *)
(* triggered them, except for booleans compared with <= or >=, functions,  *)
(* event fields only one of them knows, and nesting or signals a guard is  *)
(* not allowed (recipe_expr_evaluate).                                     *)
GuardAndConditionAgree ==
  LET guard == evaluate(AsRead, AsTriggered)
      condition == Condition
  IN  /\ guard.error = "OK" /\ condition.error = "OK" => guard.value = condition.value
      /\ guard.error = "OK" /\ ~Uses({"bare"}) /\ OnlySharedFields => condition.error = "OK"
      /\ condition.error = "OK" /\ guard.error # "OK" /\ OnlySharedFields =>
           guard.error \in {"DEPTH", "UNAUTHORIZED"} \/ (guard.error = "TYPE" /\ Uses({"<=", ">="}))
=============================================================================
