--------------------------- MODULE ExpressionText ---------------------------
(***************************************************************************)
(* What the two evaluators of the expression language share: the text, as  *)
(* a sequence of tokens, the numbers, and the result of reading a part of  *)
(* it.  Spaces and the spelling of names end with the tokens; a number has *)
(* the two values the evaluators read from its spelling.                   *)
(*                                                                         *)
(* Reals are on a grid of 1 / RealUnit up to RealMax, which stands for     *)
(* binary64: a result is brought to the grid and one beyond it is infinite.*)
(* Integers above ExactMax (2^53) lose their last bit as reals.            *)
(***************************************************************************)
EXTENDS FsmValues, Sequences

CONSTANTS ExactMax, RealMax

ASSUME TextAssumption == ExactMax \in Nat /\ RealMax \in Nat

(* A number: what strtod makes of it for a guard and what adding up digit  *)
(* by digit makes of it for a condition, as of 0.3; Unset for one that     *)
(* does not take it, a condition .5 and a guard more than 47 characters.   *)
Spelled(x, y) == [kind |-> "num", name |-> "num", value |-> x, read |-> y]
Num(x) == Spelled(x, x)
Op(k) == [kind |-> k, name |-> k, value |-> Unset, read |-> Unset]
Bool(b) == [kind |-> "bool", name |-> "bool", value |-> BoolV(b), read |-> BoolV(b)]
Name(namespace, name) == [kind |-> namespace, name |-> name, value |-> Unset, read |-> Unset]

Names == {"sig", "var", "evt", "bare"}
Comparisons == {"==", "!=", "<", "<=", ">", ">="}

(* The left-associative levels of the grammar, and the level of an operand.*)
Operators == [or |-> {"or"}, and |-> {"and"}, add |-> {"+", "-"}, mul |-> {"*", "/", "%"}]
Tighter == [or |-> "and", and |-> "not", add |-> "mul", mul |-> "unary"]

At(t, pos) == IF pos <= Len(t) THEN t[pos].kind ELSE "end"

(* A part of the text up to pos, or an error there.                        *)
Ok(pos, value) == [pos |-> pos, value |-> value, error |-> "OK"]
Failed(pos, error) == [pos |-> pos, value |-> Unset, error |-> error]

Numeric(x) == x.kind \in {"int", "real"}
AbsOf(n) == IF n < 0 THEN - n ELSE n

(* C division of integers: towards zero, the remainder follows.            *)
Quot(a, b) ==
  LET m == AbsOf(a) \div AbsOf(b)
  IN  IF (a < 0) # (b < 0) THEN - m ELSE m
Rem(a, b) == a - b * Quot(a, b)

(* (double)n, ties to even.                                                *)
AsDouble(n) ==
  LET k == AbsOf(n) \div 2
      m == IF AbsOf(n) <= ExactMax \/ AbsOf(n) % 2 = 0 THEN AbsOf(n)
           ELSE IF k % 2 = 0 THEN 2 * k ELSE 2 * k + 2
  IN  IF n < 0 THEN - m ELSE m

to_real(x) == IF x.kind = "real" THEN x.v ELSE RealUnit * AsDouble(x.v)
is_finite(q) == AbsOf(q) <= RealMax

(* The double result of an operation on doubles; `/` with b # 0.           *)
RealResult(op, a, b) ==
  CASE op = "*" -> Quot(a * b, RealUnit)
    [] op = "/" -> Quot(a * RealUnit, b)
    [] op = "+" -> a + b
    [] op = "-" -> a - b

(* The checks of both evaluators before an int64 operation.                *)
AddOverflows(a, b) == (b > 0 /\ a > IntMax - b) \/ (b < 0 /\ a < IntMin - b)
(* Mutant: the limits of the two signs are mistaken for one another.       *)
SubOverflows_swapped(a, b) == (b < 0 /\ a < IntMin - b) \/ (b > 0 /\ a > IntMax - b)
SubOverflows(a, b) == (b < 0 /\ a > IntMax + b) \/ (b > 0 /\ a < IntMin + b)
MulOverflows(a, b) ==
  LET limit == IntMax + 1
  IN  \/ a # 0 /\ b # 0 /\ AbsOf(a) > limit \div AbsOf(b)
      \/ AbsOf(a) * AbsOf(b) > limit
      \/ (a < 0) = (b < 0) /\ AbsOf(a) * AbsOf(b) > IntMax
DivOverflows(a, b) == a = IntMin /\ b = -1

IntResult(op, a, b) ==
  CASE op = "+" -> a + b
    [] op = "-" -> a - b
    [] op = "*" -> a * b
    [] op = "/" -> Quot(a, b)
    [] op = "%" -> Rem(a, b)

(* Comparison of numbers: as doubles, whatever they were.                  *)
Compares(op, a, b) ==
  CASE op = "==" -> a = b
    [] op = "!=" -> a # b
    [] op = "<" -> a < b
    [] op = "<=" -> a <= b
    [] op = ">" -> a > b
    [] op = ">=" -> a >= b
=============================================================================
