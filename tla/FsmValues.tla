----------------------------- MODULE FsmValues ------------------------------
(***************************************************************************)
(* Typed values of core/fsm: a kind and a number.  A real is kept in       *)
(* quarters (RealUnit), the finest step the rounding rules tell apart; the *)
(* integer range is -IntMax - 1 .. IntMax, INT64 in the code.              *)
(***************************************************************************)
EXTENDS Integers

CONSTANT IntMax

ASSUME ValuesAssumption == IntMax \in Nat

RealUnit == 4
IntMin == - IntMax - 1

Unset == [kind |-> "unset", v |-> 0]
BoolV(b) == [kind |-> "bool", v |-> IF b THEN 1 ELSE 0]
IntV(n) == [kind |-> "int", v |-> n]
UIntV(n) == [kind |-> "uint", v |-> n]
RealV(q) == [kind |-> "real", v |-> q]

(* A conversion is refused with the value Unset.                           *)
IsSet(x) == x.kind # "unset"

Truncated(q) == IF q >= 0 THEN q \div RealUnit ELSE - ((- q) \div RealUnit)

round_half_away(q) ==
  LET base == Truncated(q)
      rest == q - base * RealUnit
  IN  CASE ~(IntMin * RealUnit <= q /\ q < (IntMax + 1) * RealUnit) -> Unset
        [] 2 * rest >= RealUnit /\ base < IntMax -> IntV(base + 1)
        [] 2 * rest <= - RealUnit /\ base > IntMin -> IntV(base - 1)
        [] OTHER -> IntV(base)

(* uint values of the bus become int where they fit, and real beyond.      *)
value_normalize(x) ==
  CASE x.kind = "uint" /\ x.v <= IntMax -> IntV(x.v)
    [] x.kind = "uint" -> RealV(x.v * RealUnit)
    [] OTHER -> x

coerce_to_declared(declared, x) ==
  CASE declared = x.kind /\ declared \in {"bool", "int", "real"} -> x
    [] declared = "int" /\ x.kind = "real" -> round_half_away(x.v)
    [] declared = "real" /\ x.kind = "int" -> RealV(x.v * RealUnit)
    [] OTHER -> Unset

(* What send_message hands to the codec for a signal: the physical value   *)
(* when the signal is scaled, else the raw value of the signal's type.     *)
encoded_value(signal, x) ==
  LET whole == CASE x.kind = "real" -> round_half_away(x.v)
                 [] x.kind = "bool" -> IntV(x.v)
                 [] OTHER -> x
  IN  CASE signal.scaled /\ x.kind # "bool" -> coerce_to_declared("real", x)
        [] ~signal.scaled /\ signal.type = "bool" /\ x.kind = "bool" -> x
        [] ~signal.scaled /\ signal.type = "int" /\ x.kind # "bool" -> whole
        [] ~signal.scaled /\ signal.type \in {"uint", "enum"} /\ IsSet(whole) /\ whole.v >= 0 ->
             UIntV(whole.v)
        [] OTHER -> Unset

value_equals(x, y) ==
  IsSet(x) /\ value_normalize(x) = value_normalize(y)
=============================================================================
