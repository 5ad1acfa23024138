------------------------------ MODULE Governor ------------------------------
(***************************************************************************)
(* core/governor/bms_governor.c: the check of a power and torque request   *)
(* against what the battery may deliver.  The code keeps no state; here a  *)
(* controller asks and gets an answer.                                     *)
(*                                                                         *)
(* All products of the code's 32-bit inputs fit into its 64-bit            *)
(* intermediates, so that only the results are cut to UMax.                *)
(***************************************************************************)
EXTENDS Integers

CONSTANTS
  UMax,              \* UINT32_MAX
  PowerDenominator,  \* mA * mV * permille in a W
  EfficiencyScale,
  Requests           \* of [power, torque, voltage, current, efficiency, state]

ASSUME GovernorAssumption ==
  /\ UMax \in Nat /\ PowerDenominator \in Nat \ {0} /\ EfficiencyScale \in Nat \ {0}
  /\ \A r \in Requests :
       /\ r.power \in 0..UMax /\ r.torque \in 0..UMax
       /\ r.voltage \in 0..UMax /\ r.current \in 0..UMax /\ r.efficiency \in 0..UMax

VARIABLES
  request,
  answer    \* what gate_response handed out for request, or Pending

governor_vars == <<request, answer>>

saturate_u32(n) == IF n > UMax THEN UMax ELSE n

(* Rounded up, so that no current is underestimated.                       *)
requested_current(r) ==
  LET n == r.power * PowerDenominator
      d == r.voltage * r.efficiency
  IN  IF d = 0 THEN UMax ELSE saturate_u32((n \div d) + (IF n % d = 0 THEN 0 ELSE 1))

(* Mutant: the two parts are rounded up.                                   *)
maximum_power_up(r) ==
  LET product == r.current * r.voltage
      whole == product \div PowerDenominator
      remainder == product % PowerDenominator
  IN  saturate_u32(whole * r.efficiency + (remainder * r.efficiency + PowerDenominator - 1) \div PowerDenominator)

(* Rounded down, in two parts.                                             *)
maximum_power(r) ==
  LET product == r.current * r.voltage
      whole == product \div PowerDenominator
      remainder == product % PowerDenominator
  IN  saturate_u32(whole * r.efficiency + (remainder * r.efficiency) \div PowerDenominator)

scale_torque(torque, allowed_power, power) ==
  IF power = 0 THEN 0 ELSE saturate_u32((torque * allowed_power) \div power)

Invalid(r) ==
  r.voltage = 0 \/ r.current = 0 \/ r.efficiency = 0 \/ r.efficiency > EfficiencyScale

Exceeds(r) == r.power > maximum_power(r)

Blocked(r, fault_code) ==
  [decision |-> "BLOCK", requested_current |-> requested_current(r), allowed_power |-> 0, allowed_torque |-> 0,
   intervention |-> TRUE, fault_code |-> fault_code]

evaluate_request(r) ==
  LET allowed == IF r.power < maximum_power(r) THEN r.power ELSE maximum_power(r)
  IN  CASE Invalid(r) -> Blocked(r, "INVALID_INPUT")
        [] ~Invalid(r) /\ r.state = "FAULT" -> Blocked(r, "BMS_UNAVAILABLE")
        [] ~Invalid(r) /\ r.state \notin {"NORMAL", "THERMAL_DERATING", "FAULT"} -> Blocked(r, "INVALID_INPUT")
        [] OTHER ->
             [decision |-> IF Exceeds(r) THEN "DERATE" ELSE "ALLOW", requested_current |-> requested_current(r),
              allowed_power |-> allowed, allowed_torque |-> scale_torque(r.torque, allowed, r.power),
              intervention |-> Exceeds(r), fault_code |-> IF Exceeds(r) THEN "GOVERNOR_INTERVENTION" ELSE "NONE"]

may_transmit(result) ==
  \/ result.decision = "ALLOW" /\ ~result.intervention /\ result.fault_code = "NONE"
  \/ result.decision = "DERATE" /\ result.intervention /\ result.fault_code = "GOVERNOR_INTERVENTION"

Pending == [sent |-> FALSE, power |-> 0, torque |-> 0, fault_code |-> "PENDING"]

gate_response(r) ==
  LET result == evaluate_request(r)
  IN  IF may_transmit(result)
      THEN [sent |-> TRUE, power |-> result.allowed_power, torque |-> result.allowed_torque,
            fault_code |-> result.fault_code]
      ELSE [Pending EXCEPT !.fault_code = result.fault_code]

-----------------------------------------------------------------------------
GovernorInit ==
  /\ request \in Requests
  /\ answer = Pending

gate ==
  /\ answer = Pending
  /\ answer' = gate_response(request)
  /\ UNCHANGED request

-----------------------------------------------------------------------------
(* What is sent never draws more than the battery allows, in exact         *)
(* arithmetic, the torque is reduced at least as far as the power, and the *)
(* evidence agrees: a request is let through unchanged only if the current *)
(* computed for it, rounded the other way, is within the limit             *)
(* (cancestry_bms_governor_evaluate, _gate_response).                      *)
CurrentWithinLimit ==
  answer.sent =>
    /\ answer.power * PowerDenominator <= request.current * request.voltage * request.efficiency
    /\ answer.torque * request.power <= request.torque * answer.power
    /\ answer.fault_code = "NONE" => requested_current(request) <= request.current
    /\ requested_current(request) < request.current => answer.fault_code = "NONE"
=============================================================================
