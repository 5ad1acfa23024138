----------------------------- MODULE EventOrder -----------------------------
(***************************************************************************)
(* Priority classes, event validity, the selection order of queued events  *)
(* and saturating time (core/event types.c, clock.c).  Shared by the queue *)
(* and by the heap it is kept in.                                          *)
(***************************************************************************)
EXTENDS Integers

FAULT     == 0
GENERATED == 5
PriorityClasses == 0 .. 6

IsFault(e) == e.priority_class = FAULT
Faults(S) == {e \in S : IsFault(e)}
Ordinary(S) == {e \in S : ~IsFault(e)}

(* An event with an invalid type is one with a class outside the range.    *)
event_is_valid(e) == e.priority_class \in PriorityClasses

(* Mutant: the later sequence wins a tie.                                  *)
Precedes_lifo(a, b) ==
  \/ a.timestamp_us < b.timestamp_us
  \/ /\ a.timestamp_us = b.timestamp_us
     /\ \/ a.priority_class < b.priority_class
        \/ a.priority_class = b.priority_class /\ a.sequence > b.sequence

(* compare_order(a, b) < 0                                                 *)
Precedes(a, b) ==
  \/ a.timestamp_us < b.timestamp_us
  \/ /\ a.timestamp_us = b.timestamp_us
     /\ \/ a.priority_class < b.priority_class
        \/ /\ a.priority_class = b.priority_class
           /\ a.sequence < b.sequence

(* time_sat_add with the largest representable time as a parameter.        *)
sat_add(base, delta, max) == IF delta > max - base THEN max ELSE base + delta
=============================================================================
