---------------------------- MODULE SignalStore -----------------------------
(***************************************************************************)
(* The signal store of core/recipe, shared by recipes, state machines, the *)
(* gateway and the UDS server: a bounded table of signal values, of which  *)
(* slots are taken by the first write and never given back.                *)
(***************************************************************************)
EXTENDS FsmValues, FiniteSets

Get(store, id) == IF id \in DOMAIN store THEN store[id] ELSE Unset

Set(store, id, value) ==
  [x \in DOMAIN store \cup {id} |-> IF x = id THEN value ELSE store[x]]

HasSlot(store, id, capacity) ==
  id \in DOMAIN store \/ Cardinality(DOMAIN store) < capacity
=============================================================================
