------------------------------ MODULE HalRing -------------------------------
(***************************************************************************)
(* The bounded rings of core/hal (types.c).  A ring keeps the slots, two   *)
(* indices and a count; RX and TX rings differ only in the counters kept   *)
(* next to them.  A slot holds the number of a frame, or 0 after memset.   *)
(***************************************************************************)
EXTENDS Naturals

ring_init(capacity) ==
  [capacity |-> capacity, slots |-> [k \in 0..(capacity - 1) |-> 0],
   read_idx |-> 0, write_idx |-> 0, count |-> 0]

Full(r) == r.count >= r.capacity

ring_push(r, n) ==
  [r EXCEPT !.slots[r.write_idx] = n,
            !.write_idx = (@ + 1) % r.capacity,
            !.count = @ + 1]

NextOut(r) == r.slots[r.read_idx]

ring_pop(r) ==
  [r EXCEPT !.slots[r.read_idx] = 0,
            !.read_idx = (@ + 1) % r.capacity,
            !.count = @ - 1]

(* What SocketCAN does when the kernel does not take the frame it popped:  *)
(* the frame goes back to the slot before read_idx, which stays.           *)
push_back(r, n) ==
  [r EXCEPT !.slots[IF r.read_idx = 0 THEN r.capacity - 1 ELSE r.read_idx - 1] = n,
            !.count = @ + 1]

=============================================================================
