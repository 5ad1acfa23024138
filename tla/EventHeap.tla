----------------------------- MODULE EventHeap ------------------------------
(***************************************************************************)
(* The event queue with its contents in the heap array (queue.c).  The     *)
(* other fields of cancestry_event_queue_t are those of module EventQueue, *)
(* which this module is checked to implement: the set of stored events is  *)
(* what the array holds.                                                   *)
(***************************************************************************)
EXTENDS Heap

CONSTANTS
  Capacity, Reserved, TimeMax, OfferedClasses, IdMod, MaxOffers,  \* of EventQueue
  MaxPublished   \* bound: events the FSM engine publishes

ASSUME HeapAssumption ==
  /\ Capacity \in 1 .. 32767 /\ Reserved \in 0 .. Capacity
  /\ TimeMax \in Nat /\ OfferedClasses \subseteq Nat
  /\ IdMod \in Nat /\ IdMod > 1
  /\ MaxOffers \in Nat /\ MaxPublished \in Nat

VARIABLES slots, fault_count, counters, next_sequence, next_event_id,
          hard_fault_terminal, now_us, engine_event_id, delivered, evicted, cleared

vars == <<slots, fault_count, counters, next_sequence, next_event_id,
          hard_fault_terminal, now_us, engine_event_id, delivered, evicted, cleared>>

Contents(s) == {s[i] : i \in DOMAIN s}

Q == INSTANCE EventQueue WITH events <- Contents(slots)

Init == slots = <<>> /\ Q!Init

-----------------------------------------------------------------------------
size == Len(slots)

ordinary_share_used == Reserved # 0 /\ size - fault_count >= Capacity - Reserved

(* queue_enqueue into an array with a free slot.                           *)
enqueue(o, s, c) ==
  /\ slots' = insert(s, Q!Stored(o))
  /\ fault_count' = fault_count + (IF IsFault(o) THEN 1 ELSE 0)
  /\ next_sequence' = Q!next_id(next_sequence)
  /\ next_event_id' = IF o.event_id = 0 THEN Q!next_id(next_event_id) ELSE next_event_id
  /\ counters' = [c EXCEPT !.pushed = @ + 1, !.high_water = Max({@, Len(s) + 1})]

refuse(c) ==
  counters' = c /\ UNCHANGED <<slots, fault_count, next_sequence, next_event_id, evicted>>

(* Mutant: the last slot is evicted if it is ordinary.                     *)
push_overflow_last_slot(o) ==
  \/ /\ ~IsFault(o) \/ IsFault(slots[size])
     /\ refuse(Q!Overflowed(counters)) /\ UNCHANGED hard_fault_terminal
  \/ /\ IsFault(o) /\ ~IsFault(slots[size])
     /\ enqueue(o, remove_at(slots, size), Q!Overflowed(counters))
     /\ evicted' = evicted \cup {slots[size]}
     /\ UNCHANGED hard_fault_terminal

(* Physical overflow: evict for a fault, escalate when all are faults.     *)
push_overflow(o) ==
  LET v == find_newest_non_fault(slots)
  IN  \/ /\ ~IsFault(o)
         /\ refuse(Q!Overflowed(counters)) /\ UNCHANGED hard_fault_terminal
      \/ /\ IsFault(o) /\ v = 0
         /\ hard_fault_terminal' = TRUE
         /\ refuse([Q!Overflowed(counters) EXCEPT !.hard_fault_escalations = @ + 1])
      \/ /\ IsFault(o) /\ v # 0
         /\ enqueue(o, remove_at(slots, v), Q!Overflowed(counters))
         /\ evicted' = evicted \cup {slots[v]}
         /\ UNCHANGED hard_fault_terminal

push(o) ==
  /\ IF hard_fault_terminal \/ (event_is_valid(o) /\ ~IsFault(o) /\ ordinary_share_used)
     THEN refuse(Q!Overflowed(counters)) /\ UNCHANGED hard_fault_terminal
     ELSE IF ~event_is_valid(o)
     THEN refuse([counters EXCEPT !.rejected = @ + 1]) /\ UNCHANGED hard_fault_terminal
     ELSE IF size < Capacity
     THEN /\ enqueue(o, slots, [counters EXCEPT !.consecutive_overflows = 0])
          /\ UNCHANGED <<evicted, hard_fault_terminal>>
     ELSE push_overflow(o)
  /\ UNCHANGED <<now_us, delivered, cleared>>

pop ==
  /\ IF size = 0
     THEN UNCHANGED <<slots, fault_count, counters, delivered>>
     ELSE /\ delivered' = delivered \cup {slots[1]}
          /\ fault_count' = fault_count - (IF IsFault(slots[1]) THEN 1 ELSE 0)
          /\ slots' = remove_at(slots, 1)
          /\ counters' = [counters EXCEPT !.popped = @ + 1]
  /\ UNCHANGED <<next_sequence, next_event_id, hard_fault_terminal, now_us,
                 engine_event_id, evicted, cleared>>

clear ==
  /\ slots' = <<>> /\ fault_count' = 0
  /\ cleared' = cleared \cup Contents(slots)
  /\ UNCHANGED <<counters, next_sequence, next_event_id, hard_fault_terminal,
                 now_us, engine_event_id, delivered, evicted>>

-----------------------------------------------------------------------------
(* The producers of EventQueue, here without a clock of their own: any     *)
(* timestamp may be offered.                                               *)
push_stamped ==
  /\ Q!Within
  /\ \E t \in Q!Timestamps, c \in OfferedClasses : push(Q!Offer(t, c, 0))
  /\ UNCHANGED engine_event_id

fsm_publish ==
  /\ Q!Within
  /\ engine_event_id <= MaxPublished
  /\ \E cause \in delivered, c \in {FAULT, GENERATED} :
       push(Q!Offer(cause.timestamp_us, c, engine_event_id))
  /\ engine_event_id' = Q!next_id(engine_event_id)

Next == push_stamped \/ fsm_publish \/ pop \/ clear

Spec == Init /\ [][Next]_vars

-----------------------------------------------------------------------------
(* The array keeps the promises of the queue: each call of the heap queue  *)
(* is a call of EventQueue with the same effect on counters, fault count,  *)
(* identities and contents, and pop and eviction take the event the        *)
(* selection order names.                                                  *)
ImplementsEventQueue == Q!Spec

=============================================================================
