----------------------------- MODULE EventQueue -----------------------------
(***************************************************************************)
(* The bounded event queue of core/event (queue.c, with types.c and        *)
(* clock.c), seen by its callers.  The contents of the heap are a set of   *)
(* stored events; which event pop returns is fixed by the ordering key.    *)
(* Module EventHeap keeps the array and is checked to implement this one.  *)
(*                                                                         *)
(* All control is kept: admission, the slots reserved for faults, eviction *)
(* of the newest ordinary event, the terminal state, every counter.  The   *)
(* payload, type and cause of an event are left out; an event the validity *)
(* test refuses is one whose class lies outside PriorityClasses.           *)
(***************************************************************************)
EXTENDS EventOrder, FiniteSets

CONSTANTS
  Capacity,        \* physical slots
  Reserved,        \* reserved_fault_slots
  TimeMax,         \* CANCESTRY_TIME_US_MAX: timestamps are 0 .. TimeMax
  OfferedClasses,  \* classes the producers use, invalid ones among them
  IdMod,           \* sequence and event_id are unsigned, modulo IdMod (2^32)
  MaxOffers        \* bound: how many times push is called in a behaviour

Timestamps == 0 .. TimeMax

ASSUME QueueAssumption ==
  /\ Capacity \in 1 .. 32767
  /\ Reserved \in 0 .. Capacity
  /\ TimeMax \in Nat
  /\ OfferedClasses \subseteq Nat
  /\ IdMod \in Nat /\ IdMod > 1
  /\ MaxOffers \in Nat

(* What a producer hands to push, and what the queue stores.  The field    *)
(* nth is history: how many-th admitted event this is.                     *)
Offers == [timestamp_us: Timestamps, priority_class: Nat, event_id: 0 .. IdMod - 1]
Events == [timestamp_us: Timestamps, priority_class: PriorityClasses,
           event_id: 0 .. IdMod - 1, sequence: 0 .. IdMod - 1, nth: Nat]

VARIABLES
  events,              \* stored events
  fault_count,         \* the queue's own count of stored faults
  counters,
  next_sequence,
  next_event_id,
  hard_fault_terminal,
  now_us,              \* the clock producers stamp their events with
  engine_event_id,     \* the FSM engine's own counter of event ids
  delivered,           \* history: events pop has returned
  evicted,             \* history: ordinary events that made room for a fault
  cleared              \* history: events clear has discarded

vars == <<events, fault_count, counters, next_sequence, next_event_id,
          hard_fault_terminal, now_us, engine_event_id, delivered, evicted, cleared>>

Counters ==
  [pushed: Nat, popped: Nat, dropped: Nat, rejected: Nat, overflow_events: Nat,
   consecutive_overflows: Nat, hard_fault_escalations: Nat, high_water: Nat]

-----------------------------------------------------------------------------
next_id(counter) == IF counter + 1 = IdMod THEN 1 ELSE counter + 1

(* The candidates pop and the eviction may take: one, unless keys collide. *)
Oldest(S) == {e \in S : \A f \in S : ~Precedes(f, e)}
Newest(S) == {e \in S : \A f \in S : ~Precedes(e, f)}

size == Cardinality(events)

(* Mutant: one ordinary event too many.                                    *)
ordinary_share_off_by_one ==
  /\ Reserved # 0
  /\ size - fault_count > Capacity - Reserved

ordinary_share_used ==
  /\ Reserved # 0
  /\ size - fault_count >= Capacity - Reserved

-----------------------------------------------------------------------------
Init ==
  /\ events = {} /\ fault_count = 0
  /\ counters = [pushed |-> 0, popped |-> 0, dropped |-> 0, rejected |-> 0,
                 overflow_events |-> 0, consecutive_overflows |-> 0,
                 hard_fault_escalations |-> 0, high_water |-> 0]
  /\ next_sequence = 0 /\ next_event_id = 0
  /\ hard_fault_terminal = FALSE
  /\ now_us = 0
  /\ engine_event_id = 1
  /\ delivered = {} /\ evicted = {} /\ cleared = {}

(* Mutant: the overflow is not counted.                                    *)
Overflowed_uncounted(c) ==
  [c EXCEPT !.consecutive_overflows = @ + 1, !.dropped = @ + 1]

(* The three counters every refused or evicting push increments.           *)
Overflowed(c) ==
  [c EXCEPT !.overflow_events = @ + 1, !.consecutive_overflows = @ + 1, !.dropped = @ + 1]

Stored(o) ==
  [timestamp_us |-> o.timestamp_us, priority_class |-> o.priority_class,
   event_id |-> IF o.event_id = 0 THEN next_id(next_event_id) ELSE o.event_id,
   sequence |-> next_id(next_sequence), nth |-> counters.pushed + 1]

(* queue_enqueue of o into the events `room`, which leave a slot free;     *)
(* c is the counters as push has left them.                                *)
enqueue(o, room, c) ==
  /\ events' = room \cup {Stored(o)}
  /\ fault_count' = fault_count + (IF IsFault(o) THEN 1 ELSE 0)
  /\ next_sequence' = next_id(next_sequence)
  /\ next_event_id' = IF o.event_id = 0 THEN next_id(next_event_id) ELSE next_event_id
  /\ counters' = [c EXCEPT !.pushed = @ + 1,
                           !.high_water = IF Cardinality(room) + 1 > @
                                          THEN Cardinality(room) + 1 ELSE @]

refuse(c) ==
  /\ counters' = c
  /\ UNCHANGED <<events, fault_count, next_sequence, next_event_id, evicted>>

push_terminal ==  \* ERR_TERMINAL
  /\ hard_fault_terminal
  /\ refuse(Overflowed(counters))
  /\ UNCHANGED hard_fault_terminal

push_invalid(o) ==  \* ERR_EVENT
  /\ ~hard_fault_terminal
  /\ ~event_is_valid(o)
  /\ refuse([counters EXCEPT !.rejected = @ + 1])
  /\ UNCHANGED hard_fault_terminal

Accepted(o) == ~hard_fault_terminal /\ event_is_valid(o)

push_reserved(o) ==  \* ERR_RESERVED_FAULT_SLOTS
  /\ Accepted(o)
  /\ ~IsFault(o) /\ ordinary_share_used
  /\ refuse(Overflowed(counters))
  /\ UNCHANGED hard_fault_terminal

push_room(o) ==  \* OK
  /\ Accepted(o)
  /\ IsFault(o) \/ ~ordinary_share_used
  /\ size < Capacity
  /\ enqueue(o, events, [counters EXCEPT !.consecutive_overflows = 0])
  /\ UNCHANGED <<evicted, hard_fault_terminal>>

push_full(o) ==  \* ERR_FULL
  /\ Accepted(o)
  /\ ~IsFault(o) /\ ~ordinary_share_used
  /\ size >= Capacity
  /\ refuse(Overflowed(counters))
  /\ UNCHANGED hard_fault_terminal

(* remove_at of the victim leaves fault_count alone: it is never a fault.  *)
push_evict(o) ==  \* OK_EVICTED_VICTIM
  /\ Accepted(o)
  /\ IsFault(o) /\ size >= Capacity
  /\ \E victim \in Newest(Ordinary(events)) :
       /\ enqueue(o, events \ {victim}, Overflowed(counters))
       /\ evicted' = evicted \cup {victim}
  /\ UNCHANGED hard_fault_terminal

(* The hooks escalate calls are modelled in module FaultPath.              *)
push_escalate(o) ==  \* ERR_FULL_FAULT
  /\ Accepted(o)
  /\ IsFault(o) /\ size >= Capacity
  /\ Ordinary(events) = {}
  /\ hard_fault_terminal' = TRUE
  /\ refuse([Overflowed(counters) EXCEPT !.hard_fault_escalations = @ + 1])

push(o) ==
  /\ \/ push_terminal \/ push_invalid(o) \/ push_reserved(o) \/ push_room(o)
     \/ push_full(o) \/ push_evict(o) \/ push_escalate(o)
  /\ UNCHANGED <<now_us, delivered, cleared>>

pop_empty ==  \* ERR_EMPTY
  /\ events = {}
  /\ UNCHANGED <<events, fault_count, counters, delivered>>

pop_oldest ==
  /\ \E e \in Oldest(events) :
       /\ events' = events \ {e}
       /\ delivered' = delivered \cup {e}
       /\ fault_count' = fault_count - (IF IsFault(e) THEN 1 ELSE 0)
  /\ counters' = [counters EXCEPT !.popped = @ + 1]

pop ==
  /\ pop_empty \/ pop_oldest
  /\ UNCHANGED <<next_sequence, next_event_id, hard_fault_terminal, now_us,
                 engine_event_id, evicted, cleared>>

clear ==
  /\ events' = {} /\ fault_count' = 0
  /\ cleared' = cleared \cup events
  /\ UNCHANGED <<counters, next_sequence, next_event_id, hard_fault_terminal,
                 now_us, engine_event_id, delivered, evicted>>

-----------------------------------------------------------------------------
(* Callers.  Every call of push counts against the bound MaxOffers.        *)
Within == counters.pushed + counters.dropped + counters.rejected < MaxOffers

Offer(t, c, id) == [timestamp_us |-> t, priority_class |-> c, event_id |-> id]

(* A producer with a timestamp of its own: a received frame, a timer.      *)
push_stamped ==
  /\ Within
  /\ \E t \in Timestamps, c \in OfferedClasses : push(Offer(t, c, 0))
  /\ UNCHANGED engine_event_id

(* emit: the event carries the time of the clock.                          *)
emit ==
  /\ Within
  /\ \E c \in OfferedClasses : push(Offer(now_us, c, 0))
  /\ UNCHANGED engine_event_id

(* emit_generated: the handler of a popped event emits a generated one.    *)
emit_generated ==
  /\ Within
  /\ \E cause \in delivered, delay \in Timestamps :
       push(Offer(sat_add(cause.timestamp_us, delay, TimeMax), GENERATED, 0))
  /\ UNCHANGED engine_event_id

(* The FSM engine publishes to the global queue what the handling of a     *)
(* popped event produced, under an id of its own counter.                  *)
fsm_publish ==
  /\ Within
  /\ \E cause \in delivered, c \in {FAULT, GENERATED} :
       push(Offer(cause.timestamp_us, c, engine_event_id))
  /\ engine_event_id' = next_id(engine_event_id)

(* virtual_clock_advance saturates; virtual_clock_set refuses to go back,  *)
(* so it too can only move the clock forward.                              *)
advance_clock ==
  /\ \E d \in Timestamps \ {0} : now_us' = sat_add(now_us, d, TimeMax)
  /\ UNCHANGED <<events, fault_count, counters, next_sequence, next_event_id,
                 hard_fault_terminal, engine_event_id, delivered, evicted, cleared>>

Next ==
  \/ push_stamped \/ emit \/ emit_generated \/ fsm_publish
  \/ pop \/ clear \/ advance_clock

Spec == Init /\ [][Next]_vars

-----------------------------------------------------------------------------
(* Every variable stays in its C type, and the storage bound is exact:     *)
(* queue_is_valid (queue.c:205-211) keeps answering true.                  *)
TypeOK ==
  /\ events \subseteq Events /\ IsFiniteSet(events)
  /\ fault_count \in 0 .. size /\ size <= Capacity
  /\ counters \in Counters
  /\ next_sequence \in 0 .. IdMod - 1
  /\ next_event_id \in 0 .. IdMod - 1
  /\ hard_fault_terminal \in BOOLEAN
  /\ now_us \in Timestamps
  /\ engine_event_id \in 1 .. IdMod - 1
  /\ delivered \subseteq Events /\ IsFiniteSet(delivered)
  /\ evicted \subseteq Events /\ IsFiniteSet(evicted)
  /\ cleared \subseteq Events /\ IsFiniteSet(cleared)

(* The count that admission relies on is the real number of stored faults, *)
(* across evictions, pops and clear (fault_count is patched in three       *)
(* places of queue.c and never recomputed).                                *)
FaultCountExact == fault_count = Cardinality(Faults(events))

(* A burst of ordinary traffic cannot take the slots kept for faults       *)
(* (event-ordering.md, 11.1).                                              *)
ReservedShareKept ==
  Reserved # 0 => Cardinality(Ordinary(events)) <= Capacity - Reserved

(* An admitted fault is never lost: it stays stored until pop returns it   *)
(* or the owner clears the queue; eviction takes ordinary events only.     *)
NoFaultEvicted == Faults(evicted) = {}

(* What the reserve is for, over every sequence of pushes, pops and clears:*)
(* the count that admission relies on is exact, traffic stays out of the   *)
(* reserved slots, and no admitted fault is evicted.                       *)
FaultsProtected == FaultCountExact /\ ReservedShareKept /\ NoFaultEvicted

(* An admitted event is in one place only, and none was admitted that the  *)
(* counter of admissions does not know of: removal from the heap neither   *)
(* loses an event nor leaves a second copy behind.                         *)
OnePlace ==
  /\ events \cap (delivered \cup evicted \cup cleared) = {}
  /\ delivered \cap (evicted \cup cleared) = {}
  /\ evicted \cap cleared = {}
  /\ \A e \in events \cup delivered \cup evicted \cup cleared : e.nth <= counters.pushed

(* The counters account for every event: each admitted event is stored,    *)
(* was popped, was evicted or was cleared, and every dropped event is an   *)
(* overflow (queue.h, "every drop increments counters.dropped and          *)
(* counters.overflow_events").                                             *)
CountersAccount ==
  /\ counters.pushed = size + counters.popped + Cardinality(evicted) + Cardinality(cleared)
  /\ counters.popped = Cardinality(delivered)
  /\ counters.dropped = counters.overflow_events
  /\ counters.dropped >= Cardinality(evicted)
  /\ counters.high_water >= size

(* Terminal means what escalation promised: it was entered exactly once.   *)
TerminalOnce == counters.hard_fault_escalations = IF hard_fault_terminal THEN 1 ELSE 0

(* Events with the same timestamp and class leave the queue in the order   *)
(* they entered it, whatever was pushed, evicted or cleared in between:    *)
(* what is still stored was admitted after everything already delivered.   *)
(* The queue itself only has the sequence to tell.                         *)
FifoWithinClass ==
  \A d \in delivered, e \in events :
    /\ d.timestamp_us = e.timestamp_us
    /\ d.priority_class = e.priority_class
    => d.nth < e.nth

(* The sequence tells any two admitted events apart, so that the key is a  *)
(* total order (queue.c:8, "Sequences are unique and strictly increasing").*)
SequencesUnique ==
  \A d, e \in events \cup delivered \cup evicted \cup cleared :
    d.sequence = e.sequence => d = e

(* A fault displaces an ordinary event only once the reserved slots are in *)
(* use: the first Reserved faults cost the traffic nothing.                *)
EvictionOnlyBeyondReserve ==
  [][evicted' # evicted => fault_count >= Reserved /\ Cardinality(Faults(events')) > Reserved]_vars

=============================================================================
