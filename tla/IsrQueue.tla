------------------------------ MODULE IsrQueue ------------------------------
(***************************************************************************)
(* The lock-free ring between the CAN receive interrupt and the main loop  *)
(* (core/event/src/isr_queue.c), one step per access to a shared field.    *)
(* The interrupt is the only producer; the main loop is the only consumer  *)
(* and drains the ring into the prioritised event queue, which may refuse  *)
(* an event.  On the single-core target the interrupt runs to completion   *)
(* inside one step of the main loop; the interleavings here include those. *)
(*                                                                         *)
(* Frames are numbered 1, 2, ... in the order the interrupt offers them;   *)
(* their contents do not matter to the ring.                               *)
(***************************************************************************)
EXTENDS Integers, Sequences

CONSTANTS Capacity,  \* slots of the ring, one of which always stays free
          MaxFrames  \* bound: frames the interrupt offers in a behaviour

ASSUME RingAssumption == Capacity \in Nat /\ Capacity >= 2 /\ MaxFrames \in Nat

VARIABLES
  slots, head, tail, dropped, pushed, popped, high_water,
  isr,        \* where the interrupt is in isr_queue_push
  isr_tail,   \* its local current_tail
  offered,    \* frames offered so far; the number of the current one
  main,       \* where the main loop is in isr_queue_drain / isr_queue_pop
  main_event, \* its local copy of the popped event
  accepted,   \* history: frames the ring took, in order
  received,   \* history: frames the main loop got out, in order
  drained,    \* drain: events the destination queue accepted, this call
  refused     \* history: events the destination queue refused

producer == <<isr, isr_tail, offered, accepted>>
consumer == <<main, main_event, received, drained, refused>>
vars == <<slots, head, tail, dropped, pushed, popped, high_water, producer, consumer>>

Indices == 0 .. Capacity - 1

(* (i + 1) % capacity                                                      *)
Next_index(i) == IF i + 1 = Capacity THEN 0 ELSE i + 1

(* Entries from t up to h, as isr_queue_count and the high-water mark      *)
(* compute them.                                                           *)
Distance(t, h) == IF h >= t THEN h - t ELSE Capacity - (t - h)

(* The slot k places after t.                                              *)
Slot(t, k) == IF t + k >= Capacity THEN t + k - Capacity ELSE t + k

Init ==
  /\ slots = [i \in Indices |-> 0]
  /\ head = 0 /\ tail = 0
  /\ dropped = 0 /\ pushed = 0 /\ popped = 0 /\ high_water = 0
  /\ isr = "idle" /\ isr_tail = 0 /\ offered = 0
  /\ main = "idle" /\ main_event = 0
  /\ accepted = <<>> /\ received = <<>> /\ drained = 0 /\ refused = 0

-----------------------------------------------------------------------------
(* isr_queue_push: head is the producer's own, so only the read of tail    *)
(* can be stale when it is used.                                           *)
push_read ==
  /\ isr = "idle" /\ offered < MaxFrames
  /\ offered' = offered + 1
  /\ isr_tail' = tail
  /\ isr' = "check"
  /\ UNCHANGED <<slots, head, tail, dropped, pushed, popped, high_water, accepted, consumer>>

(* Mutant: the oldest frame is dropped instead.                            *)
push_drop_oldest ==
  /\ isr = "check" /\ Next_index(head) = isr_tail
  /\ dropped' = dropped + 1
  /\ tail' = Next_index(isr_tail) /\ isr_tail' = tail'
  /\ UNCHANGED <<slots, head, pushed, popped, high_water, isr, offered, accepted, consumer>>

push_drop ==
  /\ isr = "check" /\ Next_index(head) = isr_tail
  /\ dropped' = dropped + 1
  /\ isr' = "idle"
  /\ UNCHANGED <<slots, head, tail, pushed, popped, high_water, isr_tail, offered, accepted, consumer>>

(* Mutant: the full ring is not noticed.                                   *)
push_write_unchecked ==
  /\ isr = "check"
  /\ slots' = [slots EXCEPT ![head] = offered]
  /\ isr' = "publish"
  /\ UNCHANGED <<head, tail, dropped, pushed, popped, high_water, isr_tail, offered, accepted, consumer>>

push_write ==
  /\ isr = "check" /\ Next_index(head) # isr_tail
  /\ slots' = [slots EXCEPT ![head] = offered]
  /\ isr' = "publish"
  /\ UNCHANGED <<head, tail, dropped, pushed, popped, high_water, isr_tail, offered, accepted, consumer>>

push_publish ==
  /\ isr = "publish"
  /\ head' = Next_index(head)
  /\ accepted' = Append(accepted, offered)
  /\ isr' = "count"
  /\ UNCHANGED <<slots, tail, dropped, pushed, popped, high_water, isr_tail, offered, consumer>>

push_count ==
  /\ isr = "count"
  /\ pushed' = pushed + 1
  /\ high_water' = IF Distance(isr_tail, head) > high_water
                   THEN Distance(isr_tail, head) ELSE high_water
  /\ isr' = "idle"
  /\ UNCHANGED <<slots, head, tail, dropped, popped, isr_tail, offered, accepted, consumer>>

Isr == push_read \/ push_drop \/ push_write \/ push_publish \/ push_count

-----------------------------------------------------------------------------
(* isr_queue_drain: pop until the ring is empty, pushing each event.       *)
drain_start ==
  /\ main = "idle"
  /\ drained' = 0
  /\ main' = "pop"
  /\ UNCHANGED <<slots, head, tail, dropped, pushed, popped, high_water, producer,
                 main_event, received, refused>>

(* Mutant: one frame left may be taken for none.                           *)
pop_empty_early ==
  /\ main = "pop" /\ (tail = head \/ Next_index(tail) = head)
  /\ main' = "idle"
  /\ UNCHANGED <<slots, head, tail, dropped, pushed, popped, high_water, producer,
                 main_event, received, drained, refused>>

(* The pop that finds the ring empty ends the drain.                       *)
pop_empty ==
  /\ main = "pop" /\ tail = head
  /\ main' = "idle"
  /\ UNCHANGED <<slots, head, tail, dropped, pushed, popped, high_water, producer,
                 main_event, received, drained, refused>>

pop_nonempty ==
  /\ main = "pop" /\ tail # head
  /\ main' = "copy"
  /\ UNCHANGED <<slots, head, tail, dropped, pushed, popped, high_water, producer,
                 main_event, received, drained, refused>>

pop_copy ==
  /\ main = "copy"
  /\ main_event' = slots[tail]
  /\ main' = "release"
  /\ UNCHANGED <<slots, head, tail, dropped, pushed, popped, high_water, producer,
                 received, drained, refused>>

pop_release ==
  /\ main = "release"
  /\ tail' = Next_index(tail)
  /\ received' = Append(received, main_event)
  /\ main' = "deliver"
  /\ UNCHANGED <<slots, head, dropped, pushed, popped, high_water, producer,
                 main_event, drained, refused>>

(* popped++ and the push to the destination: OK, or refused and gone.      *)
drain_deliver ==
  /\ main = "deliver"
  /\ popped' = popped + 1
  /\ \/ drained' = drained + 1 /\ UNCHANGED refused
     \/ refused' = refused + 1 /\ UNCHANGED drained
  /\ main' = "pop"
  /\ UNCHANGED <<slots, head, tail, dropped, pushed, high_water, producer, main_event, received>>

Main == drain_start \/ pop_empty \/ pop_nonempty \/ pop_copy \/ pop_release \/ drain_deliver

Next == Isr \/ Main

Spec == Init /\ [][Next]_vars

(* The main loop calls drain again and again, and an interrupt that has    *)
(* started runs to its end; whether frames arrive at all is up to the bus. *)
Fairness ==
  /\ WF_vars(Main)
  /\ WF_vars(push_drop \/ push_write \/ push_publish \/ push_count)

FairSpec == Spec /\ Fairness

-----------------------------------------------------------------------------
(* Every field of both routines stays in its C type; the indices stay in   *)
(* the ring.                                                               *)
TypeOK ==
  /\ slots \in [Indices -> Nat]
  /\ head \in Indices /\ tail \in Indices /\ isr_tail \in Indices
  /\ dropped \in Nat /\ pushed \in Nat /\ popped \in Nat /\ high_water \in Nat
  /\ isr \in {"idle", "check", "publish", "count"}
  /\ offered \in Nat
  /\ main \in {"idle", "pop", "copy", "release", "deliver"}
  /\ main_event \in Nat
  /\ accepted \in Seq(Nat) /\ received \in Seq(Nat)
  /\ drained \in Nat /\ refused \in Nat

(* The interrupt never writes the slot the main loop is copying out, even  *)
(* though it decides with a tail that may be stale by then.                *)
NoSlotRace ==
  ~ /\ isr = "check" /\ Next_index(head) # isr_tail
    /\ main \in {"copy", "release"}
    /\ head = tail

(* What the main loop got is exactly what the ring took, in arrival order: *)
(* no frame is duplicated, torn, invented or overtaken.                    *)
Fifo ==
  /\ Len(received) <= Len(accepted)
  /\ \A i \in 1 .. Len(received) : received[i] = accepted[i]

(* The slots from tail up to head hold, in order, exactly the frames that  *)
(* were accepted and not yet received.                                     *)
RingContents ==
  /\ Distance(tail, head) = Len(accepted) - Len(received)
  /\ \A k \in 0 .. Distance(tail, head) - 1 :
       slots[Slot(tail, k)] = accepted[Len(received) + k + 1]

(* Every frame is accounted for at every point of both routines: in the    *)
(* ring, out of it, or counted as dropped; and the mark of the highest     *)
(* occupancy never exceeds the Capacity - 1 entries the ring can hold.     *)
CountersAccount ==
  /\ offered = pushed + dropped + (IF isr = "idle" THEN 0 ELSE 1)
  /\ Len(accepted) = pushed + (IF isr = "count" THEN 1 ELSE 0)
  /\ Len(received) = popped + (IF main = "deliver" THEN 1 ELSE 0)
  /\ high_water <= Capacity - 1

(* Every frame the ring takes reaches the main loop.                       *)
EverythingDrained == \A n \in 1 .. MaxFrames :
  (Len(accepted) >= n) ~> (Len(received) >= n)
=============================================================================
