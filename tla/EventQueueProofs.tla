-------------------------- MODULE EventQueueProofs --------------------------
(***************************************************************************)
(* The promises of the event queue, for every capacity, reserve, class set *)
(* and number of calls.                                                    *)
(***************************************************************************)
EXTENDS EventQueue, FiniteSetTheorems, TLAPS

(* The inductive invariant.  Admission compares fault_count, so the bound  *)
(* on ordinary events needs FaultCountExact; the sums of CountersAccount   *)
(* need OnePlace, because a union of overlapping sets is smaller than the  *)
(* sum of its parts.                                                       *)
IndInv ==
  /\ TypeOK /\ FaultCountExact /\ ReservedShareKept /\ NoFaultEvicted
  /\ OnePlace /\ CountersAccount /\ TerminalOnce

-----------------------------------------------------------------------------
(* Faults and ordinary events split any finite set of events.              *)
LEMMA SplitCardinality ==
  ASSUME NEW S, IsFiniteSet(S)
  PROVE  /\ IsFiniteSet(Faults(S)) /\ IsFiniteSet(Ordinary(S))
         /\ Cardinality(S) \in Nat
         /\ Cardinality(Faults(S)) \in Nat /\ Cardinality(Ordinary(S)) \in Nat
         /\ Cardinality(S) = Cardinality(Faults(S)) + Cardinality(Ordinary(S))
<1>1. Faults(S) \in SUBSET S /\ Ordinary(S) \in SUBSET S
  BY DEF Faults, Ordinary
<1>2. IsFiniteSet(Faults(S)) /\ IsFiniteSet(Ordinary(S))
  BY <1>1, FS_Subset
<1>3. /\ Cardinality(S) \in Nat
      /\ Cardinality(Faults(S)) \in Nat /\ Cardinality(Ordinary(S)) \in Nat
  BY <1>2, FS_CardinalityType
<1>4. S = Faults(S) \cup Ordinary(S) /\ Faults(S) \cap Ordinary(S) = {}
  BY DEF Faults, Ordinary
<1>5. Cardinality(Faults(S) \cup Ordinary(S))
        = Cardinality(Faults(S)) + Cardinality(Ordinary(S)) - Cardinality(Faults(S) \cap Ordinary(S))
  BY <1>2, FS_Union
<1>6. Cardinality(S) = Cardinality(Faults(S) \cup Ordinary(S))
  BY <1>4, Zenon
<1>7. Cardinality(Faults(S) \cap Ordinary(S)) = 0
  BY <1>4, FS_EmptySet
<1> QED
  BY <1>2, <1>3, <1>5, <1>6, <1>7

(* Adding an event adds it to the half of its class.                       *)
LEMMA AddCardinality ==
  ASSUME NEW S, IsFiniteSet(S), NEW e, e \notin S
  PROVE  /\ IsFiniteSet(S \cup {e}) /\ Cardinality(S \cup {e}) = Cardinality(S) + 1
         /\ Cardinality(Faults(S \cup {e})) = Cardinality(Faults(S)) + (IF IsFault(e) THEN 1 ELSE 0)
         /\ Cardinality(Ordinary(S \cup {e})) = Cardinality(Ordinary(S)) + (IF IsFault(e) THEN 0 ELSE 1)
<1>1. IsFiniteSet(S \cup {e}) /\ Cardinality(S \cup {e}) = Cardinality(S) + 1
  BY FS_AddElement
<1>2. IsFiniteSet(Faults(S)) /\ Cardinality(Faults(S)) \in Nat /\ e \notin Faults(S)
  BY SplitCardinality DEF Faults
<1>3. IsFiniteSet(Ordinary(S)) /\ Cardinality(Ordinary(S)) \in Nat /\ e \notin Ordinary(S)
  BY SplitCardinality DEF Ordinary
<1>4. CASE IsFault(e)
  <2>1. Faults(S \cup {e}) = Faults(S) \cup {e} /\ Ordinary(S \cup {e}) = Ordinary(S)
    BY <1>4 DEF Faults, Ordinary
  <2>2. Cardinality(Faults(S) \cup {e}) = Cardinality(Faults(S)) + 1
    BY <1>2, FS_AddElement
  <2>3. /\ Cardinality(Faults(S \cup {e})) = Cardinality(Faults(S)) + 1
        /\ Cardinality(Ordinary(S \cup {e})) = Cardinality(Ordinary(S))
    BY <2>1, <2>2, Zenon
  <2> QED
    BY <1>1, <1>3, <1>4, <2>3
<1>5. CASE ~IsFault(e)
  <2>1. Faults(S \cup {e}) = Faults(S) /\ Ordinary(S \cup {e}) = Ordinary(S) \cup {e}
    BY <1>5 DEF Faults, Ordinary
  <2>2. Cardinality(Ordinary(S) \cup {e}) = Cardinality(Ordinary(S)) + 1
    BY <1>3, FS_AddElement
  <2>3. /\ Cardinality(Faults(S \cup {e})) = Cardinality(Faults(S))
        /\ Cardinality(Ordinary(S \cup {e})) = Cardinality(Ordinary(S)) + 1
    BY <2>1, <2>2, Zenon
  <2> QED
    BY <1>1, <1>2, <1>5, <2>3
<1> QED
  BY <1>4, <1>5

(* Removing an event removes it from the half of its class.                *)
LEMMA RemoveCardinality ==
  ASSUME NEW S, IsFiniteSet(S), NEW e \in S
  PROVE  /\ IsFiniteSet(S \ {e}) /\ Cardinality(S \ {e}) = Cardinality(S) - 1
         /\ Cardinality(Faults(S \ {e})) = Cardinality(Faults(S)) - (IF IsFault(e) THEN 1 ELSE 0)
         /\ Cardinality(Ordinary(S \ {e})) = Cardinality(Ordinary(S)) - (IF IsFault(e) THEN 0 ELSE 1)
<1>1. IsFiniteSet(S \ {e}) /\ Cardinality(S \ {e}) = Cardinality(S) - 1
  BY FS_RemoveElement
<1>2. /\ S = (S \ {e}) \cup {e} /\ e \notin S \ {e}
  OBVIOUS
<1>5. /\ Cardinality(Faults((S \ {e}) \cup {e})) = Cardinality(Faults(S \ {e})) + (IF IsFault(e) THEN 1 ELSE 0)
      /\ Cardinality(Ordinary((S \ {e}) \cup {e})) = Cardinality(Ordinary(S \ {e})) + (IF IsFault(e) THEN 0 ELSE 1)
  BY <1>1, <1>2, AddCardinality
<1>3. /\ Cardinality(Faults(S)) = Cardinality(Faults(S \ {e})) + (IF IsFault(e) THEN 1 ELSE 0)
      /\ Cardinality(Ordinary(S)) = Cardinality(Ordinary(S \ {e})) + (IF IsFault(e) THEN 0 ELSE 1)
  BY <1>2, <1>5, Zenon
<1>4. Cardinality(Faults(S \ {e})) \in Nat /\ Cardinality(Ordinary(S \ {e})) \in Nat
  BY <1>1, SplitCardinality, SMTT(30)
<1> QED
  BY <1>1, <1>3, <1>4

-----------------------------------------------------------------------------
(* What every call of push leaves to its caller.                           *)
Frame ==
  /\ engine_event_id' \in 1 .. IdMod - 1
  /\ UNCHANGED <<now_us, delivered, cleared>>

(* queue_next_id skips 0 and stays in the unsigned range.                  *)
LEMMA NextIdType ==
  ASSUME NEW n \in 0 .. IdMod - 1
  PROVE  next_id(n) \in 1 .. IdMod - 1
  BY QueueAssumption, SMTT(30) DEF next_id

(* What enqueue stores of an accepted offer is a well-typed event.         *)
LEMMA StoredType ==
  ASSUME TypeOK, NEW o \in Offers, event_is_valid(o)
  PROVE  Stored(o) \in Events /\ (IsFault(Stored(o)) <=> IsFault(o))
         /\ Stored(o).nth = counters.pushed + 1
<1>1. next_id(next_event_id) \in 0 .. IdMod - 1 /\ next_id(next_sequence) \in 0 .. IdMod - 1
  BY NextIdType DEF TypeOK
<1>2. counters.pushed + 1 \in Nat
  BY DEF TypeOK, Counters
<1> QED
  BY <1>1, <1>2 DEF Stored, Offers, Events, event_is_valid, IsFault

(* An initialised queue satisfies the inductive invariant.                 *)
LEMMA InitInd == Init => IndInv
<1> SUFFICES ASSUME Init PROVE IndInv
  OBVIOUS
<1>1. IsFiniteSet({}) /\ Cardinality({}) = 0
  BY FS_EmptySet
<1>2. Faults({}) = {} /\ Ordinary({}) = {}
  BY DEF Faults, Ordinary
<1>3. Cardinality(events) = 0 /\ Cardinality(Faults(events)) = 0 /\ Cardinality(Ordinary(events)) = 0
      /\ Cardinality(delivered) = 0 /\ Cardinality(evicted) = 0 /\ Cardinality(cleared) = 0
  BY <1>1, <1>2, Zenon DEF Init
<1>4. counters \in Counters /\ counters.pushed = 0 /\ counters.popped = 0 /\ counters.dropped = 0
      /\ counters.overflow_events = 0 /\ counters.high_water = 0 /\ counters.hard_fault_escalations = 0
  BY DEF Init, Counters
<1>10. IsFiniteSet(events) /\ IsFiniteSet(delivered) /\ IsFiniteSet(evicted) /\ IsFiniteSet(cleared)
  BY <1>1, Zenon DEF Init
<1>11. events \subseteq Events /\ delivered \subseteq Events /\ evicted \subseteq Events /\ cleared \subseteq Events
  BY DEF Init
<1>12. fault_count \in 0 .. size /\ size <= Capacity
  BY <1>3, QueueAssumption, SMTT(30) DEF Init, size
<1>13. /\ next_sequence \in 0 .. IdMod - 1 /\ next_event_id \in 0 .. IdMod - 1
       /\ now_us \in Timestamps /\ engine_event_id \in 1 .. IdMod - 1
  BY QueueAssumption, SMTT(30) DEF Init, Timestamps
<1>14. hard_fault_terminal \in BOOLEAN
  BY DEF Init
<1>5. TypeOK
  BY <1>4, <1>10, <1>11, <1>12, <1>13, <1>14, SMTT(30) DEF TypeOK
<1>6. FaultCountExact /\ ReservedShareKept
  BY <1>3, QueueAssumption, SMTT(30) DEF Init, FaultCountExact, ReservedShareKept
<1>7. NoFaultEvicted
  BY <1>2 DEF Init, NoFaultEvicted
<1>8. OnePlace
  BY DEF Init, OnePlace
<1>9. CountersAccount /\ TerminalOnce
  BY <1>3, <1>4 DEF Init, CountersAccount, TerminalOnce, size
<1> QED
  BY <1>5, <1>6, <1>7, <1>8, <1>9 DEF IndInv

(* A push that stores nothing changes counters only.                       *)
LEMMA RefuseKeeps ==
  ASSUME IndInv, Frame, NEW c \in Counters, refuse(c),
         c.pushed = counters.pushed, c.popped = counters.popped,
         c.dropped = c.overflow_events, c.dropped >= counters.dropped,
         c.high_water = counters.high_water,
         hard_fault_terminal' \in BOOLEAN,
         c.hard_fault_escalations = IF hard_fault_terminal' THEN 1 ELSE 0
  PROVE  IndInv'
<1>1. /\ events' = events /\ delivered' = delivered /\ evicted' = evicted /\ cleared' = cleared
      /\ counters' = c
  BY DEF refuse, Frame
<1>2. size' = size
  BY <1>1, Zenon DEF size
<1>3. TypeOK'
  BY <1>1, <1>2, Zenon DEF IndInv, TypeOK, refuse, Frame
<1>4. FaultCountExact' /\ ReservedShareKept' /\ NoFaultEvicted'
  BY <1>1, Zenon DEF IndInv, FaultCountExact, ReservedShareKept, NoFaultEvicted, refuse
<1>5. OnePlace'
  BY <1>1 DEF IndInv, OnePlace
<1>6. TerminalOnce'
  BY <1>1 DEF TerminalOnce
<1>7. CountersAccount'
  <2>1. Cardinality(evicted') = Cardinality(evicted) /\ Cardinality(cleared') = Cardinality(cleared)
        /\ Cardinality(delivered') = Cardinality(delivered)
    BY <1>1, Zenon
  <2>2. Cardinality(evicted) \in Nat
    BY FS_CardinalityType DEF IndInv, TypeOK
  <2> QED
    BY <1>1, <1>2, <2>1, <2>2 DEF IndInv, CountersAccount, TypeOK, Counters
<1> QED
  BY <1>3, <1>4, <1>5, <1>6, <1>7 DEF IndInv

(* A push that stores its event: room is what is left of the contents once *)
(* the victim, if any, is gone.                                            *)
LEMMA EnqueueKeeps ==
  ASSUME IndInv, Frame, NEW o \in Offers, event_is_valid(o),
         NEW c \in Counters, NEW room, enqueue(o, room, c),
         room \subseteq events, IsFiniteSet(room), Cardinality(room) < Capacity,
         Cardinality(Faults(room)) = fault_count,
         Reserved # 0 =>
           Cardinality(Ordinary(room)) + (IF IsFault(o) THEN 0 ELSE 1) <= Capacity - Reserved,
         evicted' = evicted \cup (events \ room), IsFiniteSet(evicted'),
         Faults(evicted') = {},
         Cardinality(room) + Cardinality(evicted') = size + Cardinality(evicted),
         c.pushed = counters.pushed, c.popped = counters.popped,
         c.dropped = c.overflow_events, c.dropped >= Cardinality(evicted'),
         c.high_water = counters.high_water,
         c.hard_fault_escalations = counters.hard_fault_escalations,
         hard_fault_terminal' = hard_fault_terminal
  PROVE  IndInv'
<1> DEFINE e == Stored(o)
<1>1. e \in Events /\ (IsFault(e) <=> IsFault(o)) /\ e.nth = counters.pushed + 1
  BY StoredType DEF IndInv
<1>2. events' = room \cup {e}
  BY DEF enqueue
<1>3. /\ \A d \in events \cup delivered \cup evicted \cup cleared : d.nth <= counters.pushed
      /\ counters.pushed \in Nat
  BY DEF IndInv, OnePlace, TypeOK, Counters
<1>4. \A d \in events \cup delivered \cup evicted \cup cleared : d # e
  BY <1>1, <1>3
<1> HIDE DEF e
<1>5. e \notin room
  BY <1>4
<1>6. /\ IsFiniteSet(room \cup {e}) /\ Cardinality(room \cup {e}) = Cardinality(room) + 1
      /\ Cardinality(Faults(room \cup {e})) = Cardinality(Faults(room)) + (IF IsFault(e) THEN 1 ELSE 0)
      /\ Cardinality(Ordinary(room \cup {e})) = Cardinality(Ordinary(room)) + (IF IsFault(e) THEN 0 ELSE 1)
  BY <1>5, AddCardinality
<1>7. /\ IsFiniteSet(events') /\ size' = Cardinality(room) + 1
      /\ Cardinality(Faults(events')) = fault_count + (IF IsFault(o) THEN 1 ELSE 0)
      /\ Cardinality(Ordinary(events')) = Cardinality(Ordinary(room)) + (IF IsFault(o) THEN 0 ELSE 1)
  BY <1>1, <1>2, <1>6, Zenon DEF size
<1>8. /\ Cardinality(room) \in Nat /\ size' \in Nat
      /\ Cardinality(Faults(events')) \in Nat /\ Cardinality(Ordinary(events')) \in Nat
      /\ size' = Cardinality(Faults(events')) + Cardinality(Ordinary(events'))
  BY <1>7, SplitCardinality, Zenon DEF size
<1>9. fault_count' = fault_count + (IF IsFault(o) THEN 1 ELSE 0)
  BY DEF enqueue
<1>10. FaultCountExact'
  BY <1>7, <1>9, Zenon DEF FaultCountExact
<1>11. /\ counters' \in Counters
       /\ counters'.pushed = counters.pushed + 1 /\ counters'.popped = counters.popped
       /\ counters'.dropped = counters'.overflow_events /\ counters'.dropped = c.dropped
       /\ counters'.hard_fault_escalations = counters.hard_fault_escalations
       /\ counters'.high_water >= size'
  <2>1. counters' = [c EXCEPT !.pushed = @ + 1,
                              !.high_water = IF Cardinality(room) + 1 > @
                                             THEN Cardinality(room) + 1 ELSE @]
    BY DEF enqueue
  <2>2. counters' \in Counters
    <3> DEFINE hw == IF Cardinality(room) + 1 > c.high_water
                     THEN Cardinality(room) + 1 ELSE c.high_water
    <3>1. hw \in Nat /\ c.pushed + 1 \in Nat
      BY <1>8 DEF Counters
    <3>2. counters' = [c EXCEPT !.pushed = c.pushed + 1, !.high_water = hw]
      BY <2>1 DEF Counters
    <3> HIDE DEF hw
    <3> QED
      BY <3>1, <3>2 DEF Counters
  <2> QED
    BY <1>7, <1>8, <2>1, <2>2 DEF Counters
<1>12. TypeOK'
  <2>1. events' \subseteq Events /\ evicted' \subseteq Events
    BY <1>1, <1>2 DEF IndInv, TypeOK
  <2>2. fault_count' \in 0 .. size' /\ size' <= Capacity
    BY <1>7, <1>8, <1>9, QueueAssumption, SMTT(30)
  <2>3. next_sequence' \in 0 .. IdMod - 1 /\ next_event_id' \in 0 .. IdMod - 1
    BY NextIdType DEF enqueue, IndInv, TypeOK
  <2> QED
    BY <1>7, <1>11, <2>1, <2>2, <2>3 DEF IndInv, TypeOK, Frame
<1>13. ReservedShareKept'
  BY <1>7 DEF ReservedShareKept
<1>14. NoFaultEvicted'
  BY DEF NoFaultEvicted
<1>15. OnePlace'
  <2>1. delivered' = delivered /\ cleared' = cleared
    BY DEF Frame
  <2>2. /\ events' \cap (delivered \cup evicted' \cup cleared) = {}
        /\ delivered \cap (evicted' \cup cleared) = {} /\ evicted' \cap cleared = {}
    BY <1>2, <1>4 DEF IndInv, OnePlace
  <2>3. \A d \in events' \cup delivered \cup evicted' \cup cleared :
          d \in events \cup delivered \cup evicted \cup cleared \/ d = e
    BY <1>2
  <2>4. \A d \in events' \cup delivered \cup evicted' \cup cleared : d.nth <= counters.pushed + 1
    <3> TAKE d \in events' \cup delivered \cup evicted' \cup cleared
    <3>1. CASE d = e
      BY <1>1, <1>3, <3>1
    <3>2. CASE d \in events \cup delivered \cup evicted \cup cleared
      <4>1. d.nth \in Nat
        BY <3>2 DEF IndInv, TypeOK, Events
      <4> QED
        BY <1>3, <3>2, <4>1
    <3> QED
      BY <2>3, <3>1, <3>2
  <2> QED
    BY <1>11, <2>1, <2>2, <2>4 DEF OnePlace
<1>16. CountersAccount'
  <2>1. Cardinality(delivered') = Cardinality(delivered) /\ Cardinality(cleared') = Cardinality(cleared)
    BY Zenon DEF Frame
  <2>2. /\ Cardinality(evicted) \in Nat /\ Cardinality(evicted') \in Nat
        /\ Cardinality(cleared) \in Nat /\ size \in Nat
    BY FS_CardinalityType DEF IndInv, TypeOK, size
  <2>3. /\ counters.pushed \in Nat /\ counters.popped \in Nat
        /\ counters.pushed = size + counters.popped + Cardinality(evicted) + Cardinality(cleared)
        /\ counters.popped = Cardinality(delivered)
    BY DEF IndInv, CountersAccount, TypeOK, Counters
  <2>4. counters'.pushed
          = size' + counters'.popped + Cardinality(evicted') + Cardinality(cleared')
    BY <1>7, <1>8, <1>11, <2>1, <2>2, <2>3
  <2> QED
    BY <1>11, <2>1, <2>3, <2>4 DEF CountersAccount
<1>17. TerminalOnce'
  BY <1>11 DEF IndInv, TerminalOnce
<1> QED
  BY <1>10, <1>12, <1>13, <1>14, <1>15, <1>16, <1>17 DEF IndInv

(* Which counters an overflow touches.                                     *)
LEMMA OverflowedFields ==
  ASSUME IndInv
  PROVE  /\ Overflowed(counters) \in Counters
         /\ Overflowed(counters).pushed = counters.pushed
         /\ Overflowed(counters).popped = counters.popped
         /\ Overflowed(counters).dropped = counters.dropped + 1
         /\ Overflowed(counters).overflow_events = counters.dropped + 1
         /\ Overflowed(counters).high_water = counters.high_water
         /\ Overflowed(counters).hard_fault_escalations = counters.hard_fault_escalations
         /\ counters.dropped \in Nat /\ counters.dropped >= Cardinality(evicted)
<1>1. counters \in Counters /\ counters.dropped = counters.overflow_events
      /\ counters.dropped >= Cardinality(evicted)
  BY DEF IndInv, TypeOK, CountersAccount
<1>2. counters.dropped + 1 \in Nat /\ counters.consecutive_overflows + 1 \in Nat
      /\ counters.dropped \in Nat
  BY <1>1 DEF Counters
<1>3. Overflowed(counters)
        = [counters EXCEPT !.overflow_events = counters.dropped + 1,
             !.consecutive_overflows = counters.consecutive_overflows + 1,
             !.dropped = counters.dropped + 1]
  BY <1>1 DEF Overflowed, Counters
<1> QED
  BY <1>1, <1>2, <1>3, ZenonT(30) DEF Counters

(* Ordinary events in the queue, as admission counts them.                 *)
LEMMA OrdinaryCount ==
  ASSUME IndInv
  PROVE  /\ size \in Nat /\ Cardinality(Ordinary(events)) = size - fault_count
         /\ Cardinality(Ordinary(events)) \in Nat /\ fault_count \in Nat
         /\ Cardinality(Faults(events)) = fault_count /\ size <= Capacity
<1>1. /\ IsFiniteSet(events) /\ fault_count = Cardinality(Faults(events)) /\ size <= Capacity
  BY DEF IndInv, TypeOK, FaultCountExact
<1> QED
  BY <1>1, SplitCardinality DEF size

(* Every outcome of push keeps the invariant.                              *)
LEMMA PushInd ==
  ASSUME IndInv, Frame, NEW o \in Offers,
         \/ push_terminal \/ push_invalid(o) \/ push_reserved(o) \/ push_room(o)
         \/ push_full(o) \/ push_evict(o) \/ push_escalate(o)
  PROVE  IndInv'
<1>1. hard_fault_terminal \in BOOLEAN
      /\ counters.hard_fault_escalations = IF hard_fault_terminal THEN 1 ELSE 0
  BY DEF IndInv, TypeOK, TerminalOnce
<1>2. CASE refuse(Overflowed(counters)) /\ UNCHANGED hard_fault_terminal
  BY <1>1, <1>2, OverflowedFields, RefuseKeeps
<1>3. CASE push_invalid(o)
  <2> DEFINE c == [counters EXCEPT !.rejected = @ + 1]
  <2>1. counters \in Counters /\ counters.dropped = counters.overflow_events
    BY DEF IndInv, TypeOK, CountersAccount
  <2>2. /\ c \in Counters /\ c.pushed = counters.pushed /\ c.popped = counters.popped
        /\ c.dropped = counters.dropped /\ c.overflow_events = counters.dropped
        /\ c.high_water = counters.high_water /\ counters.dropped \in Nat
        /\ c.hard_fault_escalations = counters.hard_fault_escalations
    BY <2>1 DEF Counters
  <2>3. refuse(c) /\ hard_fault_terminal' = hard_fault_terminal
    BY <1>3 DEF push_invalid
  <2> HIDE DEF c
  <2> QED
    BY <1>1, <2>2, <2>3, RefuseKeeps
<1>4. CASE push_escalate(o)
  <2> DEFINE c == [Overflowed(counters) EXCEPT !.hard_fault_escalations = @ + 1]
  <2>1. ~hard_fault_terminal /\ hard_fault_terminal' = TRUE /\ refuse(c)
    BY <1>4 DEF push_escalate, Accepted
  <2>2. /\ c \in Counters /\ c.pushed = counters.pushed /\ c.popped = counters.popped
        /\ c.dropped = counters.dropped + 1 /\ c.overflow_events = counters.dropped + 1
        /\ c.high_water = counters.high_water /\ counters.dropped \in Nat
        /\ c.hard_fault_escalations = 1
    BY <1>1, <2>1, OverflowedFields DEF Counters
  <2> HIDE DEF c
  <2> QED
    BY <2>1, <2>2, RefuseKeeps
<1>5. CASE push_room(o)
  <2> DEFINE c == [counters EXCEPT !.consecutive_overflows = 0]
  <2>1. /\ event_is_valid(o) /\ (IsFault(o) \/ ~ordinary_share_used) /\ size < Capacity
        /\ enqueue(o, events, c) /\ evicted' = evicted /\ hard_fault_terminal' = hard_fault_terminal
    BY <1>5 DEF push_room, Accepted
  <2>2. /\ counters \in Counters /\ counters.dropped = counters.overflow_events
        /\ counters.dropped >= Cardinality(evicted)
    BY DEF IndInv, TypeOK, CountersAccount
  <2>3. /\ c \in Counters /\ c.pushed = counters.pushed /\ c.popped = counters.popped
        /\ c.dropped = c.overflow_events /\ c.dropped >= Cardinality(evicted)
        /\ c.high_water = counters.high_water
        /\ c.hard_fault_escalations = counters.hard_fault_escalations
    BY <2>2 DEF Counters
  <2>4. /\ IsFiniteSet(events) /\ IsFiniteSet(evicted) /\ Faults(evicted) = {}
        /\ (Reserved # 0 => Cardinality(Ordinary(events)) <= Capacity - Reserved)
    BY DEF IndInv, TypeOK, NoFaultEvicted, ReservedShareKept
  <2>5. Reserved # 0 =>
          Cardinality(Ordinary(events)) + (IF IsFault(o) THEN 0 ELSE 1) <= Capacity - Reserved
    <3>1. Capacity \in Nat /\ Reserved \in Nat /\ Cardinality(Ordinary(events)) \in Nat
          /\ Cardinality(Ordinary(events)) = size - fault_count
      BY OrdinaryCount, QueueAssumption, SMTT(30)
    <3>2. CASE IsFault(o)
      BY <2>4, <3>1, <3>2
    <3>3. CASE ~IsFault(o)
      <4>1. Reserved # 0 => ~(size - fault_count >= Capacity - Reserved)
        BY <2>1, <3>3 DEF ordinary_share_used
      <4> QED
        BY <3>1, <3>3, <4>1
    <3> QED
      BY <3>2, <3>3, SMTT(30)
  <2>6. evicted' = evicted \cup (events \ events)
    BY <2>1
  <2>7. /\ IsFiniteSet(evicted') /\ Faults(evicted') = {} /\ c.dropped >= Cardinality(evicted')
        /\ Cardinality(events) + Cardinality(evicted') = size + Cardinality(evicted)
        /\ Cardinality(events) < Capacity
    BY <2>1, <2>3, <2>4, Zenon DEF size
  <2>8. Cardinality(Faults(events)) = fault_count
    BY OrdinaryCount
  <2> HIDE DEF c
  <2> QED
    BY <2>1, <2>3, <2>4, <2>5, <2>6, <2>7, <2>8, EnqueueKeeps
<1>6. CASE push_evict(o)
  <2>1. PICK victim \in Newest(Ordinary(events)) :
          enqueue(o, events \ {victim}, Overflowed(counters)) /\ evicted' = evicted \cup {victim}
    BY <1>6 DEF push_evict
  <2> DEFINE room == events \ {victim}
  <2>2. /\ event_is_valid(o) /\ IsFault(o) /\ size >= Capacity
        /\ hard_fault_terminal' = hard_fault_terminal
    BY <1>6 DEF push_evict, Accepted
  <2>3. victim \in events /\ ~IsFault(victim)
    BY DEF Newest, Ordinary
  <2>4. IsFiniteSet(events) /\ IsFiniteSet(evicted) /\ Faults(evicted) = {} /\ victim \notin evicted
    BY <2>3 DEF IndInv, TypeOK, NoFaultEvicted, OnePlace
  <2>5. /\ IsFiniteSet(room) /\ Cardinality(room) = size - 1
        /\ Cardinality(Faults(room)) = Cardinality(Faults(events)) - 0
        /\ Cardinality(Ordinary(room)) = Cardinality(Ordinary(events)) - 1
    BY <2>3, <2>4, RemoveCardinality, SMTT(30) DEF size
  <2>6. Cardinality(room) < Capacity /\ Cardinality(Faults(room)) = fault_count
    BY <2>5, OrdinaryCount, QueueAssumption, SMTT(30)
  <2>7. Reserved # 0 =>
          Cardinality(Ordinary(room)) + (IF IsFault(o) THEN 0 ELSE 1) <= Capacity - Reserved
    BY <2>2, <2>5, OrdinaryCount, QueueAssumption, SMTT(30) DEF IndInv, ReservedShareKept
  <2>8. evicted' = evicted \cup (events \ room)
    BY <2>1, <2>3
  <2>9. IsFiniteSet(evicted \cup {victim}) /\ Cardinality(evicted \cup {victim}) = Cardinality(evicted) + 1
    BY <2>4, FS_AddElement
  <2>10. IsFiniteSet(evicted') /\ Cardinality(evicted') = Cardinality(evicted) + 1
    BY <2>1, <2>9, Zenon
  <2>11. Faults(evicted') = {}
    BY <2>1, <2>3, <2>4 DEF Faults
  <2>12. /\ Cardinality(room) + Cardinality(evicted') = size + Cardinality(evicted)
         /\ counters.dropped + 1 >= Cardinality(evicted')
    <3>1. Cardinality(evicted) \in Nat
      BY <2>4, FS_CardinalityType
    <3> QED
      BY <3>1, <2>5, <2>10, OrdinaryCount, OverflowedFields
  <2>13. room \subseteq events /\ enqueue(o, room, Overflowed(counters))
    BY <2>1
  <2> HIDE DEF room
  <2> QED
    BY <2>2, <2>5, <2>6, <2>7, <2>8, <2>10, <2>11, <2>12, <2>13, OverflowedFields, EnqueueKeeps
<1> QED
  BY <1>2, <1>3, <1>4, <1>5, <1>6 DEF push_terminal, push_reserved, push_full

(* pop keeps the invariant.                                                *)
LEMMA PopInd ==
  ASSUME IndInv, pop
  PROVE  IndInv'
<1>1. CASE pop_empty
  <2>1. UNCHANGED vars
    BY <1>1 DEF pop, pop_empty, vars
  <2> QED
    BY <2>1 DEF IndInv, TypeOK, FaultCountExact, ReservedShareKept, NoFaultEvicted, OnePlace,
                CountersAccount, TerminalOnce, size, vars
<1>2. CASE pop_oldest
  <2>1. PICK e \in Oldest(events) :
          /\ events' = events \ {e} /\ delivered' = delivered \cup {e}
          /\ fault_count' = fault_count - (IF IsFault(e) THEN 1 ELSE 0)
    BY <1>2 DEF pop_oldest
  <2>2. /\ counters' = [counters EXCEPT !.popped = @ + 1]
        /\ UNCHANGED <<next_sequence, next_event_id, hard_fault_terminal, now_us,
                       engine_event_id, evicted, cleared>>
    BY <1>2 DEF pop, pop_oldest
  <2>3. e \in events
    BY DEF Oldest
  <2>4. /\ IsFiniteSet(events) /\ IsFiniteSet(delivered) /\ counters \in Counters
        /\ e \notin delivered /\ e \in Events
    BY <2>3 DEF IndInv, TypeOK, OnePlace
  <2>5. /\ IsFiniteSet(events \ {e}) /\ Cardinality(events \ {e}) = Cardinality(events) - 1
        /\ Cardinality(Faults(events \ {e})) = Cardinality(Faults(events)) - (IF IsFault(e) THEN 1 ELSE 0)
        /\ Cardinality(Ordinary(events \ {e})) = Cardinality(Ordinary(events)) - (IF IsFault(e) THEN 0 ELSE 1)
    BY <2>3, <2>4, RemoveCardinality
  <2>6. /\ IsFiniteSet(events') /\ size' = size - 1
        /\ Cardinality(Faults(events')) = Cardinality(Faults(events)) - (IF IsFault(e) THEN 1 ELSE 0)
        /\ Cardinality(Ordinary(events')) = Cardinality(Ordinary(events)) - (IF IsFault(e) THEN 0 ELSE 1)
    BY <2>1, <2>5, Zenon DEF size
  <2>7. IsFiniteSet(delivered \cup {e}) /\ Cardinality(delivered \cup {e}) = Cardinality(delivered) + 1
    BY <2>4, FS_AddElement, SMTT(30)
  <2>8. IsFiniteSet(delivered') /\ Cardinality(delivered') = Cardinality(delivered) + 1
    BY <2>1, <2>7, Zenon
  <2>9. /\ size' \in Nat /\ Cardinality(Faults(events')) \in Nat /\ Cardinality(Ordinary(events')) \in Nat
        /\ size' = Cardinality(Faults(events')) + Cardinality(Ordinary(events'))
    BY <2>6, SplitCardinality, Zenon DEF size
  <2>10. FaultCountExact'
    BY <2>1, <2>6, OrdinaryCount, Zenon DEF FaultCountExact
  <2>11. /\ counters' \in Counters /\ counters'.popped = counters.popped + 1
         /\ counters'.pushed = counters.pushed /\ counters'.dropped = counters.dropped
         /\ counters'.overflow_events = counters.overflow_events
         /\ counters'.high_water = counters.high_water
         /\ counters'.hard_fault_escalations = counters.hard_fault_escalations
    BY <2>2, <2>4 DEF Counters
  <2>12. TypeOK'
    <3>1. fault_count' \in 0 .. size' /\ size' <= Capacity
      BY <2>6, <2>9, <2>10, OrdinaryCount, QueueAssumption, SMTT(30) DEF FaultCountExact
    <3>2. events' \subseteq Events /\ delivered' \subseteq Events
      BY <2>1, <2>4 DEF IndInv, TypeOK
    <3> QED
      BY <2>2, <2>6, <2>8, <2>11, <3>1, <3>2 DEF IndInv, TypeOK
  <2>13. ReservedShareKept'
    BY <2>6, <2>9, OrdinaryCount, QueueAssumption, SMTT(30) DEF IndInv, ReservedShareKept
  <2>14. NoFaultEvicted'
    BY <2>2 DEF IndInv, NoFaultEvicted
  <2>15. OnePlace'
    BY <2>1, <2>2, <2>3, <2>11 DEF IndInv, OnePlace
  <2>16. CountersAccount'
    <3>1. Cardinality(evicted') = Cardinality(evicted) /\ Cardinality(cleared') = Cardinality(cleared)
      BY <2>2, Zenon
    <3>2. Cardinality(evicted) \in Nat /\ Cardinality(cleared) \in Nat /\ Cardinality(delivered) \in Nat
      BY FS_CardinalityType DEF IndInv, TypeOK
    <3>3. counters.popped \in Nat /\ counters.pushed \in Nat /\ counters.high_water \in Nat
      BY <2>4 DEF Counters
    <3> QED
      BY <2>6, <2>8, <2>11, <3>1, <3>2, <3>3, OrdinaryCount DEF IndInv, CountersAccount
  <2>17. TerminalOnce'
    BY <2>2, <2>11 DEF IndInv, TerminalOnce
  <2> QED
    BY <2>10, <2>12, <2>13, <2>14, <2>15, <2>16, <2>17 DEF IndInv
<1> QED
  BY <1>1, <1>2 DEF pop

(* clear keeps the invariant.                                              *)
LEMMA ClearInd ==
  ASSUME IndInv, clear
  PROVE  IndInv'
<1>1. /\ events' = {} /\ fault_count' = 0 /\ cleared' = cleared \cup events
      /\ UNCHANGED <<counters, next_sequence, next_event_id, hard_fault_terminal, now_us,
                     engine_event_id, delivered, evicted>>
  BY DEF clear
<1>2. Faults({}) = {} /\ Ordinary({}) = {}
  BY DEF Faults, Ordinary
<1>3. /\ IsFiniteSet(events') /\ size' = 0
      /\ Cardinality(Faults(events')) = 0 /\ Cardinality(Ordinary(events')) = 0
  BY <1>1, <1>2, FS_EmptySet, Zenon DEF size
<1>4. IsFiniteSet(cleared) /\ IsFiniteSet(events) /\ cleared \cap events = {}
  BY DEF IndInv, TypeOK, OnePlace
<1>5. /\ IsFiniteSet(cleared \cup events)
      /\ Cardinality(cleared \cup events)
           = Cardinality(cleared) + Cardinality(events) - Cardinality(cleared \cap events)
  BY <1>4, FS_Union
<1>6. Cardinality(cleared \cap events) = 0
  BY <1>4, FS_EmptySet, Zenon
<1>7. IsFiniteSet(cleared')
      /\ Cardinality(cleared') = Cardinality(cleared) + Cardinality(events) - 0
  BY <1>1, <1>5, <1>6, Zenon
<1>8. TypeOK'
  <2>1. fault_count' \in 0 .. size' /\ size' <= Capacity
    BY <1>1, <1>3, QueueAssumption, SMTT(30)
  <2>2. events' \subseteq Events /\ cleared' \subseteq Events
    BY <1>1 DEF IndInv, TypeOK
  <2> QED
    BY <1>1, <1>3, <1>7, <2>1, <2>2, SMTT(30) DEF IndInv, TypeOK
<1>9. FaultCountExact' /\ ReservedShareKept'
  BY <1>1, <1>3, QueueAssumption, SMTT(30) DEF FaultCountExact, ReservedShareKept
<1>10. NoFaultEvicted' /\ TerminalOnce'
  BY <1>1 DEF IndInv, NoFaultEvicted, TerminalOnce
<1>11. OnePlace'
  BY <1>1 DEF IndInv, OnePlace
<1>12. CountersAccount'
  <2>1. Cardinality(evicted') = Cardinality(evicted) /\ Cardinality(delivered') = Cardinality(delivered)
    BY <1>1, Zenon
  <2>2. Cardinality(evicted) \in Nat /\ Cardinality(cleared) \in Nat
    BY FS_CardinalityType DEF IndInv, TypeOK
  <2>3. counters.popped \in Nat /\ counters.pushed \in Nat /\ counters.high_water \in Nat
        /\ Cardinality(events) = size
    BY DEF IndInv, TypeOK, Counters, size
  <2> QED
    BY <1>1, <1>3, <1>7, <2>1, <2>2, <2>3, OrdinaryCount DEF IndInv, CountersAccount
<1> QED
  BY <1>8, <1>9, <1>10, <1>11, <1>12 DEF IndInv

(* Saturating addition of times stays a time.                              *)
LEMMA SatAddType ==
  ASSUME NEW t \in Timestamps, NEW d \in Timestamps
  PROVE  sat_add(t, d, TimeMax) \in Timestamps
  BY QueueAssumption, SMTT(30) DEF sat_add, Timestamps

(* Each caller offers a well-formed event and leaves the frame alone.      *)
LEMMA CallersPush ==
  ASSUME IndInv, push_stamped \/ emit \/ emit_generated \/ fsm_publish
  PROVE  /\ Frame
         /\ Within
         /\ \E o \in Offers : push(o)
<1>1. now_us \in Timestamps /\ engine_event_id \in 1 .. IdMod - 1 /\ delivered \subseteq Events
  BY DEF IndInv, TypeOK
<1>2. \A t \in Timestamps, c \in Nat, id \in 0 .. IdMod - 1 : Offer(t, c, id) \in Offers
  BY DEF Offer, Offers
<1>3. 0 \in 0 .. IdMod - 1 /\ engine_event_id \in 0 .. IdMod - 1 /\ OfferedClasses \subseteq Nat
      /\ FAULT \in Nat /\ GENERATED \in Nat
  BY <1>1, QueueAssumption DEF FAULT, GENERATED
<1>4. \A d \in delivered : d.timestamp_us \in Timestamps
  BY <1>1 DEF Events
<1>5. CASE push_stamped
  BY <1>1, <1>2, <1>3, <1>5 DEF push_stamped, Frame, push
<1>6. CASE emit
  BY <1>1, <1>2, <1>3, <1>6 DEF emit, Frame, push
<1>7. CASE emit_generated
  <2>1. PICK cause \in delivered, delay \in Timestamps :
          push(Offer(sat_add(cause.timestamp_us, delay, TimeMax), GENERATED, 0))
    BY <1>7 DEF emit_generated
  <2>2. sat_add(cause.timestamp_us, delay, TimeMax) \in Timestamps
    BY <1>4, SatAddType
  <2> QED
    BY <1>1, <1>2, <1>3, <1>7, <2>1, <2>2 DEF emit_generated, Frame, push
<1>8. CASE fsm_publish
  <2>1. engine_event_id' \in 1 .. IdMod - 1
    BY <1>3, <1>8, NextIdType DEF fsm_publish
  <2> QED
    BY <1>2, <1>3, <1>4, <1>8, <2>1 DEF fsm_publish, Frame, push
<1> QED
  BY <1>5, <1>6, <1>7, <1>8

(* Every step keeps the invariant.                                         *)
LEMMA NextInd == IndInv /\ [Next]_vars => IndInv'
<1> SUFFICES ASSUME IndInv, [Next]_vars PROVE IndInv'
  OBVIOUS
<1>1. CASE push_stamped \/ emit \/ emit_generated \/ fsm_publish
  BY <1>1, CallersPush, PushInd DEF push
<1>2. CASE pop
  BY <1>2, PopInd
<1>3. CASE clear
  BY <1>3, ClearInd
<1>4. CASE advance_clock
  <2>1. now_us' \in Timestamps
    BY <1>4, SatAddType DEF advance_clock, IndInv, TypeOK
  <2> QED
    BY <1>4, <2>1 DEF advance_clock, IndInv, TypeOK, FaultCountExact, ReservedShareKept,
                      NoFaultEvicted, OnePlace, CountersAccount, TerminalOnce, size
<1>5. CASE UNCHANGED vars
  BY <1>5 DEF vars, IndInv, TypeOK, FaultCountExact, ReservedShareKept, NoFaultEvicted,
              OnePlace, CountersAccount, TerminalOnce, size
<1> QED
  BY <1>1, <1>2, <1>3, <1>4, <1>5 DEF Next

(* The storage bound is exact and every field keeps its C type.            *)
THEOREM TypeCorrect == Spec => []TypeOK
<1>1. IndInv => TypeOK
  BY DEF IndInv
<1> QED
  BY <1>1, InitInd, NextInd, PTL DEF Spec

(* Ordinary traffic never takes the slots reserved for faults, because the *)
(* fault count that admission compares is always the real one.             *)
THEOREM ReserveCorrect == Spec => [](FaultCountExact /\ ReservedShareKept)
<1>1. IndInv => FaultCountExact /\ ReservedShareKept
  BY DEF IndInv
<1> QED
  BY <1>1, InitInd, NextInd, PTL DEF Spec

(* An admitted fault is never evicted.                                     *)
THEOREM FaultsRetained == Spec => []NoFaultEvicted
<1>1. IndInv => NoFaultEvicted
  BY DEF IndInv
<1> QED
  BY <1>1, InitInd, NextInd, PTL DEF Spec

(* The reserve does what it is for, for every capacity, reserve and id     *)
(* range: the count admission relies on is exact, traffic stays out of the *)
(* reserved slots and no admitted fault is evicted.                        *)
THEOREM ReserveProtectsFaults == Spec => []FaultsProtected
<1>1. FaultCountExact /\ ReservedShareKept /\ NoFaultEvicted => FaultsProtected
  BY DEF FaultsProtected
<1> QED
  BY <1>1, ReserveCorrect, FaultsRetained, PTL

(* No event is lost or duplicated without a counter saying so.             *)
THEOREM CountersCorrect == Spec => [](OnePlace /\ CountersAccount /\ TerminalOnce)
<1>1. IndInv => OnePlace /\ CountersAccount /\ TerminalOnce
  BY DEF IndInv
<1> QED
  BY <1>1, InitInd, NextInd, PTL DEF Spec

-----------------------------------------------------------------------------
(* Order.  While the 32-bit sequence has not wrapped it is the number of   *)
(* the admission, and events of one timestamp and class leave in the order *)
(* they came.                                                              *)
OrderInv ==
  /\ next_sequence = counters.pushed
  /\ \A e \in events \cup delivered \cup evicted \cup cleared : e.sequence = e.nth
  /\ SequencesUnique
  /\ FifoWithinClass

(* An initialised queue satisfies the order invariant.                     *)
LEMMA InitOrder == Init => OrderInv
  BY DEF Init, OrderInv, SequencesUnique, FifoWithinClass

(* Every push either changes no contents or admits one fresh event, with   *)
(* the next sequence, at the cost of moving what is not in room.           *)
LEMMA PushShape ==
  ASSUME IndInv, NEW o \in Offers, push(o)
  PROVE  \/ /\ UNCHANGED <<events, next_sequence, evicted>>
            /\ counters'.pushed = counters.pushed
         \/ /\ event_is_valid(o)
            /\ next_sequence' = next_id(next_sequence)
            /\ counters'.pushed = counters.pushed + 1
            /\ \E room \in SUBSET events :
                 /\ events' = room \cup {Stored(o)}
                 /\ evicted' = evicted \cup (events \ room)
<1>1. counters \in Counters
  BY DEF IndInv, TypeOK
<1>2. CASE refuse(Overflowed(counters))
  BY <1>2, OverflowedFields DEF refuse
<1>3. CASE push_invalid(o)
  BY <1>1, <1>3 DEF push_invalid, refuse, Counters
<1>4. CASE push_escalate(o)
  BY <1>4, OverflowedFields DEF push_escalate, refuse, Counters
<1>5. CASE push_room(o)
  <2>1. counters'.pushed = counters.pushed + 1
    BY <1>1, <1>5 DEF push_room, enqueue, Counters
  <2>2. event_is_valid(o) /\ next_sequence' = next_id(next_sequence)
        /\ events' = events \cup {Stored(o)} /\ evicted' = evicted \cup (events \ events)
    BY <1>5 DEF push_room, enqueue, Accepted
  <2> QED
    BY <2>1, <2>2
<1>6. CASE push_evict(o)
  <2>1. PICK victim \in Newest(Ordinary(events)) :
          enqueue(o, events \ {victim}, Overflowed(counters)) /\ evicted' = evicted \cup {victim}
    BY <1>6 DEF push_evict
  <2>2. victim \in events
    BY DEF Newest, Ordinary
  <2>3. counters'.pushed = counters.pushed + 1
    BY <2>1, OverflowedFields DEF enqueue, Counters
  <2>4. event_is_valid(o) /\ next_sequence' = next_id(next_sequence)
        /\ events' = (events \ {victim}) \cup {Stored(o)}
        /\ evicted' = evicted \cup (events \ (events \ {victim}))
    BY <1>6, <2>1, <2>2 DEF push_evict, enqueue, Accepted
  <2> QED
    BY <2>3, <2>4
<1> QED
  BY <1>2, <1>3, <1>4, <1>5, <1>6 DEF push, push_terminal, push_reserved, push_full

(* Until the sequence wraps, every step keeps the order invariant.         *)
LEMMA NextOrder ==
  ASSUME MaxOffers < IdMod, IndInv, OrderInv, [Next]_vars
  PROVE  OrderInv'
<1> DEFINE All == events \cup delivered \cup evicted \cup cleared
<1>1. /\ \A e \in All : e \in Events /\ e.nth \in Nat /\ e.sequence = e.nth /\ e.nth <= counters.pushed
      /\ counters.pushed \in Nat /\ counters.dropped \in Nat /\ counters.rejected \in Nat
  BY DEF IndInv, TypeOK, OnePlace, OrderInv, Events, Counters
<1>2. CASE push_stamped \/ emit \/ emit_generated \/ fsm_publish
  <2>1. Frame /\ Within /\ \E o \in Offers : push(o)
    BY <1>2, CallersPush
  <2>2. PICK o \in Offers : push(o)
    BY <2>1, SMTT(30)
  <2>3. next_id(next_sequence) = counters.pushed + 1
    BY <1>1, <2>1, QueueAssumption DEF Within, OrderInv, next_id
  <2>4. delivered' = delivered /\ cleared' = cleared
    BY <2>1 DEF Frame
  <2>5. CASE UNCHANGED <<events, next_sequence, evicted>> /\ counters'.pushed = counters.pushed
    BY <2>4, <2>5 DEF OrderInv, SequencesUnique, FifoWithinClass
  <2>6. CASE /\ event_is_valid(o)
             /\ next_sequence' = next_id(next_sequence)
             /\ counters'.pushed = counters.pushed + 1
             /\ \E room \in SUBSET events :
                  /\ events' = room \cup {Stored(o)}
                  /\ evicted' = evicted \cup (events \ room)
    <3>1. PICK room \in SUBSET events :
            events' = room \cup {Stored(o)} /\ evicted' = evicted \cup (events \ room)
      BY <2>6
    <3> DEFINE s == Stored(o)
    <3>2. s.sequence = counters.pushed + 1 /\ s.nth = counters.pushed + 1
      BY <2>3 DEF Stored
    <3> HIDE DEF s
    <3>3. \A e \in events' \cup delivered' \cup evicted' \cup cleared' : e \in All \/ e = s
      BY <2>4, <3>1 DEF s
    <3>4. \A e \in All : e.sequence # s.sequence /\ e.nth < s.nth
      BY <1>1, <3>2
    <3>5. next_sequence' = counters'.pushed
      BY <2>3, <2>6
    <3>6. \A e \in events' \cup delivered' \cup evicted' \cup cleared' : e.sequence = e.nth
      BY <1>1, <3>2, <3>3
    <3>7. SequencesUnique'
      BY <3>3, <3>4 DEF OrderInv, SequencesUnique
    <3>8. FifoWithinClass'
      <4>1. \A e \in events' : e \in events \/ e = s
        BY <3>1 DEF s
      <4> QED
        BY <2>4, <3>4, <4>1 DEF OrderInv, FifoWithinClass
    <3> QED
      BY <3>5, <3>6, <3>7, <3>8 DEF OrderInv
  <2> QED
    BY <2>2, <2>5, <2>6, PushShape
<1>3. CASE pop
  <2>1. CASE pop_empty
    BY <1>3, <2>1 DEF pop, pop_empty, OrderInv, SequencesUnique, FifoWithinClass
  <2>2. CASE pop_oldest
    <3>1. PICK e \in Oldest(events) : events' = events \ {e} /\ delivered' = delivered \cup {e}
      BY <2>2 DEF pop_oldest
    <3>2. e \in events /\ \A f \in events : ~Precedes(f, e)
      BY DEF Oldest
    <3>3. evicted' = evicted /\ cleared' = cleared /\ next_sequence' = next_sequence
          /\ counters'.pushed = counters.pushed
      BY <1>3, <2>2 DEF pop, pop_oldest, IndInv, TypeOK, Counters
    <3>4. events' \cup delivered' \cup evicted' \cup cleared' = All
      BY <3>1, <3>2, <3>3
    <3>5. SequencesUnique'
      BY <3>4 DEF OrderInv, SequencesUnique
    <3>6. \A f \in events' : f.timestamp_us = e.timestamp_us /\ f.priority_class = e.priority_class
                               => e.nth < f.nth
      <4> TAKE f \in events'
      <4> HAVE f.timestamp_us = e.timestamp_us /\ f.priority_class = e.priority_class
      <4>1. f \in events /\ f # e
        BY <3>1
      <4>2. ~(f.sequence < e.sequence)
        BY <3>2, <4>1 DEF Precedes
      <4>3. f.sequence # e.sequence
        BY <3>2, <4>1 DEF OrderInv, SequencesUnique
      <4>4. f \in All /\ e \in All
        BY <3>2, <4>1
      <4> QED
        BY <1>1, <4>2, <4>3, <4>4
    <3>7. FifoWithinClass'
      BY <3>1, <3>6 DEF OrderInv, FifoWithinClass
    <3> QED
      BY <3>3, <3>4, <3>5, <3>7 DEF OrderInv
  <2> QED
    BY <1>3, <2>1, <2>2 DEF pop
<1>4. CASE clear
  BY <1>4 DEF clear, OrderInv, SequencesUnique, FifoWithinClass
<1>5. CASE advance_clock
  BY <1>5 DEF advance_clock, OrderInv, SequencesUnique, FifoWithinClass
<1>6. CASE UNCHANGED vars
  BY <1>6 DEF vars, OrderInv, SequencesUnique, FifoWithinClass
<1> QED
  BY <1>2, <1>3, <1>4, <1>5, <1>6 DEF Next

(* Selection is first-in first-out within a timestamp and class, for every *)
(* number of pushes below the range of the sequence counter.               *)
THEOREM FifoCorrect ==
  ASSUME MaxOffers < IdMod
  PROVE  Spec => [](SequencesUnique /\ FifoWithinClass)
<1>1. IndInv /\ OrderInv /\ [Next]_vars => (IndInv /\ OrderInv)'
  BY NextInd, NextOrder
<1>2. OrderInv => SequencesUnique /\ FifoWithinClass
  BY DEF OrderInv
<1> QED
  BY <1>1, <1>2, InitInd, InitOrder, PTL DEF Spec

(* The first Reserved faults never displace an ordinary event.             *)
THEOREM EvictionCorrect == Spec => EvictionOnlyBeyondReserve
<1> DEFINE P == evicted' # evicted => fault_count >= Reserved /\ Cardinality(Faults(events')) > Reserved
<1>1. IndInv /\ [Next]_vars => [P]_vars
  <2> SUFFICES ASSUME IndInv, Next, evicted' # evicted
               PROVE  fault_count >= Reserved /\ Cardinality(Faults(events')) > Reserved
    OBVIOUS
  <2>1. push_stamped \/ emit \/ emit_generated \/ fsm_publish
    BY DEF Next, pop, clear, advance_clock
  <2>2. PICK o \in Offers : push(o)
    BY <2>1, CallersPush
  <2>3. push_evict(o)
    BY <2>2 DEF push, push_terminal, push_invalid, push_reserved, push_room, push_full,
                push_escalate, refuse
  <2>4. IsFault(o) /\ size >= Capacity
    BY <2>3 DEF push_evict
  <2>5. fault_count >= Reserved
    BY <2>4, OrdinaryCount, QueueAssumption, SMTT(30) DEF IndInv, ReservedShareKept
  <2>6. fault_count' = fault_count + 1
    BY <2>3, <2>4 DEF push_evict, enqueue
  <2>7. IndInv'
    BY NextInd
  <2>8. Cardinality(Faults(events')) = fault_count + 1
    BY <2>6, <2>7 DEF IndInv, FaultCountExact
  <2> QED
    BY <2>5, <2>8, OrdinaryCount, QueueAssumption, SMTT(30)
<1>2. IndInv /\ [Next]_vars => [P]_vars /\ IndInv'
  BY <1>1, NextInd
<1>3. Spec => [][P]_vars
  BY <1>2, InitInd, PTL DEF Spec
<1> QED
  BY <1>3, SMTT(30) DEF EvictionOnlyBeyondReserve
=============================================================================
