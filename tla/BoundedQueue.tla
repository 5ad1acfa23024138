---------------------------- MODULE BoundedQueue ----------------------------
(***************************************************************************)
(* The event queue as the engines use it: a value that push, pop and clear *)
(* turn into another one.  The slots are a sequence in pop order, which    *)
(* module EventQueue defines with a set and module EventHeap with the heap *)
(* of the code; counters are left out, the terminal state is kept.         *)
(***************************************************************************)
EXTENDS EventOrder, Sequences

SeqX == INSTANCE SequencesExt

DEFAULT_RESERVED_FAULT_SLOTS == 2

queue_init(capacity) ==
  [slots |-> <<>>, capacity |-> capacity, hard_fault_terminal |-> FALSE,
   reserved |-> IF DEFAULT_RESERVED_FAULT_SLOTS < capacity
                THEN DEFAULT_RESERVED_FAULT_SLOTS ELSE capacity - 1]

KeyLeq(a, b) ==
  \/ a.timestamp_us < b.timestamp_us
  \/ /\ a.timestamp_us = b.timestamp_us
     /\ a.priority_class <= b.priority_class

(* Before the first stored event with a later key: the sequence number     *)
(* decides a tie, and it is the largest so far.                            *)
Place(slots, e) ==
  LET later == {i \in DOMAIN slots : ~KeyLeq(slots[i], e)}
  IN  IF later = {} THEN Len(slots) + 1 ELSE CHOOSE i \in later : \A j \in later : i <= j

Inserted(slots, e) == SeqX!InsertAt(slots, Place(slots, e), e)

OrdinaryAt(slots) == {i \in DOMAIN slots : ~IsFault(slots[i])}

ordinary_share_used(q) ==
  /\ q.reserved # 0
  /\ LET ordinary == SelectSeq(q.slots, LAMBDA x : ~IsFault(x))
     IN  Len(ordinary) >= q.capacity - q.reserved

(* The queue after push, and whether the status was one of the OK ones.    *)
Refused(q) == [queue |-> q, ok |-> FALSE]
Admitted(q, slots) == [queue |-> [q EXCEPT !.slots = slots], ok |-> TRUE]

push(q, e) ==
  LET victims == OrdinaryAt(q.slots)
      newest == CHOOSE i \in victims : \A j \in victims : j <= i
  IN  IF q.hard_fault_terminal \/ (~IsFault(e) /\ ordinary_share_used(q)) THEN Refused(q)
      ELSE IF Len(q.slots) < q.capacity THEN Admitted(q, Inserted(q.slots, e))
      ELSE IF ~IsFault(e) THEN Refused(q)
      ELSE IF victims = {} THEN Refused([q EXCEPT !.hard_fault_terminal = TRUE])
      ELSE Admitted(q, Inserted(SeqX!RemoveAt(q.slots, newest), e))

is_empty(q) == q.slots = <<>>
pop(q) == [q EXCEPT !.slots = Tail(@)]

(* The terminal state outlives clear: only queue_init ends it.             *)
clear(q) == [q EXCEPT !.slots = <<>>]
=============================================================================
