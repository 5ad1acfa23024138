-------------------------------- MODULE Heap --------------------------------
(***************************************************************************)
(* The binary min-heap inside the event queue (queue.c, "Heap internals"). *)
(* A heap is a sequence: slots[i - 1] of the code is s[i] here, so that    *)
(* the parent of i is i \div 2.  Only the first `size` slots are modelled; *)
(* the code never reads beyond them.                                       *)
(***************************************************************************)
EXTENDS EventOrder, Sequences, FiniteSetsExt

Swap(s, i, j) == [s EXCEPT ![i] = s[j], ![j] = s[i]]

(* The loops: h has the slots and the index of the event being moved.  A   *)
(* loop that has come to its end stays there, and there are never more     *)
(* turns than slots.                                                       *)
sift_up_turn(h) ==
  LET parent == h.i \div 2
  IN  IF h.i > 1 /\ Precedes(h.slots[h.i], h.slots[parent])
      THEN [slots |-> Swap(h.slots, h.i, parent), i |-> parent]
      ELSE h

sift_up(s, i) ==
  LET turn[n \in 0 .. Len(s)] ==
        IF n = 0 THEN [slots |-> s, i |-> i] ELSE sift_up_turn(turn[n - 1])
  IN  turn[Len(s)].slots

(* The child the loop body settles on: left first, then right.             *)
Smallest(s, i) ==
  LET left  == 2 * i
      right == 2 * i + 1
      m == IF left <= Len(s) /\ Precedes(s[left], s[i]) THEN left ELSE i
  IN  IF right <= Len(s) /\ Precedes(s[right], s[m]) THEN right ELSE m

sift_down_turn(h) ==
  LET m == Smallest(h.slots, h.i)
  IN  IF m # h.i THEN [slots |-> Swap(h.slots, h.i, m), i |-> m] ELSE h

sift_down(s, i) ==
  LET turn[n \in 0 .. Len(s)] ==
        IF n = 0 THEN [slots |-> s, i |-> i] ELSE sift_down_turn(turn[n - 1])
  IN  turn[Len(s)].slots

(* The last event fills the hole and is then moved down or up.             *)
remove_at(s, i) ==
  LET last == Len(s)
      filled == SubSeq([s EXCEPT ![i] = s[last]], 1, last - 1)
  IN  IF i = last THEN filled ELSE sift_up(sift_down(filled, i), i)

insert(s, e) == sift_up(Append(s, e), Len(s) + 1)

(* The index of the ordinary event that would be popped last; 0 if none.   *)
find_newest_non_fault(s) ==
  LET candidates == {i \in DOMAIN s : ~IsFault(s[i])}
      best == {i \in candidates : \A j \in candidates : ~Precedes(s[i], s[j])}
  IN  IF candidates = {} THEN 0 ELSE Min(best)

=============================================================================
