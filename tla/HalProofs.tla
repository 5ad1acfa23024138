----------------------------- MODULE HalProofs ------------------------------
(***************************************************************************)
(* Hal for any number of interfaces, any ring sizes, frames and results of *)
(* the system calls: the TX counters account for every frame, received     *)
(* frames are delivered in order, and none is lost without a fault.        *)
(***************************************************************************)
EXTENDS Hal, TLAPS

-----------------------------------------------------------------------------
(* The operations of types.c keep a ring inside its storage.               *)
LEMMA WrapInRange ==
  ASSUME NEW c \in Nat \ {0}, NEW k \in 0..(c - 1)
  PROVE (k + 1) % c \in 0..(c - 1)
  OBVIOUS

LEMMA PushKeepsRing ==
  ASSUME NEW c \in Nat \ {0}, NEW r \in Rings(c), NEW n \in Nat, ~Full(r)
  PROVE ring_push(r, n) \in Rings(c) /\ ring_push(r, n).count = r.count + 1
<1>1. (r.write_idx + 1) % c \in 0..(c - 1)
  BY WrapInRange DEF Rings
<1>2. r.capacity = c /\ r.count + 1 \in 0..c
  BY DEF Rings, Full
<1>3. [r.slots EXCEPT ![r.write_idx] = n] \in [0..(c - 1) -> Nat]
  BY DEF Rings
<1>. QED  BY <1>1, <1>2, <1>3 DEF Rings, ring_push

LEMMA PopKeepsRing ==
  ASSUME NEW c \in Nat \ {0}, NEW r \in Rings(c), r.count > 0
  PROVE /\ ring_pop(r) \in Rings(c) /\ ring_pop(r).count = r.count - 1
        /\ NextOut(r) \in Nat
<1>1. (r.read_idx + 1) % c \in 0..(c - 1)
  BY WrapInRange DEF Rings
<1>2. r.capacity = c /\ r.count - 1 \in 0..c
  BY DEF Rings
<1>3. [r.slots EXCEPT ![r.read_idx] = 0] \in [0..(c - 1) -> Nat]
  BY DEF Rings
<1>4. NextOut(r) \in Nat
  BY DEF Rings, NextOut
<1>. QED  BY <1>1, <1>2, <1>3, <1>4 DEF Rings, ring_pop

LEMMA PushBackKeepsRing ==
  ASSUME NEW c \in Nat \ {0}, NEW r \in Rings(c), NEW n \in Nat, r.count < c
  PROVE push_back(r, n) \in Rings(c) /\ push_back(r, n).count = r.count + 1
<1>1. r.capacity = c /\ r.count + 1 \in 0..c
  BY DEF Rings
<1>2. \A k \in 0..(c - 1) : [r.slots EXCEPT ![k] = n] \in [0..(c - 1) -> Nat]
  BY DEF Rings
<1>3. (IF r.read_idx = 0 THEN r.capacity - 1 ELSE r.read_idx - 1) \in 0..(c - 1)
  BY SMTT(30) DEF Rings
<1>. QED  BY <1>1, <1>2, <1>3 DEF Rings, push_back

-----------------------------------------------------------------------------
(* The inductive invariant: what the TX path needs of the types, and the   *)
(* accounting.                                                             *)
TxInv == at \in Ifaces /\ tx \in [Ifaces -> TxRings] /\ TxAccounting

LEMMA TxInvInit == Init => TxInv
<1>. SUFFICES ASSUME Init PROVE TxInv
  OBVIOUS
<1>. DEFINE r == ring_init(TxCapacity)
<1>1. r \in Rings(TxCapacity) /\ r.count = 0
  BY HalAssumption DEF ring_init, Rings
<1>. HIDE DEF r
<1>2. tx = [i \in Ifaces |-> [ring |-> r, dropped |-> 0, sent |-> 0, tx_total |-> 0]]
  BY DEF Init, r
<1>3. at \in Ifaces
  BY HalAssumption DEF Init, Ifaces
<1>. QED  BY <1>1, <1>2, <1>3 DEF TxInv, TxRings, TxAccounting

(* Every change of a TX ring is one of these: the new ring and counters    *)
(* still account for all frames.                                           *)
LEMMA OneRingChanges ==
  ASSUME TxInv, NEW i \in Ifaces, NEW t \in TxRings,
         t.tx_total = t.dropped + t.sent + t.ring.count,
         tx' = [tx EXCEPT ![i] = t], at' \in Ifaces
  PROVE TxInv'
<1>1. tx' \in [Ifaces -> TxRings]
  BY DEF TxInv
<1>2. ASSUME NEW j \in Ifaces
      PROVE tx'[j].tx_total = tx'[j].dropped + tx'[j].sent + tx'[j].ring.count
  BY DEF TxInv, TxAccounting
<1>. QED  BY <1>1, <1>2 DEF TxInv, TxAccounting

LEMMA SentKeepsTx ==
  ASSUME TxInv, Draining, sent, at' = at
  PROVE TxInv'
<1>. DEFINE old == tx[at]
           t == [ring |-> ring_pop(old.ring), dropped |-> old.dropped, sent |-> old.sent + 1,
                 tx_total |-> old.tx_total]
<1>1. old \in TxRings /\ old.tx_total = old.dropped + old.sent + old.ring.count /\ old.ring.count > 0
  BY DEF TxInv, TxAccounting, Draining
<1>2. old.ring \in Rings(TxCapacity) /\ TxCapacity \in Nat \ {0} /\ old.ring.count \in Nat
  BY <1>1, HalAssumption, SMTT(30) DEF TxRings, Rings
<1>3. ring_pop(old.ring) \in Rings(TxCapacity) /\ ring_pop(old.ring).count = old.ring.count - 1
  BY <1>1, <1>2, PopKeepsRing
<1>4. t \in TxRings /\ t.tx_total = t.dropped + t.sent + t.ring.count
  BY <1>1, <1>2, <1>3 DEF TxRings
<1>5. tx' = [tx EXCEPT ![at] = t]
  BY <1>1, SMTT(30) DEF sent, TxRings, TxInv
<1>. QED  BY <1>4, <1>5, OneRingChanges DEF TxInv

LEMMA DiscardKeepsTx ==
  ASSUME TxInv, Draining, discard, at' = at
  PROVE TxInv'
<1>. DEFINE old == tx[at]
           t == [ring |-> ring_pop(old.ring), dropped |-> old.dropped + 1, sent |-> old.sent,
                 tx_total |-> old.tx_total]
<1>1. old \in TxRings /\ old.tx_total = old.dropped + old.sent + old.ring.count /\ old.ring.count > 0
  BY DEF TxInv, TxAccounting, Draining
<1>2. old.ring \in Rings(TxCapacity) /\ TxCapacity \in Nat \ {0} /\ old.ring.count \in Nat
  BY <1>1, HalAssumption, SMTT(30) DEF TxRings, Rings
<1>3. ring_pop(old.ring) \in Rings(TxCapacity) /\ ring_pop(old.ring).count = old.ring.count - 1
  BY <1>1, <1>2, PopKeepsRing
<1>4. t \in TxRings /\ t.tx_total = t.dropped + t.sent + t.ring.count
  BY <1>1, <1>2, <1>3 DEF TxRings
<1>5. tx' = [tx EXCEPT ![at] = t]
  BY <1>1 DEF discard, TxRings, TxInv
<1>. QED  BY <1>4, <1>5, OneRingChanges DEF TxInv

(* A frame pushed back keeps its place in the accounts, if not in the      *)
(* ring.                                                                   *)
LEMMA BackpressureKeepsTx ==
  ASSUME TxInv, Draining, backpressure, at' = at
  PROVE TxInv'
<1>. DEFINE old == tx[at]
           back == push_back(ring_pop(old.ring), NextOut(old.ring))
           t == [ring |-> back, dropped |-> old.dropped, sent |-> old.sent, tx_total |-> old.tx_total]
<1>1. old \in TxRings /\ old.tx_total = old.dropped + old.sent + old.ring.count /\ old.ring.count > 0
  BY DEF TxInv, TxAccounting, Draining
<1>2. old.ring \in Rings(TxCapacity) /\ TxCapacity \in Nat \ {0} /\ old.ring.count \in 0..TxCapacity
  BY <1>1, HalAssumption DEF TxRings, Rings
<1>3. /\ ring_pop(old.ring) \in Rings(TxCapacity) /\ ring_pop(old.ring).count = old.ring.count - 1
      /\ NextOut(old.ring) \in Nat
  BY <1>1, <1>2, PopKeepsRing
<1>4. ring_pop(old.ring).count < TxCapacity
  BY <1>2, <1>3
<1>5. back \in Rings(TxCapacity) /\ back.count = ring_pop(old.ring).count + 1
  BY <1>2, <1>3, <1>4, PushBackKeepsRing
<1>6. back.count = old.ring.count
  BY <1>2, <1>3, <1>5
<1>7. tx' = [tx EXCEPT ![at].ring = back]
  BY DEF backpressure, Outgoing
<1>. HIDE DEF back
<1>8. t \in TxRings /\ t.tx_total = t.dropped + t.sent + t.ring.count
  BY <1>1, <1>5, <1>6 DEF TxRings
<1>9. [old EXCEPT !.ring = back] = t
  BY <1>1 DEF TxRings
<1>10. tx' = [tx EXCEPT ![at] = t]
  BY <1>7, <1>9
<1>. QED  BY <1>8, <1>10, OneRingChanges DEF TxInv

LEMMA RefusedKeepsTx ==
  ASSUME TxInv, NEW i \in Ifaces, NEW kind, send_refused(i, kind)
  PROVE TxInv'
<1>. DEFINE old == tx[i]
           t == [ring |-> old.ring, dropped |-> old.dropped + 1, sent |-> old.sent,
                 tx_total |-> old.tx_total + 1]
<1>1. old \in TxRings /\ old.tx_total = old.dropped + old.sent + old.ring.count
  BY DEF TxInv, TxAccounting
<1>2. old.ring \in Rings(TxCapacity) /\ old.ring.count \in Nat
  BY <1>1, HalAssumption, SMTT(30) DEF TxRings, Rings
<1>3. t \in TxRings /\ t.tx_total = t.dropped + t.sent + t.ring.count
  BY <1>1, <1>2 DEF TxRings
<1>4. at' = at
  BY DEF send_refused
<1>5. CASE tx' = tx
  BY <1>4, <1>5 DEF TxInv, TxAccounting
<1>6. CASE tx' = [tx EXCEPT ![i].tx_total = @ + 1, ![i].dropped = @ + 1]
  <2>1. tx' = [tx EXCEPT ![i] = t]
    BY <1>1, <1>6 DEF TxRings, TxInv
  <2>. QED  BY <1>3, <1>4, <2>1, OneRingChanges DEF TxInv
<1>. QED  BY <1>5, <1>6 DEF send_refused

LEMMA QueuedKeepsTx ==
  ASSUME TxInv, NEW i \in Ifaces, NEW kind, send_queued(i, kind), Len(queued'[i]) \in Nat
  PROVE TxInv'
<1>. DEFINE old == tx[i]
           pushed == ring_push(old.ring, Len(queued'[i]))
           t == [ring |-> pushed, dropped |-> old.dropped, sent |-> old.sent,
                 tx_total |-> old.tx_total + 1]
<1>1. old \in TxRings /\ old.tx_total = old.dropped + old.sent + old.ring.count
  BY DEF TxInv, TxAccounting
<1>2. old.ring \in Rings(TxCapacity) /\ old.ring.count \in Nat /\ TxCapacity \in Nat \ {0}
  BY <1>1, HalAssumption, SMTT(30) DEF TxRings, Rings
<1>3. ~Full(old.ring)
  BY DEF send_queued, send_fault
<1>4. pushed \in Rings(TxCapacity) /\ pushed.count = old.ring.count + 1
  BY <1>2, <1>3, PushKeepsRing
<1>5. tx' = [tx EXCEPT ![i].tx_total = @ + 1, ![i].ring = pushed]
  BY DEF send_queued
<1>. HIDE DEF pushed
<1>6. t \in TxRings /\ t.tx_total = t.dropped + t.sent + t.ring.count
  BY <1>1, <1>2, <1>4, SMTT(30) DEF TxRings
<1>7. at' \in Ifaces
  BY DEF send_queued
<1>8. [old EXCEPT !.tx_total = old.tx_total + 1, !.ring = pushed] = t
  <2>. DEFINE counted == [old EXCEPT !.tx_total = old.tx_total + 1]
  <2>1. counted = [ring |-> old.ring, dropped |-> old.dropped, sent |-> old.sent,
                   tx_total |-> old.tx_total + 1]
    BY <1>1 DEF TxRings
  <2>. HIDE DEF counted
  <2>2. [counted EXCEPT !.ring = pushed] = t
    BY <2>1
  <2>. QED  BY <2>2 DEF counted
<1>9. tx' = [tx EXCEPT ![i] = [old EXCEPT !.tx_total = old.tx_total + 1, !.ring = pushed]]
  BY <1>5 DEF TxInv
<1>10. tx' = [tx EXCEPT ![i] = t]
  BY <1>8, <1>9
<1>. QED  BY <1>6, <1>7, <1>10, OneRingChanges

(* queued only grows by Append, so its lengths are numbers; they become    *)
(* frame numbers in the ring.                                              *)
SentKinds == {"classic", "fd", "bad"}
HalInv == TxInv /\ queued \in [Ifaces -> Seq(SentKinds)]

LEMMA HalInvNext == HalInv /\ [Next]_vars => HalInv'
<1>. SUFFICES ASSUME HalInv, [Next]_vars PROVE HalInv'
  OBVIOUS
<1>. USE DEF HalInv
<1>1. CASE UNCHANGED <<tx, queued>> /\ at' \in Ifaces
  BY <1>1 DEF TxInv, TxAccounting
<1>2. ASSUME at' \in {at, 1} \/ (at < NIfaces /\ at' = at + 1) PROVE at' \in Ifaces
  BY <1>2, HalAssumption DEF TxInv, Ifaces
<1>3. CASE open_iface \/ open_failed \/ init_again \/ poll_rx \/ arrive \/ UNCHANGED vars
  <2>1. tx' = tx /\ queued' = queued
    BY <1>3 DEF open_iface, open_failed, init_again, poll_rx, arrive, vars
  <2>2. at' \in {at, 1} \/ (at < NIfaces /\ at' = at + 1)
    BY <1>3 DEF open_iface, open_failed, init_again, poll_rx, arrive, vars
  <2>. QED  BY <2>1, <2>2, <1>1, <1>2
<1>4. CASE sc_recv_skip \/ sc_recv_data \/ mock_recv \/ recv_nothing \/ sc_recv_down
  <2>1. tx' = tx /\ queued' = queued
    BY <1>4 DEF sc_recv_skip, sc_recv_data, mock_recv, recv_nothing, sc_recv_down
  <2>2. at' \in {at, 1} \/ (at < NIfaces /\ at' = at + 1)
    BY <1>4 DEF sc_recv_skip, sc_recv_data, mock_recv, recv_nothing, sc_recv_down
  <2>. QED  BY <2>1, <2>2, <1>1, <1>2
<1>5. CASE raise_poll_fault \/ deliver_rx \/ deliver_done \/ drain_done \/ raise_tx_fault \/ report_drops
  <2>1. tx' = tx /\ queued' = queued
    BY <1>5 DEF raise_poll_fault, deliver_rx, deliver_done, drain_done, raise_tx_fault, report_drops
  <2>2. at' \in {at, 1} \/ (at < NIfaces /\ at' = at + 1)
    BY <1>5 DEF raise_poll_fault, deliver_rx, deliver_done, drain_done, raise_tx_fault, report_drops
  <2>. QED  BY <2>1, <2>2, <1>1, <1>2
<1>6. CASE sc_drain_tx
  <2>1. at' = at /\ queued' = queued /\ Draining
    BY <1>6 DEF sc_drain_tx
  <2>2. sent \/ backpressure \/ discard
    BY <1>6 DEF sc_drain_tx
  <2>. QED  BY <2>1, <2>2, SentKeepsTx, BackpressureKeepsTx, DiscardKeepsTx
<1>7. CASE mock_drain_tx
  <2>1. at' = at /\ queued' = queued /\ Draining
    BY <1>7 DEF mock_drain_tx
  <2>2. sent \/ discard
    BY <1>7 DEF mock_drain_tx
  <2>. QED  BY <2>1, <2>2, SentKeepsTx, DiscardKeepsTx
<1>8. ASSUME NEW i \in Ifaces, NEW kind \in SentKinds, send_tx(i, kind) PROVE HalInv'
  <2>1. CASE send_refused(i, kind)
    <3>1. queued' = queued
      BY <2>1 DEF send_refused
    <3>. QED  BY <2>1, <3>1, RefusedKeepsTx
  <2>2. CASE send_queued(i, kind)
    <3>1. queued' = [queued EXCEPT ![i] = Append(queued[i], kind)]
      BY <2>2 DEF send_queued
    <3>2. Append(queued[i], kind) \in Seq(SentKinds)
      OBVIOUS
    <3>3. queued' \in [Ifaces -> Seq(SentKinds)] /\ Len(queued'[i]) \in Nat
      BY <3>1, <3>2
    <3>. QED  BY <2>2, <3>3, QueuedKeepsTx
  <2>. QED  BY <1>8, <2>1, <2>2 DEF send_tx
<1>. QED
  BY <1>3, <1>4, <1>5, <1>6, <1>7, <1>8 DEF Next, Step, SentKinds

LEMMA HalInvInit == Init => HalInv
<1>. SUFFICES ASSUME Init PROVE HalInv
  OBVIOUS
<1>1. <<>> \in Seq(SentKinds)
  OBVIOUS
<1>2. queued \in [Ifaces -> Seq(SentKinds)]
  BY <1>1 DEF Init
<1>. QED  BY <1>2, TxInvInit DEF HalInv

(* In every behaviour of the HAL, with any backend results and any ring    *)
(* sizes, tx_total = dropped + sent + count on every interface: overflow,  *)
(* send errors, a dead interface and back-pressure lose no frame from the  *)
(* books (hal_send_tx, sc_drain_tx, mock_hal_drain_tx).                    *)
THEOREM TxAccountingCorrect == Spec => []TxAccounting
<1>1. HalInv => TxAccounting
  BY DEF HalInv, TxInv
<1>. QED  BY <1>1, HalInvInit, HalInvNext, PTL DEF Spec

-----------------------------------------------------------------------------
(* While hal_init runs, the interfaces before the one it is at are open.   *)
Booting == {"init", "failed"}
OpenInv ==
  /\ at \in Ifaces
  /\ opened \in [Ifaces -> BOOLEAN]
  /\ pc = "init" => \A i \in Ifaces : i < at => opened[i]
  /\ AllOrNothingOpen

LEMMA OpenIfaceKeepsOpen == ASSUME OpenInv, open_iface PROVE OpenInv'
<1>1. opened' = [opened EXCEPT ![at] = TRUE] /\ pc = "init"
  BY DEF open_iface
<1>2. opened' \in [Ifaces -> BOOLEAN]
  BY <1>1 DEF OpenInv
<1>3. \A i \in Ifaces : i <= at => opened'[i]
  <2>. TAKE i \in Ifaces
  <2>1. i < at => opened[i]
    BY <1>1 DEF OpenInv
  <2>2. i <= at => i < at \/ i = at
    BY DEF OpenInv, Ifaces
  <2>. QED  BY <1>1, <2>1, <2>2 DEF OpenInv
<1>4. CASE at < NIfaces
  <2>1. at' = at + 1 /\ pc' = "init"
    BY <1>1, <1>4 DEF open_iface
  <2>2. at' \in Ifaces /\ \A i \in Ifaces : i < at' => i <= at
    BY <1>4, <2>1, HalAssumption DEF OpenInv, Ifaces
  <2>. QED  BY <1>2, <1>3, <2>1, <2>2 DEF OpenInv, AllOrNothingOpen
<1>5. CASE ~(at < NIfaces)
  <2>1. at' = 1 /\ pc' = "idle"
    BY <1>5 DEF open_iface
  <2>2. at' \in Ifaces /\ \A i \in Ifaces : i <= at
    BY <1>5, <2>1, HalAssumption DEF OpenInv, Ifaces
  <2>. QED  BY <1>2, <1>3, <2>1, <2>2 DEF OpenInv, AllOrNothingOpen
<1>. QED  BY <1>4, <1>5

LEMMA OpenInvNext == OpenInv /\ [Next]_vars => OpenInv'
<1>. SUFFICES ASSUME OpenInv, [Next]_vars PROVE OpenInv'
  OBVIOUS
<1>1. ASSUME at' \in {at, 1} \/ (at < NIfaces /\ at' = at + 1) PROVE at' \in Ifaces
  BY <1>1, HalAssumption DEF OpenInv, Ifaces
<1>2. ASSUME opened' = opened, pc \notin Booting, pc' \notin Booting, at' \in Ifaces PROVE OpenInv'
  BY <1>2 DEF OpenInv, AllOrNothingOpen, Booting
<1>3. CASE UNCHANGED vars
  BY <1>3 DEF OpenInv, AllOrNothingOpen, vars, iface
<1>4. CASE open_failed
  BY <1>4 DEF open_failed, OpenInv, AllOrNothingOpen
<1>5. CASE init_again
  <2>1. at' = 1 /\ pc' = "init" /\ opened' = opened
    BY <1>5 DEF init_again
  <2>2. at' \in Ifaces /\ \A i \in Ifaces : ~(i < at')
    BY <2>1, HalAssumption DEF Ifaces
  <2>. QED  BY <2>1, <2>2 DEF OpenInv, AllOrNothingOpen
<1>6. CASE poll_rx \/ arrive \/ sc_recv_skip \/ sc_recv_data \/ mock_recv \/ recv_nothing \/ sc_recv_down
  <2>1. opened' = opened /\ pc \notin Booting /\ pc' \notin Booting
    BY <1>6 DEF poll_rx, arrive, sc_recv_skip, sc_recv_data, mock_recv, recv_nothing, sc_recv_down,
                iface, Booting
  <2>2. at' \in {at, 1}
    BY <1>6 DEF poll_rx, arrive, sc_recv_skip, sc_recv_data, mock_recv, recv_nothing, sc_recv_down
  <2>. QED  BY <2>1, <2>2, <1>1, <1>2
<1>7. CASE raise_poll_fault \/ deliver_rx \/ deliver_done \/ drain_done \/ raise_tx_fault \/ report_drops
  <2>1. opened' = opened /\ pc \notin Booting /\ pc' \notin Booting
    BY <1>7 DEF raise_poll_fault, deliver_rx, deliver_done, drain_done, raise_tx_fault, report_drops,
                iface, Booting
  <2>2. at' \in {at, 1} \/ (at < NIfaces /\ at' = at + 1)
    BY <1>7 DEF raise_poll_fault, deliver_rx, deliver_done, drain_done, raise_tx_fault, report_drops
  <2>. QED  BY <2>1, <2>2, <1>1, <1>2
<1>8. CASE sc_drain_tx \/ mock_drain_tx
  <2>1. opened' = opened /\ pc \notin Booting /\ pc' \notin Booting /\ at' = at
    BY <1>8 DEF sc_drain_tx, mock_drain_tx, Draining, sent, discard, backpressure, iface, Booting
  <2>. QED  BY <2>1, <1>1, <1>2
<1>9. ASSUME NEW i \in Ifaces, NEW kind, send_tx(i, kind) PROVE OpenInv'
  <2>1. opened' = opened /\ pc \notin Booting /\ pc' \notin Booting /\ at' \in {at, i}
    BY <1>9 DEF send_tx, send_refused, send_queued, iface, Booting
  <2>. QED  BY <2>1, <1>2 DEF OpenInv
<1>. QED
  BY <1>3, <1>4, <1>5, <1>6, <1>7, <1>8, <1>9, OpenIfaceKeepsOpen DEF Next, Step

(* hal_init opens all interfaces or leaves none open, at whichever         *)
(* interface and however often it fails; poll_rx and send_tx never run on  *)
(* a half-opened instance.                                                 *)
THEOREM InitAllOrNothing == Spec => []AllOrNothingOpen
<1>1. Init => OpenInv
  BY HalAssumption DEF Init, OpenInv, AllOrNothingOpen, Ifaces
<1>2. OpenInv => AllOrNothingOpen
  BY DEF OpenInv
<1>. QED  BY <1>1, <1>2, OpenInvNext, PTL DEF Spec

-----------------------------------------------------------------------------
(* The order of frames in the rings, from interrupt or send_tx to the      *)
(* events and the bus.                                                     *)

Slots(c) == 0..(c - 1)

(* How many pops bring read_idx to slot p.                                 *)
Distance(r, p) == IF p >= r.read_idx THEN p - r.read_idx ELSE p + r.capacity - r.read_idx

(* The ring holds count frames from read_idx on, oldest first, and nothing *)
(* else; write_idx is behind the youngest.                                 *)
Ordered(r, c) ==
  /\ \A p \in Slots(c) : IF Distance(r, p) < r.count THEN r.slots[p] > 0 ELSE r.slots[p] = 0
  /\ \A p, q \in Slots(c) :
       Distance(r, p) < Distance(r, q) /\ Distance(r, q) < r.count => r.slots[p] < r.slots[q]
  /\ IF r.count < c THEN Distance(r, r.write_idx) = r.count ELSE r.write_idx = r.read_idx

-----------------------------------------------------------------------------
(* What the operations of types.c do to the order of a ring.               *)

LEMMA Wrap ==
  ASSUME NEW c \in Nat \ {0}, NEW k \in Slots(c)
  PROVE  (k + 1) % c = IF k = c - 1 THEN 0 ELSE k + 1
  BY DEF Slots

(* Distances from read_idx are different for different slots.              *)
LEMMA Distances ==
  ASSUME NEW c \in Nat \ {0}, NEW r \in Rings(c), NEW p \in Slots(c), NEW q \in Slots(c)
  PROVE  /\ Distance(r, p) \in Slots(c)
         /\ Distance(r, p) = Distance(r, q) => p = q
         /\ Distance(r, p) = 0 => p = r.read_idx
<1>1. r.capacity = c /\ r.read_idx \in Slots(c)
  BY DEF Rings, Slots
<1>. DEFINE h == r.read_idx
<1>. HIDE DEF h
<1>2. ASSUME NEW k \in Slots(c) PROVE Distance(r, k) = IF k >= h THEN k - h ELSE k + c - h
  BY <1>1 DEF Distance, h
<1>3. h \in Slots(c)
  BY <1>1 DEF h
<1>. QED  BY <1>2, <1>3 DEF Slots, h

LEMMA PushOrdered ==
  ASSUME NEW c \in Nat \ {0}, NEW r \in Rings(c), NEW n \in Nat, Ordered(r, c), ~Full(r),
         \A p \in Slots(c) : r.slots[p] < n
  PROVE  LET s == ring_push(r, n) IN
         /\ Ordered(s, c)
         /\ \A p \in Slots(c) : s.slots[p] \in {r.slots[p], n}
         /\ \E p \in Slots(c) : s.slots[p] = n
         /\ \A p \in Slots(c) : r.slots[p] # 0 => s.slots[p] = r.slots[p]
<1>. DEFINE s == ring_push(r, n)  w == r.write_idx
<1>1. /\ r.capacity = c /\ r.read_idx \in Slots(c) /\ w \in Slots(c)
      /\ r.count \in 0..c /\ r.count < c /\ r.slots \in [Slots(c) -> Nat]
  BY DEF Rings, Full, Slots
<1>2. /\ s.slots = [r.slots EXCEPT ![w] = n] /\ s.read_idx = r.read_idx /\ s.capacity = c
      /\ s.write_idx = (w + 1) % c /\ s.count = r.count + 1
  BY <1>1 DEF ring_push, Rings
<1>3. Distance(r, w) = r.count
  BY <1>1 DEF Ordered
<1>4. \A p \in Slots(c) : Distance(s, p) = Distance(r, p)
  BY <1>1, <1>2 DEF Distance
<1>5. \A p \in Slots(c) : Distance(r, p) \in Int /\ (Distance(r, p) = r.count => p = w)
  <2>1. \A d \in Slots(c) : d \in Int
    BY DEF Slots
  <2>. QED  BY <1>1, <1>3, <2>1, Distances
<1>6. \A p \in Slots(c) : s.slots[p] = IF p = w THEN n ELSE r.slots[p]
  BY <1>1, <1>2
<1>7. n > 0
  BY <1>1
<1>8. r.slots[w] = 0
  BY <1>1, <1>3 DEF Ordered
<1>. HIDE DEF s, w
<1>9. \A p \in Slots(c) : IF Distance(s, p) < s.count THEN s.slots[p] > 0 ELSE s.slots[p] = 0
  <2>. TAKE p \in Slots(c)
  <2>1. CASE p = w
    BY <1>1, <1>2, <1>3, <1>4, <1>6, <1>7, <2>1
  <2>2. CASE p # w
    <3>1. Distance(r, p) # r.count
      BY <1>5, <2>2
    <3>2. Distance(s, p) = Distance(r, p) /\ Distance(r, p) \in Int /\ r.count \in Int /\ s.count = r.count + 1
      BY <1>1, <1>2, <1>4, <1>5
    <3>3. CASE Distance(r, p) < r.count
      BY <1>6, <2>2, <3>2, <3>3 DEF Ordered
    <3>4. CASE ~(Distance(r, p) < r.count)
      <4>1. ~(Distance(s, p) < s.count)
        BY <3>1, <3>2, <3>4
      <4>. QED  BY <1>6, <2>2, <3>4, <4>1 DEF Ordered
    <3>. QED  BY <3>3, <3>4
  <2>. QED  BY <2>1, <2>2
<1>10. \A p, q \in Slots(c) :
        Distance(s, p) < Distance(s, q) /\ Distance(s, q) < s.count => s.slots[p] < s.slots[q]
  <2>. SUFFICES ASSUME NEW p \in Slots(c), NEW q \in Slots(c),
                       Distance(r, p) < Distance(r, q), Distance(r, q) < r.count + 1
                PROVE  s.slots[p] < s.slots[q]
    BY <1>2, <1>4
  <2>1. p # w
    BY <1>1, <1>3, <1>5 DEF Slots
  <2>2. CASE q = w
    BY <1>6, <2>1, <2>2
  <2>3. CASE q # w
    <3>1. Distance(r, q) # r.count
      BY <1>5, <2>3
    <3>2. Distance(r, q) < r.count
      <4>1. Distance(r, q) \in Int /\ r.count \in Int
        BY <1>1, <1>5
      <4>. QED  BY <3>1, <4>1
    <3>. QED  BY <1>6, <2>1, <2>3, <3>2 DEF Ordered
  <2>. QED  BY <2>2, <2>3
<1>11. IF s.count < c THEN Distance(s, s.write_idx) = s.count ELSE s.write_idx = s.read_idx
  <2>1. s.write_idx = IF w = c - 1 THEN 0 ELSE w + 1
    BY <1>1, <1>2, Wrap
  <2>. DEFINE h == r.read_idx  v == s.write_idx
  <2>2. Distance(s, v) = IF v >= h THEN v - h ELSE v + c - h
    BY <1>2 DEF Distance
  <2>3. r.count = IF w >= h THEN w - h ELSE w + c - h
    BY <1>1, <1>3 DEF Distance
  <2>4. h \in Slots(c) /\ w \in Slots(c) /\ s.read_idx = h /\ s.count = r.count + 1
    BY <1>1, <1>2
  <2>. HIDE DEF h, v
  <2>5. ASSUME NEW k \in Int, k = r.count + 1, NEW j \in Slots(c), j = IF w = c - 1 THEN 0 ELSE w + 1
        PROVE IF k < c THEN (IF j >= h THEN j - h ELSE j + c - h) = k ELSE j = h
    BY <1>1, <2>3, <2>4, <2>5 DEF Slots
  <2>6. v \in Slots(c)
    BY <2>1, <2>4 DEF Slots, v
  <2>. QED  BY <1>1, <2>1, <2>2, <2>4, <2>5, <2>6 DEF v
<1>12. Ordered(s, c)
  BY <1>9, <1>10, <1>11 DEF Ordered
<1>. QED  BY <1>1, <1>6, <1>8, <1>12 DEF s

LEMMA PopOrdered ==
  ASSUME NEW c \in Nat \ {0}, NEW r \in Rings(c), Ordered(r, c), r.count > 0
  PROVE  LET s == ring_pop(r)  n == NextOut(r) IN
         /\ Ordered(s, c)
         /\ n > 0
         /\ \A p \in Slots(c) : r.slots[p] = n \/ s.slots[p] = r.slots[p]
         /\ \A p \in Slots(c) : s.slots[p] # 0 => s.slots[p] = r.slots[p] /\ n < s.slots[p]
<1>. DEFINE s == ring_pop(r)  h == r.read_idx  n == NextOut(r)
<1>1. /\ r.capacity = c /\ h \in Slots(c) /\ r.write_idx \in Slots(c)
      /\ r.count \in 0..c /\ r.count > 0 /\ r.slots \in [Slots(c) -> Nat]
  BY DEF Rings, Slots
<1>2. /\ s.slots = [r.slots EXCEPT ![h] = 0] /\ s.read_idx = (h + 1) % c /\ s.capacity = c
      /\ s.write_idx = r.write_idx /\ s.count = r.count - 1
  BY <1>1 DEF ring_pop, Rings
<1>3. \A p \in Slots(c) : s.slots[p] = IF p = h THEN 0 ELSE r.slots[p]
  BY <1>1, <1>2
<1>4. n = r.slots[h] /\ Distance(r, h) = 0
  BY <1>1 DEF NextOut, Distance, Slots
<1>. HIDE DEF s, h, n
<1>5. s.read_idx = IF h = c - 1 THEN 0 ELSE h + 1
  BY <1>1, <1>2, Wrap
<1>6. \A p \in Slots(c) : /\ Distance(r, p) \in Int
                          /\ p # h => Distance(r, p) > 0 /\ Distance(s, p) = Distance(r, p) - 1
                          /\ p = h => Distance(s, p) = c - 1
  <2>. SUFFICES ASSUME NEW p \in Slots(c)
                PROVE  /\ Distance(r, p) \in Int
                       /\ p # h => Distance(r, p) > 0 /\ Distance(s, p) = Distance(r, p) - 1
                       /\ p = h => Distance(s, p) = c - 1
    OBVIOUS
  <2>1. Distance(r, p) = IF p >= h THEN p - h ELSE p + c - h
    BY <1>1 DEF Distance, h
  <2>. DEFINE g == s.read_idx
  <2>2. Distance(s, p) = IF p >= g THEN p - g ELSE p + c - g
    BY <1>2 DEF Distance
  <2>3. g = IF h = c - 1 THEN 0 ELSE h + 1
    BY <1>5
  <2>. HIDE DEF g
  <2>4. c \in Nat /\ h \in 0..(c - 1) /\ p \in 0..(c - 1)
    BY <1>1 DEF Slots
  <2>5. CASE p = h
    BY <2>1, <2>2, <2>3, <2>4, <2>5
  <2>6. CASE p > h
    BY <2>1, <2>2, <2>3, <2>4, <2>6
  <2>7. CASE p < h
    BY <2>1, <2>2, <2>3, <2>4, <2>7
  <2>. QED  BY <2>4, <2>5, <2>6, <2>7
<1>7. n > 0
  BY <1>1, <1>4 DEF Ordered
<1>8. ASSUME NEW p \in Slots(c)
      PROVE  IF Distance(s, p) < s.count THEN s.slots[p] > 0 ELSE s.slots[p] = 0
  <2>1. CASE p = h
    BY <1>1, <1>2, <1>3, <1>6, <2>1
  <2>2. CASE p # h
    <3>1. /\ Distance(s, p) = Distance(r, p) - 1 /\ s.count = r.count - 1
          /\ Distance(r, p) \in Int /\ r.count \in Int
      BY <1>1, <1>2, <1>6, <2>2
    <3>2. CASE Distance(r, p) < r.count
      BY <1>3, <2>2, <3>1, <3>2 DEF Ordered
    <3>3. CASE ~(Distance(r, p) < r.count)
      BY <1>3, <2>2, <3>1, <3>3 DEF Ordered
    <3>. QED  BY <3>2, <3>3
  <2>. QED  BY <2>1, <2>2
<1>9. ASSUME NEW p \in Slots(c), NEW q \in Slots(c),
             Distance(s, p) < Distance(s, q), Distance(s, q) < s.count
      PROVE  s.slots[p] < s.slots[q]
  <2>. DEFINE x == Distance(s, p)  y == Distance(s, q)
  <2>0. /\ x \in Int /\ y \in Int /\ x < y /\ y < r.count - 1 /\ r.count <= c /\ r.count \in Int
        /\ (p = h => x = c - 1) /\ (q = h => y = c - 1)
    BY <1>1, <1>2, <1>6, <1>9
  <2>1. q # h /\ p # h
    <3>. HIDE DEF x, y
    <3>. QED  BY <2>0
  <2>2. Distance(r, p) < Distance(r, q) /\ Distance(r, q) < r.count
    BY <1>1, <1>2, <1>6, <1>9, <2>1
  <2>. QED  BY <1>3, <2>1, <2>2 DEF Ordered
<1>10. IF s.count < c THEN Distance(s, s.write_idx) = s.count ELSE s.write_idx = s.read_idx
  <2>1. CASE r.count = c
    <3>1. r.write_idx = h
      BY <1>1, <2>1 DEF Ordered, h
    <3>. QED  BY <1>1, <1>2, <1>6, <2>1, <3>1
  <2>2. CASE r.count < c
    <3>1. Distance(r, r.write_idx) = r.count
      BY <2>2 DEF Ordered
    <3>2. r.write_idx # h
      BY <1>1, <1>4, <3>1
    <3>. QED  BY <1>1, <1>2, <1>6, <2>2, <3>1, <3>2
  <2>. QED  BY <1>1, <2>1, <2>2
<1>11. Ordered(s, c)
  BY <1>8, <1>9, <1>10 DEF Ordered
<1>12. ASSUME NEW p \in Slots(c), s.slots[p] # 0 PROVE s.slots[p] = r.slots[p] /\ n < s.slots[p]
  <2>1. p # h
    BY <1>3, <1>12
  <2>2. Distance(s, p) < s.count
    BY <1>8, <1>12
  <2>3. Distance(r, h) < Distance(r, p) /\ Distance(r, p) < r.count
    BY <1>1, <1>2, <1>4, <1>6, <2>1, <2>2
  <2>4. r.slots[h] < r.slots[p]
    BY <1>1, <2>3 DEF Ordered
  <2>. QED  BY <1>3, <1>4, <2>1, <2>4
<1>. QED  BY <1>3, <1>4, <1>7, <1>11, <1>12 DEF s, n

LEMMA EmptyRing ==
  ASSUME NEW c \in Nat \ {0}, NEW r \in Rings(c), Ordered(r, c), r.count = 0, NEW p \in Slots(c)
  PROVE  r.slots[p] = 0
<1>1. Distance(r, p) \in Slots(c)
  BY Distances
<1>2. ~(Distance(r, p) < r.count)
  BY <1>1 DEF Slots
<1>. QED  BY <1>2 DEF Ordered

(* The slot before read_idx is the one the frame was popped from.          *)
LEMMA PushedBack ==
  ASSUME NEW c \in Nat \ {0}, NEW r \in Rings(c)
  PROVE  push_back(ring_pop(r), NextOut(r)).slots = r.slots
<1>. DEFINE h == r.read_idx  s == ring_pop(r)
            b == IF s.read_idx = 0 THEN s.capacity - 1 ELSE s.read_idx - 1
<1>1. h \in Slots(c) /\ r.capacity = c /\ r.slots \in [Slots(c) -> Nat]
  BY DEF Rings, Slots
<1>2. s.slots = [r.slots EXCEPT ![h] = 0] /\ s.read_idx = (h + 1) % c /\ s.capacity = c
  BY <1>1 DEF ring_pop, Rings
<1>3. push_back(s, NextOut(r)).slots = [s.slots EXCEPT ![b] = NextOut(r)]
  BY DEF push_back, ring_pop, Rings
<1>. HIDE DEF s, h
<1>4. s.read_idx = IF h = c - 1 THEN 0 ELSE h + 1
  BY <1>1, <1>2, Wrap
<1>5. b = h
  BY <1>1, <1>2, <1>4 DEF Slots
<1>6. [[r.slots EXCEPT ![h] = 0] EXCEPT ![h] = r.slots[h]] = r.slots
  BY <1>1
<1>. QED  BY <1>2, <1>3, <1>5, <1>6 DEF NextOut, h, s

-----------------------------------------------------------------------------
(* Frames 1..t pass through the ring r of capacity c, and d came out.      *)

(* What is in the ring came after what is out.                             *)
Passed(c, r, t, d) ==
  /\ \A p \in Slots(c) : r.slots[p] <= t
  /\ Increasing(d)
  /\ \A a \in DOMAIN d :
       /\ d[a] \in 1..t
       /\ \A p \in Slots(c) : r.slots[p] # 0 => d[a] < r.slots[p]

Flow(c, r, t, d) == Ordered(r, c) /\ Passed(c, r, t, d)

LEMMA FlowSkip ==
  ASSUME NEW c \in Nat \ {0}, NEW r \in Rings(c), NEW t \in Nat, NEW d \in Seq(Nat), Flow(c, r, t, d)
  PROVE  Flow(c, r, t + 1, d)
<1>1. \A p \in Slots(c) : r.slots[p] <= t + 1
  <2>1. \A p \in Slots(c) : r.slots[p] \in Nat
    BY DEF Rings, Slots
  <2>. QED  BY <2>1 DEF Flow, Passed
<1>2. \A a \in DOMAIN d : d[a] \in 1..(t + 1)
  BY DEF Flow, Passed
<1>. QED  BY <1>1, <1>2 DEF Flow, Passed

LEMMA FlowPush ==
  ASSUME NEW c \in Nat \ {0}, NEW r \in Rings(c), NEW t \in Nat, NEW d \in Seq(Nat), Flow(c, r, t, d), ~Full(r)
  PROVE  /\ ring_push(r, t + 1) \in Rings(c)
         /\ Flow(c, ring_push(r, t + 1), t + 1, d)
<1>. DEFINE s == ring_push(r, t + 1)  S == Slots(c)
<1>1. \A p \in S : r.slots[p] \in Nat /\ r.slots[p] <= t
  BY DEF Rings, Slots, Flow, Passed
<1>2. \A p \in S : r.slots[p] < t + 1
  BY <1>1
<1>3. Ordered(s, c) /\ \A p \in S : s.slots[p] \in {r.slots[p], t + 1}
  BY <1>2, PushOrdered DEF Flow, Passed
<1>4. s \in Rings(c)
  BY PushKeepsRing
<1>. HIDE DEF s, S
<1>5. \A p \in S : s.slots[p] <= t + 1
  BY <1>1, <1>3
<1>6. \A a \in DOMAIN d : d[a] \in 1..t /\ \A p \in S : r.slots[p] # 0 => d[a] < r.slots[p]
  BY DEF Flow, Passed, S
<1>7. ASSUME NEW a \in DOMAIN d PROVE d[a] \in 1..(t + 1) /\ \A p \in S : s.slots[p] # 0 => d[a] < s.slots[p]
  BY <1>3, <1>6, SMTT(30)
<1>. QED  BY <1>3, <1>4, <1>5, <1>7 DEF Flow, Passed, s, S

(* The frame that leaves the ring is the next in order; delivered or       *)
(* dropped, the rest stays in order.                                       *)
LEMMA FlowPop ==
  ASSUME NEW c \in Nat \ {0}, NEW r \in Rings(c), NEW t \in Nat, NEW d \in Seq(Nat), Flow(c, r, t, d), r.count > 0
  PROVE  LET n == NextOut(r) IN
         /\ ring_pop(r) \in Rings(c)
         /\ n \in 1..t
         /\ \A a \in DOMAIN d : d[a] < n
         /\ Flow(c, ring_pop(r), t, d)
         /\ Append(d, n) \in Seq(Nat)
         /\ Flow(c, ring_pop(r), t, Append(d, n))
<1>. DEFINE s == ring_pop(r)  S == Slots(c)  n == NextOut(r)  e == Append(d, n)
<1>1. /\ Ordered(s, c) /\ n > 0
      /\ \A p \in S : s.slots[p] # 0 => s.slots[p] = r.slots[p] /\ n < s.slots[p]
  BY PopOrdered DEF Flow, Passed
<1>2. s \in Rings(c) /\ n \in Nat
  BY PopKeepsRing
<1>3. r.read_idx \in S /\ n = r.slots[r.read_idx]
  BY DEF NextOut, Rings, Slots
<1>4. \A p \in S : r.slots[p] \in Nat /\ r.slots[p] <= t
  BY DEF Rings, Slots, Flow, Passed
<1>5. n \in 1..t
  BY <1>1, <1>2, <1>3, <1>4
<1>6. \A a \in DOMAIN d : d[a] \in 1..t /\ d[a] < n /\ \A p \in S : r.slots[p] # 0 => d[a] < r.slots[p]
  BY <1>1, <1>2, <1>3 DEF Flow, Passed
<1>. HIDE DEF s, S, n
<1>7. \A p \in S : s.slots[p] \in Nat /\ s.slots[p] <= t
  <2>1. \A p \in S : s.slots[p] \in Nat
    BY <1>2 DEF Rings, Slots, S
  <2>. QED  BY <1>1, <1>4, <2>1
<1>8. \A a \in DOMAIN d : \A p \in S : s.slots[p] # 0 => d[a] < s.slots[p]
  BY <1>1, <1>6
<1>9. Flow(c, s, t, d)
  BY <1>1, <1>6, <1>7, <1>8 DEF Flow, Passed, S
<1>10. e \in Seq(Nat) /\ Len(e) = Len(d) + 1 /\ DOMAIN e = 1..(Len(d) + 1) /\ DOMAIN d = 1..Len(d)
       /\ e[Len(d) + 1] = n /\ \A a \in DOMAIN d : e[a] = d[a]
  <2>1. Len(d) \in Nat
    OBVIOUS
  <2>. QED  BY <1>2, <2>1
<1>11. \A a \in DOMAIN e : a = Len(d) + 1 \/ a \in DOMAIN d
  BY <1>10
<1>. HIDE DEF e
<1>12. \A a \in DOMAIN e : e[a] \in 1..t /\ \A p \in S : s.slots[p] # 0 => e[a] < s.slots[p]
  BY <1>1, <1>5, <1>6, <1>8, <1>10, <1>11
<1>13. Increasing(e)
  <2>. SUFFICES ASSUME NEW a \in DOMAIN e, NEW b \in DOMAIN e, a < b PROVE e[a] < e[b]
    BY DEF Increasing
  <2>1. a \in DOMAIN d
    BY <1>10
  <2>2. CASE b \in DOMAIN d
    BY <1>10, <2>1, <2>2 DEF Flow, Passed, Increasing
  <2>3. CASE b = Len(d) + 1
    BY <1>6, <1>10, <2>1, <2>3
  <2>. QED  BY <1>11, <2>2, <2>3
<1>14. Flow(c, s, t, e)
  BY <1>1, <1>7, <1>12, <1>13 DEF Flow, Passed, S
<1>. QED  BY <1>2, <1>5, <1>6, <1>9, <1>10, <1>14 DEF s, n, e

-----------------------------------------------------------------------------
(* Reception.  f: frames of the bus, d: frames delivered, w: the           *)
(* watermark.                                                              *)

RxRings == [ring : Rings(RxCapacity), dropped : Nat]

(* The timestamps of what was delivered, and the watermark above them.     *)
Stamped(f, d, w) ==
  /\ \A a, b \in DOMAIN d : a < b /\ f[d[b]].ts # 0 => f[d[a]].ts < f[d[b]].ts
  /\ \A a \in DOMAIN d : f[d[a]].ts <= w
  /\ w # 0 => \E a \in DOMAIN d : w = f[d[a]].ts

RxTypes ==
  /\ at \in Ifaces
  /\ rx \in [Ifaces -> RxRings] /\ arrived \in [Ifaces -> Seq(Arrivals)] /\ taken \in [Ifaces -> Nat]
  /\ if_last_ts \in [Ifaces -> Nat] /\ delivered \in [Ifaces -> Seq(Nat)]

RxInv ==
  /\ RxTypes
  /\ \A i \in Ifaces : /\ taken[i] <= Len(arrived[i])
                       /\ Flow(RxCapacity, rx[i].ring, taken[i], delivered[i])
                       /\ Stamped(arrived[i], delivered[i], if_last_ts[i])

(* A frame passes the check of hal_deliver_rx: it has no timestamp, or a   *)
(* later one than all before it.                                           *)
LEMMA StampedAppend ==
  ASSUME NEW f \in Seq(Arrivals), NEW d \in Seq(Nat), NEW w \in Nat, NEW n \in 1..Len(f),
         \A a \in DOMAIN d : d[a] \in 1..Len(f), Stamped(f, d, w),
         ~(f[n].ts # 0 /\ w # 0 /\ f[n].ts <= w)
  PROVE  LET v == IF f[n].ts # 0 THEN f[n].ts ELSE w IN
         v \in Nat /\ Stamped(f, Append(d, n), v)
<1>. DEFINE v == IF f[n].ts # 0 THEN f[n].ts ELSE w  e == Append(d, n)
<1>1. f[n].ts \in Nat /\ \A a \in DOMAIN d : f[d[a]].ts \in Nat /\ f[d[a]].ts <= w
  <2>1. \A k \in 1..Len(f) : f[k] \in Arrivals
    OBVIOUS
  <2>2. \A k \in 1..Len(f) : f[k].ts \in Nat
    BY <2>1, HalAssumption
  <2>. QED  BY <2>2 DEF Stamped
<1>2. v \in Nat /\ (f[n].ts # 0 => v = f[n].ts /\ w < v) /\ w <= v /\ f[n].ts <= v /\ (v # 0 => v = w \/ v = f[n].ts)
  BY <1>1
<1>3. /\ DOMAIN e = 1..(Len(d) + 1) /\ DOMAIN d = 1..Len(d) /\ Len(d) \in Nat
      /\ e[Len(d) + 1] = n /\ \A a \in DOMAIN d : e[a] = d[a]
  OBVIOUS
<1>4. \A a \in DOMAIN e : a = Len(d) + 1 \/ a \in DOMAIN d
  BY <1>3
<1>5. Len(d) + 1 \in DOMAIN e /\ DOMAIN d \subseteq DOMAIN e
  BY <1>3
<1>. HIDE DEF v, e
<1>6. ASSUME NEW a \in DOMAIN e, NEW b \in DOMAIN e, a < b, f[e[b]].ts # 0
      PROVE  f[e[a]].ts < f[e[b]].ts
  <2>1. a \in DOMAIN d
    BY <1>3, <1>6
  <2>2. CASE b \in DOMAIN d
    BY <1>3, <1>6, <2>1, <2>2 DEF Stamped
  <2>3. CASE b = Len(d) + 1
    BY <1>1, <1>2, <1>3, <1>6, <2>1, <2>3, SMTT(30)
  <2>. QED  BY <1>4, <2>2, <2>3
<1>7. ASSUME NEW a \in DOMAIN e PROVE f[e[a]].ts <= v
  BY <1>1, <1>2, <1>3, <1>4, SMTT(30)
<1>8. v # 0 => \E a \in DOMAIN e : v = f[e[a]].ts
  <2>1. CASE v = f[n].ts
    BY <1>3, <1>5, <2>1
  <2>2. CASE v = w /\ w # 0
    <3>1. PICK a \in DOMAIN d : w = f[d[a]].ts
      BY <2>2 DEF Stamped
    <3>. QED  BY <1>3, <1>5, <2>2, <3>1
  <2>. QED  BY <1>2, <2>1, <2>2
<1>. QED  BY <1>2, <1>6, <1>7, <1>8 DEF Stamped, v, e

(* Frames that arrive later do not change what is known of the delivered.  *)
LEMMA StampedArrive ==
  ASSUME NEW f \in Seq(Arrivals), NEW d \in Seq(Nat), NEW w \in Nat, NEW x \in Arrivals,
         \A a \in DOMAIN d : d[a] \in 1..Len(f), Stamped(f, d, w)
  PROVE  Stamped(Append(f, x), d, w)
<1>1. \A k \in 1..Len(f) : Append(f, x)[k] = f[k]
  OBVIOUS
<1>2. \A a \in DOMAIN d : Append(f, x)[d[a]] = f[d[a]]
  BY <1>1
<1>. QED  BY <1>2 DEF Stamped

LEMMA RxInvInit == Init => RxInv
<1>. SUFFICES ASSUME Init PROVE RxInv
  OBVIOUS
<1>. DEFINE r == ring_init(RxCapacity)
<1>1. r \in Rings(RxCapacity) /\ \A p \in Slots(RxCapacity) : r.slots[p] = 0
  BY HalAssumption DEF ring_init, Rings, Slots
<1>2. Ordered(r, RxCapacity)
  BY HalAssumption DEF ring_init, Ordered, Distance, Slots
<1>. HIDE DEF r
<1>3. Flow(RxCapacity, r, 0, <<>>)
  BY <1>1, <1>2 DEF Flow, Passed, Increasing
<1>4. \A f : Stamped(f, <<>>, 0)
  BY DEF Stamped
<1>5. rx = [i \in Ifaces |-> [ring |-> r, dropped |-> 0]]
  BY DEF Init, r
<1>6. /\ at = 1 /\ arrived = [i \in Ifaces |-> <<>>] /\ taken = [i \in Ifaces |-> 0]
      /\ if_last_ts = [i \in Ifaces |-> 0] /\ delivered = [i \in Ifaces |-> <<>>]
  BY DEF Init
<1>7. RxTypes
  <2>1. at \in Ifaces
    BY <1>6, HalAssumption DEF Ifaces
  <2>2. rx \in [Ifaces -> RxRings]
    BY <1>1, <1>5, SMTT(30) DEF RxRings
  <2>. QED  BY <1>6, <2>1, <2>2 DEF RxTypes
<1>. QED  BY <1>3, <1>4, <1>5, <1>6, <1>7 DEF RxInv

(* One interface changes: what has to be shown of it.                      *)
LEMMA OneRxChanges ==
  ASSUME RxInv, at' \in Ifaces, NEW i \in Ifaces,
         NEW x \in RxRings, NEW f \in Seq(Arrivals), NEW t \in Nat, NEW w \in Nat, NEW d \in Seq(Nat),
         t <= Len(f), Flow(RxCapacity, x.ring, t, d), Stamped(f, d, w),
         rx' = [rx EXCEPT ![i] = x], arrived' = [arrived EXCEPT ![i] = f], taken' = [taken EXCEPT ![i] = t],
         if_last_ts' = [if_last_ts EXCEPT ![i] = w], delivered' = [delivered EXCEPT ![i] = d]
  PROVE  RxInv'
<1>1. RxTypes'
  BY DEF RxInv, RxTypes
<1>2. ASSUME NEW j \in Ifaces
      PROVE  /\ taken'[j] <= Len(arrived'[j])
             /\ Flow(RxCapacity, rx'[j].ring, taken'[j], delivered'[j])
             /\ Stamped(arrived'[j], delivered'[j], if_last_ts'[j])
  <2>1. CASE j = i
    <3>1. rx'[j] = x /\ arrived'[j] = f /\ taken'[j] = t /\ if_last_ts'[j] = w /\ delivered'[j] = d
      BY <2>1 DEF RxInv, RxTypes
    <3>. QED  BY <3>1
  <2>2. CASE j # i
    <3>1. /\ rx'[j] = rx[j] /\ arrived'[j] = arrived[j] /\ taken'[j] = taken[j]
          /\ if_last_ts'[j] = if_last_ts[j] /\ delivered'[j] = delivered[j]
      BY <2>2 DEF RxInv, RxTypes
    <3>. QED  BY <3>1 DEF RxInv
  <2>. QED  BY <2>1, <2>2
<1>3. \A j \in Ifaces : /\ taken'[j] <= Len(arrived'[j])
                        /\ Flow(RxCapacity, rx'[j].ring, taken'[j], delivered'[j])
                        /\ Stamped(arrived'[j], delivered'[j], if_last_ts'[j])
  BY <1>2
<1>. QED  BY <1>1, <1>3 DEF RxInv, Flow, Passed, Stamped, Ordered, Distance, Increasing

(* What an interface is known by.                                          *)
LEMMA RxOf ==
  ASSUME RxInv, NEW i \in Ifaces
  PROVE  /\ rx[i] \in RxRings /\ rx[i].ring \in Rings(RxCapacity) /\ arrived[i] \in Seq(Arrivals)
         /\ taken[i] \in Nat /\ if_last_ts[i] \in Nat /\ delivered[i] \in Seq(Nat)
         /\ Len(arrived[i]) \in Nat /\ taken[i] <= Len(arrived[i])
         /\ Flow(RxCapacity, rx[i].ring, taken[i], delivered[i])
         /\ Stamped(arrived[i], delivered[i], if_last_ts[i])
         /\ \A a \in DOMAIN delivered[i] : delivered[i][a] \in 1..Len(arrived[i])
<1>1. /\ rx[i] \in RxRings /\ arrived[i] \in Seq(Arrivals)
      /\ taken[i] \in Nat /\ if_last_ts[i] \in Nat /\ delivered[i] \in Seq(Nat)
  BY DEF RxInv, RxTypes
<1>2. rx[i].ring \in Rings(RxCapacity) /\ Len(arrived[i]) \in Nat
  BY <1>1 DEF RxRings
<1>3. /\ taken[i] <= Len(arrived[i])
      /\ Flow(RxCapacity, rx[i].ring, taken[i], delivered[i])
      /\ Stamped(arrived[i], delivered[i], if_last_ts[i])
  BY DEF RxInv
<1>4. \A a \in DOMAIN delivered[i] : delivered[i][a] \in 1..taken[i]
  BY <1>3 DEF Flow, Passed
<1>5. \A a \in DOMAIN delivered[i] : delivered[i][a] \in 1..Len(arrived[i])
  BY <1>1, <1>2, <1>3, <1>4
<1>. QED  BY <1>1, <1>2, <1>3, <1>5

(* Nothing that RxInv speaks of changes, but for at.                       *)
LEMMA RxFrame ==
  ASSUME RxInv, at' \in Ifaces, UNCHANGED <<rx, arrived, taken, delivered, if_last_ts>>
  PROVE  RxInv'
  BY DEF RxInv, RxTypes, Flow, Passed, Stamped, Ordered, Distance, Increasing

LEMMA Same ==
  ASSUME RxInv, NEW i \in Ifaces
  PROVE  /\ rx = [rx EXCEPT ![i] = rx[i]] /\ arrived = [arrived EXCEPT ![i] = arrived[i]]
         /\ taken = [taken EXCEPT ![i] = taken[i]] /\ if_last_ts = [if_last_ts EXCEPT ![i] = if_last_ts[i]]
         /\ delivered = [delivered EXCEPT ![i] = delivered[i]]
  BY DEF RxInv, RxTypes

LEMMA SkipKeepsRx == ASSUME RxInv, sc_recv_skip PROVE RxInv'
<1>1. at \in Ifaces /\ at' = at
  BY DEF RxInv, RxTypes, sc_recv_skip
<1>2. /\ taken' = [taken EXCEPT ![at] = taken[at] + 1] /\ taken[at] < Len(arrived[at])
      /\ UNCHANGED <<rx, arrived, delivered, if_last_ts>>
  BY DEF sc_recv_skip, Pending
<1>3. taken[at] + 1 \in Nat /\ taken[at] + 1 <= Len(arrived[at])
  BY <1>1, <1>2, RxOf
<1>4. Flow(RxCapacity, rx[at].ring, taken[at] + 1, delivered[at])
  BY <1>1, RxOf, FlowSkip, HalAssumption
<1>5. /\ rx' = [rx EXCEPT ![at] = rx[at]] /\ arrived' = [arrived EXCEPT ![at] = arrived[at]]
      /\ if_last_ts' = [if_last_ts EXCEPT ![at] = if_last_ts[at]]
      /\ delivered' = [delivered EXCEPT ![at] = delivered[at]]
  BY <1>1, <1>2, Same
<1>6. /\ rx[at] \in RxRings /\ arrived[at] \in Seq(Arrivals) /\ if_last_ts[at] \in Nat
      /\ delivered[at] \in Seq(Nat) /\ Stamped(arrived[at], delivered[at], if_last_ts[at])
  BY <1>1, RxOf
<1>7. at' \in Ifaces
  BY <1>1
<1>. QED  BY <1>1, <1>2, <1>3, <1>4, <1>5, <1>6, <1>7, OneRxChanges, Zenon

(* A frame is read from the backend and put in the ring.                   *)
LEMMA StoreKeepsRx ==
  ASSUME RxInv, taken[at] < Len(arrived[at]), ~Full(rx[at].ring)
  PROVE  /\ at' = at
         /\ taken' = [taken EXCEPT ![at] = @ + 1] /\ rx' = [rx EXCEPT ![at].ring = ring_push(@, taken'[at])]
         /\ UNCHANGED <<arrived, delivered, if_last_ts>>
         => RxInv'
<1>. DEFINE x == [ring |-> ring_push(rx[at].ring, taken[at] + 1), dropped |-> rx[at].dropped]
<1>0. SUFFICES ASSUME at' = at,
                      taken' = [taken EXCEPT ![at] = @ + 1],
                      rx' = [rx EXCEPT ![at].ring = ring_push(@, taken'[at])],
                      UNCHANGED <<arrived, delivered, if_last_ts>>
               PROVE  RxInv'
  OBVIOUS
<1>1. at \in Ifaces /\ taken'[at] = taken[at] + 1 /\ taken' = [taken EXCEPT ![at] = taken[at] + 1]
  BY <1>0 DEF RxInv, RxTypes
<1>2. taken[at] + 1 \in Nat /\ taken[at] + 1 <= Len(arrived[at])
  BY <1>1, RxOf
<1>3. ring_push(rx[at].ring, taken[at] + 1) \in Rings(RxCapacity)
      /\ Flow(RxCapacity, ring_push(rx[at].ring, taken[at] + 1), taken[at] + 1, delivered[at])
  BY <1>1, RxOf, FlowPush, HalAssumption
<1>4. rx[at] \in RxRings
  BY <1>1, RxOf
<1>5. x \in RxRings /\ x.ring = ring_push(rx[at].ring, taken[at] + 1)
  BY <1>3, <1>4 DEF RxRings
<1>6. rx' = [rx EXCEPT ![at] = x]
  <2>. DEFINE s == ring_push(rx[at].ring, taken[at] + 1)
  <2>1. rx' = [rx EXCEPT ![at] = [rx[at] EXCEPT !.ring = s]]
    BY <1>0, <1>1
  <2>. HIDE DEF s
  <2>2. [rx[at] EXCEPT !.ring = s] = [ring |-> s, dropped |-> rx[at].dropped]
    BY <1>4 DEF RxRings
  <2>. QED  BY <2>1, <2>2 DEF s
<1>. HIDE DEF x
<1>7. /\ arrived' = [arrived EXCEPT ![at] = arrived[at]]
      /\ if_last_ts' = [if_last_ts EXCEPT ![at] = if_last_ts[at]]
      /\ delivered' = [delivered EXCEPT ![at] = delivered[at]]
  BY <1>0, <1>1, Same
<1>8. /\ arrived[at] \in Seq(Arrivals) /\ if_last_ts[at] \in Nat
      /\ delivered[at] \in Seq(Nat) /\ Stamped(arrived[at], delivered[at], if_last_ts[at])
  BY <1>1, RxOf
<1>9. Flow(RxCapacity, x.ring, taken[at] + 1, delivered[at]) /\ at' \in Ifaces
  BY <1>0, <1>1, <1>3, <1>5
<1>. DEFINE t == taken[at] + 1
<1>10. /\ x \in RxRings /\ at \in Ifaces /\ taken' = [taken EXCEPT ![at] = t]
       /\ t \in Nat /\ t <= Len(arrived[at]) /\ Flow(RxCapacity, x.ring, t, delivered[at]) /\ at' \in Ifaces
  BY <1>1, <1>2, <1>5, <1>9
<1>. HIDE DEF t
<1>. QED  BY <1>6, <1>7, <1>8, <1>10, OneRxChanges, Zenon

(* Only counters of lost frames change.                                    *)
LEMMA CountKeepsRx ==
  ASSUME RxInv, at' \in Ifaces, NEW k \in Nat, rx' = [rx EXCEPT ![at].dropped = k],
         NEW t \in {taken[at], taken[at] + 1}, t <= Len(arrived[at]), taken' = [taken EXCEPT ![at] = t],
         UNCHANGED <<arrived, delivered, if_last_ts>>
  PROVE  RxInv'
<1>. DEFINE x == [ring |-> rx[at].ring, dropped |-> k]
<1>1. at \in Ifaces
  BY DEF RxInv, RxTypes
<1>2. rx[at] \in RxRings
  BY <1>1, RxOf
<1>3. x \in RxRings /\ x.ring = rx[at].ring /\ rx' = [rx EXCEPT ![at] = x]
  <2>1. [rx[at] EXCEPT !.dropped = k] = x /\ x \in RxRings
    BY <1>2 DEF RxRings
  <2>2. rx' = [rx EXCEPT ![at] = [rx[at] EXCEPT !.dropped = k]]
    OBVIOUS
  <2>. QED  BY <2>1, <2>2
<1>4. t \in Nat /\ Flow(RxCapacity, rx[at].ring, t, delivered[at])
  BY <1>1, RxOf, FlowSkip, HalAssumption, SMTT(30)
<1>. HIDE DEF x
<1>5. /\ arrived' = [arrived EXCEPT ![at] = arrived[at]]
      /\ if_last_ts' = [if_last_ts EXCEPT ![at] = if_last_ts[at]]
      /\ delivered' = [delivered EXCEPT ![at] = delivered[at]]
  BY <1>1, Same
<1>6. /\ arrived[at] \in Seq(Arrivals) /\ if_last_ts[at] \in Nat
      /\ delivered[at] \in Seq(Nat) /\ Stamped(arrived[at], delivered[at], if_last_ts[at])
  BY <1>1, RxOf
<1>7. Flow(RxCapacity, x.ring, t, delivered[at])
  BY <1>3, <1>4
<1>. QED  BY <1>1, <1>3, <1>4, <1>5, <1>6, <1>7, OneRxChanges, ZenonT(30)

LEMMA RecvKeepsRx == ASSUME RxInv, sc_recv_data \/ mock_recv PROVE RxInv'
<1>1. at \in Ifaces /\ at' = at /\ UNCHANGED <<arrived, delivered, if_last_ts>> /\ taken[at] < Len(arrived[at])
  BY DEF RxInv, RxTypes, sc_recv_data, mock_recv, Pending
<1>2. CASE ~Full(rx[at].ring)
  <2>1. taken' = [taken EXCEPT ![at] = @ + 1] /\ rx' = [rx EXCEPT ![at].ring = ring_push(@, taken'[at])]
    BY <1>2 DEF sc_recv_data, mock_recv
  <2>. QED  BY <1>1, <1>2, <2>1, StoreKeepsRx
<1>3. CASE Full(rx[at].ring)
  <2>1. rx' = [rx EXCEPT ![at].dropped = rx[at].dropped + 1]
    BY <1>3 DEF sc_recv_data, mock_recv
  <2>2. \/ taken' = [taken EXCEPT ![at] = taken[at] + 1]
        \/ taken' = taken
    BY <1>3 DEF sc_recv_data, mock_recv
  <2>3. rx[at].dropped + 1 \in Nat
    BY <1>1, RxOf DEF RxRings
  <2>4. taken[at] <= Len(arrived[at]) /\ taken[at] + 1 <= Len(arrived[at]) /\ taken = [taken EXCEPT ![at] = taken[at]]
    BY <1>1, RxOf, Same
  <2>. QED  BY <1>1, <2>1, <2>2, <2>3, <2>4, CountKeepsRx
<1>. QED  BY <1>2, <1>3

LEMMA ArriveKeepsRx == ASSUME RxInv, arrive PROVE RxInv'
<1>1. at \in Ifaces /\ at' = at /\ UNCHANGED <<rx, taken, delivered, if_last_ts>>
  BY DEF RxInv, RxTypes, arrive
<1>2. PICK f \in Arrivals : arrived' = [arrived EXCEPT ![at] = Append(arrived[at], f)]
  BY DEF arrive
<1>3. Append(arrived[at], f) \in Seq(Arrivals) /\ Len(Append(arrived[at], f)) = Len(arrived[at]) + 1
  BY <1>1, RxOf
<1>4. taken[at] <= Len(Append(arrived[at], f))
  BY <1>1, <1>3, RxOf
<1>5. Stamped(Append(arrived[at], f), delivered[at], if_last_ts[at])
  BY <1>1, RxOf, StampedArrive
<1>6. /\ rx' = [rx EXCEPT ![at] = rx[at]] /\ taken' = [taken EXCEPT ![at] = taken[at]]
      /\ if_last_ts' = [if_last_ts EXCEPT ![at] = if_last_ts[at]]
      /\ delivered' = [delivered EXCEPT ![at] = delivered[at]]
  BY <1>1, Same
<1>7. /\ rx[at] \in RxRings /\ taken[at] \in Nat /\ if_last_ts[at] \in Nat /\ delivered[at] \in Seq(Nat)
      /\ Flow(RxCapacity, rx[at].ring, taken[at], delivered[at]) /\ at' \in Ifaces
  BY <1>1, RxOf
<1>. DEFINE g == Append(arrived[at], f)
<1>8. arrived' = [arrived EXCEPT ![at] = g] /\ g \in Seq(Arrivals) /\ at \in Ifaces
  BY <1>1, <1>2, <1>3
<1>9. taken[at] <= Len(g) /\ Stamped(g, delivered[at], if_last_ts[at])
  BY <1>4, <1>5
<1>. HIDE DEF g
<1>. QED  BY <1>6, <1>7, <1>8, <1>9, OneRxChanges, Zenon

LEMMA DeliverKeepsRx == ASSUME RxInv, deliver_rx PROVE RxInv'
<1>. DEFINE r == rx[at].ring  n == NextOut(r)  f == arrived[at][n]
            x == [ring |-> ring_pop(r), dropped |-> rx[at].dropped]
<1>1. at \in Ifaces /\ at' = at /\ UNCHANGED <<arrived, taken>> /\ r.count > 0
  BY DEF RxInv, RxTypes, deliver_rx, wire
<1>2. /\ rx' = [rx EXCEPT ![at].ring = ring_pop(rx[at].ring)]
      /\ if_last_ts' = [if_last_ts EXCEPT ![at] = watermark(at, f)]
      /\ delivered' = IF verdict(at, f) = "NONE" THEN [delivered EXCEPT ![at] = Append(delivered[at], n)] ELSE delivered
  BY DEF deliver_rx
<1>3. /\ ring_pop(r) \in Rings(RxCapacity) /\ n \in 1..taken[at] /\ \A a \in DOMAIN delivered[at] : delivered[at][a] < n
      /\ Flow(RxCapacity, ring_pop(r), taken[at], delivered[at])
      /\ Append(delivered[at], n) \in Seq(Nat)
      /\ Flow(RxCapacity, ring_pop(r), taken[at], Append(delivered[at], n))
  BY <1>1, RxOf, FlowPop, HalAssumption
<1>4. n \in 1..Len(arrived[at])
  BY <1>1, <1>3, RxOf
<1>5. rx[at] \in RxRings
  BY <1>1, RxOf
<1>6. x \in RxRings /\ x.ring = ring_pop(r) /\ rx' = [rx EXCEPT ![at] = x]
  <2>. DEFINE s == ring_pop(rx[at].ring)
  <2>1. rx' = [rx EXCEPT ![at] = [rx[at] EXCEPT !.ring = s]] /\ s \in Rings(RxCapacity)
    BY <1>2, <1>3
  <2>. HIDE DEF s
  <2>2. [rx[at] EXCEPT !.ring = s] = [ring |-> s, dropped |-> rx[at].dropped]
    BY <1>5 DEF RxRings
  <2>3. [ring |-> s, dropped |-> rx[at].dropped] \in RxRings
    BY <1>5, <2>1 DEF RxRings
  <2>. QED  BY <2>1, <2>2, <2>3 DEF s
<1>. HIDE DEF x, r, n
<1>9. arrived' = [arrived EXCEPT ![at] = arrived[at]] /\ taken' = [taken EXCEPT ![at] = taken[at]]
  BY <1>1, Same
<1>10. arrived[at] \in Seq(Arrivals) /\ taken[at] \in Nat /\ taken[at] <= Len(arrived[at]) /\ at' \in Ifaces
  BY <1>1, RxOf
<1>7. CASE verdict(at, f) = "NONE"
  <2>. DEFINE w == IF f.ts # 0 THEN f.ts ELSE if_last_ts[at]
  <2>1. ~(f.ts # 0 /\ if_last_ts[at] # 0 /\ f.ts <= if_last_ts[at])
    BY <1>7 DEF verdict
  <2>2. w \in Nat /\ Stamped(arrived[at], Append(delivered[at], n), w)
    BY <1>1, <1>4, <2>1, RxOf, StampedAppend
  <2>3. watermark(at, f) = w
    BY <1>7 DEF watermark
  <2>4. /\ if_last_ts' = [if_last_ts EXCEPT ![at] = w]
        /\ delivered' = [delivered EXCEPT ![at] = Append(delivered[at], n)]
        /\ Flow(RxCapacity, x.ring, taken[at], Append(delivered[at], n))
    BY <1>2, <1>3, <1>6, <1>7, <2>3
  <2>. HIDE DEF w
  <2>. QED  BY <1>1, <1>3, <1>6, <1>9, <1>10, <2>2, <2>4, OneRxChanges, Zenon
<1>8. CASE verdict(at, f) # "NONE"
  <2>1. watermark(at, f) = if_last_ts[at]
    BY <1>8 DEF watermark
  <2>2. /\ if_last_ts' = [if_last_ts EXCEPT ![at] = if_last_ts[at]] /\ if_last_ts[at] \in Nat
        /\ delivered' = [delivered EXCEPT ![at] = delivered[at]] /\ delivered[at] \in Seq(Nat)
        /\ Flow(RxCapacity, x.ring, taken[at], delivered[at]) /\ Stamped(arrived[at], delivered[at], if_last_ts[at])
    BY <1>1, <1>2, <1>3, <1>6, <1>8, <2>1, RxOf, Same
  <2>. QED  BY <1>1, <1>6, <1>9, <1>10, <2>2, OneRxChanges, Zenon
<1>. QED  BY <1>7, <1>8

LEMMA DropsKeepRx == ASSUME RxInv, report_drops, at' \in Ifaces PROVE RxInv'
<1>1. rx' = [rx EXCEPT ![at].dropped = 0] /\ UNCHANGED <<arrived, taken, delivered, if_last_ts>>
  BY DEF report_drops, wire
<1>2. at \in Ifaces
  BY DEF RxInv, RxTypes
<1>3. taken' = [taken EXCEPT ![at] = taken[at]] /\ taken[at] <= Len(arrived[at])
  BY <1>1, <1>2, RxOf, Same
<1>. QED  BY <1>1, <1>3, CountKeepsRx

LEMMA RxInvNext == HalInv /\ RxInv /\ [Next]_vars => RxInv'
<1>. SUFFICES ASSUME HalInv, RxInv, [Next]_vars PROVE RxInv'
  OBVIOUS
<1>1. at' \in Ifaces
  BY HalInvNext DEF HalInv, TxInv
<1>2. CASE open_iface \/ open_failed \/ init_again \/ poll_rx \/ UNCHANGED vars
  <2>1. UNCHANGED <<rx, arrived, taken, delivered, if_last_ts>>
    BY <1>2 DEF open_iface, open_failed, init_again, poll_rx, vars, wire
  <2>. QED  BY <1>1, <2>1, RxFrame
<1>3. CASE recv_nothing \/ sc_recv_down \/ raise_poll_fault \/ deliver_done \/ drain_done \/ raise_tx_fault
  <2>1. UNCHANGED <<rx, arrived, taken, delivered, if_last_ts>>
    BY <1>3 DEF recv_nothing, sc_recv_down, raise_poll_fault, deliver_done, drain_done, raise_tx_fault, wire
  <2>. QED  BY <1>1, <2>1, RxFrame
<1>4. CASE sc_drain_tx \/ mock_drain_tx
  <2>1. UNCHANGED <<rx, arrived, taken, delivered, if_last_ts>>
    BY <1>4 DEF sc_drain_tx, mock_drain_tx, wire
  <2>. QED  BY <1>1, <2>1, RxFrame
<1>5. ASSUME NEW i \in Ifaces, NEW kind, send_tx(i, kind) PROVE RxInv'
  <2>1. UNCHANGED <<rx, arrived, taken, delivered, if_last_ts>>
    BY <1>5 DEF send_tx, send_refused, send_queued, wire
  <2>. QED  BY <1>1, <2>1, RxFrame
<1>. QED
  BY <1>1, <1>2, <1>3, <1>4, <1>5, SkipKeepsRx, RecvKeepsRx, DeliverKeepsRx, DropsKeepRx, ArriveKeepsRx
     DEF Next, Step

LEMMA HalInvAlways == Spec => [](HalInv /\ RxInv)
  BY HalInvInit, RxInvInit, HalInvNext, RxInvNext, PTL DEF Spec

LEMMA RxInvImplies == RxInv => RxInOrder /\ WatermarkExact
<1>. SUFFICES ASSUME RxInv PROVE RxInOrder /\ WatermarkExact
  OBVIOUS
<1>1. ASSUME NEW i \in Ifaces, NEW a \in DOMAIN delivered[i], NEW b \in DOMAIN delivered[i], a < b
      PROVE  LET m == delivered[i][a]  n == delivered[i][b]
             IN m < n /\ (arrived[i][n].ts # 0 => arrived[i][m].ts < arrived[i][n].ts)
  BY <1>1, RxOf DEF Flow, Passed, Stamped, Increasing
<1>2. ASSUME NEW i \in Ifaces
      PROVE  LET stamps == {arrived[i][n].ts : n \in Range(delivered[i])}
             IN if_last_ts[i] \in stamps \cup {0} /\ \A t \in stamps : t <= if_last_ts[i]
  <2>. DEFINE stamps == {arrived[i][n].ts : n \in Range(delivered[i])}
  <2>1. Stamped(arrived[i], delivered[i], if_last_ts[i])
    BY RxOf
  <2>2. Range(delivered[i]) = {delivered[i][a] : a \in DOMAIN delivered[i]}
    BY DEF Range
  <2>3. ASSUME NEW t \in stamps PROVE t <= if_last_ts[i]
    BY <2>1, <2>2 DEF Stamped
  <2>4. if_last_ts[i] # 0 => if_last_ts[i] \in stamps
    BY <2>1, <2>2 DEF Stamped
  <2>. QED  BY <2>3, <2>4
<1>. QED  BY <1>1, <1>2 DEF RxInOrder, WatermarkExact

-----------------------------------------------------------------------------
(* Transmission.                                                           *)

(* sc_drain_tx has put a frame back and the call has still to report it:   *)
(* the ring is not in order any more.                                      *)
Pressing(i) == pc = "raise_tx" /\ at = i /\ fault = "BUS_BACKPRESSURE"

TxPassing(i) ==
  ~pressured[i] => /\ Passed(TxCapacity, tx[i].ring, Len(queued[i]), bus[i])
                   /\ Pressing(i) \/ Ordered(tx[i].ring, TxCapacity)

(* A call that drains a socket has found no fault yet, so the first one is *)
(* the one it reports.                                                     *)
NoFaultYet == backend = "socketcan" /\ pc = "drain" => fault = "NONE"

PressInv ==
  /\ pressured \in [Ifaces -> BOOLEAN] /\ bus \in [Ifaces -> Seq(Nat)]
  /\ NoFaultYet
  /\ \A i \in Ifaces : TxPassing(i)

LEMMA PressInvInit == Init => PressInv
<1>. SUFFICES ASSUME Init PROVE PressInv
  OBVIOUS
<1>. DEFINE r == ring_init(TxCapacity)
<1>1. \A p \in Slots(TxCapacity) : r.slots[p] = 0
  BY HalAssumption DEF ring_init, Slots
<1>2. Ordered(r, TxCapacity)
  BY HalAssumption DEF ring_init, Ordered, Distance, Slots
<1>. HIDE DEF r
<1>3. Passed(TxCapacity, r, 0, <<>>)
  BY <1>1 DEF Passed, Increasing
<1>4. \A i \in Ifaces : tx[i].ring = r /\ queued[i] = <<>> /\ bus[i] = <<>>
  BY DEF Init, r
<1>5. Len(<<>>) = 0 /\ <<>> \in Seq(Nat)
  OBVIOUS
<1>6. \A i \in Ifaces : TxPassing(i)
  BY <1>2, <1>3, <1>4, <1>5 DEF TxPassing
<1>7. pressured \in [Ifaces -> BOOLEAN] /\ bus \in [Ifaces -> Seq(Nat)]
  BY <1>5 DEF Init
<1>. QED  BY <1>6, <1>7 DEF Init, PressInv, NoFaultYet

(* What hal_raise_fault notes.                                             *)
LEMMA RaiseNotes ==
  ASSUME PressInv, NEW i \in Ifaces, NEW f, raise_if_any(i, f) \/ raise_fault(i, f)
  PROVE  /\ pressured' \in [Ifaces -> BOOLEAN]
         /\ \A j \in Ifaces : pressured[j] => pressured'[j]
         /\ f = "BUS_BACKPRESSURE" => pressured'[i]
<1>1. \/ pressured' = pressured /\ f = "NONE"
      \/ pressured' = [pressured EXCEPT ![i] = pressured[i] \/ f = "BUS_BACKPRESSURE"]
  BY DEF raise_if_any, raise_fault
<1>2. pressured \in [Ifaces -> BOOLEAN]
  BY DEF PressInv
<1>. QED  BY <1>1, <1>2

LEMMA PressFrame ==
  ASSUME PressInv, UNCHANGED <<tx, queued, bus>>, pressured' \in [Ifaces -> BOOLEAN], NoFaultYet',
         \A i \in Ifaces : pressured[i] => pressured'[i],
         \A i \in Ifaces : Pressing(i) => pressured'[i]
  PROVE  PressInv'
<1>1. ASSUME NEW i \in Ifaces PROVE TxPassing(i)'
  BY DEF PressInv, TxPassing
<1>. QED  BY <1>1 DEF PressInv

(* The ring or the bus of one interface changes.                           *)
LEMMA OneTxFlows ==
  ASSUME PressInv, NEW i \in Ifaces, pc # "raise_tx",
         pressured' \in [Ifaces -> BOOLEAN], bus' \in [Ifaces -> Seq(Nat)], NoFaultYet',
         \A j \in Ifaces : pressured[j] => pressured'[j],
         \A j \in Ifaces : j # i => tx'[j].ring = tx[j].ring /\ queued'[j] = queued[j] /\ bus'[j] = bus[j],
         TxPassing(i)'
  PROVE  PressInv'
<1>1. ASSUME NEW j \in Ifaces, j # i PROVE TxPassing(j)'
  BY <1>1 DEF PressInv, TxPassing, Pressing
<1>. QED  BY <1>1 DEF PressInv

(* What is known of the interface whose ring is drained.                   *)
LEMMA TxOf ==
  ASSUME HalInv, PressInv, NEW i \in Ifaces
  PROVE  /\ tx[i].ring \in Rings(TxCapacity) /\ Len(queued[i]) \in Nat /\ bus[i] \in Seq(Nat)
         /\ TxCapacity \in Nat \ {0}
         /\ pc # "raise_tx" /\ ~pressured[i] => Flow(TxCapacity, tx[i].ring, Len(queued[i]), bus[i])
<1>1. tx[i].ring \in Rings(TxCapacity) /\ Len(queued[i]) \in Nat
  BY DEF HalInv, TxInv, TxRings
<1>. QED  BY <1>1, HalAssumption DEF PressInv, TxPassing, Pressing, Flow

LEMMA SentFlows ==
  ASSUME HalInv, PressInv, Draining, sent, UNCHANGED <<at, queued, pressured, backend>>
  PROVE  PressInv'
<1>. DEFINE r == tx[at].ring  n == NextOut(r)
<1>1. at \in Ifaces /\ pc = "drain" /\ r.count > 0
  BY DEF HalInv, TxInv, Draining
<1>2. tx' = [tx EXCEPT ![at].ring = ring_pop(@), ![at].sent = @ + 1] /\ bus' = [bus EXCEPT ![at] = Append(@, n)]
  BY DEF sent, Outgoing
<1>3. tx[at] \in TxRings /\ tx \in [Ifaces -> TxRings] /\ bus \in [Ifaces -> Seq(Nat)]
  BY <1>1 DEF HalInv, TxInv, PressInv
<1>4. tx'[at].ring = ring_pop(r)
  BY <1>1, <1>2, <1>3 DEF TxRings
<1>5. bus'[at] = Append(bus[at], n)
  BY <1>1, <1>2, <1>3
<1>6. n \in Nat
  BY <1>1, TxOf, PopKeepsRing
<1>7. bus' \in [Ifaces -> Seq(Nat)]
  BY <1>1, <1>2, <1>3, <1>6
<1>8. ~pressured[at] => Flow(TxCapacity, ring_pop(r), Len(queued[at]), Append(bus[at], n))
  BY <1>1, TxOf, FlowPop
<1>. HIDE DEF r, n
<1>9. TxPassing(at)'
  BY <1>4, <1>5, <1>8 DEF TxPassing, Flow
<1>10. \A j \in Ifaces : j # at => tx'[j].ring = tx[j].ring /\ queued'[j] = queued[j] /\ bus'[j] = bus[j]
  BY <1>2, <1>3
<1>11. NoFaultYet'
  BY DEF NoFaultYet, PressInv, sent
<1>12. pressured' \in [Ifaces -> BOOLEAN] /\ \A j \in Ifaces : pressured[j] => pressured'[j]
  BY DEF PressInv
<1>. QED  BY <1>1, <1>7, <1>9, <1>10, <1>11, <1>12, OneTxFlows

LEMMA DiscardFlows ==
  ASSUME HalInv, PressInv, Draining, discard, UNCHANGED <<at, queued, pressured, backend>>,
         NoFaultYet'
  PROVE  PressInv'
<1>. DEFINE r == tx[at].ring
<1>1. at \in Ifaces /\ pc = "drain" /\ r.count > 0
  BY DEF HalInv, TxInv, Draining
<1>2. tx' = [tx EXCEPT ![at].ring = ring_pop(@), ![at].dropped = @ + 1] /\ bus' = bus
  BY DEF discard
<1>3. tx[at] \in TxRings /\ tx \in [Ifaces -> TxRings] /\ bus \in [Ifaces -> Seq(Nat)]
  BY <1>1 DEF HalInv, TxInv, PressInv
<1>4. tx'[at].ring = ring_pop(r)
  BY <1>1, <1>2, <1>3 DEF TxRings
<1>5. ~pressured[at] => Flow(TxCapacity, ring_pop(r), Len(queued[at]), bus[at])
  BY <1>1, TxOf, FlowPop
<1>. HIDE DEF r
<1>6. TxPassing(at)'
  BY <1>2, <1>4, <1>5 DEF TxPassing, Flow
<1>7. \A j \in Ifaces : j # at => tx'[j].ring = tx[j].ring /\ queued'[j] = queued[j] /\ bus'[j] = bus[j]
  BY <1>2, <1>3
<1>8. pressured' \in [Ifaces -> BOOLEAN] /\ \A j \in Ifaces : pressured[j] => pressured'[j]
  BY DEF PressInv
<1>. QED  BY <1>1, <1>2, <1>3, <1>6, <1>7, <1>8, OneTxFlows

LEMMA BackpressureFlows ==
  ASSUME HalInv, PressInv, Draining, backpressure, backend = "socketcan",
         UNCHANGED <<at, queued, pressured, backend>>
  PROVE  PressInv'
<1>. DEFINE r == tx[at].ring  back == push_back(ring_pop(r), NextOut(r))
<1>1. at \in Ifaces /\ pc = "drain"
  BY DEF HalInv, TxInv, Draining
<1>2. tx' = [tx EXCEPT ![at].ring = back] /\ bus' = bus
  BY DEF backpressure, Outgoing
<1>3. tx[at] \in TxRings /\ tx \in [Ifaces -> TxRings] /\ bus \in [Ifaces -> Seq(Nat)]
  BY <1>1 DEF HalInv, TxInv, PressInv
<1>4. back.slots = r.slots
  BY <1>1, TxOf, PushedBack
<1>. HIDE DEF back
<1>5. tx'[at].ring = back
  BY <1>1, <1>2, <1>3 DEF TxRings
<1>6. fault = "NONE"
  BY <1>1 DEF PressInv, NoFaultYet
<1>7. pc' = "raise_tx" /\ fault' = "BUS_BACKPRESSURE"
  BY <1>6 DEF backpressure, set_fault
<1>8. ~pressured[at] => Passed(TxCapacity, r, Len(queued[at]), bus[at])
  BY <1>1, TxOf DEF Flow
<1>9. ~pressured[at] => Passed(TxCapacity, back, Len(queued[at]), bus[at])
  BY <1>4, <1>8 DEF Passed
<1>. HIDE DEF r
<1>10. TxPassing(at)'
  BY <1>2, <1>5, <1>7, <1>9 DEF TxPassing, Pressing
<1>11. \A j \in Ifaces : j # at => tx'[j].ring = tx[j].ring /\ queued'[j] = queued[j] /\ bus'[j] = bus[j]
  BY <1>2, <1>3
<1>12. pressured' \in [Ifaces -> BOOLEAN] /\ \A j \in Ifaces : pressured[j] => pressured'[j]
  BY DEF PressInv
<1>13. NoFaultYet'
  BY <1>7 DEF NoFaultYet
<1>. QED  BY <1>1, <1>2, <1>3, <1>10, <1>11, <1>12, <1>13, OneTxFlows

LEMMA RefusedFlows ==
  ASSUME HalInv, PressInv, NEW i \in Ifaces, NEW kind, send_refused(i, kind)
  PROVE  PressInv'
<1>1. /\ pc = "idle" /\ UNCHANGED <<queued, bus, fault, pc, backend>>
      /\ raise_fault(i, send_fault(i, kind))
      /\ tx' = tx \/ tx' = [tx EXCEPT ![i].tx_total = @ + 1, ![i].dropped = @ + 1]
  BY DEF send_refused
<1>2. tx \in [Ifaces -> TxRings] /\ bus \in [Ifaces -> Seq(Nat)]
  BY DEF HalInv, TxInv, PressInv
<1>3. \A j \in Ifaces : tx'[j].ring = tx[j].ring
  BY <1>1, <1>2 DEF TxRings
<1>4. pressured' \in [Ifaces -> BOOLEAN] /\ \A j \in Ifaces : pressured[j] => pressured'[j]
  BY <1>1, RaiseNotes
<1>5. NoFaultYet'
  BY <1>1 DEF NoFaultYet
<1>6. TxPassing(i)'
  BY <1>1, <1>3, <1>4 DEF PressInv, TxPassing, Pressing
<1>. QED  BY <1>1, <1>2, <1>3, <1>4, <1>5, <1>6, OneTxFlows

LEMMA QueuedFlows ==
  ASSUME HalInv, PressInv, NEW i \in Ifaces, NEW kind \in SentKinds, send_queued(i, kind)
  PROVE  PressInv'
<1>. DEFINE r == tx[i].ring  q == Len(queued[i])
<1>1. /\ pc = "idle" /\ pc' = "drain" /\ UNCHANGED <<bus, pressured, backend>> /\ fault' \in FirstFault
      /\ queued' = [queued EXCEPT ![i] = Append(queued[i], kind)]
      /\ tx' = [tx EXCEPT ![i].tx_total = @ + 1, ![i].ring = ring_push(@, Len(queued'[i]))]
  BY DEF send_queued
<1>2. ~Full(r)
  BY DEF send_queued, send_fault
<1>3. tx \in [Ifaces -> TxRings] /\ bus \in [Ifaces -> Seq(Nat)] /\ queued \in [Ifaces -> Seq(SentKinds)]
  BY DEF HalInv, TxInv, PressInv
<1>4. queued'[i] = Append(queued[i], kind) /\ Len(queued'[i]) = q + 1
  BY <1>1, <1>3
<1>5. tx'[i].ring = ring_push(r, q + 1)
  BY <1>1, <1>3, <1>4 DEF TxRings
<1>6. ~pressured[i] => Flow(TxCapacity, ring_push(r, q + 1), q + 1, bus[i])
  BY <1>1, <1>2, TxOf, FlowPush
<1>. HIDE DEF r, q
<1>7. TxPassing(i)'
  BY <1>1, <1>4, <1>5, <1>6 DEF TxPassing, Flow
<1>8. \A j \in Ifaces : j # i => tx'[j].ring = tx[j].ring /\ queued'[j] = queued[j] /\ bus'[j] = bus[j]
  BY <1>1, <1>3
<1>9. pressured' \in [Ifaces -> BOOLEAN] /\ \A j \in Ifaces : pressured[j] => pressured'[j]
  BY <1>1 DEF PressInv
<1>10. NoFaultYet'
  BY <1>1 DEF NoFaultYet, FirstFault
<1>. QED  BY <1>1, <1>3, <1>7, <1>8, <1>9, <1>10, OneTxFlows

LEMMA PressInvNext == HalInv /\ PressInv /\ [Next]_vars => PressInv'
<1>. SUFFICES ASSUME HalInv, PressInv, [Next]_vars PROVE PressInv'
  OBVIOUS
<1>0. /\ at \in Ifaces
      /\ pressured' = pressured => pressured' \in [Ifaces -> BOOLEAN] /\ \A i \in Ifaces : pressured[i] => pressured'[i]
  BY DEF HalInv, TxInv, PressInv
<1>1. CASE UNCHANGED vars
  <2>1. UNCHANGED <<tx, queued, bus, pressured, pc, at, fault, backend>>
    BY <1>1 DEF vars
  <2>. QED  BY <2>1 DEF PressInv, TxPassing, Pressing, NoFaultYet
<1>2. CASE open_iface \/ open_failed \/ init_again \/ poll_rx \/ arrive
  <2>1. UNCHANGED <<tx, queued, bus, pressured, backend>> /\ pc # "raise_tx" /\ pc' # "drain"
    BY <1>2 DEF open_iface, open_failed, init_again, poll_rx, arrive
  <2>. QED  BY <1>0, <2>1, PressFrame DEF Pressing, NoFaultYet
<1>3. CASE sc_recv_skip \/ sc_recv_data \/ mock_recv \/ recv_nothing \/ sc_recv_down
  <2>1. UNCHANGED <<tx, queued, bus, pressured, backend>> /\ pc # "raise_tx" /\ pc' # "drain"
    BY <1>3 DEF sc_recv_skip, sc_recv_data, mock_recv, recv_nothing, sc_recv_down
  <2>. QED  BY <1>0, <2>1, PressFrame DEF Pressing, NoFaultYet
<1>4. CASE deliver_done \/ drain_done
  <2>1. UNCHANGED <<tx, queued, bus, pressured, backend>> /\ pc # "raise_tx"
    BY <1>4 DEF deliver_done, drain_done
  <2>2. NoFaultYet'
    BY <1>4 DEF deliver_done, drain_done, NoFaultYet, FirstFault
  <2>. QED  BY <1>0, <2>1, <2>2, PressFrame DEF Pressing
<1>5. ASSUME NEW f, UNCHANGED <<tx, queued, bus, backend>>, raise_if_any(at, f), pc' # "drain",
             pc = "raise_tx" => f = fault
      PROVE  PressInv'
  <2>1. /\ pressured' \in [Ifaces -> BOOLEAN] /\ \A i \in Ifaces : pressured[i] => pressured'[i]
        /\ f = "BUS_BACKPRESSURE" => pressured'[at]
    BY <1>0, <1>5, RaiseNotes
  <2>2. \A i \in Ifaces : Pressing(i) => pressured'[i]
    BY <1>5, <2>1 DEF Pressing
  <2>. QED  BY <1>5, <2>1, <2>2, PressFrame DEF NoFaultYet
<1>6. CASE raise_poll_fault \/ raise_tx_fault
  <2>1. UNCHANGED <<tx, queued, bus, backend>> /\ raise_if_any(at, fault) /\ pc' # "drain"
    BY <1>6 DEF raise_poll_fault, raise_tx_fault
  <2>. QED  BY <1>5, <2>1
<1>7. CASE report_drops
  <2>1. /\ UNCHANGED <<tx, queued, bus, backend>> /\ pc' # "drain" /\ pc # "raise_tx"
        /\ raise_if_any(at, IF rx[at].dropped > 0 THEN "RX_RING_OVERFLOW" ELSE "NONE")
    BY <1>7 DEF report_drops
  <2>. QED  BY <1>5, <2>1
<1>8. CASE deliver_rx
  <2>1. UNCHANGED <<tx, queued, bus, backend>> /\ pc' # "drain" /\ pc # "raise_tx"
    BY <1>8 DEF deliver_rx
  <2>2. PICK f : raise_if_any(at, f)
    BY <1>8 DEF deliver_rx
  <2>. QED  BY <1>5, <2>1, <2>2
<1>9. CASE sc_drain_tx
  <2>1. UNCHANGED <<at, queued, pressured, backend>> /\ Draining /\ backend = "socketcan"
    BY <1>9 DEF sc_drain_tx
  <2>2. sent \/ backpressure \/ (discard /\ pc' = "raise_tx") \/ (discard /\ UNCHANGED <<pc, fault>>)
    BY <1>9 DEF sc_drain_tx
  <2>3. CASE discard /\ (pc' = "raise_tx" \/ UNCHANGED <<pc, fault>>)
    <3>1. NoFaultYet'
      BY <2>1, <2>3 DEF PressInv, NoFaultYet
    <3>. QED  BY <2>1, <2>3, <3>1, DiscardFlows
  <2>. QED  BY <2>1, <2>2, <2>3, SentFlows, BackpressureFlows
<1>10. CASE mock_drain_tx
  <2>1. UNCHANGED <<at, queued, pressured, backend>> /\ Draining /\ backend = "mock"
    BY <1>10 DEF mock_drain_tx
  <2>2. sent \/ discard
    BY <1>10 DEF mock_drain_tx
  <2>3. NoFaultYet'
    BY <2>1 DEF NoFaultYet
  <2>. QED  BY <2>1, <2>2, <2>3, SentFlows, DiscardFlows
<1>11. ASSUME NEW i \in Ifaces, NEW kind \in SentKinds, send_tx(i, kind) PROVE PressInv'
  BY <1>11, RefusedFlows, QueuedFlows DEF send_tx
<1>. QED
  BY <1>1, <1>2, <1>3, <1>4, <1>6, <1>7, <1>8, <1>9, <1>10, <1>11 DEF Next, Step, SentKinds

LEMMA PressInvImplies == HalInv /\ PressInv => InOrderUntilPressure
<1>. SUFFICES ASSUME HalInv, PressInv, NEW i \in Ifaces, ~pressured[i]
              PROVE  /\ Increasing(bus[i]) /\ 0 \notin Range(bus[i])
                     /\ \A n \in Range(tx[i].ring.slots) \ {0} : \A m \in Range(bus[i]) : m < n
  BY DEF InOrderUntilPressure
<1>1. Passed(TxCapacity, tx[i].ring, Len(queued[i]), bus[i])
  BY DEF PressInv, TxPassing
<1>2. tx[i].ring.slots \in [Slots(TxCapacity) -> Nat]
  BY TxOf DEF Rings, Slots
<1>3. /\ Range(bus[i]) = {bus[i][a] : a \in DOMAIN bus[i]}
      /\ Range(tx[i].ring.slots) = {tx[i].ring.slots[p] : p \in Slots(TxCapacity)}
  BY <1>2 DEF Range
<1>4. 0 \notin Range(bus[i])
  BY <1>1, <1>3 DEF Passed
<1>5. ASSUME NEW n \in Range(tx[i].ring.slots) \ {0}, NEW m \in Range(bus[i]) PROVE m < n
  BY <1>1, <1>3, <1>5 DEF Passed
<1>. QED  BY <1>1, <1>4, <1>5 DEF Passed

(* On every interface, for any number of them, any ring sizes, arrivals    *)
(* and results of the system calls, frames become events in the order of   *)
(* their arrival with increasing timestamps, the watermark is exact, and   *)
(* frames are sent in the order they were queued in until back-pressure is *)
(* reported (hal_deliver_rx, hal_send_tx, sc_drain_tx, mock_hal_drain_tx). *)
THEOREM FramesInOrderCorrect == Spec => []FramesInOrder
<1>1. HalInv /\ RxInv /\ PressInv => FramesInOrder
  BY RxInvImplies, PressInvImplies DEF FramesInOrder
<1>. QED  BY <1>1, HalInvAlways, PressInvInit, PressInvNext, PTL DEF Spec

-----------------------------------------------------------------------------
(* Losses.  A frame that was read is kept: it is in the ring, delivered,   *)
(* accounted for by a fault, or a notice; or the running call still owes a *)
(* fault for it.                                                           *)
Owing(i) == at = i /\ pc \in {"recv", "raise"} /\ fault # "NONE"

Kept(i, n) ==
  \/ n \in accounted[i]
  \/ arrived[i][n].kind = "notice"
  \/ \E a \in DOMAIN delivered[i] : delivered[i][a] = n
  \/ \E p \in Slots(RxCapacity) : rx[i].ring.slots[p] = n

AllKept(i) == \A n \in 1..taken[i] : Kept(i, n)

(* Only the interface that is polled has frames in its RX ring.            *)
Polling == pc \in {"recv", "raise", "deliver"}
Emptied(i) == (Polling /\ at = i) \/ rx[i].ring.count = 0

LossInv == \A i \in Ifaces : (Owing(i) \/ AllKept(i)) /\ Emptied(i)

LEMMA LossInvInit == Init => LossInv
<1>. SUFFICES ASSUME Init, NEW i \in Ifaces PROVE AllKept(i) /\ rx[i].ring.count = 0
  BY DEF LossInv, Emptied
<1>1. taken[i] = 0 /\ rx[i].ring.count = 0
  BY DEF Init, ring_init
<1>. QED  BY <1>1 DEF AllKept

(* Nothing happens to an interface, or frames arrive on it.                *)
LEMMA KeptStays ==
  ASSUME RxInv, NEW i \in Ifaces, AllKept(i), taken'[i] = taken[i], accounted'[i] = accounted[i],
         \A n \in 1..taken[i] : arrived'[i][n] = arrived[i][n],
         delivered'[i] = delivered[i], rx'[i].ring.slots = rx[i].ring.slots
  PROVE  AllKept(i)'
<1>. SUFFICES ASSUME NEW n \in 1..taken[i] PROVE Kept(i, n)'
  BY DEF AllKept
<1>1. Kept(i, n)
  BY DEF AllKept
<1>. QED  BY <1>1 DEF Kept

(* hal_raise_fault accounts for all that is lost.                          *)
LEMMA RaisedSettles ==
  ASSUME RxInv', NEW i \in Ifaces, NEW f, raise_fault(i, f)
  PROVE  AllKept(i)'
<1>. SUFFICES ASSUME NEW n \in 1..taken'[i] PROVE Kept(i, n)'
  BY DEF AllKept
<1>1. accounted'[i] = (1..taken'[i]) \ (Range(delivered'[i]) \cup Range(rx'[i].ring.slots))
  BY DEF raise_fault, Lost
<1>2. DOMAIN rx'[i].ring.slots = Slots(RxCapacity)
  BY DEF RxInv, RxTypes, RxRings, Rings, Slots
<1>3. n \in Range(delivered'[i]) => \E a \in DOMAIN delivered'[i] : delivered'[i][a] = n
  BY DEF Range
<1>4. n \in Range(rx'[i].ring.slots) => \E p \in Slots(RxCapacity) : rx'[i].ring.slots[p] = n
  BY <1>2 DEF Range
<1>. QED  BY <1>1, <1>3, <1>4 DEF Kept

LEMMA RaiseIfAnySettles ==
  ASSUME RxInv', NEW i \in Ifaces, NEW f, raise_if_any(i, f)
  PROVE  /\ \A j \in Ifaces : j # i => accounted'[j] = accounted[j]
         /\ f # "NONE" => AllKept(i)'
         /\ f = "NONE" => accounted'[i] = accounted[i]
<1>1. CASE f = "NONE"
  BY <1>1 DEF raise_if_any
<1>2. CASE f # "NONE"
  BY <1>2, RaisedSettles DEF raise_if_any, raise_fault
<1>. QED  BY <1>1, <1>2

(* Steps after reception that at most raise a fault.                       *)
LEMMA QuietKeeps ==
  ASSUME RxInv, LossInv, UNCHANGED <<taken, arrived, delivered>>, pc \notin {"recv", "raise"},
         \A j \in Ifaces : rx'[j].ring = rx[j].ring,
         \A j \in Ifaces : accounted'[j] = accounted[j] \/ AllKept(j)',
         \A j \in Ifaces : Emptied(j)'
  PROVE  LossInv'
<1>1. ASSUME NEW j \in Ifaces PROVE AllKept(j)'
  <2>1. AllKept(j)
    BY DEF LossInv, Owing
  <2>. QED  BY <2>1, KeptStays
<1>. QED  BY <1>1 DEF LossInv

LEMMA NotPollingEmpty ==
  ASSUME LossInv, ~Polling, NEW j \in Ifaces, rx'[j].ring = rx[j].ring
  PROVE  Emptied(j)'
  BY DEF LossInv, Emptied

(* A step of the polling loop at interface at.                             *)
LEMMA PollKeeps ==
  ASSUME RxInv, LossInv, at \in Ifaces, at' = at, Polling', Polling,
         \A j \in Ifaces : j # at => /\ taken'[j] = taken[j] /\ arrived'[j] = arrived[j]
                                     /\ delivered'[j] = delivered[j] /\ rx'[j].ring = rx[j].ring
                                     /\ accounted'[j] = accounted[j],
         Owing(at)' \/ AllKept(at)'
  PROVE  LossInv'
<1>1. ASSUME NEW j \in Ifaces, j # at PROVE AllKept(j)' /\ Emptied(j)'
  <2>1. AllKept(j) /\ rx[j].ring.count = 0
    BY <1>1 DEF LossInv, Owing, Emptied
  <2>. QED  BY <1>1, <2>1, KeptStays DEF Emptied
<1>2. Emptied(at)'
  BY DEF Emptied
<1>. QED  BY <1>1, <1>2 DEF LossInv

(* A frame is stored: what was kept is kept, and so is the new one.        *)
LEMMA StoreLoses ==
  ASSUME RxInv, NEW i \in Ifaces, AllKept(i), ~Full(rx[i].ring)
  PROVE  /\ taken'[i] = taken[i] + 1 /\ rx'[i].ring = ring_push(rx[i].ring, taken[i] + 1)
         /\ UNCHANGED <<arrived, delivered, accounted>>
         => AllKept(i)'
<1>0. SUFFICES ASSUME taken'[i] = taken[i] + 1, rx'[i].ring = ring_push(rx[i].ring, taken[i] + 1),
                      UNCHANGED <<arrived, delivered, accounted>>
               PROVE  AllKept(i)'
  OBVIOUS
<1>. DEFINE r == rx[i].ring  t == taken[i]  s == ring_push(r, t + 1)  S == Slots(RxCapacity)
<1>1. t \in Nat /\ r \in Rings(RxCapacity) /\ Ordered(r, RxCapacity) /\ \A p \in S : r.slots[p] <= t
  BY RxOf DEF Flow, Passed
<1>2. \A p \in S : r.slots[p] \in Nat
  BY <1>1 DEF Rings, Slots
<1>3. \A p \in S : r.slots[p] < t + 1
  BY <1>1, <1>2
<1>4. (\E p \in S : s.slots[p] = t + 1) /\ \A p \in S : r.slots[p] # 0 => s.slots[p] = r.slots[p]
  BY <1>1, <1>3, PushOrdered, HalAssumption
<1>5. rx'[i].ring = s
  BY <1>0
<1>. HIDE DEF s, S, r, t
<1>7. ASSUME NEW n \in 1..(t + 1) PROVE Kept(i, n)'
  <2>1. CASE n = t + 1
    BY <1>4, <1>5, <2>1 DEF Kept, S
  <2>2. CASE n # t + 1
    <3>1. n \in 1..t /\ n # 0
      BY <1>1, <1>7, <2>2
    <3>2. Kept(i, n)
      BY <3>1 DEF AllKept, t
    <3>3. CASE \E p \in S : r.slots[p] = n
      BY <1>4, <1>5, <3>1, <3>3 DEF Kept, S
    <3>4. CASE ~ \E p \in S : r.slots[p] = n
      BY <1>0, <3>2, <3>4 DEF Kept, r, S
    <3>. QED  BY <3>3, <3>4
  <2>. QED  BY <2>1, <2>2
<1>. QED  BY <1>0, <1>7 DEF AllKept, t

(* A notice is skipped.                                                    *)
LEMMA SkipLoses ==
  ASSUME RxInv, NEW i \in Ifaces, AllKept(i), taken'[i] = taken[i] + 1,
         arrived[i][taken[i] + 1].kind = "notice",
         UNCHANGED <<rx, arrived, delivered, accounted>>
  PROVE  AllKept(i)'
<1>1. taken[i] \in Nat
  BY RxOf
<1>2. ASSUME NEW n \in 1..(taken[i] + 1) PROVE Kept(i, n)'
  <2>1. CASE n = taken[i] + 1
    BY <2>1 DEF Kept
  <2>2. CASE n # taken[i] + 1
    <3>1. n \in 1..taken[i]
      BY <1>1, <1>2, <2>2
    <3>2. Kept(i, n)
      BY <3>1 DEF AllKept
    <3>. QED  BY <3>2 DEF Kept
  <2>. QED  BY <2>1, <2>2
<1>. QED  BY <1>2 DEF AllKept

(* A frame leaves the ring for the event queue.                            *)
LEMMA DeliveredKeeps ==
  ASSUME RxInv, NEW i \in Ifaces, AllKept(i), rx[i].ring.count > 0
  PROVE  /\ rx'[i].ring = ring_pop(rx[i].ring)
         /\ delivered'[i] = Append(delivered[i], NextOut(rx[i].ring))
         /\ UNCHANGED <<taken, arrived, accounted>>
         => AllKept(i)'
<1>. DEFINE r == rx[i].ring  s == ring_pop(r)  m == NextOut(r)  d == delivered[i]  S == Slots(RxCapacity)
<1>0. SUFFICES ASSUME rx'[i].ring = s, delivered'[i] = Append(d, m), UNCHANGED <<taken, arrived, accounted>>
               PROVE  AllKept(i)'
  OBVIOUS
<1>1. r \in Rings(RxCapacity) /\ Ordered(r, RxCapacity) /\ d \in Seq(Nat)
  BY RxOf DEF Flow
<1>2. \A p \in S : r.slots[p] = m \/ s.slots[p] = r.slots[p]
  BY <1>1, PopOrdered, HalAssumption
<1>. HIDE DEF s, S, r, m, d
<1>3. m \in Nat
  BY <1>1, PopKeepsRing, HalAssumption DEF r, m
<1>4. (\E a \in DOMAIN delivered'[i] : delivered'[i][a] = m)
      /\ \A a \in DOMAIN d : a \in DOMAIN delivered'[i] /\ delivered'[i][a] = d[a]
  <2>1. delivered'[i][Len(d) + 1] = m /\ Len(d) + 1 \in DOMAIN delivered'[i]
    BY <1>0, <1>1, <1>3
  <2>. QED  BY <1>0, <1>1, <1>3, <2>1
<1>5. ASSUME NEW n \in 1..taken[i] PROVE Kept(i, n)'
  <2>1. Kept(i, n)
    BY DEF AllKept
  <2>2. CASE \E p \in S : r.slots[p] = n
    BY <1>0, <1>2, <1>4, <2>2 DEF Kept, S
  <2>3. CASE ~ \E p \in S : r.slots[p] = n
    BY <1>0, <1>4, <2>1, <2>3 DEF Kept, r, S, d
  <2>. QED  BY <2>2, <2>3
<1>. QED  BY <1>0, <1>5 DEF AllKept

(* Each step of the polling loop.                                          *)
LEMMA SkipLossInv == ASSUME RxInv, LossInv, sc_recv_skip PROVE LossInv'
<1>0. at \in Ifaces /\ taken \in [Ifaces -> Nat]
  BY DEF RxInv, RxTypes
<1>1. /\ at' = at /\ Polling /\ Polling' /\ pc' = pc /\ pc = "recv"
      /\ taken' = [taken EXCEPT ![at] = @ + 1] /\ UNCHANGED <<rx, arrived, delivered, accounted>>
      /\ fault' = set_fault(wire_fault(Incoming)) /\ ~IsData(Incoming)
  BY DEF sc_recv_skip, Polling
<1>2. taken'[at] = taken[at] + 1
  BY <1>0, <1>1
<1>3. CASE fault' # "NONE"
  BY <1>0, <1>1, <1>3, PollKeeps DEF Owing
<1>4. CASE fault' = "NONE"
  <2>1. fault = "NONE" /\ wire_fault(Incoming) = "NONE"
    BY <1>1, <1>4 DEF set_fault
  <2>2. arrived[at][taken[at] + 1].kind = "notice"
    BY <1>1, <2>1 DEF IsData, Incoming
  <2>3. AllKept(at)
    BY <1>0, <2>1 DEF LossInv, Owing
  <2>4. \A i \in Ifaces : i = at => AllKept(i)'
    BY <1>1, <1>2, <2>2, <2>3, SkipLoses
  <2>5. AllKept(at)'
    BY <1>0, <1>1, <2>4
  <2>. QED  BY <1>0, <1>1, <2>5, PollKeeps
<1>. QED  BY <1>3, <1>4

LEMMA RecvLossInv == ASSUME RxInv, LossInv, sc_recv_data \/ mock_recv PROVE LossInv'
<1>0. at \in Ifaces /\ taken \in [Ifaces -> Nat] /\ rx \in [Ifaces -> RxRings]
  BY DEF RxInv, RxTypes
<1>1. /\ at' = at /\ Polling /\ Polling' /\ pc = "recv" /\ pc' \in {"recv", "raise"}
      /\ UNCHANGED <<arrived, delivered, accounted>>
  BY DEF sc_recv_data, mock_recv, Polling
<1>2. /\ \A j \in Ifaces : j # at => taken'[j] = taken[j] /\ rx'[j].ring = rx[j].ring
      /\ fault # "NONE" => fault' # "NONE"
  BY <1>0 DEF sc_recv_data, mock_recv, set_fault
<1>3. CASE fault' # "NONE"
  BY <1>0, <1>1, <1>2, <1>3, PollKeeps DEF Owing
<1>4. CASE fault' = "NONE"
  <2>1. fault = "NONE"
    BY <1>2, <1>4
  <2>2. AllKept(at)
    BY <1>0, <2>1 DEF LossInv, Owing
  <2>3. CASE Full(rx[at].ring)
    <3>1. taken' = taken /\ rx' = [rx EXCEPT ![at].dropped = @ + 1]
      BY <1>4, <2>1, <2>3 DEF sc_recv_data, mock_recv, set_fault
    <3>2. rx'[at].ring = rx[at].ring
      BY <1>0, <3>1 DEF RxRings
    <3>3. \A i \in Ifaces : i = at => AllKept(i)'
      BY <1>1, <2>2, <3>1, <3>2, KeptStays
    <3>4. AllKept(at)'
      BY <1>0, <1>1, <3>3
    <3>. QED  BY <1>0, <1>1, <1>2, <3>4, PollKeeps
  <2>4. CASE ~Full(rx[at].ring)
    <3>1. /\ taken' = [taken EXCEPT ![at] = @ + 1]
          /\ rx' = [rx EXCEPT ![at].ring = ring_push(@, taken'[at])]
      BY <2>4 DEF sc_recv_data, mock_recv
    <3>2. taken'[at] = taken[at] + 1
      BY <1>0, <3>1
    <3>3. rx'[at].ring = ring_push(rx[at].ring, taken[at] + 1)
      BY <1>0, <3>1, <3>2 DEF RxRings
    <3>4. \A i \in Ifaces : i = at => AllKept(i)'
      BY <1>1, <2>2, <2>4, <3>2, <3>3, StoreLoses
    <3>5. AllKept(at)'
      BY <1>0, <1>1, <3>4
    <3>. QED  BY <1>0, <1>1, <1>2, <3>5, PollKeeps
  <2>. QED  BY <2>3, <2>4
<1>. QED  BY <1>3, <1>4

(* Arrivals, the end of reception, and the fault it found.                 *)
LEMMA EndLossInv ==
  ASSUME RxInv, RxInv', LossInv, arrive \/ recv_nothing \/ sc_recv_down \/ raise_poll_fault
  PROVE  LossInv'
<1>0. at \in Ifaces /\ arrived \in [Ifaces -> Seq(Arrivals)]
  BY DEF RxInv, RxTypes
<1>1. /\ at' = at /\ Polling /\ Polling' /\ UNCHANGED <<rx, taken, delivered>>
  BY DEF arrive, recv_nothing, sc_recv_down, raise_poll_fault, Polling, wire
<1>2. \A j \in Ifaces : j # at => accounted'[j] = accounted[j] /\ arrived'[j] = arrived[j]
  <2>1. CASE raise_poll_fault
    BY <1>0, <2>1, RaiseIfAnySettles DEF raise_poll_fault, wire
  <2>2. CASE arrive \/ recv_nothing \/ sc_recv_down
    BY <1>0, <2>2 DEF arrive, recv_nothing, sc_recv_down, wire
  <2>. QED  BY <2>1, <2>2
<1>3. AllKept(at) /\ accounted' = accounted => AllKept(at)'
  <2>1. \A n \in 1..taken[at] : arrived'[at][n] = arrived[at][n]
    <3>1. CASE arrive
      <4>1. PICK f \in Arrivals : arrived' = [arrived EXCEPT ![at] = Append(@, f)]
        BY <3>1 DEF arrive
      <4>2. arrived'[at] = Append(arrived[at], f) /\ arrived[at] \in Seq(Arrivals)
        BY <1>0, <4>1
      <4>3. \A n \in 1..taken[at] : n \in 1..Len(arrived[at])
        BY <1>0, RxOf
      <4>. QED  BY <4>2, <4>3
    <3>2. CASE recv_nothing \/ sc_recv_down \/ raise_poll_fault
      BY <3>2 DEF recv_nothing, sc_recv_down, raise_poll_fault, wire
    <3>. QED  BY <3>1, <3>2
  <2>2. \A i \in Ifaces : i = at /\ AllKept(i) /\ accounted' = accounted => AllKept(i)'
    BY <1>1, <2>1, KeptStays
  <2>. QED  BY <1>0, <1>1, <2>2
<1>4. Owing(at)' \/ AllKept(at)'
  <2>1. CASE arrive \/ recv_nothing
    <3>1. accounted' = accounted /\ fault' = fault /\ pc' \in {"recv", "raise"} /\ pc \in {"recv", "raise"}
      BY <2>1 DEF arrive, recv_nothing
    <3>. QED  BY <1>0, <1>1, <1>3, <3>1 DEF LossInv, Owing
  <2>2. CASE sc_recv_down
    BY <1>1, <2>2 DEF sc_recv_down, Owing
  <2>3. CASE raise_poll_fault
    <3>1. pc = "raise" /\ raise_if_any(at, fault)
      BY <2>3 DEF raise_poll_fault
    <3>2. CASE fault = "NONE"
      BY <1>0, <1>3, <3>1, <3>2 DEF LossInv, Owing, raise_if_any
    <3>3. CASE fault # "NONE"
      <4>1. \A i \in Ifaces : i = at => AllKept(i)'
        BY <3>1, <3>3, RaiseIfAnySettles
      <4>. QED  BY <1>0, <1>1, <4>1
    <3>. QED  BY <3>2, <3>3
  <2>. QED  BY <2>1, <2>2, <2>3
<1>. QED  BY <1>0, <1>1, <1>2, <1>4, PollKeeps

LEMMA DeliverLossInv == ASSUME RxInv, RxInv', LossInv, deliver_rx PROVE LossInv'
<1>. DEFINE n == NextOut(rx[at].ring)  v == verdict(at, arrived[at][n])
<1>0. at \in Ifaces /\ rx \in [Ifaces -> RxRings] /\ delivered \in [Ifaces -> Seq(Nat)]
  BY DEF RxInv, RxTypes
<1>1. /\ at' = at /\ Polling /\ Polling' /\ pc = "deliver" /\ rx[at].ring.count > 0
      /\ UNCHANGED <<taken, arrived>> /\ raise_if_any(at, v)
      /\ rx' = [rx EXCEPT ![at].ring = ring_pop(@)]
      /\ v = "NONE" => delivered' = [delivered EXCEPT ![at] = Append(@, n)]
      /\ v # "NONE" => delivered' = delivered
  BY DEF deliver_rx, Polling, wire
<1>. HIDE DEF n, v
<1>2. AllKept(at)
  BY <1>0, <1>1 DEF LossInv, Owing
<1>3. \A j \in Ifaces : j # at => /\ accounted'[j] = accounted[j] /\ delivered'[j] = delivered[j]
                                  /\ rx'[j].ring = rx[j].ring
  <2>1. \A j \in Ifaces : j # at => accounted'[j] = accounted[j]
    BY <1>0, <1>1, RaiseIfAnySettles
  <2>. QED  BY <1>0, <1>1, <2>1
<1>4. AllKept(at)'
  <2>1. CASE v = "NONE"
    <3>1. rx'[at].ring = ring_pop(rx[at].ring)
      BY <1>0, <1>1 DEF RxRings
    <3>2. delivered'[at] = Append(delivered[at], NextOut(rx[at].ring))
      BY <1>0, <1>1, <2>1 DEF n
    <3>3. accounted' = accounted
      BY <1>1, <2>1 DEF raise_if_any
    <3>4. \A i \in Ifaces : i = at => AllKept(i)'
      BY <1>1, <1>2, <3>1, <3>2, <3>3, DeliveredKeeps
    <3>. QED  BY <1>0, <1>1, <3>4
  <2>2. CASE v # "NONE"
    <3>1. \A i \in Ifaces : i = at => AllKept(i)'
      BY <1>1, <2>2, RaiseIfAnySettles
    <3>. QED  BY <1>0, <1>1, <3>1
  <2>. QED  BY <2>1, <2>2
<1>. QED  BY <1>0, <1>1, <1>3, <1>4, PollKeeps

LEMMA LossInvNext == HalInv /\ RxInv /\ LossInv /\ [Next]_vars => LossInv'
<1>. SUFFICES ASSUME HalInv, RxInv, LossInv, [Next]_vars PROVE LossInv'
  OBVIOUS
<1>0. RxInv' /\ at \in Ifaces /\ rx \in [Ifaces -> RxRings]
  BY RxInvNext DEF RxInv, RxTypes
<1>1. CASE UNCHANGED vars
  <2>1. UNCHANGED <<pc, at, fault, rx, taken, arrived, delivered, accounted>>
    BY <1>1 DEF vars, wire
  <2>2. \A i \in Ifaces : AllKept(i) => AllKept(i)'
    BY <2>1, KeptStays
  <2>. QED  BY <2>1, <2>2 DEF LossInv, Owing, Emptied, Polling
<1>2. ASSUME UNCHANGED <<taken, arrived, delivered>>, ~Polling, \A j \in Ifaces : rx'[j].ring = rx[j].ring,
             \A j \in Ifaces : accounted'[j] = accounted[j] \/ AllKept(j)'
      PROVE  LossInv'
  <2>1. \A j \in Ifaces : Emptied(j)'
    BY <1>2, NotPollingEmpty
  <2>. QED  BY <1>2, <2>1, QuietKeeps DEF Polling
<1>3. CASE open_iface \/ open_failed \/ init_again \/ poll_rx
  <2>1. UNCHANGED <<rx, taken, arrived, delivered, accounted>> /\ ~Polling
    BY <1>3 DEF open_iface, open_failed, init_again, poll_rx, Polling, wire
  <2>. QED  BY <1>2, <2>1
<1>4. CASE sc_drain_tx \/ mock_drain_tx \/ drain_done
  <2>1. UNCHANGED <<rx, taken, arrived, delivered, accounted>> /\ ~Polling
    BY <1>4 DEF sc_drain_tx, mock_drain_tx, drain_done, Draining, Polling, wire
  <2>. QED  BY <1>2, <2>1
<1>5. CASE raise_tx_fault
  <2>1. UNCHANGED <<rx, taken, arrived, delivered>> /\ ~Polling /\ raise_if_any(at, fault)
    BY <1>5 DEF raise_tx_fault, Polling, wire
  <2>2. \A j \in Ifaces : accounted'[j] = accounted[j] \/ AllKept(j)'
    BY <1>0, <2>1, RaiseIfAnySettles
  <2>. QED  BY <1>2, <2>1, <2>2
<1>6. CASE report_drops
  <2>1. /\ UNCHANGED <<taken, arrived, delivered>> /\ ~Polling /\ rx' = [rx EXCEPT ![at].dropped = 0]
        /\ raise_if_any(at, IF rx[at].dropped > 0 THEN "RX_RING_OVERFLOW" ELSE "NONE")
    BY <1>6 DEF report_drops, Polling, wire
  <2>2. \A j \in Ifaces : accounted'[j] = accounted[j] \/ AllKept(j)'
    BY <1>0, <2>1, RaiseIfAnySettles
  <2>3. \A j \in Ifaces : rx'[j].ring = rx[j].ring
    BY <1>0, <2>1 DEF RxRings
  <2>. QED  BY <1>2, <2>1, <2>2, <2>3
<1>7. CASE deliver_done
  <2>1. UNCHANGED <<rx, taken, arrived, delivered, accounted>> /\ pc = "deliver" /\ rx[at].ring.count = 0
    BY <1>7 DEF deliver_done, wire
  <2>2. \A j \in Ifaces : Emptied(j)'
    BY <2>1 DEF LossInv, Emptied
  <2>. QED  BY <2>1, <2>2, QuietKeeps
<1>8. ASSUME NEW i \in Ifaces, NEW kind \in SentKinds, send_tx(i, kind) PROVE LossInv'
  <2>1. UNCHANGED <<rx, taken, arrived, delivered>> /\ ~Polling
    BY <1>8 DEF send_tx, send_refused, send_queued, Polling, wire
  <2>2. accounted' = accounted \/ \E f : raise_fault(i, f)
    BY <1>8 DEF send_tx, send_refused, send_queued
  <2>3. \A j \in Ifaces : accounted'[j] = accounted[j] \/ AllKept(j)'
    BY <1>0, <2>2, RaisedSettles DEF raise_fault
  <2>. QED  BY <1>2, <2>1, <2>3
<1>. QED
  BY <1>0, <1>1, <1>3, <1>4, <1>5, <1>6, <1>7, <1>8, SkipLossInv, RecvLossInv, EndLossInv, DeliverLossInv
  DEF Next, Step, SentKinds

LEMMA LossInvImplies == RxInv /\ LossInv => NoSilentLoss
<1>. SUFFICES ASSUME RxInv, LossInv, pc = "idle", NEW i \in Ifaces, NEW n \in 1..taken[i]
              PROVE  n \in Range(delivered[i]) \cup accounted[i] \/ arrived[i][n].kind = "notice"
  BY DEF NoSilentLoss
<1>1. Kept(i, n) /\ rx[i].ring.count = 0
  BY DEF LossInv, Owing, AllKept, Emptied, Polling
<1>2. rx[i].ring \in Rings(RxCapacity) /\ Ordered(rx[i].ring, RxCapacity)
  BY RxOf DEF Flow
<1>3. \A p \in Slots(RxCapacity) : rx[i].ring.slots[p] = 0
  BY <1>1, <1>2, EmptyRing, HalAssumption
<1>4. n # 0
  OBVIOUS
<1>. QED  BY <1>1, <1>3, <1>4 DEF Kept, Range

(* No frame the backend has read is lost without a trace, for any ring     *)
(* sizes, arrivals and results of the system calls: when a call returns,   *)
(* each one was delivered, was a notice, or a fault was raised on its      *)
(* interface after it was lost (sc_poll, hal_poll_rx, hal_deliver_rx).     *)
THEOREM NoSilentLossCorrect == Spec => []NoSilentLoss
  BY HalInvAlways, LossInvInit, LossInvNext, LossInvImplies, PTL DEF Spec

=============================================================================
