-------------------------------- MODULE Hal ---------------------------------
(***************************************************************************)
(* The hardware abstraction layer: init, poll_rx and send_tx of core/hal   *)
(* (hal.c) over the SocketCAN backend (socketcan.c) or the mock bus of the *)
(* conformance tests (mock_hal.c).  Every iteration of a loop is a step of *)
(* its own, so frames may arrive between any two of them, and every system *)
(* call may give any of its results.                                       *)
(*                                                                         *)
(* A frame is its number: the n-th that arrived on the interface, the n-th *)
(* that was queued for it.  Of its content the model keeps the kind and    *)
(* the hardware timestamp (0: none).  The event queue is module EventQueue;*)
(* here a CAN_RX event pushed to it is a number in delivered, and raising a*)
(* fault settles the losses before it.  What nothing but get_status reads  *)
(* (if_states, if_faults, rx_total) is left out.                           *)
(***************************************************************************)
EXTENDS Integers, Sequences, Functions, HalRing

CONSTANTS NIfaces,      \* iface_count
          FdIfaces,     \* interfaces whose configuration asks for CAN FD
          RxCapacity, TxCapacity,
          Backends,     \* backends to consider: "socketcan", "mock"
          Arrivals,     \* frames that may arrive: records [kind, ts]
          SendResults,  \* results of sendmsg
          ScheduledFaults,          \* faults a test schedules on the mock
          MaxFrames     \* bound on the frames of one behaviour

Ifaces == 1..NIfaces
Faults == {"RX_RING_OVERFLOW", "TX_RING_OVERFLOW", "BUS_BACKPRESSURE", "INTERFACE_DOWN",
           "BUS_ERROR_PASSIVE", "BUS_OFF", "TIMESTAMP_NON_MONOTONIC", "MALFORMED_FRAME",
           "PROTOCOL_UNSUPPORTED"}
(* bad: a size or length no frame has; passive, busoff, notice: error      *)
(* frames, notice one that announces no state of the bus.                  *)
Kinds == {"classic", "fd", "bad", "passive", "busoff", "notice"}

ASSUME HalAssumption ==
  /\ {NIfaces, RxCapacity, TxCapacity} \subseteq Nat \ {0}
  /\ FdIfaces \subseteq Ifaces
  /\ Backends \subseteq {"socketcan", "mock"}
  /\ Arrivals \subseteq [kind : Kinds, ts : Nat]
  /\ SendResults \subseteq {"sent", "again", "down", "error"}
  /\ ScheduledFaults \subseteq Faults
  /\ MaxFrames \in Nat

VARIABLES
  pc, at,       \* place in the running call, interface its loop is at
  call,         \* which call is draining the TX ring
  fault,        \* the local fault / tx_fault of that call
  backend,
  opened, can_fd, if_last_ts,   \* per interface, as in the code
  rx, tx,       \* rings with their counters
  arrived, taken,    \* frames of the bus, and how many the backend has read
  delivered,    \* CAN_RX events pushed
  queued,       \* kinds of the frames send_tx put in the TX ring
  bus,          \* frames handed to the hardware
  pressured,    \* history: BUS_BACKPRESSURE was raised
  accounted     \* history: frames already lost when the last fault was raised

iface == <<opened, can_fd>>
wire == <<arrived, taken>>
vars == <<pc, at, call, fault, backend, iface, if_last_ts, rx, tx, wire,
          delivered, queued, bus, pressured, accounted>>

(* Frames read from the backend that are neither stored nor delivered.     *)
Lost(i) == (1..taken[i]) \ (Range(delivered[i]) \cup Range(rx[i].ring.slots))

Init ==
  /\ pc = "init" /\ at = 1 /\ call = "none" /\ fault = "NONE" /\ backend \in Backends
  /\ opened = [i \in Ifaces |-> FALSE] /\ can_fd = [i \in Ifaces |-> FALSE]
  /\ if_last_ts = [i \in Ifaces |-> 0]
  /\ rx = [i \in Ifaces |-> [ring |-> ring_init(RxCapacity), dropped |-> 0]]
  /\ tx = [i \in Ifaces |-> [ring |-> ring_init(TxCapacity), dropped |-> 0, sent |-> 0, tx_total |-> 0]]
  /\ arrived = [i \in Ifaces |-> <<>>] /\ taken = [i \in Ifaces |-> 0]
  /\ delivered = [i \in Ifaces |-> <<>>] /\ queued = [i \in Ifaces |-> <<>>]
  /\ bus = [i \in Ifaces |-> <<>>]
  /\ pressured = [i \in Ifaces |-> FALSE] /\ accounted = [i \in Ifaces |-> {}]

-----------------------------------------------------------------------------
(* sc_open: the kernel may refuse CAN FD where the configuration asks for  *)
(* it; the interface is then open as a classic one.                        *)
negotiated(i) == IF i \in FdIfaces THEN BOOLEAN ELSE {FALSE}

(* hal_init: the interfaces are opened in order.                           *)
open_iface ==
  /\ pc = "init"
  /\ opened' = [opened EXCEPT ![at] = TRUE]
  /\ \E fd \in negotiated(at) : can_fd' = [can_fd EXCEPT ![at] = fd]
  /\ IF at < NIfaces THEN at' = at + 1 /\ UNCHANGED pc ELSE at' = 1 /\ pc' = "idle"
  /\ UNCHANGED <<call, fault, backend, if_last_ts, rx, tx, wire, delivered, queued, bus, pressured, accounted>>

open_failed ==
  /\ pc = "init" /\ backend = "socketcan"
  /\ opened' = [i \in Ifaces |-> FALSE]
  /\ pc' = "failed"
  /\ UNCHANGED <<at, call, fault, backend, can_fd, if_last_ts, rx, tx, wire, delivered, queued, bus,
                 pressured, accounted>>

(* The application tries again; hal_init clears the instance.              *)
init_again ==
  /\ pc = "failed"
  /\ pc' = "init" /\ at' = 1
  /\ can_fd' = [i \in Ifaces |-> FALSE]
  /\ UNCHANGED <<call, fault, backend, opened, if_last_ts, rx, tx, wire, delivered, queued,
                 bus, pressured, accounted>>

-----------------------------------------------------------------------------
(* hal_raise_fault.  Conjoin it after the other assignments: accounted'    *)
(* records what is lost once the step is done.                             *)
raise_fault(i, f) ==
  /\ pressured' = [pressured EXCEPT ![i] = @ \/ f = "BUS_BACKPRESSURE"]
  /\ accounted' = [j \in Ifaces |-> IF j = i THEN Lost(j)' ELSE accounted[j]]

raise_if_any(i, f) ==
  IF f = "NONE" THEN UNCHANGED <<pressured, accounted>> ELSE raise_fault(i, f)

(* Mutant: the fault is not noted.                                         *)
set_fault_none(f) == fault

(* sc_set_fault: the first fault of a call is the one it reports.          *)
set_fault(f) == IF fault = "NONE" THEN f ELSE fault

(* The fault a backend finds before the call touches its device.           *)
FirstFault == IF backend = "mock" THEN ScheduledFaults \cup {"NONE"} ELSE {"NONE"}

-----------------------------------------------------------------------------
(* hal_poll_rx, step 1: the backend fills the RX ring.                     *)
poll_rx ==
  /\ pc = "idle"
  /\ pc' = "recv" /\ at' = 1 /\ call' = "poll" /\ fault' \in FirstFault
  /\ UNCHANGED <<backend, iface, if_last_ts, rx, tx, wire, delivered, queued, bus, pressured, accounted>>

Pending == taken[at] < Len(arrived[at])
Incoming == arrived[at][taken[at] + 1]

(* What sc_poll reports of a frame it does not put in the ring.            *)
wire_fault(f) ==
  CASE f.kind = "bad" -> "MALFORMED_FRAME"
    [] f.kind = "fd" /\ ~can_fd[at] -> "PROTOCOL_UNSUPPORTED"
    [] f.kind = "passive" -> "BUS_ERROR_PASSIVE"
    [] f.kind = "busoff" -> "BUS_OFF"
    [] OTHER -> "NONE"
IsData(f) == f.kind # "notice" /\ wire_fault(f) = "NONE"

(* sc_poll, one recvmsg that returns a frame.                              *)
sc_recv_skip ==
  /\ pc = "recv" /\ backend = "socketcan" /\ Pending /\ ~IsData(Incoming)
  /\ taken' = [taken EXCEPT ![at] = @ + 1]
  /\ fault' = set_fault(wire_fault(Incoming))
  /\ UNCHANGED <<pc, at, call, backend, iface, if_last_ts, rx, tx, arrived, delivered, queued,
                 bus, pressured, accounted>>

sc_recv_data ==
  /\ pc = "recv" /\ backend = "socketcan" /\ Pending /\ IsData(Incoming)
  /\ taken' = [taken EXCEPT ![at] = @ + 1]
  /\ IF Full(rx[at].ring)
     THEN /\ rx' = [rx EXCEPT ![at].dropped = @ + 1]
          /\ fault' = set_fault("RX_RING_OVERFLOW")
          /\ pc' = "raise"
     ELSE /\ rx' = [rx EXCEPT ![at].ring = ring_push(@, taken'[at])]
          /\ UNCHANGED <<fault, pc>>
  /\ UNCHANGED <<at, call, backend, iface, if_last_ts, tx, arrived, delivered, queued,
                 bus, pressured, accounted>>

(* mock_hal_poll leaves a frame that finds the ring full where it was.     *)
mock_recv ==
  /\ pc = "recv" /\ backend = "mock" /\ Pending
  /\ IF Full(rx[at].ring)
     THEN /\ rx' = [rx EXCEPT ![at].dropped = @ + 1]
          /\ pc' = "raise"
          /\ UNCHANGED taken
     ELSE /\ taken' = [taken EXCEPT ![at] = @ + 1]
          /\ rx' = [rx EXCEPT ![at].ring = ring_push(@, taken'[at])]
          /\ UNCHANGED pc
  /\ UNCHANGED <<at, call, fault, backend, iface, if_last_ts, tx, arrived, delivered, queued,
                 bus, pressured, accounted>>

(* Nothing to read (EAGAIN), or an error of recvmsg that sc_poll ignores.  *)
recv_nothing ==
  /\ pc = "recv" /\ (backend = "mock" => ~Pending)
  /\ pc' = "raise"
  /\ UNCHANGED <<at, call, fault, backend, iface, if_last_ts, rx, tx, wire, delivered, queued,
                 bus, pressured, accounted>>

(* EBADF, EPIPE, ECONNRESET: this fault replaces an earlier one.           *)
sc_recv_down ==
  /\ pc = "recv" /\ backend = "socketcan"
  /\ fault' = "INTERFACE_DOWN" /\ pc' = "raise"
  /\ UNCHANGED <<at, call, backend, iface, if_last_ts, rx, tx, wire, delivered, queued,
                 bus, pressured, accounted>>

(* Step 2: the fault of the backend comes before the frames.               *)
raise_poll_fault ==
  /\ pc = "raise"
  /\ pc' = "deliver" /\ fault' = "NONE"
  /\ UNCHANGED <<at, call, backend, iface, if_last_ts, rx, tx, wire, delivered, queued, bus>>
  /\ raise_if_any(at, fault)

-----------------------------------------------------------------------------
(* Mutant: an equal timestamp passes.                                      *)
verdict_equal_passes(i, f) ==
  CASE f.kind = "bad" -> "MALFORMED_FRAME"
    [] f.kind = "fd" /\ ~can_fd[i] -> "PROTOCOL_UNSUPPORTED"
    [] f.ts # 0 /\ if_last_ts[i] # 0 /\ f.ts < if_last_ts[i] -> "TIMESTAMP_NON_MONOTONIC"
    [] OTHER -> "NONE"

(* hal_deliver_rx: why a frame of the ring is dropped, in the order of the *)
(* checks.                                                                 *)
verdict(i, f) ==
  CASE f.kind = "bad" -> "MALFORMED_FRAME"
    [] f.kind = "fd" /\ ~can_fd[i] -> "PROTOCOL_UNSUPPORTED"
    [] f.ts # 0 /\ if_last_ts[i] # 0 /\ f.ts <= if_last_ts[i] -> "TIMESTAMP_NON_MONOTONIC"
    [] OTHER -> "NONE"

watermark(i, f) == IF verdict(i, f) = "NONE" /\ f.ts # 0 THEN f.ts ELSE if_last_ts[i]

(* Step 3: one frame of the ring becomes a CAN_RX event or a fault.        *)
deliver_rx ==
  /\ pc = "deliver" /\ rx[at].ring.count > 0
  /\ LET n == NextOut(rx[at].ring)
         f == arrived[at][n]
     IN /\ rx' = [rx EXCEPT ![at].ring = ring_pop(@)]
        /\ if_last_ts' = [if_last_ts EXCEPT ![at] = watermark(at, f)]
        /\ delivered' = IF verdict(at, f) = "NONE" THEN [delivered EXCEPT ![at] = Append(@, n)]
                                                   ELSE delivered
        /\ UNCHANGED <<pc, at, call, fault, backend, iface, tx, wire, queued, bus>>
        /\ raise_if_any(at, verdict(at, f))

deliver_done ==
  /\ pc = "deliver" /\ rx[at].ring.count = 0
  /\ pc' = "drain" /\ fault' \in FirstFault
  /\ UNCHANGED <<at, call, backend, iface, if_last_ts, rx, tx, wire, delivered, queued,
                 bus, pressured, accounted>>

-----------------------------------------------------------------------------
(* Step 4, and the end of send_tx: the backend empties the TX ring.  The   *)
(* protocol checks of sc_drain_tx repeat those of send_tx and find nothing.*)
Draining == pc = "drain" /\ tx[at].ring.count > 0
Outgoing == NextOut(tx[at].ring)

sent ==
  /\ tx' = [tx EXCEPT ![at].ring = ring_pop(@), ![at].sent = @ + 1]
  /\ bus' = [bus EXCEPT ![at] = Append(@, Outgoing)]
  /\ UNCHANGED <<pc, fault>>

(* Mutant: the drained frame is not counted.                               *)
discard_uncounted ==
  /\ tx' = [tx EXCEPT ![at].ring = ring_pop(@)]
  /\ UNCHANGED bus

discard ==
  /\ tx' = [tx EXCEPT ![at].ring = ring_pop(@), ![at].dropped = @ + 1]
  /\ UNCHANGED bus

(* Mutant: the loop goes on after back-pressure.                           *)
backpressure_goes_on ==
  /\ tx' = [tx EXCEPT ![at].ring = push_back(ring_pop(@), Outgoing)]
  /\ fault' = set_fault("BUS_BACKPRESSURE")
  /\ UNCHANGED <<pc, bus>>

backpressure ==
  /\ tx' = [tx EXCEPT ![at].ring = push_back(ring_pop(@), Outgoing)]
  /\ fault' = set_fault("BUS_BACKPRESSURE")
  /\ pc' = "raise_tx"
  /\ UNCHANGED bus

sc_drain_tx ==
  /\ Draining /\ backend = "socketcan"
  /\ \E result \in SendResults :
       \/ result = "sent" /\ sent
       \/ result = "again" /\ backpressure
       \/ result = "down" /\ discard /\ fault' = "INTERFACE_DOWN" /\ pc' = "raise_tx"
       \/ result = "error" /\ discard /\ UNCHANGED <<pc, fault>>
  /\ UNCHANGED <<at, call, backend, iface, if_last_ts, rx, wire, delivered, queued, pressured, accounted>>

mock_drain_tx ==
  /\ Draining /\ backend = "mock"
  /\ IF fault \in {"INTERFACE_DOWN", "BUS_OFF"} THEN discard /\ UNCHANGED <<pc, fault>> ELSE sent
  /\ UNCHANGED <<at, call, backend, iface, if_last_ts, rx, wire, delivered, queued, pressured, accounted>>

drain_done ==
  /\ pc = "drain" /\ tx[at].ring.count = 0
  /\ pc' = "raise_tx"
  /\ UNCHANGED <<at, call, fault, backend, iface, if_last_ts, rx, tx, wire, delivered, queued,
                 bus, pressured, accounted>>

raise_tx_fault ==
  /\ pc = "raise_tx"
  /\ IF call = "poll"
     THEN pc' = "overflow" /\ UNCHANGED <<at, call>>
     ELSE pc' = "idle" /\ at' = 1 /\ call' = "none"
  /\ fault' = "NONE"
  /\ UNCHANGED <<backend, iface, if_last_ts, rx, tx, wire, delivered, queued, bus>>
  /\ raise_if_any(at, fault)

(* Step 5: one fault for all frames the ring refused; then the next        *)
(* interface.                                                              *)
report_drops ==
  /\ pc = "overflow"
  /\ rx' = [rx EXCEPT ![at].dropped = 0]
  /\ IF at < NIfaces
     THEN at' = at + 1 /\ pc' = "recv" /\ fault' \in FirstFault /\ UNCHANGED call
     ELSE at' = 1 /\ pc' = "idle" /\ fault' = "NONE" /\ call' = "none"
  /\ UNCHANGED <<backend, iface, if_last_ts, tx, wire, delivered, queued, bus>>
  /\ raise_if_any(at, IF rx[at].dropped > 0 THEN "RX_RING_OVERFLOW" ELSE "NONE")

-----------------------------------------------------------------------------
(* hal_send_tx.                                                            *)
Frames ==
  LET n[i \in 0..NIfaces] == IF i = 0 THEN 0 ELSE n[i - 1] + tx[i].tx_total + Len(arrived[i])
  IN n[NIfaces]

send_fault(i, kind) ==
  CASE kind = "bad" -> "MALFORMED_FRAME"
    [] kind = "fd" /\ ~can_fd[i] -> "PROTOCOL_UNSUPPORTED"
    [] Full(tx[i].ring) -> "TX_RING_OVERFLOW"
    [] OTHER -> "NONE"

send_refused(i, kind) ==
  /\ pc = "idle" /\ send_fault(i, kind) # "NONE"
  /\ tx' = IF send_fault(i, kind) = "TX_RING_OVERFLOW"
           THEN [tx EXCEPT ![i].tx_total = @ + 1, ![i].dropped = @ + 1]
           ELSE tx
  /\ UNCHANGED <<pc, at, call, fault, backend, iface, if_last_ts, rx, wire, delivered, queued, bus>>
  /\ raise_fault(i, send_fault(i, kind))

send_queued(i, kind) ==
  /\ pc = "idle" /\ send_fault(i, kind) = "NONE"
  /\ queued' = [queued EXCEPT ![i] = Append(@, kind)]
  /\ tx' = [tx EXCEPT ![i].tx_total = @ + 1, ![i].ring = ring_push(@, Len(queued'[i]))]
  /\ pc' = "drain" /\ at' = i /\ call' = "send" /\ fault' \in FirstFault
  /\ UNCHANGED <<backend, iface, if_last_ts, rx, wire, delivered, bus, pressured, accounted>>

send_tx(i, kind) == Frames < MaxFrames /\ (send_refused(i, kind) \/ send_queued(i, kind))

(* A frame arrives.  Frames are looked for only in the recv step of their  *)
(* interface, so one that arrives earlier arrives just before it.  The     *)
(* mock has no error frames.                                               *)
arrive ==
  /\ pc = "recv" /\ Frames < MaxFrames
  /\ \E f \in Arrivals :
       /\ backend = "mock" => f.kind \in {"classic", "fd", "bad"}
       /\ arrived' = [arrived EXCEPT ![at] = Append(@, f)]
  /\ UNCHANGED <<pc, at, call, fault, backend, iface, if_last_ts, rx, tx, taken, delivered,
                 queued, bus, pressured, accounted>>

-----------------------------------------------------------------------------
(* The steps of a call that has begun, on the thread that made it.         *)
Step ==
  \/ sc_recv_skip \/ sc_recv_data \/ mock_recv \/ recv_nothing \/ sc_recv_down \/ raise_poll_fault
  \/ deliver_rx \/ deliver_done
  \/ sc_drain_tx \/ mock_drain_tx \/ drain_done \/ raise_tx_fault \/ report_drops

Next ==
  \/ open_iface \/ open_failed \/ init_again
  \/ poll_rx
  \/ \E i \in Ifaces, kind \in {"classic", "fd", "bad"} : send_tx(i, kind)
  \/ Step
  \/ arrive

Spec == Init /\ [][Next]_vars /\ WF_vars(Step)

-----------------------------------------------------------------------------
Rings(c) == [capacity : {c}, slots : [0..(c - 1) -> Nat],
             read_idx : 0..(c - 1), write_idx : 0..(c - 1), count : 0..c]
TxRings == [ring : Rings(TxCapacity), dropped : Nat, sent : Nat, tx_total : Nat]
(* Between two calls every frame the backend has read was delivered, or a  *)
(* fault was raised on its interface after it was lost: overflow, wrong    *)
(* protocol, bad length, stale timestamp and bus errors all surface        *)
(* (hal_poll_rx steps 2, 3 and 5, sc_poll).  Error frames that announce    *)
(* no state are the exception.                                             *)
NoSilentLoss ==
  pc = "idle" =>
    \A i \in Ifaces : \A n \in 1..taken[i] :
      n \in Range(delivered[i]) \cup accounted[i] \/ arrived[i][n].kind = "notice"

(* On each interface frames become events in the order they arrived in,    *)
(* each once, and hardware timestamps strictly increase, however the       *)
(* kernel's clock jumps (hal_deliver_rx and the RX ring).                  *)
RxInOrder ==
  \A i \in Ifaces : \A a, b \in DOMAIN delivered[i] : a < b =>
    LET m == delivered[i][a]  n == delivered[i][b]
    IN /\ m < n
       /\ arrived[i][n].ts # 0 => arrived[i][m].ts < arrived[i][n].ts

(* The watermark of hal_deliver_rx is the timestamp of the latest stamped  *)
(* frame that was delivered: a frame rejected for its protocol, its length *)
(* or its age never moves it, so it cannot shut out the frames after it.   *)
WatermarkExact ==
  \A i \in Ifaces :
    LET stamps == {arrived[i][n].ts : n \in Range(delivered[i])}
    IN if_last_ts[i] \in stamps \cup {0} /\ \A t \in stamps : t <= if_last_ts[i]

(* The TX counters account for every frame send_tx offered to the ring,    *)
(* through overflow, errors, back-pressure and a dead interface.           *)
TxAccounting ==
  \A i \in Ifaces : tx[i].tx_total = tx[i].dropped + tx[i].sent + tx[i].ring.count

Increasing(s) == \A a, b \in DOMAIN s : a < b => s[a] < s[b]

(* Transmission is in order on every interface on which no back-pressure   *)
(* was reported, through every other failure of sendmsg, and the frames    *)
(* still in the ring come after all frames sent.                           *)
InOrderUntilPressure ==
  \A i \in Ifaces : ~pressured[i] =>
    /\ Increasing(bus[i]) /\ 0 \notin Range(bus[i])
    /\ \A n \in Range(tx[i].ring.slots) \ {0} : \A m \in Range(bus[i]) : m < n

(* Frames keep their order on every interface, in both directions: into    *)
(* events, past clocks that jump, and onto the bus, past failures of       *)
(* sendmsg other than back-pressure.                                       *)
FramesInOrder == RxInOrder /\ WatermarkExact /\ InOrderUntilPressure

(* A failed hal_init leaves no interface open behind it, a successful one  *)
(* leaves all of them open.                                                *)
AllOrNothingOpen ==
  /\ pc = "failed" => \A i \in Ifaces : ~opened[i]
  /\ pc \notin {"init", "failed"} => \A i \in Ifaces : opened[i]

(* poll_rx and send_tx return, whatever the kernel answers, once no new    *)
(* frames arrive (the loops of sc_poll, deliver and sc_drain_tx).          *)
CallsReturn == []<>(pc \in {"init", "failed", "idle"})

=============================================================================
