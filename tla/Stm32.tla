------------------------------- MODULE Stm32 --------------------------------
(***************************************************************************)
(* The receive path of the bare-metal HAL (platform/cortex_m/hal_stm32.c): *)
(* the CAN interrupt of one controller against cancestry_hal_poll_rx of    *)
(* the main loop.  Both use the RX ring of the interface, which poll_rx    *)
(* hands to the driver; neither masks the other.                           *)
(*                                                                         *)
(* There is one core: the interrupt runs to completion between two memory  *)
(* accesses of the main loop, so it is one action, and a pop of the ring   *)
(* is one action per access to what the interrupt also accesses.  count--  *)
(* is a load and a store.                                                  *)
(*                                                                         *)
(* Frames are numbered in the order they arrive; 0 is a cleared slot.  The *)
(* lock-free queue the interrupt also feeds is module IsrQueue; here it is *)
(* a bounded sequence.  The TX ring belongs to the main loop alone.        *)
(***************************************************************************)
EXTENDS Integers, Sequences, HalRing

CONSTANTS
  FifoDepth,      \* CANCESTRY_STM32_FIFO_DEPTH
  RxCapacity,     \* slots of the RX ring
  IsrCapacity,    \* slots of the ISR queue, one of which stays free
  CounterRange,   \* 2^32: the cycle counter counts modulo this
  CyclesPerUs,
  Gaps,           \* cycles that may pass between two interrupts
  MaxFrames       \* bound on the frames of one behaviour

VARIABLES
  fifo,           \* receive FIFO of the controller
  cycles, last_raw_cycles, accumulated_cycles,
  opened,
  bound,          \* controller.rx_ring is set
  isr_queue,
  rx,             \* the RX ring with dropped and rx_total
  stamps,         \* timestamp of each frame the interrupt took
  offered,        \* frames that arrived
  main,           \* where the main loop is in poll_rx
  frame,          \* out_frame of rx_ring_pop
  loaded,         \* count as rx_ring_pop loaded it
  if_last_ts,
  delivered,      \* CAN_RX events pushed by poll_rx
  faults,         \* faults raised by poll_rx
  overwritten     \* history: frames overwritten in the ring before they were read

clock == <<cycles, last_raw_cycles, accumulated_cycles>>
driver == <<opened, bound>>
local == <<frame, loaded>>
upward == <<if_last_ts, delivered, faults>>
vars == <<fifo, clock, driver, isr_queue, rx, stamps, offered, main, local, upward, overwritten>>

Init ==
  /\ fifo = <<>> /\ cycles = 0 /\ last_raw_cycles = 0 /\ accumulated_cycles = 0
  /\ opened = FALSE /\ bound = FALSE /\ isr_queue = <<>>
  /\ rx = [ring |-> ring_init(RxCapacity), dropped |-> 0, rx_total |-> 0]
  /\ stamps = <<>> /\ offered = 0
  /\ main = "idle" /\ frame = 0 /\ loaded = 0
  /\ if_last_ts = 0 /\ delivered = <<>> /\ faults = <<>>
  /\ overwritten = {}

-----------------------------------------------------------------------------
(* The hardware.  A full FIFO takes no more frames.                        *)
arrive ==
  /\ offered < MaxFrames
  /\ offered' = offered + 1
  /\ fifo' = IF Len(fifo) < FifoDepth THEN Append(fifo, offered') ELSE fifo
  /\ UNCHANGED <<clock, driver, isr_queue, rx, stamps, main, local, upward, overwritten>>

(* Modulo-2^32 difference to the last reading, accumulated.                *)
Elapsed(raw) == accumulated_cycles + ((raw - last_raw_cycles) % CounterRange)

(* One frame of the FIFO goes to the ISR queue and, once it is bound, to   *)
(* the ring.                                                               *)
Unread(r, n) == n # 0 /\ ~(main = "clear" /\ r.read_idx = r.write_idx)
rx_ring_push(s, n) ==
  LET r == s.rx.ring
      old == r.slots[r.write_idx]
  IN  IF Full(r) THEN [s EXCEPT !.rx.dropped = @ + 1]
      ELSE [s EXCEPT !.rx.ring = ring_push(r, n), !.rx.rx_total = @ + 1,
                     !.overwritten = IF Unread(r, old) THEN @ \cup {old} ELSE @]
take(s, n) ==
  LET queued == [s EXCEPT !.isr_queue = IF Len(@) < IsrCapacity - 1 THEN Append(@, n) ELSE @]
  IN  IF bound THEN rx_ring_push(queued, n) ELSE queued

(* All frames of the FIFO, stamped with the time of the interrupt.         *)
can_rx_isr ==
  /\ opened /\ fifo # <<>>
  /\ \E gap \in Gaps : cycles' = (cycles + gap) % CounterRange
  /\ accumulated_cycles' = Elapsed(cycles')
  /\ last_raw_cycles' = cycles'
  /\ LET s[k \in 0..Len(fifo)] ==
           IF k = 0 THEN [isr_queue |-> isr_queue, rx |-> rx, overwritten |-> overwritten]
           ELSE take(s[k - 1], fifo[k])
         end == s[Len(fifo)]
     IN  isr_queue' = end.isr_queue /\ rx' = end.rx /\ overwritten' = end.overwritten
  /\ stamps' = [n \in 1..offered |->
                  IF \E k \in DOMAIN fifo : fifo[k] = n THEN accumulated_cycles' \div CyclesPerUs
                  ELSE IF n \in DOMAIN stamps THEN stamps[n] ELSE 0]
  /\ fifo' = <<>>
  /\ UNCHANGED <<driver, offered, main, local, upward>>

-----------------------------------------------------------------------------
stm32_backend_open ==
  /\ ~opened /\ opened' = TRUE
  /\ UNCHANGED <<fifo, clock, bound, isr_queue, rx, stamps, offered, main, local, upward, overwritten>>

(* The main loop empties the ISR queue.                                    *)
drain_isr_queue ==
  /\ main = "idle" /\ isr_queue # <<>> /\ isr_queue' = <<>>
  /\ UNCHANGED <<fifo, clock, driver, rx, stamps, offered, main, local, upward, overwritten>>

(* poll_rx begins with stm32_backend_poll, which only binds the ring.      *)
poll_rx ==
  /\ main = "idle" /\ opened
  /\ bound' = TRUE /\ main' = "test"
  /\ UNCHANGED <<fifo, clock, opened, isr_queue, rx, stamps, offered, local, upward, overwritten>>

test_count ==
  /\ main = "test"
  /\ main' = IF rx.ring.count > 0 THEN "copy" ELSE "drops"
  /\ UNCHANGED <<fifo, clock, driver, isr_queue, rx, stamps, offered, local, upward, overwritten>>

(* rx_ring_pop.                                                            *)
pop_copy ==
  /\ main = "copy"
  /\ frame' = NextOut(rx.ring) /\ main' = "clear"
  /\ UNCHANGED <<fifo, clock, driver, isr_queue, rx, stamps, offered, loaded, upward, overwritten>>

pop_clear ==
  /\ main = "clear"
  /\ rx' = [rx EXCEPT !.ring.slots[rx.ring.read_idx] = 0] /\ main' = "load"
  /\ UNCHANGED <<fifo, clock, driver, isr_queue, stamps, offered, local, upward, overwritten>>

pop_load ==
  /\ main = "load"
  /\ rx' = [rx EXCEPT !.ring.read_idx = (@ + 1) % RxCapacity]
  /\ loaded' = rx.ring.count /\ main' = "store"
  /\ UNCHANGED <<fifo, clock, driver, isr_queue, stamps, offered, frame, upward, overwritten>>

pop_store ==
  /\ main = "store"
  /\ rx' = [rx EXCEPT !.ring.count = loaded - 1] /\ main' = "deliver"
  /\ UNCHANGED <<fifo, clock, driver, isr_queue, stamps, offered, local, upward, overwritten>>

(* hal_deliver_rx: a frame no later than the one before it becomes a fault;*)
(* a cleared slot has no timestamp and passes for a frame.                 *)
deliver_rx ==
  LET ts == IF frame = 0 THEN 0 ELSE stamps[frame]
      stale == ts # 0 /\ if_last_ts # 0 /\ ts <= if_last_ts
  IN  /\ main = "deliver"
      /\ if_last_ts' = IF stale \/ ts = 0 THEN if_last_ts ELSE ts
      /\ delivered' = IF stale THEN delivered ELSE Append(delivered, frame)
      /\ faults' = IF stale THEN Append(faults, "TIMESTAMP_NON_MONOTONIC") ELSE faults
      /\ main' = "test"
      /\ UNCHANGED <<fifo, clock, driver, isr_queue, rx, stamps, offered, local, overwritten>>

(* Step 5 of poll_rx: the fault, then the reset of the counter.            *)
report_drops ==
  /\ main = "drops"
  /\ IF rx.dropped > 0 THEN faults' = Append(faults, "RX_RING_OVERFLOW") /\ main' = "reset"
     ELSE main' = "idle" /\ UNCHANGED faults
  /\ UNCHANGED <<fifo, clock, driver, isr_queue, rx, stamps, offered, local, if_last_ts, delivered, overwritten>>

reset_drops ==
  /\ main = "reset"
  /\ rx' = [rx EXCEPT !.dropped = 0] /\ main' = "idle"
  /\ UNCHANGED <<fifo, clock, driver, isr_queue, stamps, offered, local, upward, overwritten>>

Next ==
  \/ arrive \/ can_rx_isr
  \/ stm32_backend_open \/ drain_isr_queue
  \/ poll_rx \/ test_count \/ pop_copy \/ pop_clear \/ pop_load \/ pop_store \/ deliver_rx
  \/ report_drops \/ reset_drops

Spec == Init /\ [][Next]_vars

-----------------------------------------------------------------------------
(* The comment of cancestry_hal_rx_ring_t: the ring never overwrites a     *)
(* frame poll_rx has not read, whenever the interrupt strikes.             *)
NeverOverwritesUnread == overwritten = {}
=============================================================================
