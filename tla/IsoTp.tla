------------------------------- MODULE IsoTp --------------------------------
(***************************************************************************)
(* One ISO-TP transport engine (core/transport/src/engine.c): a reception  *)
(* and a transmission session over classic CAN frames, the timers N_As,    *)
(* N_Bs and N_Cr, and a sink that may decline a frame.                     *)
(*                                                                         *)
(* A frame is a record of its decoded fields, a message a sequence of      *)
(* bytes.  Absolute deadlines are kept as the time left until them, since  *)
(* time only moves in tick.  A tick is a sequence of steps, one per call   *)
(* of the sink; the engine handles nothing else in between.                *)
(***************************************************************************)
EXTENDS Integers, Sequences

CONSTANTS
  TP_SF_DATA_MAX, TP_FF_DATA_MAX, TP_CF_DATA_MAX,  \* 7, 6 and 7 on classic CAN
  SnMod,                                  \* sequence numbers are modulo 16
  rx_capacity, tx_capacity,
  FcBlockSizes, fc_stmin,                 \* what the engine's own CTS may carry
  n_as, n_bs, n_cr,                       \* timers, in ms
  max_wait_frames,
  Sinks  \* the kinds of sink: "willing" takes every frame, "free" answers as it likes

ASSUME TpAssumption ==
  /\ TP_SF_DATA_MAX \in Nat \ {0} /\ TP_FF_DATA_MAX \in Nat \ {0} /\ TP_CF_DATA_MAX \in Nat \ {0}
  /\ TP_FF_DATA_MAX <= TP_SF_DATA_MAX
  /\ SnMod \in Nat \ {0}
  /\ rx_capacity \in Nat /\ tx_capacity \in Nat
  /\ FcBlockSizes \subseteq 0 .. 255 /\ fc_stmin \in 0 .. 255
  /\ n_as \in Nat \ {0} /\ n_bs \in Nat \ {0} /\ n_cr \in Nat \ {0}
  /\ max_wait_frames \in Nat \ {0}
  /\ Sinks \subseteq {"willing", "free"}

VARIABLES
  tp,        \* cancestry_transport_t
  phase,     \* where the engine is inside tick; "idle" outside
  sink,      \* the kind of sink, one of Sinks
  wire,      \* frames the sink accepted, in order
  messages   \* messages on_message got, in order

vars == <<tp, phase, sink, wire, messages>>

None == [pci |-> "NONE"]
NoPending == [frame |-> None, left |-> 0]

(* An engine with its configured block size.                               *)
Started(bs) ==
  [fc_block_size |-> bs,
   rx_state |-> "IDLE", rx_total |-> 0, rx_data |-> <<>>, rx_expected_sn |-> 0,
   rx_deadline |-> 0, rx_pending_fc |-> NoPending,
   tx_state |-> "IDLE", tx_buffer |-> <<>>, tx_total |-> 0, tx_sent |-> 0,
   tx_next_sn |-> 0, tx_block_remaining |-> 0, tx_block_unlimited |-> FALSE,
   tx_stmin |-> 0, tx_next_cf |-> 0, tx_deadline |-> 0, tx_wait_frames |-> 0,
   tx_pending |-> NoPending,
   requested |-> 0, completed |-> 0, faults |-> 0, last_fault |-> "NONE"]

Init ==
  /\ \E bs \in FcBlockSizes : tp = Started(bs)
  /\ phase = "idle" /\ sink \in Sinks
  /\ wire = <<>> /\ messages = <<>>

Least(a, b) == IF a < b THEN a ELSE b

-----------------------------------------------------------------------------
(* Frames.                                                                 *)
SingleFrame(m) == [pci |-> "SF", dl |-> Len(m), data |-> m]
FirstFrame(m) == [pci |-> "FF", total |-> Len(m), data |-> SubSeq(m, 1, TP_FF_DATA_MAX)]
ConsecutiveFrame(sn, d) == [pci |-> "CF", sn |-> sn, data |-> d]
FlowControl(fs, bs, st) == [pci |-> "FC", fs |-> fs, bs |-> bs, stmin |-> st, length |-> 3]

(* In whole ticks: 100 .. 900 us wait one, reserved encodings none.        *)
stmin_decode(st) == IF st <= 127 THEN st ELSE IF st \in 241 .. 249 THEN 1 ELSE 0

-----------------------------------------------------------------------------
(* Mutant: every declined attempt starts a new N_As period.                *)
pending_store_rearmed(slot, f) == [frame |-> f, left |-> n_as]

(* What the helpers of the engine do to its state t.                       *)
pending_store(slot, f) ==
  [frame |-> f, left |-> IF slot.frame = None THEN n_as ELSE slot.left]

(* Mutant: the fault is recorded but not counted.                          *)
raise_fault_uncounted(t, code) == [t EXCEPT !.last_fault = code]

raise_fault(t, code) == [t EXCEPT !.faults = @ + 1, !.last_fault = code]

abort_rx(t) ==
  [t EXCEPT !.rx_state = "IDLE", !.rx_total = 0, !.rx_data = <<>>, !.rx_expected_sn = 0,
            !.rx_deadline = 0, !.rx_pending_fc = NoPending]

abort_tx(t) ==
  [t EXCEPT !.tx_state = "IDLE", !.tx_buffer = IF t.tx_state = "IDLE" THEN @ ELSE <<>>,
            !.tx_total = 0, !.tx_sent = 0, !.tx_next_sn = 0,
            !.tx_block_remaining = 0, !.tx_block_unlimited = FALSE, !.tx_stmin = 0,
            !.tx_next_cf = 0, !.tx_deadline = 0, !.tx_wait_frames = 0,
            !.tx_pending = NoPending]

arm_n_cr(t) == [t EXCEPT !.rx_deadline = n_cr]
arm_n_bs(t) == [t EXCEPT !.tx_deadline = n_bs]

tx_busy(t) == t.tx_state # "IDLE" \/ t.tx_pending.frame # None

SinkAnswers(ok) == ok \/ sink = "free"

(* emit_frame: what the session becomes depends on the sink's answer.      *)
emit_frame(f, accepted, declined) ==
  \/ SinkAnswers(TRUE) /\ wire' = Append(wire, f) /\ tp' = accepted
  \/ SinkAnswers(FALSE) /\ UNCHANGED wire /\ tp' = declined

-----------------------------------------------------------------------------
(* Mutant: a frame out of place is reported and otherwise ignored.         *)
drop_rx_ignores(code) == tp' = raise_fault(tp, code) /\ UNCHANGED <<wire, messages>>

(* Reception of one frame.  A refused frame leaves messages alone.         *)
drop_rx(code) == tp' = abort_rx(raise_fault(tp, code)) /\ UNCHANGED <<wire, messages>>
drop_tx(code) == tp' = abort_tx(raise_fault(tp, code)) /\ UNCHANGED <<wire, messages>>
ignore(code) == tp' = raise_fault(tp, code) /\ UNCHANGED <<wire, messages>>

handle_sf(f) ==
  /\ f.pci = "SF"
  /\ \/ tp.rx_state # "IDLE" /\ drop_rx("PROTOCOL")
     \/ /\ tp.rx_state = "IDLE"
        /\ f.dl \notin 1 .. TP_SF_DATA_MAX \/ Len(f.data) # f.dl
        /\ ignore("PROTOCOL")
     \/ /\ tp.rx_state = "IDLE"
        /\ f.dl \in 1 .. TP_SF_DATA_MAX /\ Len(f.data) = f.dl
        /\ IF f.dl > rx_capacity
           THEN ignore("BUFFER_OVERFLOW")
           ELSE messages' = Append(messages, f.data) /\ UNCHANGED <<tp, wire>>

(* Flow control is stored as pending before it is offered to the sink, so  *)
(* an earlier pending one is replaced and passes on its N_As budget.       *)
answer_fc(fc, t) ==
  emit_frame(fc, [t EXCEPT !.rx_pending_fc = NoPending],
                 [t EXCEPT !.rx_pending_fc = pending_store(@, fc)])

handle_ff(f) ==
  /\ f.pci = "FF"
  /\ \/ tp.rx_state # "IDLE" /\ drop_rx("PROTOCOL")
     \/ /\ tp.rx_state = "IDLE"
        /\ Len(f.data) # TP_FF_DATA_MAX \/ f.total <= TP_SF_DATA_MAX
        /\ ignore("PROTOCOL")
     \/ /\ tp.rx_state = "IDLE"
        /\ Len(f.data) = TP_FF_DATA_MAX /\ f.total > TP_SF_DATA_MAX
        /\ IF f.total > rx_capacity
           THEN answer_fc(FlowControl("OVFLW", 0, 0), raise_fault(tp, "BUFFER_OVERFLOW"))
           ELSE answer_fc(FlowControl("CTS", tp.fc_block_size, fc_stmin),
                          arm_n_cr([tp EXCEPT !.rx_data = f.data, !.rx_total = f.total,
                                              !.rx_expected_sn = 1 % SnMod,
                                              !.rx_state = "FIRST_FRAME"]))
        /\ UNCHANGED messages

handle_cf(f) ==
  LET chunk == Least(TP_CF_DATA_MAX, tp.rx_total - Len(tp.rx_data))
      data == tp.rx_data \o f.data
  IN
  /\ f.pci = "CF"
  /\ \/ tp.rx_state # "FIRST_FRAME" /\ ignore("PROTOCOL")
     \/ /\ tp.rx_state = "FIRST_FRAME"
        /\ f.sn # tp.rx_expected_sn \/ Len(f.data) # chunk
        /\ drop_rx("PROTOCOL")
     \/ /\ tp.rx_state = "FIRST_FRAME"
        /\ f.sn = tp.rx_expected_sn /\ Len(f.data) = chunk
        /\ LET t == arm_n_cr([tp EXCEPT !.rx_expected_sn = (f.sn + 1) % SnMod])
           IN  IF Len(data) >= tp.rx_total
               THEN /\ tp' = [t EXCEPT !.rx_state = "IDLE", !.rx_total = 0, !.rx_data = <<>>]
                    /\ messages' = Append(messages, data)
               ELSE tp' = [t EXCEPT !.rx_data = data] /\ UNCHANGED messages
        /\ UNCHANGED wire

handle_fc(f) ==
  /\ f.pci = "FC"
  /\ \/ /\ tp.tx_state # "FLOW_CONTROL" \/ f.length # 3 \/ f.fs \notin {"CTS", "WAIT", "OVFLW"}
        /\ drop_tx("PROTOCOL")
     \/ /\ tp.tx_state = "FLOW_CONTROL" /\ f.length = 3
        /\ \/ /\ f.fs = "CTS"
              /\ tp' = [tp EXCEPT !.tx_state = "CONSECUTIVE_FRAME", !.tx_wait_frames = 0,
                                  !.tx_block_unlimited = (f.bs = 0),
                                  !.tx_block_remaining = f.bs,
                                  !.tx_stmin = stmin_decode(f.stmin), !.tx_next_cf = 0]
              /\ UNCHANGED <<wire, messages>>
           \/ /\ f.fs = "WAIT" /\ tp.tx_wait_frames < max_wait_frames
              /\ tp' = arm_n_bs([tp EXCEPT !.tx_wait_frames = @ + 1])
              /\ UNCHANGED <<wire, messages>>
           \/ f.fs = "WAIT" /\ tp.tx_wait_frames >= max_wait_frames /\ drop_tx("PROTOCOL")
           \/ f.fs = "OVFLW" /\ drop_tx("BUFFER_OVERFLOW")

(* A PCI nibble above 3.                                                   *)
handle_invalid(f) ==
  /\ f.pci = "INVALID"
  /\ IF tp.rx_state # "IDLE" THEN drop_rx("PROTOCOL") ELSE ignore("PROTOCOL")

rx_frame(f) ==
  /\ phase = "idle"
  /\ handle_sf(f) \/ handle_ff(f) \/ handle_cf(f) \/ handle_fc(f) \/ handle_invalid(f)
  /\ UNCHANGED <<phase, sink>>

-----------------------------------------------------------------------------
(* send; a busy engine or a message beyond tx_capacity is refused and      *)
(* nothing changes.                                                        *)
send_sf(m) ==
  /\ Len(m) <= TP_SF_DATA_MAX
  /\ LET t == [tp EXCEPT !.requested = @ + 1]
     IN  emit_frame(SingleFrame(m), [t EXCEPT !.completed = @ + 1],
                           [t EXCEPT !.tx_pending = pending_store(@, SingleFrame(m))])

send_ff(m) ==
  /\ Len(m) > TP_SF_DATA_MAX
  /\ LET t == [tp EXCEPT !.requested = @ + 1, !.tx_buffer = m, !.tx_total = Len(m),
                         !.tx_next_sn = 1 % SnMod, !.tx_wait_frames = 0]
     IN  emit_frame(FirstFrame(m),
                    arm_n_bs([t EXCEPT !.tx_sent = TP_FF_DATA_MAX, !.tx_state = "FLOW_CONTROL"]),
                    [t EXCEPT !.tx_sent = 0, !.tx_pending = pending_store(@, FirstFrame(m))])

send(m) ==
  /\ phase = "idle"
  /\ ~tx_busy(tp)
  /\ Len(m) \in 1 .. tx_capacity
  /\ send_sf(m) \/ send_ff(m)
  /\ UNCHANGED <<phase, sink, messages>>

-----------------------------------------------------------------------------
(* tick: the time base moves, then N_Cr, the pending flow control, N_Bs,   *)
(* the pending frame and the burst of consecutive frames, in this order.   *)
Left(timer, d) == IF timer > d THEN timer - d ELSE 0

advance_time(t, d) ==
  [t EXCEPT !.rx_deadline = Left(@, d), !.tx_deadline = Left(@, d), !.tx_next_cf = Left(@, d),
            !.rx_pending_fc.left = Left(@, d), !.tx_pending.left = Left(@, d)]

tick(d) ==
  /\ phase = "idle"
  /\ LET t == advance_time(tp, d)
     IN  tp' = IF t.rx_state = "FIRST_FRAME" /\ t.rx_deadline = 0
               THEN abort_rx(raise_fault(t, "TIMEOUT")) ELSE t
  /\ phase' = "rx_pending"
  /\ UNCHANGED <<sink, wire, messages>>

pump_rx_pending ==
  /\ phase = "rx_pending"
  /\ LET slot == tp.rx_pending_fc
     IN  IF slot.frame = None
         THEN UNCHANGED <<tp, wire>>
         ELSE IF slot.left = 0
         THEN tp' = abort_rx(raise_fault(tp, "TIMEOUT")) /\ UNCHANGED wire
         ELSE emit_frame(slot.frame, [tp EXCEPT !.rx_pending_fc = NoPending], tp)
  /\ phase' = "n_bs"
  /\ UNCHANGED <<sink, messages>>

tick_n_bs ==
  /\ phase = "n_bs"
  /\ tp' = IF tp.tx_state = "FLOW_CONTROL" /\ tp.tx_deadline = 0
           THEN abort_tx(raise_fault(tp, "TIMEOUT")) ELSE tp
  /\ phase' = "tx_pending"
  /\ UNCHANGED <<sink, wire, messages>>

(* A consecutive frame f has left: the same in the retry and in the burst. *)
cf_sent(t, f) ==
  LET u == [t EXCEPT !.tx_sent = @ + Len(f.data), !.tx_next_sn = (f.sn + 1) % SnMod,
                     !.tx_block_remaining =
                        IF ~t.tx_block_unlimited /\ @ > 0 THEN @ - 1 ELSE @,
                     !.tx_next_cf = t.tx_stmin]
  IN  IF u.tx_sent >= u.tx_total
      THEN [u EXCEPT !.completed = @ + 1, !.tx_state = "IDLE", !.tx_total = 0, !.tx_sent = 0]
      ELSE IF ~u.tx_block_unlimited /\ u.tx_block_remaining = 0
      THEN arm_n_bs([u EXCEPT !.tx_state = "FLOW_CONTROL"])
      ELSE u

(* Mutant: a retried consecutive frame does not advance the number.        *)
pending_sent_sn_kept(t, f) ==
  LET u == [t EXCEPT !.tx_pending = NoPending]
  IN  CASE f.pci = "SF" -> [u EXCEPT !.completed = @ + 1]
        [] f.pci = "FF" -> arm_n_bs([u EXCEPT !.tx_sent = TP_FF_DATA_MAX, !.tx_wait_frames = 0,
                                              !.tx_state = "FLOW_CONTROL"])
        [] f.pci = "CF" -> [cf_sent(u, f) EXCEPT !.tx_next_sn = t.tx_next_sn]

pending_sent(t, f) ==
  LET u == [t EXCEPT !.tx_pending = NoPending]
  IN  CASE f.pci = "SF" -> [u EXCEPT !.completed = @ + 1]
        [] f.pci = "FF" -> arm_n_bs([u EXCEPT !.tx_sent = TP_FF_DATA_MAX, !.tx_wait_frames = 0,
                                              !.tx_state = "FLOW_CONTROL"])
        [] f.pci = "CF" -> cf_sent(u, f)

(* A frame the sink declines again does not keep the burst from running.   *)
pump_tx ==
  /\ phase = "tx_pending"
  /\ LET slot == tp.tx_pending
     IN  IF slot.frame = None
         THEN UNCHANGED <<tp, wire>> /\ phase' = "burst"
         ELSE IF slot.left = 0
         THEN tp' = abort_tx(raise_fault(tp, "TIMEOUT")) /\ UNCHANGED wire /\ phase' = "idle"
         ELSE emit_frame(slot.frame, pending_sent(tp, slot.frame), tp) /\ phase' = "burst"
  /\ UNCHANGED <<sink, messages>>

(* Mutants: STmin is not waited for; BS = 0 is taken for a block of none.  *)
CfDue_unpaced ==
  /\ tp.tx_state = "CONSECUTIVE_FRAME" /\ tp.tx_sent < tp.tx_total
  /\ tp.tx_block_unlimited \/ tp.tx_block_remaining > 0

CfDue_block_of_none ==
  /\ tp.tx_state = "CONSECUTIVE_FRAME" /\ tp.tx_sent < tp.tx_total
  /\ tp.tx_block_remaining > 0
  /\ tp.tx_next_cf = 0

CfDue ==
  /\ tp.tx_state = "CONSECUTIVE_FRAME" /\ tp.tx_sent < tp.tx_total
  /\ tp.tx_block_unlimited \/ tp.tx_block_remaining > 0
  /\ tp.tx_next_cf = 0

NextCf ==
  ConsecutiveFrame(tp.tx_next_sn,
                   SubSeq(tp.tx_buffer, tp.tx_sent + 1,
                          Least(tp.tx_sent + TP_CF_DATA_MAX, tp.tx_total)))

(* One round of the loop; a declined frame ends it.                        *)
tx_pump_cf ==
  /\ phase = "burst" /\ CfDue
  /\ emit_frame(NextCf, cf_sent(tp, NextCf),
                [tp EXCEPT !.tx_pending = pending_store(@, NextCf)])
  /\ phase' = IF wire' = wire THEN "idle" ELSE "burst"
  /\ UNCHANGED <<sink, messages>>

(* The burst has sent a frame although a declined one is still waiting:    *)
(* the same frame or, after that, later ones.  It will be sent again.      *)
Overtakes == phase = "burst" /\ tp.tx_pending.frame # None /\ wire' # wire

burst_over ==
  /\ phase = "burst" /\ ~CfDue
  /\ phase' = "idle"
  /\ UNCHANGED <<tp, sink, wire, messages>>

tick_steps == pump_rx_pending \/ tick_n_bs \/ pump_tx \/ tx_pump_cf \/ burst_over
=============================================================================
