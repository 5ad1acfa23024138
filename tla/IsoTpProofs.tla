---------------------------- MODULE IsoTpProofs -----------------------------
(***************************************************************************)
(* IsoTpPeer for any frame sizes, capacities, timers and messages: every   *)
(* message goes out piece by piece or ends in a fault, and the pace the    *)
(* peer asked for is kept.                                                 *)
(***************************************************************************)
EXTENDS IsoTpPeer, TLAPS

-----------------------------------------------------------------------------
(* The inductive invariant.  A session that is under way has sent a prefix *)
(* of its buffer; a frame that waits for the sink is the next one; what    *)
(* the last clear to send allows is what the session believes.  Of a       *)
(* message that was overtaken only the shape of the session and the count  *)
(* of faults are known; it may be completed more than once (`extra`).      *)
TpFields == {"fc_block_size", "rx_state", "rx_total", "rx_data", "rx_expected_sn", "rx_deadline",
             "rx_pending_fc",
             "tx_state", "tx_buffer", "tx_total", "tx_sent", "tx_next_sn", "tx_block_remaining",
             "tx_block_unlimited", "tx_stmin", "tx_next_cf", "tx_deadline", "tx_wait_frames",
             "tx_pending", "requested", "completed", "faults", "last_fault"}
SlotFields == {"frame", "left"}

Typed(t) ==
  /\ DOMAIN t = TpFields /\ DOMAIN t.tx_pending = SlotFields /\ DOMAIN t.rx_pending_fc = SlotFields
  /\ t.tx_state \in {"IDLE", "FLOW_CONTROL", "CONSECUTIVE_FRAME"}
  /\ t.tx_buffer \in Seq(Nat \X Nat) /\ t.tx_total \in Nat /\ t.tx_sent \in Nat /\ t.tx_next_sn \in Nat
  /\ t.tx_block_remaining \in Nat /\ t.tx_block_unlimited \in BOOLEAN
  /\ t.tx_stmin \in Nat /\ t.tx_next_cf \in Nat
  /\ t.requested \in Nat /\ t.completed \in Nat /\ t.faults \in Nat
  /\ t.rx_pending_fc.frame.pci \in {"NONE", "FC"}

PieceFrom(t, from) == SubSeq(t.tx_buffer, from + 1, Least(from + TP_CF_DATA_MAX, t.tx_total))
Reached(n) == TP_FF_DATA_MAX + n * TP_CF_DATA_MAX

Underway(t, s) ==
  t.tx_state # "IDLE" =>
    /\ t.tx_total = Len(t.tx_buffer) /\ t.tx_sent < t.tx_total
    /\ t.tx_sent = Reached(Len(s)) /\ t.tx_next_sn = ((Len(s) + 1) % SnMod)
    /\ \A k \in 1..Len(s) : s[k].sn = (k % SnMod) /\ s[k].data = PieceFrom(t, Reached(k - 1))

Allowed(t) == t.tx_block_unlimited \/ t.tx_block_remaining > 0

Waiting(t) ==
  t.tx_pending.frame # None =>
    \/ t.tx_state = "IDLE" /\ t.tx_pending.frame.pci = "SF"
    \/ /\ t.tx_state = "IDLE" /\ t.tx_pending.frame.pci = "FF"
       /\ t.tx_total = Len(t.tx_buffer) /\ t.tx_total > TP_SF_DATA_MAX /\ t.tx_next_sn = (1 % SnMod)
    \/ /\ t.tx_state = "CONSECUTIVE_FRAME" /\ t.tx_next_cf = 0 /\ Allowed(t)
       /\ t.tx_pending.frame = ConsecutiveFrame(t.tx_next_sn, PieceFrom(t, t.tx_sent))

Open(t) == IF tx_busy(t) THEN 1 ELSE 0
Covered(t) == t.requested <= t.completed + Open(t) + t.faults
Balanced(t, extra) == t.completed + Open(t) <= t.requested + extra /\ Covered(t)

Paced(t, g) ==
  t.tx_state = "CONSECUTIVE_FRAME" =>
    /\ g.cts
    /\ t.tx_block_unlimited => g.bs = 0
    /\ ~t.tx_block_unlimited => t.tx_block_remaining = g.bs - g.used /\ t.tx_block_remaining > 0
    /\ t.tx_stmin = g.stmin /\ g.gap + t.tx_next_cf >= g.stmin

Grants == [cts : BOOLEAN, bs : Nat, stmin : 0..MaxGap, used : Nat, gap : 0..MaxGap]

Session(t, s, g, extra) ==
  Typed(t) /\ Underway(t, s) /\ Waiting(t) /\ Balanced(t, extra) /\ g \in Grants /\ Paced(t, g)

(* Any session: what is left in the slot when all is sent completes again. *)
SlotShaped(t) ==
  LET f == t.tx_pending.frame
  IN  /\ t.tx_state # "IDLE" => t.tx_total = Len(t.tx_buffer)
      /\ \/ f = None \/ f.pci = "SF"
         \/ f.pci = "FF" /\ t.tx_state = "IDLE" /\ t.tx_total = Len(t.tx_buffer)
         \/ /\ f.pci = "CF" /\ f.sn \in Nat /\ Len(f.data) \in Nat
            /\ t.tx_state = "IDLE" => t.tx_total = 0

IsSeq(s) == \E T : s \in Seq(T)

Loose ==
  /\ Typed(tp) /\ Covered(tp) /\ SlotShaped(tp) /\ grant \in Grants
  /\ IsSeq(wire) /\ IsSeq(segments)

Going(extra) == Session(tp, segments, grant, extra) /\ IsSeq(wire) /\ IsSeq(segments)

TpInv ==
  /\ Loose /\ overtaken \subseteq 0..tp.requested
  /\ tp.requested \notin overtaken =>
       \E extra \in Nat : (overtaken = {} => extra = 0) /\ Session(tp, segments, grant, extra)

-----------------------------------------------------------------------------
(* What the helpers of the engine leave alone.                             *)
SameTx(t, u) ==
  /\ u.tx_state = t.tx_state /\ u.tx_buffer = t.tx_buffer /\ u.tx_total = t.tx_total
  /\ u.tx_sent = t.tx_sent /\ u.tx_next_sn = t.tx_next_sn
  /\ u.tx_block_remaining = t.tx_block_remaining /\ u.tx_block_unlimited = t.tx_block_unlimited
  /\ u.tx_stmin = t.tx_stmin /\ u.tx_next_cf = t.tx_next_cf /\ u.tx_pending.frame = t.tx_pending.frame
  /\ u.requested = t.requested /\ u.completed = t.completed

LEMMA RaiseFaultKeeps ==
  ASSUME NEW t, Typed(t), NEW code
  PROVE  LET u == raise_fault(t, code) IN Typed(u) /\ SameTx(t, u) /\ u.faults = t.faults + 1
  BY DEF Typed, SameTx, raise_fault, TpFields

LEMMA AbortRxKeeps ==
  ASSUME NEW t, Typed(t)
  PROVE  LET u == abort_rx(t) IN Typed(u) /\ SameTx(t, u) /\ u.faults = t.faults
  BY DEF Typed, SameTx, abort_rx, TpFields, NoPending, None, SlotFields

LEMMA AbortTxEnds ==
  ASSUME NEW t, Typed(t)
  PROVE  LET u == abort_tx(t)
         IN  /\ Typed(u) /\ u.tx_state = "IDLE" /\ u.tx_pending.frame = None
             /\ u.requested = t.requested /\ u.completed = t.completed /\ u.faults = t.faults
<1>. DEFINE u == abort_tx(t)
<1>1. /\ DOMAIN u = TpFields /\ u.tx_state = "IDLE" /\ u.tx_pending = NoPending
      /\ u.rx_pending_fc = t.rx_pending_fc
      /\ u.requested = t.requested /\ u.completed = t.completed /\ u.faults = t.faults
  BY DEF Typed, abort_tx, TpFields
<1>2. /\ u.tx_buffer \in {t.tx_buffer, <<>>} /\ u.tx_total = 0 /\ u.tx_sent = 0 /\ u.tx_next_sn = 0
      /\ u.tx_block_remaining = 0 /\ u.tx_stmin = 0 /\ u.tx_next_cf = 0
  BY DEF Typed, abort_tx, TpFields
<1>3. u.tx_block_unlimited = FALSE
  BY DEF Typed, abort_tx, TpFields
<1>. HIDE DEF u
<1>4. DOMAIN u.tx_pending = SlotFields /\ u.tx_pending.frame = None
  BY <1>1 DEF NoPending, SlotFields
<1>5. u.tx_buffer \in Seq(Nat \X Nat)
  <2>1. t.tx_buffer \in Seq(Nat \X Nat) /\ <<>> \in Seq(Nat \X Nat)
    BY DEF Typed
  <2>. QED  BY <1>2, <2>1
<1>6. u.requested \in Nat /\ u.completed \in Nat /\ u.faults \in Nat
  BY <1>1 DEF Typed
<1>7. DOMAIN u.rx_pending_fc = SlotFields /\ u.rx_pending_fc.frame.pci \in {"NONE", "FC"}
  BY <1>1 DEF Typed
<1>8. Typed(u)
  <2>1. /\ u.tx_total \in Nat /\ u.tx_sent \in Nat /\ u.tx_next_sn \in Nat
        /\ u.tx_block_remaining \in Nat /\ u.tx_stmin \in Nat /\ u.tx_next_cf \in Nat
    BY <1>2
  <2>2. u.tx_block_unlimited \in BOOLEAN /\ u.tx_state \in {"IDLE", "FLOW_CONTROL", "CONSECUTIVE_FRAME"}
    BY <1>1, <1>3
  <2>. QED  BY <1>1, <1>4, <1>5, <1>6, <1>7, <2>1, <2>2, Zenon DEF Typed
<1>. QED  BY <1>1, <1>4, <1>8 DEF u

LEMMA PendingStoreIs ==
  ASSUME NEW slot, NEW f
  PROVE  DOMAIN pending_store(slot, f) = SlotFields /\ pending_store(slot, f).frame = f
  BY DEF pending_store, SlotFields

(* Reception, and a fault, leave the transmission as it is.                *)
LEMMA SameTxKeeps ==
  ASSUME NEW t, NEW u, Typed(t), Typed(u), SameTx(t, u), u.faults >= t.faults, NEW s, NEW g, NEW extra \in Nat,
         Underway(t, s), Waiting(t), Balanced(t, extra), Paced(t, g)
  PROVE  Underway(u, s) /\ Waiting(u) /\ Balanced(u, extra) /\ Paced(u, g)
<1>1. Underway(u, s)
  BY DEF Underway, SameTx, PieceFrom
<1>2. Waiting(u)
  BY DEF Waiting, SameTx, PieceFrom, Allowed
<1>3. Open(u) = Open(t) /\ Open(t) \in Nat
  BY DEF Open, tx_busy, SameTx
<1>4. Balanced(u, extra)
  BY <1>3, SMTT(30) DEF Balanced, Covered, SameTx, Typed
<1>5. Paced(u, g)
  BY DEF Paced, SameTx
<1>. QED  BY <1>1, <1>2, <1>4, <1>5

(* A session that was given up, and reported.                              *)
LEMMA EndedKeeps ==
  ASSUME NEW t, NEW u, Typed(t), Typed(u), NEW s, NEW g, NEW extra \in Nat, Balanced(t, extra),
         u.tx_state = "IDLE", u.tx_pending.frame = None, u.requested = t.requested,
         u.completed = t.completed, u.faults = t.faults + 1
  PROVE  Underway(u, s) /\ Waiting(u) /\ Balanced(u, extra) /\ Paced(u, g)
<1>1. Open(u) = 0 /\ Open(t) \in {0, 1}
  BY DEF Open, tx_busy
<1>2. t.requested \in Nat /\ t.completed \in Nat /\ t.faults \in Nat
  BY DEF Typed
<1>3. Balanced(u, extra)
  BY <1>1, <1>2 DEF Balanced, Covered
<1>. QED  BY <1>3 DEF Underway, Waiting, Paced

-----------------------------------------------------------------------------
(* Sequence numbers count modulo SnMod.                                    *)
LEMMA ModUnique ==
  ASSUME NEW q \in Int, NEW r \in Int, NEW m \in Nat \ {0}, 0 <= r, r < m
  PROVE  ((q * m + r) % m) = r
  OBVIOUS

LEMMA ModNext ==
  ASSUME NEW a \in Nat, NEW m \in Nat \ {0}
  PROVE  (((a % m) + 1) % m) = ((a + 1) % m) /\ (a % m) \in Nat
<1>. DEFINE q == a \div m  r == a % m
<1>1. a = q * m + r /\ q \in Int /\ r \in Nat /\ r < m
  OBVIOUS
<1>. HIDE DEF q, r
<1>2. CASE r + 1 < m
  <2>1. ((q * m + (r + 1)) % m) = r + 1
    BY <1>1, <1>2, ModUnique
  <2>2. ((0 * m + (r + 1)) % m) = r + 1
    BY <1>1, <1>2, ModUnique
  <2>3. a + 1 = q * m + (r + 1) /\ 0 * m + (r + 1) = r + 1
    BY <1>1
  <2>. QED  BY <1>1, <2>1, <2>2, <2>3 DEF r
<1>3. CASE r + 1 = m
  <2>1. (((q + 1) * m + 0) % m) = 0
    BY <1>1, ModUnique
  <2>2. ((1 * m + 0) % m) = 0
    BY ModUnique
  <2>3. a + 1 = (q + 1) * m + 0 /\ r + 1 = 1 * m + 0
    BY <1>1, <1>3
  <2>. QED  BY <1>1, <2>1, <2>2, <2>3 DEF r
<1>. QED  BY <1>1, <1>2, <1>3

LEMMA ReachedNext ==
  ASSUME NEW n \in Nat
  PROVE  Reached(n) \in Nat /\ Reached(n + 1) = Reached(n) + TP_CF_DATA_MAX /\ Reached(0) = TP_FF_DATA_MAX
  BY TpAssumption DEF Reached

LEMMA AppendIs ==
  ASSUME NEW T, NEW s \in Seq(T), NEW f
  PROVE  /\ Append(s, f) \in Seq(T \cup {f}) /\ Len(s) \in Nat /\ Len(Append(s, f)) = Len(s) + 1
         /\ Append(s, f)[Len(s) + 1] = f /\ \A k \in 1..Len(s) : Append(s, f)[k] = s[k]
<1>1. s \in Seq(T \cup {f}) /\ f \in T \cup {f}
  OBVIOUS
<1>. QED  BY <1>1

(* The bytes of the next piece: a whole frame, or the rest of the message. *)
LEMMA PieceLength ==
  ASSUME NEW t, Typed(t), t.tx_total = Len(t.tx_buffer), t.tx_sent < t.tx_total
  PROVE  LET m == Len(PieceFrom(t, t.tx_sent))
         IN  m \in Nat /\ (t.tx_sent + m < t.tx_total => m = TP_CF_DATA_MAX)
<1>. DEFINE b == t.tx_buffer  from == t.tx_sent  to == Least(from + TP_CF_DATA_MAX, t.tx_total)
<1>1. b \in Seq(Nat \X Nat) /\ from \in Nat /\ t.tx_total \in Nat
  BY DEF Typed
<1>2. to \in Nat /\ from < to /\ to <= Len(b) /\ (to < t.tx_total => to = from + TP_CF_DATA_MAX)
  BY <1>1, TpAssumption, SMTT(30) DEF Least
<1>. HIDE DEF b, from, to
<1>3. Len(SubSeq(b, from + 1, to)) = to - from
  BY <1>1, <1>2
<1>4. Len(PieceFrom(t, t.tx_sent)) = to - from
  BY <1>3 DEF PieceFrom, b, from, to
<1>5. to - from \in Nat /\ from + (to - from) = to
  BY <1>1, <1>2
<1>6. to < t.tx_total => to - from = TP_CF_DATA_MAX
  BY <1>1, <1>2, TpAssumption
<1>7. t.tx_sent = from
  BY DEF from
<1>. QED  BY <1>4, <1>5, <1>6, <1>7

(* One consecutive frame leaves: cf_sent.                                  *)
CfFields(t, f, v) ==
  /\ DOMAIN v = TpFields /\ v.tx_pending = t.tx_pending /\ v.rx_pending_fc = t.rx_pending_fc
  /\ v.tx_buffer = t.tx_buffer
  /\ v.tx_next_sn = ((f.sn + 1) % SnMod)
  /\ v.tx_stmin = t.tx_stmin /\ v.tx_next_cf = t.tx_stmin
  /\ v.requested = t.requested /\ v.faults = t.faults

LEMMA CfSentCases ==
  ASSUME NEW t, Typed(t), NEW f
  PROVE  LET u == cf_sent(t, f)  reach == t.tx_sent + Len(f.data)
         IN  /\ CfFields(t, f, u) /\ u.tx_block_unlimited = t.tx_block_unlimited
             /\ t.tx_block_unlimited => u.tx_block_remaining = t.tx_block_remaining
             /\ ~t.tx_block_unlimited /\ Allowed(t) => u.tx_block_remaining = t.tx_block_remaining - 1
             /\ u.tx_block_remaining \in Nat
             /\ reach >= t.tx_total =>
                  u.tx_state = "IDLE" /\ u.completed = t.completed + 1 /\ u.tx_total = 0 /\ u.tx_sent = 0
             /\ ~(reach >= t.tx_total) =>
                  /\ u.tx_state \in {t.tx_state, "FLOW_CONTROL"}
                  /\ ~t.tx_block_unlimited /\ u.tx_block_remaining = 0 => u.tx_state = "FLOW_CONTROL"
                  /\ u.completed = t.completed /\ u.tx_total = t.tx_total /\ u.tx_sent = reach
<1>. DEFINE v == [t EXCEPT !.tx_sent = @ + Len(f.data), !.tx_next_sn = (f.sn + 1) % SnMod,
                           !.tx_block_remaining =
                              IF ~t.tx_block_unlimited /\ @ > 0 THEN @ - 1 ELSE @,
                           !.tx_next_cf = t.tx_stmin]
            reach == t.tx_sent + Len(f.data)
<1>1. /\ CfFields(t, f, v) /\ v.tx_state = t.tx_state /\ v.completed = t.completed
      /\ v.tx_total = t.tx_total /\ v.tx_sent = reach
  BY DEF Typed, TpFields, CfFields
<1>2. v.tx_block_unlimited = t.tx_block_unlimited
  BY DEF Typed, TpFields
<1>3. v.tx_block_remaining = IF ~t.tx_block_unlimited /\ t.tx_block_remaining > 0
                             THEN t.tx_block_remaining - 1 ELSE t.tx_block_remaining
  BY DEF Typed, TpFields
<1>4. /\ t.tx_block_unlimited => v.tx_block_remaining = t.tx_block_remaining
      /\ ~t.tx_block_unlimited /\ Allowed(t) => v.tx_block_remaining = t.tx_block_remaining - 1
      /\ v.tx_block_remaining \in Nat
  BY <1>3 DEF Allowed, Typed
<1>5. cf_sent(t, f) = IF v.tx_sent >= v.tx_total
      THEN [v EXCEPT !.completed = @ + 1, !.tx_state = "IDLE", !.tx_total = 0, !.tx_sent = 0]
      ELSE IF ~v.tx_block_unlimited /\ v.tx_block_remaining = 0
      THEN arm_n_bs([v EXCEPT !.tx_state = "FLOW_CONTROL"])
      ELSE v
  BY DEF cf_sent
<1>. HIDE DEF v, reach
<1>6. CASE reach >= t.tx_total
  <2>. DEFINE u == [v EXCEPT !.completed = @ + 1, !.tx_state = "IDLE", !.tx_total = 0, !.tx_sent = 0]
  <2>1. cf_sent(t, f) = u
    BY <1>1, <1>5, <1>6
  <2>2. /\ CfFields(t, f, u) /\ u.tx_block_remaining = v.tx_block_remaining
        /\ u.tx_state = "IDLE" /\ u.completed = t.completed + 1 /\ u.tx_total = 0 /\ u.tx_sent = 0
    BY <1>1 DEF TpFields, CfFields
  <2>3. u.tx_block_unlimited = t.tx_block_unlimited
    BY <1>1, <1>2 DEF TpFields, CfFields
  <2>. HIDE DEF u
  <2>. QED  BY <1>4, <1>6, <2>1, <2>2, <2>3 DEF reach
<1>7. CASE ~(reach >= t.tx_total) /\ ~v.tx_block_unlimited /\ v.tx_block_remaining = 0
  <2>. DEFINE u == arm_n_bs([v EXCEPT !.tx_state = "FLOW_CONTROL"])
  <2>1. cf_sent(t, f) = u
    BY <1>1, <1>5, <1>7
  <2>2. /\ CfFields(t, f, u) /\ u.tx_block_remaining = v.tx_block_remaining
        /\ u.tx_state = "FLOW_CONTROL" /\ u.completed = t.completed /\ u.tx_total = t.tx_total /\ u.tx_sent = reach
    BY <1>1 DEF TpFields, CfFields, arm_n_bs
  <2>3. u.tx_block_unlimited = t.tx_block_unlimited
    BY <1>1, <1>2 DEF TpFields, CfFields, arm_n_bs
  <2>. HIDE DEF u
  <2>. QED  BY <1>4, <1>7, <2>1, <2>2, <2>3 DEF reach
<1>8. CASE ~(reach >= t.tx_total) /\ ~(~v.tx_block_unlimited /\ v.tx_block_remaining = 0)
  <2>1. cf_sent(t, f) = v
    BY <1>1, <1>5, <1>8
  <2>. QED  BY <1>1, <1>2, <1>4, <1>8, <2>1 DEF reach
<1>. QED  BY <1>6, <1>7, <1>8

Used(g) == [g EXCEPT !.used = @ + 1, !.gap = 0]

LEMMA UsedIs ==
  ASSUME NEW g \in Grants
  PROVE  /\ Used(g) \in Grants
         /\ Used(g).cts = g.cts /\ Used(g).bs = g.bs /\ Used(g).stmin = g.stmin /\ Used(g).used = g.used + 1 /\ Used(g).gap = 0
<1>1. g.used + 1 \in Nat /\ 0 \in 0..MaxGap
  BY PeerAssumption DEF Grants
<1>2. \A x \in Nat : [g EXCEPT !.used = x] \in Grants
  BY DEF Grants
<1>3. \A h \in Grants, y \in 0..MaxGap : [h EXCEPT !.gap = y] \in Grants
  BY DEF Grants
<1>4. Used(g) = [[g EXCEPT !.used = g.used + 1] EXCEPT !.gap = 0]
  BY DEF Used, Grants
<1>5. Used(g) \in Grants
  BY <1>1, <1>2, <1>3, <1>4, ZenonT(30)
<1>. QED  BY <1>5 DEF Used, Grants

LEMMA CfSentKeeps ==
  ASSUME NEW t, Typed(t), NEW s, NEW T, s \in Seq(T), Underway(t, s), NEW extra \in Nat, Balanced(t, extra), NEW g \in Grants, Paced(t, g),
         t.tx_state = "CONSECUTIVE_FRAME", Allowed(t), t.tx_pending.frame = None,
         NEW f, f = ConsecutiveFrame(t.tx_next_sn, PieceFrom(t, t.tx_sent))
  PROVE  LET u == cf_sent(t, f)
         IN  /\ Typed(u) /\ Underway(u, Append(s, f)) /\ Waiting(u) /\ Balanced(u, extra)
             /\ Paced(u, Used(g))
             /\ u.tx_pending.frame = None
<1>. DEFINE u == cf_sent(t, f)  n == Len(s)  m == Len(f.data)  s2 == Append(s, f)
            g2 == Used(g)
<1>1. f.sn = t.tx_next_sn /\ f.data = PieceFrom(t, t.tx_sent)
  BY DEF ConsecutiveFrame
<1>2. /\ t.tx_total = Len(t.tx_buffer) /\ t.tx_sent < t.tx_total
      /\ t.tx_sent = Reached(n) /\ t.tx_next_sn = ((n + 1) % SnMod)
      /\ \A k \in 1..n : s[k].sn = (k % SnMod) /\ s[k].data = PieceFrom(t, Reached(k - 1))
  BY DEF Underway
<1>3. m \in Nat /\ (t.tx_sent + m < t.tx_total => m = TP_CF_DATA_MAX)
  BY <1>1, <1>2, PieceLength
<1>4. /\ t.tx_sent \in Nat /\ t.tx_total \in Nat /\ t.tx_block_remaining \in Nat /\ t.tx_stmin \in Nat
      /\ t.requested \in Nat /\ t.completed \in Nat /\ t.faults \in Nat
  BY DEF Typed
<1>5. /\ CfFields(t, f, u) /\ u.tx_block_unlimited = t.tx_block_unlimited
      /\ t.tx_block_unlimited => u.tx_block_remaining = t.tx_block_remaining
      /\ ~t.tx_block_unlimited => u.tx_block_remaining = t.tx_block_remaining - 1
      /\ u.tx_block_remaining \in Nat
      /\ t.tx_sent + m >= t.tx_total =>
           u.tx_state = "IDLE" /\ u.completed = t.completed + 1 /\ u.tx_total = 0 /\ u.tx_sent = 0
      /\ ~(t.tx_sent + m >= t.tx_total) =>
           /\ u.tx_state \in {"CONSECUTIVE_FRAME", "FLOW_CONTROL"}
           /\ ~t.tx_block_unlimited /\ u.tx_block_remaining = 0 => u.tx_state = "FLOW_CONTROL"
           /\ u.completed = t.completed /\ u.tx_total = t.tx_total /\ u.tx_sent = t.tx_sent + m
  BY CfSentCases
<1>. HIDE DEF u, m
<1>6. u.tx_next_sn = ((n + 2) % SnMod) /\ u.tx_next_sn \in Nat
  <2>1. n \in Nat /\ n + 1 \in Nat /\ n + 2 \in Nat /\ (n + 1) + 1 = n + 2
    OBVIOUS
  <2>2. (((n + 1) % SnMod) + 1) % SnMod = ((n + 2) % SnMod) /\ ((n + 2) % SnMod) \in Nat
    BY <2>1, ModNext, TpAssumption, ZenonT(30)
  <2>3. u.tx_next_sn = ((f.sn + 1) % SnMod)
    BY <1>5 DEF CfFields
  <2>. QED  BY <1>1, <1>2, <2>2, <2>3
<1>7. u.tx_block_remaining \in Nat
  BY <1>4, <1>5, SMTT(30) DEF Allowed
<1>8. Typed(u)
  <2>1. /\ DOMAIN u = TpFields /\ DOMAIN u.tx_pending = SlotFields /\ DOMAIN u.rx_pending_fc = SlotFields
        /\ u.tx_buffer \in Seq(Nat \X Nat) /\ u.rx_pending_fc.frame.pci \in {"NONE", "FC"}
        /\ u.tx_block_unlimited \in BOOLEAN
    BY <1>5 DEF Typed, CfFields
  <2>2. u.tx_stmin \in Nat /\ u.tx_next_cf \in Nat /\ u.requested \in Nat /\ u.faults \in Nat
    BY <1>4, <1>5 DEF CfFields
  <2>3. u.tx_total \in Nat /\ u.tx_sent \in Nat /\ u.completed \in Nat
    BY <1>3, <1>4, <1>5, SMTT(30)
  <2>4. u.tx_state \in {"IDLE", "FLOW_CONTROL", "CONSECUTIVE_FRAME"}
    BY <1>5
  <2>. QED  BY <1>6, <1>7, <2>1, <2>2, <2>3, <2>4, Zenon DEF Typed
<1>9. u.tx_pending.frame = None
  BY <1>5 DEF CfFields
<1>10. Waiting(u)
  BY <1>9 DEF Waiting
<1>11. Underway(u, s2)
  <2>1. CASE t.tx_sent + m >= t.tx_total
    BY <1>5, <2>1 DEF Underway
  <2>2. CASE ~(t.tx_sent + m >= t.tx_total)
    <3>1. t.tx_sent + m < t.tx_total /\ m = TP_CF_DATA_MAX
      BY <1>3, <1>4, <2>2
    <3>2. u.tx_sent = t.tx_sent + m /\ u.tx_total = t.tx_total /\ u.tx_buffer = t.tx_buffer
      BY <1>5, <2>2 DEF CfFields
    <3>3. Len(s2) = n + 1 /\ n \in Nat /\ s2[n + 1] = f /\ \A k \in 1..n : s2[k] = s[k]
      BY AppendIs
    <3>. HIDE DEF n, s2
    <3>4. u.tx_sent = Reached(Len(s2))
      BY <1>2, <3>1, <3>2, <3>3, ReachedNext
    <3>5. u.tx_next_sn = ((Len(s2) + 1) % SnMod)
      <4>1. Len(s2) + 1 = n + 2
        BY <3>3
      <4>. QED  BY <1>6, <4>1
    <3>6. \A x : PieceFrom(u, x) = PieceFrom(t, x)
      BY <3>2 DEF PieceFrom
    <3>7. ASSUME NEW k \in 1..Len(s2)
          PROVE  s2[k].sn = (k % SnMod) /\ s2[k].data = PieceFrom(u, Reached(k - 1))
      <4>1. CASE k = n + 1
        <5>1. k - 1 = n
          BY <3>3, <4>1
        <5>. QED  BY <1>1, <1>2, <3>3, <3>6, <4>1, <5>1
      <4>2. CASE k # n + 1
        <5>1. k \in 1..n
          BY <3>3, <4>2
        <5>. QED  BY <1>2, <3>3, <3>6, <5>1
      <4>. QED  BY <4>1, <4>2
    <3>8. u.tx_total = Len(u.tx_buffer) /\ u.tx_sent < u.tx_total
      BY <1>2, <3>1, <3>2
    <3>. QED  BY <3>4, <3>5, <3>7, <3>8 DEF Underway
  <2>. QED  BY <2>1, <2>2
<1>12. Balanced(u, extra)
  <2>1. Open(t) = 1
    BY DEF Open, tx_busy
  <2>2. u.requested = t.requested /\ u.faults = t.faults
    BY <1>5 DEF CfFields
  <2>3. CASE t.tx_sent + m >= t.tx_total
    <3>1. Open(u) = 0 /\ u.completed = t.completed + 1
      BY <1>5, <1>9, <2>3 DEF Open, tx_busy
    <3>. QED  BY <1>4, <2>1, <2>2, <3>1 DEF Balanced, Covered
  <2>4. CASE ~(t.tx_sent + m >= t.tx_total)
    <3>1. Open(u) = 1 /\ u.completed = t.completed
      BY <1>5, <2>4 DEF Open, tx_busy
    <3>. QED  BY <1>4, <2>1, <2>2, <3>1 DEF Balanced, Covered
  <2>. QED  BY <2>3, <2>4
<1>13. Paced(u, g2)
  <2>1. g2.cts = g.cts /\ g2.bs = g.bs /\ g2.stmin = g.stmin /\ g2.used = g.used + 1 /\ g2.gap = 0
        /\ g.bs \in Nat /\ g.used \in Nat /\ g.stmin \in Nat
    BY UsedIs, PeerAssumption DEF Grants
  <2>. HIDE DEF g2
  <2>. SUFFICES ASSUME u.tx_state = "CONSECUTIVE_FRAME"
                PROVE  /\ g2.cts
                       /\ u.tx_block_unlimited => g2.bs = 0
                       /\ ~u.tx_block_unlimited => u.tx_block_remaining = g2.bs - g2.used /\ u.tx_block_remaining > 0
                       /\ u.tx_stmin = g2.stmin /\ g2.gap + u.tx_next_cf >= g2.stmin
    BY DEF Paced
  <2>2. /\ g.cts
        /\ t.tx_block_unlimited => g.bs = 0
        /\ ~t.tx_block_unlimited => t.tx_block_remaining = g.bs - g.used
        /\ t.tx_stmin = g.stmin
    BY DEF Paced
  <2>3. u.tx_stmin = g2.stmin /\ u.tx_next_cf = g2.stmin
    BY <1>5, <2>1, <2>2 DEF CfFields
  <2>4. g2.gap + u.tx_next_cf >= g2.stmin
    BY <2>1, <2>3
  <2>5. u.tx_block_unlimited => g2.bs = 0
    BY <1>5, <2>1, <2>2
  <2>6. ASSUME ~u.tx_block_unlimited PROVE u.tx_block_remaining = g2.bs - g2.used /\ u.tx_block_remaining > 0
    <3>1. ~t.tx_block_unlimited
      BY <1>5, <2>6
    <3>2. u.tx_block_remaining = t.tx_block_remaining - 1 /\ t.tx_block_remaining = g.bs - g.used
      BY <1>5, <2>2, <3>1
    <3>3. u.tx_block_remaining # 0
      BY <1>5, <3>1
    <3>. QED  BY <1>4, <1>7, <2>1, <3>2, <3>3, SMTT(30)
  <2>. QED  BY <2>1, <2>2, <2>3, <2>4, <2>5, <2>6
<1>. QED  BY <1>8, <1>9, <1>10, <1>11, <1>12, <1>13 DEF u

(* Any consecutive frame, also one that was sent before.                   *)
LEMMA CfSentLoose ==
  ASSUME NEW t, Typed(t), SlotShaped(t), t.requested <= t.completed + 1 + t.faults,
         t.tx_pending.frame = None \/ t.tx_pending.frame.pci \in {"SF", "CF"},
         NEW f, f.sn \in Nat, Len(f.data) \in Nat, t.tx_state = "IDLE" => t.tx_total = 0
  PROVE  LET u == cf_sent(t, f)
         IN  Typed(u) /\ SlotShaped(u) /\ Covered(u) /\ u.requested = t.requested
<1>. DEFINE u == cf_sent(t, f)  m == Len(f.data)
<1>1. /\ CfFields(t, f, u) /\ u.tx_block_unlimited = t.tx_block_unlimited
      /\ u.tx_block_remaining \in Nat
      /\ t.tx_sent + m >= t.tx_total =>
           u.tx_state = "IDLE" /\ u.completed = t.completed + 1 /\ u.tx_total = 0 /\ u.tx_sent = 0
      /\ ~(t.tx_sent + m >= t.tx_total) =>
           /\ u.tx_state \in {t.tx_state, "FLOW_CONTROL"}
           /\ u.completed = t.completed /\ u.tx_total = t.tx_total /\ u.tx_sent = t.tx_sent + m
  BY CfSentCases
<1>2. /\ t.tx_sent \in Nat /\ t.tx_total \in Nat /\ m \in Nat /\ t.tx_stmin \in Nat
      /\ t.requested \in Nat /\ t.completed \in Nat /\ t.faults \in Nat
      /\ t.tx_state \in {"IDLE", "FLOW_CONTROL", "CONSECUTIVE_FRAME"}
  BY DEF Typed
<1>. HIDE DEF u, m
<1>3. u.tx_next_sn \in Nat
  <2>1. \A a \in Nat : (a % SnMod) \in Nat
    BY TpAssumption
  <2>. QED  BY <1>1, <2>1 DEF CfFields
<1>4. Typed(u)
  <2>1. /\ DOMAIN u = TpFields /\ DOMAIN u.tx_pending = SlotFields /\ DOMAIN u.rx_pending_fc = SlotFields
        /\ u.tx_buffer \in Seq(Nat \X Nat) /\ u.rx_pending_fc.frame.pci \in {"NONE", "FC"}
        /\ u.tx_block_unlimited \in BOOLEAN
    BY <1>1 DEF Typed, CfFields
  <2>2. u.tx_stmin \in Nat /\ u.tx_next_cf \in Nat /\ u.requested \in Nat /\ u.faults \in Nat
    BY <1>1, <1>2 DEF CfFields
  <2>3. u.tx_total \in Nat /\ u.tx_sent \in Nat /\ u.completed \in Nat
    BY <1>1, <1>2, SMTT(30)
  <2>4. u.tx_state \in {"IDLE", "FLOW_CONTROL", "CONSECUTIVE_FRAME"}
    BY <1>1, <1>2
  <2>. QED  BY <1>1, <1>3, <2>1, <2>2, <2>3, <2>4, Zenon DEF Typed
<1>5. u.tx_pending = t.tx_pending /\ u.tx_buffer = t.tx_buffer
      /\ u.requested = t.requested /\ u.faults = t.faults
  BY <1>1 DEF CfFields
<1>6. CASE t.tx_sent + m >= t.tx_total
  <2>1. u.tx_state = "IDLE" /\ u.completed = t.completed + 1 /\ u.tx_total = 0
    BY <1>1, <1>6
  <2>2. SlotShaped(u)
    BY <1>5, <2>1 DEF SlotShaped
  <2>3. Open(u) \in {0, 1}
    BY DEF Open
  <2>4. Covered(u)
    BY <1>2, <1>5, <2>1, <2>3 DEF Covered
  <2>. QED  BY <1>4, <1>5, <2>2, <2>4 DEF u
<1>7. CASE ~(t.tx_sent + m >= t.tx_total)
  <2>1. t.tx_state # "IDLE"
    BY <1>2, <1>7
  <2>2. u.tx_state # "IDLE" /\ u.completed = t.completed /\ u.tx_total = t.tx_total
    BY <1>1, <1>7, <2>1
  <2>3. SlotShaped(u)
    BY <1>5, <2>1, <2>2 DEF SlotShaped
  <2>4. Open(u) = 1
    BY <2>2 DEF Open, tx_busy
  <2>5. Covered(u)
    BY <1>2, <1>5, <2>2, <2>4 DEF Covered
  <2>. QED  BY <1>4, <1>5, <2>3, <2>5 DEF u
<1>. QED  BY <1>6, <1>7

-----------------------------------------------------------------------------
(* The steps.  A step that sends a frame shows it at the end of the wire.  *)
PaceKept ==
  Sent("CF") => grant.cts /\ (grant.bs = 0 \/ grant.used < grant.bs) /\ grant.gap >= grant.stmin

LEMMA SentIs ==
  ASSUME IsSeq(wire), NEW f, wire' = Append(wire, f)
  PROVE  IsSeq(wire') /\ wire'[Len(wire')] = f /\ \A p : Sent(p) <=> (f.pci = p)
<1>1. PICK T : wire \in Seq(T)
  BY DEF IsSeq
<1>2. /\ Append(wire, f) \in Seq(T \cup {f}) /\ Len(wire) \in Nat /\ Len(Append(wire, f)) = Len(wire) + 1
      /\ Append(wire, f)[Len(wire) + 1] = f
  BY <1>1, AppendIs
<1>3. Len(wire') > Len(wire) /\ wire'[Len(wire')] = f
  BY <1>2
<1>. QED  BY <1>2, <1>3 DEF IsSeq, Sent

LEMMA NothingSent ==
  ASSUME IsSeq(wire), wire' = wire
  PROVE  IsSeq(wire') /\ \A p : ~Sent(p)
<1>1. PICK T : wire \in Seq(T)
  BY DEF IsSeq
<1>2. ~(Len(wire) > Len(wire))
  BY <1>1
<1>. QED  BY <1>2 DEF Sent

(* What every step but request does: the shape is kept, and a message that *)
(* was not overtaken goes on, at the peer's pace, unless it is overtaken.  *)
Kept ==
  /\ Loose' /\ tp'.requested = tp.requested
  /\ \A extra \in Nat : Going(extra) => PaceKept /\ (~Overtakes => Going(extra)')

LEMMA OpenIs == ASSUME NEW t PROVE Open(t) \in {0, 1}
  BY DEF Open

(* A step that leaves the transmission alone and sends nothing of it.      *)
LEMMA SameStep ==
  ASSUME Loose, Typed(tp'), SameTx(tp, tp'), tp'.faults >= tp.faults, UNCHANGED <<grant, segments>>,
         wire' = wire \/ \E f : wire' = Append(wire, f) /\ f.pci # "CF"
  PROVE  Kept
<1>1. IsSeq(wire') /\ ~Sent("CF")
  BY SentIs, NothingSent DEF Loose
<1>2. Loose'
  <2>1. Open(tp') = Open(tp) /\ Open(tp) \in {0, 1}
    BY OpenIs DEF Open, tx_busy, SameTx
  <2>2. Covered(tp')
    BY <2>1 DEF Loose, Covered, SameTx, Typed
  <2>3. SlotShaped(tp')
    BY DEF Loose, SlotShaped, SameTx
  <2>. QED  BY <1>1, <2>2, <2>3, Zenon DEF Loose
<1>3. ASSUME NEW extra \in Nat, Going(extra) PROVE PaceKept /\ Going(extra)'
  <2>1. Session(tp', segments, grant, extra)
    BY <1>3, SameTxKeeps DEF Going, Session
  <2>. QED  BY <1>1, <1>3, <2>1 DEF Going, PaceKept
<1>. QED  BY <1>2, <1>3 DEF Kept, SameTx

LEMMA AbortStep ==
  ASSUME Loose, NEW code, tp' = abort_tx(raise_fault(tp, code)), UNCHANGED <<grant, segments, wire>>
  PROVE  Kept
<1>. DEFINE t == raise_fault(tp, code)
<1>1. Typed(t) /\ SameTx(tp, t) /\ t.faults = tp.faults + 1
  BY RaiseFaultKeeps DEF Loose
<1>. HIDE DEF t
<1>2. /\ Typed(tp') /\ tp'.tx_state = "IDLE" /\ tp'.tx_pending.frame = None
      /\ tp'.requested = t.requested /\ tp'.completed = t.completed /\ tp'.faults = t.faults
  <2>1. tp' = abort_tx(t)
    BY DEF t
  <2>. QED  BY <1>1, <2>1, AbortTxEnds
<1>3. tp'.requested = tp.requested /\ tp'.completed = tp.completed /\ tp'.faults = tp.faults + 1
  BY <1>1, <1>2 DEF SameTx
<1>4. IsSeq(wire') /\ ~Sent("CF")
  BY NothingSent DEF Loose
<1>5. Loose'
  <2>1. Open(tp') \in {0, 1} /\ Open(tp) \in {0, 1}
    BY OpenIs
  <2>2. Covered(tp')
    BY <1>3, <2>1, SMTT(30) DEF Loose, Covered, Typed
  <2>3. SlotShaped(tp')
    BY <1>2 DEF SlotShaped
  <2>. QED  BY <1>2, <1>4, <2>2, <2>3, Zenon DEF Loose
<1>6. ASSUME NEW extra \in Nat, Going(extra) PROVE PaceKept /\ Going(extra)'
  <2>1. Session(tp', segments, grant, extra)
    BY <1>2, <1>3, <1>6, EndedKeeps DEF Going, Session
  <2>. QED  BY <1>4, <1>6, <2>1 DEF Going, PaceKept
<1>. QED  BY <1>3, <1>5, <1>6 DEF Kept

(* A fault of the reception.                                               *)
LEMMA DropStep ==
  ASSUME Typed(tp), NEW code, tp' = abort_rx(raise_fault(tp, code)) \/ tp' = raise_fault(tp, code)
  PROVE  Typed(tp') /\ SameTx(tp, tp') /\ tp'.faults >= tp.faults
<1>. DEFINE t == raise_fault(tp, code)
<1>0. Typed(tp) /\ tp.faults \in Nat
  BY DEF Typed
<1>1. Typed(t) /\ SameTx(tp, t) /\ t.faults = tp.faults + 1
  BY <1>0, RaiseFaultKeeps
<1>. HIDE DEF t
<1>2. Typed(abort_rx(t)) /\ SameTx(t, abort_rx(t)) /\ abort_rx(t).faults = t.faults
  BY <1>1, AbortRxKeeps
<1>3. tp' = abort_rx(t) \/ tp' = t
  BY DEF t
<1>. QED  BY <1>0, <1>1, <1>2, <1>3 DEF SameTx

LEMMA SameTxTransitive ==
  ASSUME NEW t, NEW u, NEW v, SameTx(t, u), SameTx(u, v)
  PROVE  SameTx(t, v)
  BY DEF SameTx

LEMMA SameTxReflexive == ASSUME NEW t PROVE SameTx(t, t)
  BY DEF SameTx

LEMMA GoingIsLoose ==
  ASSUME NEW extra \in Nat, Going(extra)
  PROVE  Loose
<1>1. Typed(tp) /\ Underway(tp, segments) /\ Waiting(tp) /\ Covered(tp) /\ grant \in Grants
  BY DEF Going, Session, Balanced
<1>2. SlotShaped(tp)
  <2>1. tp.tx_state # "IDLE" => tp.tx_total = Len(tp.tx_buffer) /\ tp.tx_sent < tp.tx_total
    BY <1>1 DEF Underway
  <2>2. CASE /\ tp.tx_state = "CONSECUTIVE_FRAME"
             /\ tp.tx_pending.frame = ConsecutiveFrame(tp.tx_next_sn, PieceFrom(tp, tp.tx_sent))
    <3>1. tp.tx_next_sn \in Nat /\ Len(PieceFrom(tp, tp.tx_sent)) \in Nat
      BY <1>1, <2>1, <2>2, PieceLength DEF Typed
    <3>. QED  BY <2>1, <2>2, <3>1 DEF SlotShaped, ConsecutiveFrame
  <2>. QED  BY <1>1, <2>1, <2>2 DEF Waiting, SlotShaped
<1>. QED  BY <1>1, <1>2 DEF Going, Loose

LEMMA TpInvInit == PeerInit => TpInv
<1>. SUFFICES ASSUME PeerInit PROVE TpInv
  OBVIOUS
<1>1. /\ DOMAIN tp = TpFields /\ tp.tx_pending = NoPending /\ tp.rx_pending_fc = NoPending
      /\ tp.tx_state = "IDLE" /\ tp.tx_buffer = <<>>
  BY DEF PeerInit, Init, Started, TpFields
<1>2. /\ tp.tx_total = 0 /\ tp.tx_sent = 0 /\ tp.tx_next_sn = 0 /\ tp.tx_block_remaining = 0
      /\ tp.tx_stmin = 0 /\ tp.tx_next_cf = 0 /\ tp.requested = 0 /\ tp.completed = 0 /\ tp.faults = 0
  BY DEF PeerInit, Init, Started
<1>3. tp.tx_block_unlimited = FALSE
  BY DEF PeerInit, Init, Started
<1>4. /\ DOMAIN NoPending = SlotFields /\ NoPending.frame = None /\ None.pci = "NONE"
  BY DEF NoPending, SlotFields, None
<1>5. <<>> \in Seq(Nat \X Nat)
  OBVIOUS
<1>6. Typed(tp)
  <2>1. /\ tp.tx_total \in Nat /\ tp.tx_sent \in Nat /\ tp.tx_next_sn \in Nat /\ tp.tx_block_remaining \in Nat
        /\ tp.tx_stmin \in Nat /\ tp.tx_next_cf \in Nat
        /\ tp.requested \in Nat /\ tp.completed \in Nat /\ tp.faults \in Nat
    BY <1>2
  <2>2. tp.tx_block_unlimited \in BOOLEAN
    BY <1>3
  <2>. QED  BY <1>1, <1>4, <1>5, <2>1, <2>2, Zenon DEF Typed
<1>7. Open(tp) = 0
  BY <1>1, <1>4 DEF Open, tx_busy
<1>8. Balanced(tp, 0) /\ 0 \in Nat
  BY <1>2, <1>7 DEF Balanced, Covered
<1>9. Underway(tp, segments) /\ Waiting(tp) /\ Paced(tp, grant)
  BY <1>1, <1>4 DEF Underway, Waiting, Paced
<1>10. grant \in Grants
  BY PeerAssumption DEF PeerInit, NoGrant, Grants
<1>12. IsSeq(wire) /\ IsSeq(segments)
  <2>1. wire = <<>> /\ segments = <<>>
    BY DEF PeerInit, Init
  <2>. QED  BY <1>5, <2>1 DEF IsSeq
<1>13. Session(tp, segments, grant, 0)
  BY <1>6, <1>8, <1>9, <1>10, Zenon DEF Session
<1>14. Loose
  BY <1>8, <1>12, <1>13, GoingIsLoose DEF Going
<1>15. overtaken = {}
  BY DEF PeerInit
<1>. QED  BY <1>8, <1>13, <1>14, <1>15, Zenon DEF TpInv

(* A frame of the peer that is no flow control, and the answer to it.      *)
LEMMA AnswerKeeps ==
  ASSUME NEW t, Typed(t), NEW fc, fc.pci = "FC", answer_fc(fc, t)
  PROVE  /\ Typed(tp') /\ SameTx(t, tp') /\ tp'.faults = t.faults
         /\ wire' = wire \/ \E f : wire' = Append(wire, f) /\ f.pci # "CF"
<1>. DEFINE slot == pending_store(t.rx_pending_fc, fc)
<1>1. \/ tp' = [t EXCEPT !.rx_pending_fc = NoPending] /\ wire' = Append(wire, fc)
      \/ tp' = [t EXCEPT !.rx_pending_fc = slot] /\ wire' = wire
  BY DEF answer_fc, emit_frame, Typed, TpFields
<1>2. /\ DOMAIN slot = SlotFields /\ slot.frame = fc
      /\ DOMAIN NoPending = SlotFields /\ NoPending.frame.pci = "NONE"
  BY PendingStoreIs DEF NoPending, SlotFields, None
<1>. HIDE DEF slot
<1>3. ASSUME NEW v, DOMAIN v = SlotFields, v.frame.pci \in {"NONE", "FC"}
      PROVE  LET u == [t EXCEPT !.rx_pending_fc = v] IN Typed(u) /\ SameTx(t, u) /\ u.faults = t.faults
  BY <1>3 DEF Typed, SameTx, TpFields
<1>. QED  BY <1>1, <1>2, <1>3, ZenonT(30)

LEMMA HearOther ==
  ASSUME Loose, NEW f, f.pci # "FC", rx_frame(f), UNCHANGED <<grant, segments>>
  PROVE  Kept
<1>0. Typed(tp) /\ tp.faults \in Nat /\ SameTx(tp, tp)
  BY SameTxReflexive DEF Loose, Typed
<1>. DEFINE Quiet == /\ Typed(tp') /\ SameTx(tp, tp') /\ tp'.faults >= tp.faults
                     /\ wire' = wire \/ \E x : wire' = Append(wire, x) /\ x.pci # "CF"
<1>. SUFFICES Quiet
  BY <1>0, SameStep
<1>1. ASSUME NEW code, drop_rx(code) \/ ignore(code) PROVE Quiet
  <2>1. wire' = wire /\ (tp' = abort_rx(raise_fault(tp, code)) \/ tp' = raise_fault(tp, code))
    BY <1>1 DEF drop_rx, ignore
  <2>. QED  BY <1>0, <2>1, DropStep
<1>2. ASSUME tp' = tp, wire' = wire PROVE Quiet
  BY <1>0, <1>2
<1>3. CASE handle_sf(f)
  BY <1>1, <1>2, <1>3 DEF handle_sf
<1>4. CASE handle_ff(f)
  <2>. DEFINE t == arm_n_cr([tp EXCEPT !.rx_data = f.data, !.rx_total = f.total,
                                       !.rx_expected_sn = 1 % SnMod, !.rx_state = "FIRST_FRAME"])
              u == raise_fault(tp, "BUFFER_OVERFLOW")
  <2>1. \/ drop_rx("PROTOCOL") \/ ignore("PROTOCOL")
        \/ answer_fc(FlowControl("OVFLW", 0, 0), u)
        \/ answer_fc(FlowControl("CTS", tp.fc_block_size, fc_stmin), t)
    BY <1>4 DEF handle_ff
  <2>2. Typed(u) /\ SameTx(tp, u) /\ u.faults >= tp.faults
    BY <1>0, RaiseFaultKeeps
  <2>4. Typed(t) /\ SameTx(tp, t) /\ t.faults >= tp.faults
    <3>1. Typed(t) /\ SameTx(tp, t) /\ t.faults = tp.faults
      BY <1>0 DEF Typed, SameTx, TpFields, arm_n_cr
    <3>. QED  BY <1>0, <3>1
  <2>5. \A a, b, c : FlowControl(a, b, c).pci = "FC"
    BY DEF FlowControl
  <2>. HIDE DEF t, u
  <2>6. ASSUME NEW v, Typed(v), SameTx(tp, v), v.faults >= tp.faults, NEW fc, fc.pci = "FC", answer_fc(fc, v)
        PROVE  Quiet
    BY <2>6, AnswerKeeps, SameTxTransitive
  <2>. QED  BY <1>1, <2>1, <2>2, <2>4, <2>5, <2>6
<1>5. CASE handle_cf(f)
  <2>. DEFINE data == tp.rx_data \o f.data  sn == (f.sn + 1) % SnMod
  <2>1. \/ drop_rx("PROTOCOL") \/ ignore("PROTOCOL")
        \/ /\ wire' = wire
           /\ \/ tp' = [arm_n_cr([tp EXCEPT !.rx_expected_sn = sn])
                          EXCEPT !.rx_state = "IDLE", !.rx_total = 0, !.rx_data = <<>>]
              \/ tp' = [arm_n_cr([tp EXCEPT !.rx_expected_sn = sn]) EXCEPT !.rx_data = data]
    BY <1>5 DEF handle_cf
  <2>. HIDE DEF data, sn
  <2>4. CASE wire' = wire /\ tp' = [arm_n_cr([tp EXCEPT !.rx_expected_sn = sn])
                                      EXCEPT !.rx_state = "IDLE", !.rx_total = 0, !.rx_data = <<>>]
    <3>1. Typed(tp') /\ SameTx(tp, tp') /\ tp'.faults = tp.faults
      BY <1>0, <2>4 DEF Typed, SameTx, TpFields, arm_n_cr
    <3>. QED  BY <1>0, <2>4, <3>1
  <2>5. CASE wire' = wire /\ tp' = [arm_n_cr([tp EXCEPT !.rx_expected_sn = sn]) EXCEPT !.rx_data = data]
    <3>1. Typed(tp') /\ SameTx(tp, tp') /\ tp'.faults = tp.faults
      BY <1>0, <2>5 DEF Typed, SameTx, TpFields, arm_n_cr
    <3>. QED  BY <1>0, <2>5, <3>1
  <2>. QED  BY <1>1, <2>1, <2>4, <2>5
<1>6. CASE handle_invalid(f)
  BY <1>1, <1>6 DEF handle_invalid
<1>. QED  BY <1>3, <1>4, <1>5, <1>6 DEF rx_frame, handle_fc

(* A flow control of the peer.                                             *)
LEMMA FlowControls ==
  ASSUME NEW f \in PeerFrames, f.pci = "FC"
  PROVE  f.bs \in Nat /\ stmin_decode(f.stmin) \in 0..MaxGap
<1>1. f.bs \in BlockSizes \cup {0} /\ f.stmin \in StMins \cup {0}
  BY DEF PeerFrames
<1>2. \A st \in 0..255 : stmin_decode(st) \in Nat
  BY DEF stmin_decode
<1>3. stmin_decode(0) = 0
  BY DEF stmin_decode
<1>4. /\ \A b \in BlockSizes : b \in Nat
      /\ \A st \in StMins : st \in 0..255 /\ stmin_decode(st) <= MaxGap
      /\ MaxGap \in Nat
  BY PeerAssumption
<1>5. \A st \in StMins \cup {0} : stmin_decode(st) \in 0..MaxGap
  BY <1>2, <1>3, <1>4
<1>. QED  BY <1>1, <1>4, <1>5

(* Clear to send: what the session believes is what was granted.           *)
Cleared(t, u, bs, stmin) ==
  /\ DOMAIN u = TpFields /\ u.tx_pending = t.tx_pending /\ u.rx_pending_fc = t.rx_pending_fc
  /\ u.tx_state = "CONSECUTIVE_FRAME" /\ u.tx_buffer = t.tx_buffer /\ u.tx_total = t.tx_total
  /\ u.tx_sent = t.tx_sent /\ u.tx_next_sn = t.tx_next_sn
  /\ u.requested = t.requested /\ u.completed = t.completed /\ u.faults = t.faults
  /\ u.tx_block_remaining = bs /\ u.tx_stmin = stmin /\ u.tx_next_cf = 0

LEMMA ClearedIs ==
  ASSUME NEW t, Typed(t), NEW bs \in Nat, NEW stmin \in 0..MaxGap, NEW u, Cleared(t, u, bs, stmin),
         u.tx_block_unlimited = (bs = 0)
  PROVE  Typed(u)
<1>1. /\ DOMAIN u = TpFields /\ u.tx_pending = t.tx_pending /\ u.rx_pending_fc = t.rx_pending_fc
      /\ u.tx_state = "CONSECUTIVE_FRAME" /\ u.tx_buffer = t.tx_buffer /\ u.tx_total = t.tx_total
      /\ u.tx_sent = t.tx_sent /\ u.tx_next_sn = t.tx_next_sn
      /\ u.requested = t.requested /\ u.completed = t.completed /\ u.faults = t.faults
  BY DEF Cleared
<1>2. u.tx_block_remaining = bs /\ u.tx_stmin = stmin /\ u.tx_next_cf = 0
  BY DEF Cleared
<1>3. u.tx_block_unlimited = (bs = 0)
  OBVIOUS
<1>4. stmin \in Nat /\ 0 \in Nat /\ stmin <= MaxGap
  BY PeerAssumption
<1>5. u.tx_state \in {"IDLE", "FLOW_CONTROL", "CONSECUTIVE_FRAME"}
  BY <1>1
<1>6. u.tx_block_unlimited \in BOOLEAN
  BY <1>3
<1>7. u.tx_block_remaining \in Nat /\ u.tx_stmin \in Nat /\ u.tx_next_cf \in Nat
  BY <1>2, <1>4
<1>. QED  BY <1>1, <1>5, <1>6, <1>7, Zenon DEF Typed

LEMMA ClearToSendKeeps ==
  ASSUME NEW t, Typed(t), NEW s, Underway(t, s), Waiting(t), NEW extra \in Nat, Balanced(t, extra), t.tx_state = "FLOW_CONTROL",
         NEW bs \in Nat, NEW stmin \in 0..MaxGap, NEW u, Cleared(t, u, bs, stmin),
         u.tx_block_unlimited = (bs = 0)
  PROVE  Session(u, s, [cts |-> TRUE, bs |-> bs, stmin |-> stmin, used |-> 0, gap |-> MaxGap], extra)
<1>. DEFINE g == [cts |-> TRUE, bs |-> bs, stmin |-> stmin, used |-> 0, gap |-> MaxGap]
<1>1. /\ DOMAIN u = TpFields /\ u.tx_pending = t.tx_pending /\ u.rx_pending_fc = t.rx_pending_fc
      /\ u.tx_state = "CONSECUTIVE_FRAME" /\ u.tx_buffer = t.tx_buffer /\ u.tx_total = t.tx_total
      /\ u.tx_sent = t.tx_sent /\ u.tx_next_sn = t.tx_next_sn
      /\ u.requested = t.requested /\ u.completed = t.completed /\ u.faults = t.faults
  BY DEF Cleared
<1>2. u.tx_block_remaining = bs /\ u.tx_stmin = stmin /\ u.tx_next_cf = 0
  BY DEF Cleared
<1>3. u.tx_block_unlimited = (bs = 0)
  OBVIOUS
<1>4. stmin \in Nat /\ 0 \in Nat /\ stmin <= MaxGap
  BY PeerAssumption
<1>5. Typed(u)
  BY ClearedIs
<1>6. Underway(u, s)
  BY <1>1 DEF Underway, PieceFrom
<1>7. t.tx_pending.frame = None
  BY DEF Waiting
<1>8. Waiting(u)
  BY <1>1, <1>7 DEF Waiting
<1>9. Open(u) = 1 /\ Open(t) = 1
  BY <1>1 DEF Open, tx_busy
<1>10. Balanced(u, extra)
  BY <1>1, <1>9 DEF Balanced, Covered
<1>11. g \in Grants
  BY <1>4, PeerAssumption DEF Grants
<1>12. Paced(u, g)
  <2>1. g.cts /\ g.bs = bs /\ g.stmin = stmin /\ g.used = 0 /\ g.gap = MaxGap
    OBVIOUS
  <2>2. u.tx_block_unlimited => g.bs = 0
    BY <1>3, <2>1
  <2>3. ~u.tx_block_unlimited => bs # 0
    BY <1>3
  <2>4. bs # 0 => u.tx_block_remaining = g.bs - g.used /\ u.tx_block_remaining > 0
    BY <1>2, <2>1
  <2>5. u.tx_stmin = g.stmin /\ g.gap + u.tx_next_cf >= g.stmin
    BY <1>2, <1>4, <2>1, PeerAssumption
  <2>. HIDE DEF g
  <2>. QED  BY <2>1, <2>2, <2>3, <2>4, <2>5 DEF Paced
<1>. QED  BY <1>5, <1>6, <1>8, <1>10, <1>11, <1>12 DEF Session

LEMMA WaitKeeps ==
  ASSUME NEW t, Typed(t), NEW n, NEW u, u = arm_n_bs([t EXCEPT !.tx_wait_frames = n])
  PROVE  Typed(u) /\ SameTx(t, u) /\ u.faults = t.faults
  BY DEF Typed, SameTx, TpFields, arm_n_bs

LEMMA HearStep ==
  ASSUME Loose, hear
  PROVE  Kept
<1>. DEFINE cts(f) == [cts |-> TRUE, bs |-> f.bs, stmin |-> stmin_decode(f.stmin), used |-> 0, gap |-> MaxGap]
<1>1. PICK f \in PeerFrames :
        rx_frame(f) /\ grant' = IF f.pci = "FC" /\ tp'.tx_state = "CONSECUTIVE_FRAME" THEN cts(f) ELSE grant
  BY DEF hear
<1>2. segments' = segments
  BY DEF hear
<1>3. CASE f.pci # "FC"
  BY <1>1, <1>2, <1>3, HearOther
<1>4. CASE f.pci = "FC"
  <2>1. handle_fc(f)
    BY <1>1, <1>4 DEF rx_frame, handle_sf, handle_ff, handle_cf, handle_invalid
  <2>2. Typed(tp) /\ tp.faults \in Nat
    BY DEF Loose, Typed
  <2>3. ASSUME NEW code, drop_tx(code) PROVE Kept
    <3>1. tp' = abort_tx(raise_fault(tp, code)) /\ wire' = wire
      BY <2>3 DEF drop_tx
    <3>2. Typed(raise_fault(tp, code))
      BY <2>2, RaiseFaultKeeps
    <3>3. tp'.tx_state = "IDLE"
      BY <3>1, <3>2, AbortTxEnds
    <3>. QED  BY <1>1, <1>2, <3>1, <3>3, AbortStep
  <2>. DEFINE open == (f.bs = 0)
  <2>4. CASE /\ tp.tx_state = "FLOW_CONTROL" /\ UNCHANGED wire
             /\ tp' = [tp EXCEPT !.tx_state = "CONSECUTIVE_FRAME", !.tx_wait_frames = 0,
                                 !.tx_block_unlimited = open, !.tx_block_remaining = f.bs,
                                 !.tx_stmin = stmin_decode(f.stmin), !.tx_next_cf = 0]
    <3>1. f.bs \in Nat /\ stmin_decode(f.stmin) \in 0..MaxGap
      BY <1>4, FlowControls
    <3>2. Cleared(tp, tp', f.bs, stmin_decode(f.stmin))
      BY <2>2, <2>4 DEF Typed, TpFields, Cleared
    <3>3. tp'.tx_block_unlimited = (f.bs = 0)
      BY <2>2, <2>4 DEF Typed, TpFields
    <3>4. tp'.tx_state = "CONSECUTIVE_FRAME" /\ grant' = cts(f)
      BY <1>1, <1>4, <3>2 DEF Cleared
    <3>5. IsSeq(wire') /\ IsSeq(segments') /\ ~Sent("CF")
      BY <1>2, <2>4, NothingSent DEF Loose
    <3>6. Typed(tp') /\ grant' \in Grants
      <4>1. Typed(tp')
        BY <2>2, <3>1, <3>2, <3>3, ClearedIs
      <4>. QED  BY <3>1, <3>4, <4>1, PeerAssumption DEF Grants
    <3>7. Covered(tp')
      <4>1. Open(tp) = 1 /\ Open(tp') = 1
        BY <2>4, <3>4 DEF Open, tx_busy
      <4>. QED  BY <3>2, <4>1 DEF Loose, Covered, Cleared
    <3>8. SlotShaped(tp')
      BY <2>4, <3>2 DEF Loose, SlotShaped, Cleared
    <3>9. Loose'
      BY <3>5, <3>6, <3>7, <3>8 DEF Loose
    <3>10. ASSUME NEW extra \in Nat, Going(extra) PROVE PaceKept /\ Going(extra)'
      <4>1. Underway(tp, segments) /\ Waiting(tp) /\ Balanced(tp, extra) /\ tp.tx_state = "FLOW_CONTROL"
        BY <2>4, <3>10 DEF Going, Session
      <4>2. Session(tp', segments, cts(f), extra)
        BY <2>2, <3>1, <3>2, <3>3, <4>1, ClearToSendKeeps
      <4>3. Session(tp', segments', grant', extra)
        BY <1>2, <3>4, <4>2
      <4>. QED  BY <3>5, <4>3 DEF Going, PaceKept
    <3>. QED  BY <3>2, <3>9, <3>10 DEF Kept, Cleared
  <2>5. CASE /\ tp.tx_state = "FLOW_CONTROL" /\ UNCHANGED wire
             /\ tp' = arm_n_bs([tp EXCEPT !.tx_wait_frames = @ + 1])
    <3>1. tp' = arm_n_bs([tp EXCEPT !.tx_wait_frames = tp.tx_wait_frames + 1])
      BY <2>2, <2>5 DEF Typed, TpFields
    <3>2. Typed(tp') /\ SameTx(tp, tp') /\ tp'.faults = tp.faults
      BY <2>2, <3>1, WaitKeeps, Zenon
    <3>3. tp'.tx_state = "FLOW_CONTROL" /\ tp'.faults >= tp.faults
      BY <2>2, <2>5, <3>2 DEF SameTx
    <3>4. UNCHANGED <<grant, segments>>
      BY <1>1, <1>2, <3>3
    <3>. QED  BY <2>5, <3>2, <3>3, <3>4, SameStep
  <2>. QED  BY <2>1, <2>3, <2>4, <2>5 DEF handle_fc
<1>. QED  BY <1>3, <1>4

(* What a step adds to the history of consecutive frames.                  *)
LEMMA RecordedIs ==
  ASSUME IsSeq(wire), Recorded
  PROVE  /\ wire' = wire => segments' = segments /\ ~Sent("CF")
         /\ \A f : wire' = Append(wire, f) /\ f.pci \notin {"FF", "CF"} => segments' = segments /\ ~Sent("CF")
         /\ \A f : wire' = Append(wire, f) /\ f.pci = "FF" => segments' = <<>> /\ ~Sent("CF")
         /\ \A f : wire' = Append(wire, f) /\ f.pci = "CF" => segments' = Append(segments, f) /\ Sent("CF")
<1>1. ASSUME wire' = wire PROVE segments' = segments /\ ~Sent("CF")
  <2>1. ~Sent("FF") /\ ~Sent("CF")
    BY <1>1, NothingSent
  <2>. QED  BY <2>1 DEF Recorded
<1>2. ASSUME NEW f, wire' = Append(wire, f), f.pci \notin {"FF", "CF"} PROVE segments' = segments /\ ~Sent("CF")
  <2>1. ~Sent("FF") /\ ~Sent("CF")
    BY <1>2, SentIs
  <2>. QED  BY <2>1 DEF Recorded
<1>3. ASSUME NEW f, wire' = Append(wire, f), f.pci = "FF" PROVE segments' = <<>> /\ ~Sent("CF")
  <2>1. Sent("FF") /\ ~Sent("CF")
    BY <1>3, SentIs
  <2>. QED  BY <2>1 DEF Recorded
<1>4. ASSUME NEW f, wire' = Append(wire, f), f.pci = "CF" PROVE segments' = Append(segments, f) /\ Sent("CF")
  <2>1. ~Sent("FF") /\ Sent("CF") /\ wire'[Len(wire')] = f
    BY <1>4, SentIs
  <2>. QED  BY <2>1 DEF Recorded
<1>. QED  BY <1>1, <1>2, <1>3, <1>4

LEMMA RecordedSeq ==
  ASSUME IsSeq(segments), Recorded
  PROVE  IsSeq(segments')
<1>1. PICK T : segments \in Seq(T)
  BY DEF IsSeq
<1>2. segments' = segments \/ segments' = <<>> \/ segments' = Append(segments, wire'[Len(wire')])
  BY DEF Recorded
<1>3. <<>> \in Seq(Nat)
  OBVIOUS
<1>4. \A f : IsSeq(Append(segments, f))
  BY <1>1, AppendIs DEF IsSeq
<1>5. IsSeq(<<>>)
  BY <1>3 DEF IsSeq
<1>. QED  BY <1>2, <1>4, <1>5, Zenon

LEMMA MessageIs ==
  ASSUME NEW k \in Nat, NEW n \in Nat
  PROVE  Message(k, n) \in Seq(Nat \X Nat) /\ Len(Message(k, n)) = n
  BY DEF Message

(* A first frame has left: the session starts with nothing but its bytes.  *)
LEMMA FirstFrameKeeps ==
  ASSUME NEW u, Typed(u), NEW g, u.tx_state = "FLOW_CONTROL", u.tx_total = Len(u.tx_buffer),
         u.tx_total > TP_SF_DATA_MAX, u.tx_sent = TP_FF_DATA_MAX, u.tx_next_sn = (1 % SnMod),
         u.tx_pending.frame = None
  PROVE  Underway(u, <<>>) /\ Waiting(u) /\ Paced(u, g)
<1>1. Reached(Len(<<>>)) = TP_FF_DATA_MAX /\ Len(<<>>) = 0 /\ 0 + 1 = 1
  BY TpAssumption DEF Reached
<1>2. u.tx_total \in Nat /\ TP_FF_DATA_MAX < u.tx_total
  BY TpAssumption DEF Typed
<1>3. \A k \in 1..Len(<<>>) : FALSE
  OBVIOUS
<1>4. Underway(u, <<>>)
  BY <1>1, <1>2, <1>3 DEF Underway
<1>. QED  BY <1>4 DEF Waiting, Paced

(* The application hands over a message.                                   *)
Requested(t, u) ==
  /\ DOMAIN u = TpFields /\ u.rx_pending_fc = t.rx_pending_fc
  /\ u.tx_block_remaining = t.tx_block_remaining
  /\ u.tx_stmin = t.tx_stmin /\ u.tx_next_cf = t.tx_next_cf
  /\ u.requested = t.requested + 1 /\ u.faults = t.faults

LEMMA RequestedTyped ==
  ASSUME NEW t, NEW u, Typed(t), Requested(t, u), u.tx_block_unlimited = t.tx_block_unlimited,
         DOMAIN u.tx_pending = SlotFields, u.tx_state \in {"IDLE", "FLOW_CONTROL"},
         u.tx_buffer \in Seq(Nat \X Nat), u.tx_total \in Nat, u.tx_sent \in Nat, u.tx_next_sn \in Nat,
         u.completed \in Nat
  PROVE  Typed(u)
<1>1. u.requested \in Nat /\ u.faults \in Nat
  BY SMTT(30) DEF Requested, Typed
<1>2. u.tx_state \in {"IDLE", "FLOW_CONTROL", "CONSECUTIVE_FRAME"}
  OBVIOUS
<1>3. u.tx_block_unlimited \in BOOLEAN
  BY DEF Typed
<1>. QED  BY <1>1, <1>2, <1>3, Zenon DEF Typed, Requested

LEMMA RequestStep ==
  ASSUME Loose, request, NEW extra \in Nat, Balanced(tp, extra)
  PROVE  Going(extra)' /\ PaceKept /\ tp'.requested = tp.requested + 1
<1>1. PICK n \in Lengths : send(Message(tp.requested + 1, n))
  BY DEF request
<1>. DEFINE m == Message(tp.requested + 1, n)
<1>2. Recorded /\ grant' \in Grants /\ IsSeq(wire) /\ IsSeq(segments)
  BY PeerAssumption DEF request, NoGrant, Grants, Loose
<1>3. Typed(tp) /\ Balanced(tp, extra) /\ tp.tx_state = "IDLE" /\ tp.tx_pending.frame = None
  BY <1>1 DEF send, tx_busy, Loose
<1>4. m \in Seq(Nat \X Nat) /\ Len(m) \in Nat
  <2>1. tp.requested + 1 \in Nat /\ n \in Nat
    BY <1>3, PeerAssumption, SMTT(30) DEF Typed
  <2>. QED  BY <2>1, MessageIs
<1>. HIDE DEF m
<1>6. send_sf(m) \/ send_ff(m)
  BY <1>1 DEF send, m
<1>7. /\ tp.requested \in Nat /\ tp.completed \in Nat /\ tp.faults \in Nat /\ tp.tx_buffer \in Seq(Nat \X Nat)
      /\ tp.tx_total \in Nat /\ tp.tx_sent \in Nat /\ tp.tx_next_sn \in Nat
  BY <1>3 DEF Typed
<1>8. /\ SingleFrame(m).pci = "SF" /\ FirstFrame(m).pci = "FF"
      /\ SingleFrame(m) # None /\ FirstFrame(m) # None
  BY DEF SingleFrame, FirstFrame, None
<1>9. Open(tp) = 0
  BY <1>3 DEF Open, tx_busy
<1>. DEFINE sf == SingleFrame(m)  ff == FirstFrame(m)
            ps == pending_store(tp.tx_pending, sf)  pf == pending_store(tp.tx_pending, ff)
<1>10. DOMAIN ps = SlotFields /\ DOMAIN pf = SlotFields /\ ps.frame = sf /\ pf.frame = ff
  BY PendingStoreIs
<1>11. IsSeq(<<>>)
  <2>1. <<>> \in Seq(Nat)
    OBVIOUS
  <2>. QED  BY <2>1 DEF IsSeq
<1>. DEFINE Done == Going(extra)' /\ PaceKept /\ tp'.requested = tp.requested + 1
<1>12. ASSUME Session(tp', segments', grant', extra), ~Sent("CF"), IsSeq(wire'), IsSeq(segments'), Requested(tp, tp')
       PROVE  Done
  BY <1>12 DEF Going, PaceKept, Requested
<1>. HIDE DEF ps, pf, sf, ff
<1>13. CASE wire' = Append(wire, sf) /\ tp' = [[tp EXCEPT !.requested = @ + 1] EXCEPT !.completed = @ + 1]
  <2>1. segments' = segments /\ ~Sent("CF") /\ IsSeq(wire')
    BY <1>2, <1>8, <1>13, RecordedIs, SentIs DEF sf
  <2>2. /\ Requested(tp, tp') /\ tp'.tx_pending = tp.tx_pending /\ tp'.tx_state = tp.tx_state
        /\ tp'.tx_buffer = tp.tx_buffer /\ tp'.tx_total = tp.tx_total /\ tp'.tx_sent = tp.tx_sent
        /\ tp'.tx_next_sn = tp.tx_next_sn /\ tp'.completed = tp.completed + 1
    BY <1>3, <1>13 DEF Requested, Typed, TpFields
  <2>3. tp'.tx_block_unlimited = tp.tx_block_unlimited
    BY <1>3, <1>13 DEF Typed, TpFields
  <2>4. DOMAIN tp'.tx_pending = SlotFields /\ tp'.completed \in Nat /\ tp'.tx_state = "IDLE"
    BY <1>3, <1>7, <2>2, SMTT(30) DEF Typed
  <2>5. Typed(tp')
    BY <1>3, <1>7, <2>2, <2>3, <2>4, RequestedTyped
  <2>6. Open(tp') = 0
    BY <1>3, <2>2 DEF Open, tx_busy
  <2>7. Balanced(tp', extra)
    BY <1>3, <1>7, <1>9, <2>2, <2>6, SMTT(30) DEF Balanced, Covered, Requested
  <2>8. Underway(tp', segments) /\ Waiting(tp') /\ Paced(tp', grant')
    BY <1>3, <2>2 DEF Underway, Waiting, Paced
  <2>. QED  BY <1>2, <1>3, <1>12, <2>1, <2>2, <2>5, <2>7, <2>8 DEF Session
<1>14. CASE wire' = wire /\ tp' = [[tp EXCEPT !.requested = @ + 1] EXCEPT !.tx_pending = ps]
  <2>1. segments' = segments /\ ~Sent("CF") /\ IsSeq(wire')
    BY <1>2, <1>14, RecordedIs
  <2>2. /\ Requested(tp, tp') /\ tp'.tx_pending = ps /\ tp'.tx_state = tp.tx_state
        /\ tp'.tx_buffer = tp.tx_buffer /\ tp'.tx_total = tp.tx_total /\ tp'.tx_sent = tp.tx_sent
        /\ tp'.tx_next_sn = tp.tx_next_sn /\ tp'.completed = tp.completed
    BY <1>3, <1>14 DEF Requested, Typed, TpFields
  <2>3. tp'.tx_block_unlimited = tp.tx_block_unlimited
    BY <1>3, <1>14 DEF Typed, TpFields
  <2>5. Typed(tp')
    BY <1>3, <1>7, <1>10, <2>2, <2>3, RequestedTyped
  <2>6. Open(tp') = 1
    BY <1>8, <1>10, <2>2 DEF Open, tx_busy, sf
  <2>7. Balanced(tp', extra)
    BY <1>3, <1>7, <1>9, <2>2, <2>6, SMTT(30) DEF Balanced, Covered, Requested
  <2>8. Underway(tp', segments) /\ Waiting(tp') /\ Paced(tp', grant')
    BY <1>3, <1>8, <1>10, <2>2 DEF Underway, Waiting, Paced, sf
  <2>. QED  BY <1>2, <1>3, <1>12, <2>1, <2>2, <2>5, <2>7, <2>8 DEF Session
<1>15. (1 % SnMod) \in Nat
  BY TpAssumption
<1>. DEFINE t == [tp EXCEPT !.requested = @ + 1, !.tx_buffer = m, !.tx_total = Len(m),
                            !.tx_next_sn = 1 % SnMod, !.tx_wait_frames = 0]
<1>16. CASE /\ wire' = Append(wire, ff) /\ Len(m) > TP_SF_DATA_MAX
            /\ tp' = arm_n_bs([t EXCEPT !.tx_sent = TP_FF_DATA_MAX, !.tx_state = "FLOW_CONTROL"])
  <2>1. segments' = <<>> /\ ~Sent("CF") /\ IsSeq(wire')
    BY <1>2, <1>8, <1>16, RecordedIs, SentIs DEF ff
  <2>2. /\ Requested(tp, tp') /\ tp'.tx_pending = tp.tx_pending /\ tp'.tx_state = "FLOW_CONTROL"
        /\ tp'.tx_buffer = m /\ tp'.tx_total = Len(m) /\ tp'.tx_sent = TP_FF_DATA_MAX
        /\ tp'.tx_next_sn = (1 % SnMod) /\ tp'.completed = tp.completed
    BY <1>3, <1>16 DEF Requested, Typed, TpFields, arm_n_bs
  <2>3. tp'.tx_block_unlimited = tp.tx_block_unlimited
    BY <1>3, <1>16 DEF Typed, TpFields, arm_n_bs
  <2>4. DOMAIN tp'.tx_pending = SlotFields /\ TP_FF_DATA_MAX \in Nat
    BY <1>3, <2>2, TpAssumption DEF Typed
  <2>5. Typed(tp')
    BY <1>3, <1>4, <1>7, <1>15, <2>2, <2>3, <2>4, RequestedTyped
  <2>6. Open(tp') = 1
    BY <2>2 DEF Open, tx_busy
  <2>7. Balanced(tp', extra)
    BY <1>3, <1>7, <1>9, <2>2, <2>6, SMTT(30) DEF Balanced, Covered, Requested
  <2>8. Underway(tp', <<>>) /\ Waiting(tp') /\ Paced(tp', grant')
    BY <1>3, <1>16, <2>2, <2>5, FirstFrameKeeps
  <2>. QED  BY <1>2, <1>3, <1>11, <1>12, <2>1, <2>2, <2>5, <2>7, <2>8 DEF Session
<1>17. CASE /\ wire' = wire /\ Len(m) > TP_SF_DATA_MAX
            /\ tp' = [t EXCEPT !.tx_sent = 0, !.tx_pending = pf]
  <2>1. segments' = segments /\ ~Sent("CF") /\ IsSeq(wire')
    BY <1>2, <1>17, RecordedIs
  <2>2. /\ Requested(tp, tp') /\ tp'.tx_pending = pf /\ tp'.tx_state = tp.tx_state
        /\ tp'.tx_buffer = m /\ tp'.tx_total = Len(m) /\ tp'.tx_sent = 0
        /\ tp'.tx_next_sn = (1 % SnMod) /\ tp'.completed = tp.completed
    BY <1>3, <1>17 DEF Requested, Typed, TpFields
  <2>3. tp'.tx_block_unlimited = tp.tx_block_unlimited
    BY <1>3, <1>17 DEF Typed, TpFields
  <2>5. Typed(tp')
    BY <1>3, <1>4, <1>7, <1>10, <1>15, <2>2, <2>3, RequestedTyped
  <2>6. Open(tp') = 1
    BY <1>8, <1>10, <2>2 DEF Open, tx_busy, ff
  <2>7. Balanced(tp', extra)
    BY <1>3, <1>7, <1>9, <2>2, <2>6, SMTT(30) DEF Balanced, Covered, Requested
  <2>8. Underway(tp', segments) /\ Paced(tp', grant')
    BY <1>3, <2>2 DEF Underway, Paced
  <2>9. Waiting(tp')
    BY <1>3, <1>8, <1>10, <1>17, <2>2 DEF Waiting, ff
  <2>. QED  BY <1>2, <1>3, <1>12, <2>1, <2>2, <2>5, <2>7, <2>8, <2>9 DEF Session
<1>18. CASE send_sf(m)
  <2>1. [tp EXCEPT !.requested = @ + 1].tx_pending = tp.tx_pending
    BY <1>3 DEF Typed, TpFields
  <2>2. \/ /\ wire' = Append(wire, sf) /\ tp' = [[tp EXCEPT !.requested = @ + 1] EXCEPT !.completed = @ + 1]
        \/ /\ wire' = wire
           /\ tp' = [[tp EXCEPT !.requested = @ + 1] EXCEPT
                       !.tx_pending = pending_store([tp EXCEPT !.requested = @ + 1].tx_pending, sf)]
    BY <1>18, Zenon DEF send_sf, emit_frame, sf
  <2>. QED  BY <1>13, <1>14, <2>1, <2>2 DEF ps
<1>19. CASE send_ff(m)
  <2>1. t.tx_pending = tp.tx_pending
    BY <1>3 DEF Typed, TpFields
  <2>2. \/ /\ wire' = Append(wire, ff) /\ Len(m) > TP_SF_DATA_MAX
           /\ tp' = arm_n_bs([t EXCEPT !.tx_sent = TP_FF_DATA_MAX, !.tx_state = "FLOW_CONTROL"])
        \/ /\ wire' = wire /\ Len(m) > TP_SF_DATA_MAX
           /\ tp' = [t EXCEPT !.tx_sent = 0, !.tx_pending = pending_store(t.tx_pending, ff)]
    BY <1>19, Zenon DEF send_ff, emit_frame, ff
  <2>. HIDE DEF t
  <2>. QED  BY <1>16, <1>17, <2>1, <2>2 DEF pf
<1>. QED  BY <1>6, <1>18, <1>19

-----------------------------------------------------------------------------
(* Time passes: the pause the peer asked for shrinks as the gap grows.     *)
LEMMA AdvanceKeeps ==
  ASSUME NEW t, Typed(t), NEW g \in Grants, NEW d \in Nat
  PROVE  LET u == advance_time(t, d)  h == [g EXCEPT !.gap = Least(@ + d, MaxGap)]
         IN  /\ Typed(u) /\ h \in Grants /\ u.requested = t.requested
             /\ Covered(t) => Covered(u)
             /\ SlotShaped(t) => SlotShaped(u)
             /\ \A s, extra : Session(t, s, g, extra) => Session(u, s, h, extra)
<1>. DEFINE u == advance_time(t, d)  h == [g EXCEPT !.gap = Least(@ + d, MaxGap)]
<1>1. /\ DOMAIN u = TpFields /\ u.tx_state = t.tx_state /\ u.tx_buffer = t.tx_buffer /\ u.tx_total = t.tx_total
      /\ u.tx_sent = t.tx_sent /\ u.tx_next_sn = t.tx_next_sn
      /\ u.tx_block_remaining = t.tx_block_remaining
      /\ u.tx_stmin = t.tx_stmin /\ u.tx_next_cf = Left(t.tx_next_cf, d)
      /\ u.requested = t.requested /\ u.completed = t.completed /\ u.faults = t.faults
  BY DEF advance_time, Typed, TpFields
<1>2. u.tx_block_unlimited = t.tx_block_unlimited
  BY DEF advance_time, Typed, TpFields
<1>3. /\ u.tx_pending = [t.tx_pending EXCEPT !.left = Left(@, d)]
      /\ u.rx_pending_fc = [t.rx_pending_fc EXCEPT !.left = Left(@, d)]
  BY DEF advance_time, Typed, TpFields
<1>. HIDE DEF u
<1>4. /\ DOMAIN u.tx_pending = SlotFields /\ u.tx_pending.frame = t.tx_pending.frame
      /\ DOMAIN u.rx_pending_fc = SlotFields /\ u.rx_pending_fc.frame = t.rx_pending_fc.frame
  BY <1>3 DEF Typed, SlotFields
<1>5. /\ t.tx_next_cf \in Nat /\ t.tx_stmin \in Nat /\ g.gap \in 0..MaxGap /\ g.stmin \in 0..MaxGap
      /\ MaxGap \in Nat
  BY PeerAssumption DEF Typed, Grants
<1>6. Left(t.tx_next_cf, d) \in Nat /\ Left(0, d) = 0 /\ t.tx_next_cf <= Left(t.tx_next_cf, d) + d
  BY <1>5 DEF Left
<1>7. Typed(u)
  <2>1. u.tx_next_cf \in Nat
    BY <1>1, <1>6
  <2>. QED  BY <1>1, <1>2, <1>4, <2>1, Zenon DEF Typed
<1>8. Open(u) = Open(t)
  BY <1>1, <1>4 DEF Open, tx_busy
<1>9. Covered(t) => Covered(u)
  BY <1>1, <1>8 DEF Covered
<1>10. SlotShaped(t) => SlotShaped(u)
  BY <1>1, <1>4 DEF SlotShaped
<1>12. h.cts = g.cts /\ h.bs = g.bs /\ h.stmin = g.stmin /\ h.used = g.used /\ h.gap = Least(g.gap + d, MaxGap)
  BY DEF Grants
<1>13. h \in Grants
  <2>1. Least(g.gap + d, MaxGap) \in 0..MaxGap
    BY <1>5 DEF Least
  <2>. QED  BY <2>1 DEF Grants
<1>14. ASSUME NEW s, NEW extra, Session(t, s, g, extra) PROVE Session(u, s, h, extra)
  <2>0. Underway(t, s) /\ Waiting(t) /\ Balanced(t, extra) /\ Paced(t, g)
    BY <1>14 DEF Session
  <2>1. Underway(u, s)
    BY <1>1, <2>0 DEF Underway, PieceFrom
  <2>2. Waiting(u)
    BY <1>1, <1>2, <1>4, <1>6, <2>0 DEF Waiting, PieceFrom, Allowed
  <2>3. Balanced(u, extra)
    BY <1>1, <1>8, <1>9, <2>0 DEF Balanced
  <2>4. Paced(u, h)
    <3>. HIDE DEF h
    <3>1. ASSUME g.gap + t.tx_next_cf >= g.stmin PROVE h.gap + u.tx_next_cf >= h.stmin
      BY <1>1, <1>5, <1>6, <1>12, <3>1 DEF Least
    <3>. QED  BY <1>1, <1>2, <1>12, <2>0, <3>1 DEF Paced
  <2>. QED  BY <1>7, <1>13, <2>1, <2>2, <2>3, <2>4 DEF Session
<1>. HIDE DEF h
<1>. QED  BY <1>1, <1>7, <1>9, <1>10, <1>13, <1>14 DEF u, h

LEMMA PassTimeStep ==
  ASSUME Loose, pass_time
  PROVE  Kept
<1>1. PICK d \in Elapsed : tick(d) /\ grant' = [grant EXCEPT !.gap = Least(@ + d, MaxGap)]
  BY DEF pass_time
<1>. DEFINE t == advance_time(tp, d)
<1>2. d \in Nat /\ Typed(tp) /\ Covered(tp) /\ SlotShaped(tp) /\ grant \in Grants
  BY PeerAssumption DEF Loose
<1>3. /\ Typed(t) /\ grant' \in Grants /\ t.requested = tp.requested /\ Covered(t) /\ SlotShaped(t)
      /\ \A s, extra : Session(tp, s, grant, extra) => Session(t, s, grant', extra)
  BY <1>1, <1>2, AdvanceKeeps
<1>4. tp' = t \/ tp' = abort_rx(raise_fault(t, "TIMEOUT"))
  BY <1>1 DEF tick
<1>5. segments' = segments /\ wire' = wire
  BY <1>1 DEF pass_time, tick
<1>6. IsSeq(wire') /\ IsSeq(segments') /\ ~Sent("CF")
  BY <1>5, NothingSent DEF Loose
<1>. HIDE DEF t
<1>. DEFINE r == raise_fault(t, "TIMEOUT")
<1>7. t.faults \in Nat /\ SameTx(t, t)
  BY <1>3, SameTxReflexive DEF Typed
<1>8. Typed(r) /\ SameTx(t, r) /\ r.faults = t.faults + 1
  BY <1>3, RaiseFaultKeeps
<1>. HIDE DEF r
<1>9. Typed(abort_rx(r)) /\ SameTx(t, abort_rx(r)) /\ abort_rx(r).faults >= t.faults
  BY <1>7, <1>8, AbortRxKeeps, SameTxTransitive
<1>10. Typed(tp') /\ SameTx(t, tp') /\ tp'.faults >= t.faults
  BY <1>3, <1>4, <1>7, <1>9 DEF r
<1>11. Covered(tp')
  <2>1. Open(tp') = Open(t) /\ Open(t) \in {0, 1}
    BY <1>10, OpenIs DEF Open, tx_busy, SameTx
  <2>. QED  BY <1>3, <1>10, <2>1 DEF Covered, SameTx, Typed
<1>12. SlotShaped(tp')
  BY <1>3, <1>10 DEF SlotShaped, SameTx
<1>13. Loose'
  BY <1>3, <1>6, <1>10, <1>11, <1>12 DEF Loose
<1>14. ASSUME NEW extra \in Nat, Going(extra) PROVE PaceKept /\ Going(extra)'
  <2>1. Session(t, segments, grant', extra)
    BY <1>3, <1>14 DEF Going
  <2>2. Session(tp', segments, grant', extra)
    BY <1>10, <2>1, SameTxKeeps DEF Session
  <2>. QED  BY <1>5, <1>6, <2>2 DEF Going, PaceKept
<1>. QED  BY <1>3, <1>10, <1>13, <1>14 DEF Kept, SameTx

-----------------------------------------------------------------------------
(* The steps of a tick.                                                    *)
LEMMA PumpRxStep ==
  ASSUME Loose, pump_rx_pending, Recorded, ~Sent("CF") => grant' = grant
  PROVE  Kept
<1>. DEFINE f == tp.rx_pending_fc.frame
<1>1. Typed(tp) /\ SameTx(tp, tp) /\ tp.faults \in Nat /\ IsSeq(wire) /\ f.pci \in {"NONE", "FC"}
  BY SameTxReflexive DEF Loose, Typed
<1>3. \/ tp' = tp /\ wire' = wire
      \/ tp' = abort_rx(raise_fault(tp, "TIMEOUT")) /\ wire' = wire
      \/ tp' = [tp EXCEPT !.rx_pending_fc = NoPending] /\ wire' = Append(wire, f)
  BY DEF pump_rx_pending, emit_frame
<1>4. LET u == [tp EXCEPT !.rx_pending_fc = NoPending] IN Typed(u) /\ SameTx(tp, u) /\ u.faults = tp.faults
  <2>1. DOMAIN NoPending = SlotFields /\ NoPending.frame.pci = "NONE"
    BY DEF NoPending, SlotFields, None
  <2>. QED  BY <1>1, <2>1 DEF Typed, SameTx, TpFields
<1>5. Typed(tp') /\ SameTx(tp, tp') /\ tp'.faults >= tp.faults
  <2>1. CASE tp' = tp
    BY <1>1, <2>1
  <2>2. CASE tp' = abort_rx(raise_fault(tp, "TIMEOUT"))
    BY <1>1, <2>2, DropStep
  <2>3. CASE tp' = [tp EXCEPT !.rx_pending_fc = NoPending]
    <3>1. Typed(tp') /\ SameTx(tp, tp') /\ tp'.faults = tp.faults
      BY <1>4, <2>3, Zenon
    <3>. QED  BY <1>1, <3>1
  <2>. QED  BY <1>3, <2>1, <2>2, <2>3
<1>6. segments' = segments /\ ~Sent("CF")
  BY <1>1, <1>3, RecordedIs
<1>. QED  BY <1>1, <1>3, <1>5, <1>6, SameStep

LEMMA NbsStep ==
  ASSUME Loose, tick_n_bs, Recorded, ~Sent("CF") => grant' = grant
  PROVE  Kept
<1>1. Typed(tp) /\ SameTx(tp, tp) /\ tp.faults \in Nat /\ IsSeq(wire) /\ wire' = wire
  BY SameTxReflexive DEF Loose, Typed, tick_n_bs
<1>3. segments' = segments /\ ~Sent("CF")
  BY <1>1, RecordedIs
<1>4. tp' = tp \/ tp' = abort_tx(raise_fault(tp, "TIMEOUT"))
  BY DEF tick_n_bs
<1>5. CASE tp' = tp
  BY <1>1, <1>3, <1>5, SameStep
<1>6. CASE tp' = abort_tx(raise_fault(tp, "TIMEOUT"))
  BY <1>1, <1>3, <1>6, AbortStep
<1>. QED  BY <1>4, <1>5, <1>6

LEMMA BurstOverStep ==
  ASSUME Loose, burst_over, Recorded, ~Sent("CF") => grant' = grant
  PROVE  Kept
<1>1. Typed(tp) /\ SameTx(tp, tp) /\ tp.faults \in Nat /\ IsSeq(wire) /\ wire' = wire /\ tp' = tp
  BY SameTxReflexive DEF Loose, Typed, burst_over
<1>3. segments' = segments /\ ~Sent("CF")
  BY <1>1, RecordedIs
<1>. QED  BY <1>1, <1>3, SameStep

(* A consecutive frame goes out: what the last clear to send allowed it.   *)
LEMMA AllowedIsGranted ==
  ASSUME NEW t, Typed(t), NEW g \in Grants, Paced(t, g), t.tx_state = "CONSECUTIVE_FRAME",
         t.tx_next_cf = 0, Allowed(t)
  PROVE  g.cts /\ (g.bs = 0 \/ g.used < g.bs) /\ g.gap >= g.stmin
<1>1. g.bs \in Nat /\ g.used \in Nat /\ g.gap \in Nat /\ g.stmin \in Nat
  BY PeerAssumption DEF Grants
<1>2. g.cts /\ g.gap >= g.stmin
  BY <1>1 DEF Paced
<1>3. CASE t.tx_block_unlimited
  BY <1>2, <1>3 DEF Paced
<1>4. CASE ~t.tx_block_unlimited
  <2>1. t.tx_block_remaining = g.bs - g.used /\ t.tx_block_remaining > 0
    BY <1>4 DEF Paced
  <2>. QED  BY <1>1, <1>2, <2>1
<1>. QED  BY <1>3, <1>4

LEMMA ConsecutiveStep ==
  ASSUME NEW extra \in Nat, Going(extra), Recorded, Sent("CF") => grant' = Used(grant),
         NEW t, Typed(t), Underway(t, segments), Balanced(t, extra), Paced(t, grant),
         t.tx_state = "CONSECUTIVE_FRAME", t.tx_next_cf = 0, Allowed(t), t.tx_pending.frame = None,
         NEW f, f = ConsecutiveFrame(t.tx_next_sn, PieceFrom(t, t.tx_sent)),
         wire' = Append(wire, f), tp' = cf_sent(t, f)
  PROVE  Going(extra)'
<1>1. f.pci = "CF" /\ IsSeq(wire) /\ grant \in Grants
  BY DEF ConsecutiveFrame, Going, Session
<1>2. segments' = Append(segments, f) /\ Sent("CF") /\ IsSeq(wire')
  BY <1>1, RecordedIs, SentIs
<1>3. PICK T : segments \in Seq(T)
  BY DEF Going, IsSeq
<1>4. /\ Typed(tp') /\ Underway(tp', Append(segments, f)) /\ Waiting(tp') /\ Balanced(tp', extra)
      /\ Paced(tp', Used(grant)) /\ tp'.tx_pending.frame = None
  BY <1>1, <1>3, CfSentKeeps
<1>5. Used(grant) \in Grants
  BY <1>1, UsedIs
<1>6. Session(tp', segments', grant', extra)
  BY <1>2, <1>4, <1>5, Zenon DEF Session
<1>7. IsSeq(segments')
  BY <1>2, <1>3, AppendIs DEF IsSeq
<1>. QED  BY <1>2, <1>6, <1>7 DEF Going

(* The pending slot is filled or emptied; the rest stays.                  *)
LEMMA SlotIs ==
  ASSUME NEW t, Typed(t), NEW slot, DOMAIN slot = SlotFields, NEW u, u = [t EXCEPT !.tx_pending = slot]
  PROVE  /\ Typed(u) /\ u.tx_pending = slot
         /\ u.tx_state = t.tx_state /\ u.tx_buffer = t.tx_buffer /\ u.tx_total = t.tx_total
         /\ u.tx_sent = t.tx_sent /\ u.tx_next_sn = t.tx_next_sn
         /\ u.tx_block_remaining = t.tx_block_remaining /\ u.tx_block_unlimited = t.tx_block_unlimited
         /\ u.tx_stmin = t.tx_stmin /\ u.tx_next_cf = t.tx_next_cf
         /\ u.requested = t.requested /\ u.completed = t.completed /\ u.faults = t.faults
  BY DEF Typed, TpFields

LEMMA SlotKeeps ==
  ASSUME NEW t, NEW s, NEW g, NEW extra, Session(t, s, g, extra), t.tx_state = "CONSECUTIVE_FRAME",
         NEW slot, DOMAIN slot = SlotFields, NEW u, u = [t EXCEPT !.tx_pending = slot]
  PROVE  /\ Typed(u) /\ Underway(u, s) /\ Balanced(u, extra) /\ Paced(u, g) /\ u.tx_pending = slot
         /\ u.tx_state = t.tx_state /\ u.tx_next_cf = t.tx_next_cf
         /\ u.tx_next_sn = t.tx_next_sn /\ u.tx_sent = t.tx_sent
         /\ PieceFrom(u, u.tx_sent) = PieceFrom(t, t.tx_sent) /\ (Allowed(t) => Allowed(u))
<1>0. Typed(t) /\ Underway(t, s) /\ Balanced(t, extra) /\ Paced(t, g)
  BY DEF Session
<1>1. /\ Typed(u) /\ u.tx_pending = slot
      /\ u.tx_state = t.tx_state /\ u.tx_buffer = t.tx_buffer /\ u.tx_total = t.tx_total
      /\ u.tx_sent = t.tx_sent /\ u.tx_next_sn = t.tx_next_sn
      /\ u.tx_block_remaining = t.tx_block_remaining /\ u.tx_block_unlimited = t.tx_block_unlimited
      /\ u.tx_stmin = t.tx_stmin /\ u.tx_next_cf = t.tx_next_cf
      /\ u.requested = t.requested /\ u.completed = t.completed /\ u.faults = t.faults
  BY <1>0, SlotIs
<1>2. Underway(u, s)
  BY <1>0, <1>1 DEF Underway, PieceFrom
<1>3. Open(u) = 1 /\ Open(t) = 1
  BY <1>1 DEF Open, tx_busy
<1>4. Balanced(u, extra)
  BY <1>0, <1>1, <1>3 DEF Balanced, Covered
<1>5. Paced(u, g)
  BY <1>0, <1>1 DEF Paced
<1>6. PieceFrom(u, u.tx_sent) = PieceFrom(t, t.tx_sent)
  BY <1>1 DEF PieceFrom
<1>7. Allowed(t) => Allowed(u)
  BY <1>1 DEF Allowed
<1>. QED  BY <1>1, <1>2, <1>4, <1>5, <1>6, <1>7

LEMMA PumpCfStep ==
  ASSUME Loose, tx_pump_cf, Recorded, ~Sent("CF") => grant' = grant,
         Sent("CF") => grant' = Used(grant)
  PROVE  Kept
<1>1. /\ IsSeq(wire) /\ IsSeq(segments) /\ Typed(tp) /\ Covered(tp) /\ SlotShaped(tp) /\ grant \in Grants
  BY DEF Loose
<1>2. /\ tp.tx_state = "CONSECUTIVE_FRAME" /\ tp.tx_next_cf = 0 /\ Allowed(tp)
      /\ phase = "burst" /\ tp.tx_sent < tp.tx_total
  BY DEF tx_pump_cf, CfDue, Allowed
<1>3. NextCf = ConsecutiveFrame(tp.tx_next_sn, PieceFrom(tp, tp.tx_sent))
  BY DEF NextCf, PieceFrom
<1>4. NextCf.pci = "CF" /\ NextCf.sn \in Nat /\ Len(NextCf.data) \in Nat
  <2>1. tp.tx_total = Len(tp.tx_buffer) /\ tp.tx_next_sn \in Nat
    BY <1>1, <1>2 DEF SlotShaped, Typed
  <2>2. Len(PieceFrom(tp, tp.tx_sent)) \in Nat
    BY <1>1, <1>2, <2>1, PieceLength
  <2>. QED  BY <1>3, <2>1, <2>2 DEF ConsecutiveFrame
<1>5. /\ tp.requested \in Nat /\ tp.completed \in Nat /\ tp.faults \in Nat /\ Open(tp) = 1
  BY <1>1, <1>2 DEF Typed, Open, tx_busy
<1>. DEFINE slot == pending_store(tp.tx_pending, NextCf)
<1>6. \/ wire' = Append(wire, NextCf) /\ tp' = cf_sent(tp, NextCf)
      \/ wire' = wire /\ tp' = [tp EXCEPT !.tx_pending = pending_store(@, NextCf)]
  BY DEF tx_pump_cf, emit_frame
<1>7. IsSeq(segments')
  BY <1>1, RecordedSeq
<1>8. CASE wire' = Append(wire, NextCf) /\ tp' = cf_sent(tp, NextCf)
  <2>1. IsSeq(wire') /\ Sent("CF") /\ grant' \in Grants
    BY <1>1, <1>4, <1>8, SentIs, UsedIs
  <2>2. tp.tx_pending.frame = None \/ tp.tx_pending.frame.pci \in {"SF", "CF"}
    BY <1>1, <1>2 DEF SlotShaped
  <2>3. Typed(tp') /\ SlotShaped(tp') /\ Covered(tp') /\ tp'.requested = tp.requested
    <3>1. tp.requested <= tp.completed + 1 + tp.faults
      BY <1>1, <1>5 DEF Covered
    <3>. QED  BY <1>1, <1>2, <1>4, <1>8, <2>2, <3>1, CfSentLoose
  <2>4. Loose'
    BY <1>7, <2>1, <2>3 DEF Loose
  <2>5. ASSUME NEW extra \in Nat, Going(extra) PROVE PaceKept /\ (~Overtakes => Going(extra)')
    <3>1. Underway(tp, segments) /\ Balanced(tp, extra) /\ Paced(tp, grant)
      BY <2>5 DEF Going, Session
    <3>2. PaceKept
      BY <1>1, <1>2, <3>1, AllowedIsGranted DEF PaceKept
    <3>3. ASSUME ~Overtakes PROVE Going(extra)'
      <4>1. wire' # wire
        <5>1. Len(wire') > Len(wire)
          BY <2>1 DEF Sent
        <5>2. PICK T : wire \in Seq(T)
          BY <1>1 DEF IsSeq
        <5>3. ~(Len(wire) > Len(wire))
          BY <5>2
        <5>. QED  BY <5>1, <5>3
      <4>2. tp.tx_pending.frame = None
        BY <1>2, <3>3, <4>1 DEF Overtakes
      <4>. QED  BY <1>1, <1>2, <1>3, <1>8, <2>5, <3>1, <4>2, ConsecutiveStep
    <3>. QED  BY <3>2, <3>3
  <2>. QED  BY <2>3, <2>4, <2>5 DEF Kept
<1>9. CASE wire' = wire /\ tp' = [tp EXCEPT !.tx_pending = pending_store(@, NextCf)]
  <2>1. DOMAIN slot = SlotFields /\ slot.frame = NextCf
    BY PendingStoreIs
  <2>2. tp' = [tp EXCEPT !.tx_pending = slot]
    BY <1>1, <1>9 DEF Typed, TpFields
  <2>. HIDE DEF slot
  <2>3. /\ Typed(tp') /\ tp'.tx_pending = slot /\ tp'.tx_state = tp.tx_state /\ tp'.tx_buffer = tp.tx_buffer
        /\ tp'.tx_total = tp.tx_total
        /\ tp'.requested = tp.requested /\ tp'.completed = tp.completed /\ tp'.faults = tp.faults
    BY <1>1, <2>1, <2>2, SlotIs
  <2>4. IsSeq(wire') /\ ~Sent("CF") /\ segments' = segments /\ grant' = grant
    BY <1>1, <1>9, NothingSent, RecordedIs
  <2>5. Covered(tp')
    <3>1. Open(tp') = 1
      BY <1>2, <2>3 DEF Open, tx_busy
    <3>. QED  BY <1>1, <1>5, <2>3, <3>1 DEF Covered
  <2>6. SlotShaped(tp')
    BY <1>1, <1>2, <1>4, <2>1, <2>3 DEF SlotShaped
  <2>7. Loose'
    BY <1>1, <1>7, <2>3, <2>4, <2>5, <2>6 DEF Loose
  <2>8. ASSUME NEW extra \in Nat, Going(extra) PROVE PaceKept /\ Going(extra)'
    <3>1. Session(tp, segments, grant, extra)
      BY <2>8 DEF Going
    <3>2. /\ Typed(tp') /\ Underway(tp', segments) /\ Balanced(tp', extra) /\ Paced(tp', grant)
          /\ tp'.tx_pending = slot
          /\ tp'.tx_state = tp.tx_state /\ tp'.tx_next_cf = tp.tx_next_cf
          /\ tp'.tx_next_sn = tp.tx_next_sn /\ tp'.tx_sent = tp.tx_sent
          /\ PieceFrom(tp', tp'.tx_sent) = PieceFrom(tp, tp.tx_sent) /\ Allowed(tp')
      BY <1>2, <2>1, <2>2, <3>1, SlotKeeps
    <3>3. Waiting(tp')
      BY <1>2, <1>3, <2>1, <3>2 DEF Waiting
    <3>4. Session(tp', segments', grant', extra)
      BY <1>1, <2>4, <3>2, <3>3 DEF Session
    <3>. QED  BY <1>7, <2>4, <3>4 DEF Going, PaceKept
  <2>. QED  BY <2>3, <2>7, <2>8 DEF Kept
<1>. QED  BY <1>6, <1>8, <1>9

(* The retry of a frame the sink declined.                                 *)
LEMMA PumpTxStep ==
  ASSUME Loose, pump_tx, Recorded, ~Sent("CF") => grant' = grant,
         Sent("CF") => grant' = Used(grant)
  PROVE  Kept
<1>. DEFINE f == tp.tx_pending.frame  u == [tp EXCEPT !.tx_pending = NoPending]
<1>1. /\ IsSeq(wire) /\ IsSeq(segments) /\ Typed(tp) /\ Covered(tp) /\ SlotShaped(tp) /\ grant \in Grants
  BY DEF Loose
<1>2. phase = "tx_pending" /\ ~Overtakes
  BY DEF pump_tx, Overtakes
<1>3. /\ tp.requested \in Nat /\ tp.completed \in Nat /\ tp.faults \in Nat /\ SameTx(tp, tp)
      /\ tp.tx_total \in Nat
  BY <1>1, SameTxReflexive DEF Typed
<1>4. DOMAIN NoPending = SlotFields /\ NoPending.frame = None
  BY DEF NoPending, SlotFields
<1>5. /\ Typed(u) /\ u.tx_pending = NoPending
      /\ u.tx_state = tp.tx_state /\ u.tx_buffer = tp.tx_buffer /\ u.tx_total = tp.tx_total
      /\ u.tx_sent = tp.tx_sent /\ u.tx_next_sn = tp.tx_next_sn
      /\ u.tx_block_remaining = tp.tx_block_remaining /\ u.tx_block_unlimited = tp.tx_block_unlimited
      /\ u.tx_stmin = tp.tx_stmin /\ u.tx_next_cf = tp.tx_next_cf
      /\ u.requested = tp.requested /\ u.completed = tp.completed /\ u.faults = tp.faults
  BY <1>1, <1>4, SlotIs
<1>6. \/ tp' = tp /\ wire' = wire
      \/ tp' = abort_tx(raise_fault(tp, "TIMEOUT")) /\ wire' = wire
      \/ f # None /\ wire' = Append(wire, f) /\ tp' = pending_sent(tp, f)
  BY DEF pump_tx, emit_frame
<1>7. CASE wire' = wire /\ tp' = tp
  <2>1. segments' = segments /\ ~Sent("CF")
    BY <1>1, <1>7, RecordedIs
  <2>. QED  BY <1>1, <1>3, <1>7, <2>1, SameStep
<1>8. CASE tp' = abort_tx(raise_fault(tp, "TIMEOUT")) /\ wire' = wire
  <2>1. segments' = segments /\ ~Sent("CF")
    BY <1>1, <1>8, RecordedIs
  <2>. QED  BY <1>8, <2>1, AbortStep
<1>9. CASE f # None /\ wire' = Append(wire, f) /\ tp' = pending_sent(tp, f)
  <2>0. Open(tp) = 1 /\ IsSeq(wire') /\ IsSeq(segments')
    BY <1>1, <1>9, SentIs, RecordedSeq DEF Open, tx_busy
  <2>. HIDE DEF u
  <2>1. CASE f.pci = "SF"
    <3>1. tp' = [u EXCEPT !.completed = @ + 1]
      BY <1>9, <2>1 DEF pending_sent, u
    <3>2. /\ DOMAIN tp' = TpFields /\ tp'.tx_pending = u.tx_pending /\ tp'.rx_pending_fc = u.rx_pending_fc
          /\ tp'.tx_state = u.tx_state /\ tp'.tx_buffer = u.tx_buffer /\ tp'.tx_total = u.tx_total
          /\ tp'.tx_sent = u.tx_sent /\ tp'.tx_next_sn = u.tx_next_sn
          /\ tp'.tx_block_remaining = u.tx_block_remaining
          /\ tp'.tx_stmin = u.tx_stmin /\ tp'.tx_next_cf = u.tx_next_cf
          /\ tp'.requested = u.requested /\ tp'.completed = u.completed + 1 /\ tp'.faults = u.faults
      BY <1>5, <3>1 DEF Typed, TpFields
    <3>3. tp'.tx_block_unlimited = u.tx_block_unlimited
      BY <1>5, <3>1 DEF Typed, TpFields
    <3>4. Typed(tp')
      <4>1. tp'.completed \in Nat
        BY <1>3, <1>5, <3>2
      <4>. QED  BY <1>5, <3>2, <3>3, <4>1, Zenon DEF Typed
    <3>5. tp'.tx_pending.frame = None
      BY <1>4, <1>5, <3>2
    <3>6. segments' = segments /\ ~Sent("CF") /\ grant' = grant
      BY <1>1, <1>9, <2>1, RecordedIs
    <3>7. Loose'
      <4>1. Open(tp') \in {0, 1}
        BY OpenIs
      <4>2. Covered(tp')
        BY <1>1, <1>3, <1>5, <2>0, <3>2, <4>1 DEF Covered
      <4>3. SlotShaped(tp')
        BY <1>1, <1>5, <3>2, <3>5 DEF SlotShaped
      <4>. QED  BY <1>1, <2>0, <3>4, <3>6, <4>2, <4>3 DEF Loose
    <3>8. ASSUME NEW extra \in Nat, Going(extra) PROVE PaceKept /\ Going(extra)'
      <4>1. Waiting(tp) /\ Balanced(tp, extra)
        BY <3>8 DEF Going, Session
      <4>2. tp'.tx_state = "IDLE"
        BY <1>5, <1>9, <2>1, <3>2, <4>1 DEF Waiting, ConsecutiveFrame
      <4>3. Open(tp') = 0
        BY <3>5, <4>2 DEF Open, tx_busy
      <4>4. Balanced(tp', extra)
        BY <1>3, <1>5, <2>0, <3>2, <4>1, <4>3 DEF Balanced, Covered
      <4>5. Underway(tp', segments) /\ Waiting(tp') /\ Paced(tp', grant)
        BY <3>5, <4>2 DEF Underway, Waiting, Paced
      <4>6. Session(tp', segments', grant', extra)
        BY <1>1, <3>4, <3>6, <4>4, <4>5 DEF Session
      <4>. QED  BY <2>0, <3>6, <4>6 DEF Going, PaceKept
    <3>. QED  BY <1>5, <3>2, <3>7, <3>8 DEF Kept
  <2>2. CASE f.pci = "FF"
    <3>1. tp' = arm_n_bs([u EXCEPT !.tx_sent = TP_FF_DATA_MAX, !.tx_wait_frames = 0, !.tx_state = "FLOW_CONTROL"])
      BY <1>9, <2>2 DEF pending_sent, u
    <3>2. /\ DOMAIN tp' = TpFields /\ tp'.tx_pending = u.tx_pending /\ tp'.rx_pending_fc = u.rx_pending_fc
          /\ tp'.tx_state = "FLOW_CONTROL" /\ tp'.tx_buffer = u.tx_buffer /\ tp'.tx_total = u.tx_total
          /\ tp'.tx_sent = TP_FF_DATA_MAX /\ tp'.tx_next_sn = u.tx_next_sn
          /\ tp'.tx_block_remaining = u.tx_block_remaining
          /\ tp'.tx_stmin = u.tx_stmin /\ tp'.tx_next_cf = u.tx_next_cf
          /\ tp'.requested = u.requested /\ tp'.completed = u.completed /\ tp'.faults = u.faults
      BY <1>5, <3>1 DEF Typed, TpFields, arm_n_bs
    <3>3. tp'.tx_block_unlimited = u.tx_block_unlimited
      BY <1>5, <3>1 DEF Typed, TpFields, arm_n_bs
    <3>4. Typed(tp')
      <4>1. tp'.tx_sent \in Nat /\ tp'.tx_state \in {"IDLE", "FLOW_CONTROL", "CONSECUTIVE_FRAME"}
        BY <3>2, TpAssumption
      <4>. QED  BY <1>5, <3>2, <3>3, <4>1, Zenon DEF Typed
    <3>5. tp'.tx_pending.frame = None
      BY <1>4, <1>5, <3>2
    <3>6. segments' = <<>> /\ ~Sent("CF") /\ grant' = grant
      BY <1>1, <1>9, <2>2, RecordedIs
    <3>7. Open(tp') = 1
      BY <3>2 DEF Open, tx_busy
    <3>8. Loose'
      <4>1. Covered(tp')
        BY <1>1, <1>3, <1>5, <2>0, <3>2, <3>7 DEF Covered
      <4>2. tp.tx_total = Len(tp.tx_buffer)
        BY <1>1, <1>9, <2>2 DEF SlotShaped
      <4>3. SlotShaped(tp')
        BY <1>5, <3>2, <3>5, <4>2 DEF SlotShaped
      <4>. QED  BY <1>1, <2>0, <3>4, <3>6, <4>1, <4>3 DEF Loose
    <3>9. ASSUME NEW extra \in Nat, Going(extra) PROVE PaceKept /\ Going(extra)'
      <4>1. Waiting(tp) /\ Balanced(tp, extra)
        BY <3>9 DEF Going, Session
      <4>2. tp.tx_total = Len(tp.tx_buffer) /\ tp.tx_total > TP_SF_DATA_MAX /\ tp.tx_next_sn = (1 % SnMod)
        BY <1>9, <2>2, <4>1 DEF Waiting, ConsecutiveFrame
      <4>3. Balanced(tp', extra)
        BY <1>3, <1>5, <2>0, <3>2, <3>7, <4>1 DEF Balanced, Covered
      <4>4. Underway(tp', <<>>) /\ Waiting(tp') /\ Paced(tp', grant)
        BY <1>5, <3>2, <3>4, <3>5, <4>2, FirstFrameKeeps
      <4>5. Session(tp', segments', grant', extra)
        BY <1>1, <3>4, <3>6, <4>3, <4>4 DEF Session
      <4>. QED  BY <2>0, <3>6, <4>5 DEF Going, PaceKept
    <3>. QED  BY <1>5, <3>2, <3>8, <3>9 DEF Kept
  <2>3. CASE f.pci = "CF"
    <3>1. tp' = cf_sent(u, f)
      BY <1>9, <2>3 DEF pending_sent, u
    <3>2. u.tx_pending.frame = None
      BY <1>4, <1>5
    <3>3. IsSeq(wire') /\ Sent("CF") /\ grant' \in Grants
      BY <1>1, <1>9, <2>3, SentIs, UsedIs
    <3>4. Typed(tp') /\ SlotShaped(tp') /\ Covered(tp') /\ tp'.requested = tp.requested
      <4>1. f.sn \in Nat /\ Len(f.data) \in Nat /\ (tp.tx_state = "IDLE" => tp.tx_total = 0)
        BY <1>1, <1>9, <2>3 DEF SlotShaped
      <4>2. SlotShaped(u)
        BY <1>1, <1>5, <3>2 DEF SlotShaped
      <4>3. u.requested <= u.completed + 1 + u.faults
        BY <1>1, <1>3, <1>5, <2>0 DEF Covered
      <4>. HIDE DEF f
      <4>. QED  BY <1>5, <3>1, <3>2, <4>1, <4>2, <4>3, CfSentLoose
    <3>5. Loose'
      BY <2>0, <3>3, <3>4 DEF Loose
    <3>6. ASSUME NEW extra \in Nat, Going(extra) PROVE PaceKept /\ Going(extra)'
      <4>1. Waiting(tp) /\ Session(tp, segments, grant, extra) /\ Paced(tp, grant)
        BY <3>6 DEF Going, Session
      <4>2. /\ tp.tx_state = "CONSECUTIVE_FRAME" /\ tp.tx_next_cf = 0 /\ Allowed(tp)
            /\ f = ConsecutiveFrame(tp.tx_next_sn, PieceFrom(tp, tp.tx_sent))
        BY <1>9, <2>3, <4>1 DEF Waiting
      <4>3. /\ Typed(u) /\ Underway(u, segments) /\ Balanced(u, extra) /\ Paced(u, grant)
            /\ u.tx_state = "CONSECUTIVE_FRAME" /\ u.tx_next_cf = 0 /\ Allowed(u)
            /\ u.tx_next_sn = tp.tx_next_sn /\ PieceFrom(u, u.tx_sent) = PieceFrom(tp, tp.tx_sent)
        <5>1. u = [tp EXCEPT !.tx_pending = NoPending]
          BY DEF u
        <5>. QED  BY <1>4, <4>1, <4>2, <5>1, SlotKeeps
      <4>4. f = ConsecutiveFrame(u.tx_next_sn, PieceFrom(u, u.tx_sent))
        BY <4>2, <4>3
      <4>5. PaceKept
        BY <1>1, <4>1, <4>2, AllowedIsGranted DEF PaceKept
      <4>. HIDE DEF f
      <4>. QED  BY <1>9, <3>1, <3>2, <3>6, <4>3, <4>4, <4>5, ConsecutiveStep
    <3>. QED  BY <3>4, <3>5, <3>6 DEF Kept
  <2>. QED  BY <1>1, <1>9, <2>1, <2>2, <2>3 DEF SlotShaped
<1>. QED  BY <1>6, <1>7, <1>8, <1>9

LEMMA OtherSteps ==
  ASSUME Loose, hear \/ pass_time \/ run_tick \/ UNCHANGED peer_vars
  PROVE  Kept
<1>1. CASE hear
  BY <1>1, HearStep
<1>2. CASE pass_time
  BY <1>2, PassTimeStep
<1>3. CASE run_tick
  <2>1. Recorded /\ (~Sent("CF") => grant' = grant)
    BY <1>3 DEF run_tick
  <2>2. Sent("CF") => grant' = Used(grant)
    BY <1>3, Zenon DEF run_tick, Used
  <2>3. pump_rx_pending \/ tick_n_bs \/ pump_tx \/ tx_pump_cf \/ burst_over
    BY <1>3 DEF run_tick, tick_steps
  <2>4. CASE pump_rx_pending
    BY <2>1, <2>4, PumpRxStep
  <2>5. CASE tick_n_bs
    BY <2>1, <2>5, NbsStep
  <2>6. CASE pump_tx
    BY <2>1, <2>2, <2>6, PumpTxStep
  <2>7. CASE tx_pump_cf
    BY <2>1, <2>2, <2>7, PumpCfStep
  <2>8. CASE burst_over
    BY <2>1, <2>8, BurstOverStep
  <2>. QED  BY <2>3, <2>4, <2>5, <2>6, <2>7, <2>8
<1>4. CASE UNCHANGED peer_vars
  <2>1. tp' = tp /\ wire' = wire /\ UNCHANGED <<grant, segments>>
    BY <1>4 DEF peer_vars, vars
  <2>2. Typed(tp) /\ tp.faults \in Nat /\ SameTx(tp, tp)
    BY SameTxReflexive DEF Loose, Typed
  <2>. QED  BY <2>1, <2>2, SameStep
<1>. QED  BY <1>1, <1>2, <1>3, <1>4

LEMMA TpInvNext ==
  ASSUME TpInv, [PeerNext]_peer_vars
  PROVE  TpInv' /\ (tp.requested \notin overtaken => PaceKept)
<1>1. /\ Loose /\ overtaken \subseteq 0..tp.requested /\ tp.requested \in Nat
      /\ IsSeq(wire) /\ IsSeq(segments)
  BY DEF TpInv, Loose, Typed
<1>2. CASE request
  <2>1. PICK extra \in Nat : (overtaken = {} => extra = 0) /\ Balanced(tp, extra)
    <3>1. CASE tp.requested \notin overtaken
      BY <3>1 DEF TpInv, Session
    <3>2. CASE tp.requested \in overtaken
      <4>. DEFINE n == tp.completed + Open(tp)
      <4>1. n \in Nat /\ n <= tp.requested + n
        BY <1>1, OpenIs DEF Loose, Typed
      <4>2. Balanced(tp, n)
        BY <1>1, <4>1 DEF Balanced, Loose
      <4>. HIDE DEF n
      <4>. QED  BY <3>2, <4>1, <4>2
    <3>. QED  BY <3>1, <3>2
  <2>2. Going(extra)' /\ PaceKept /\ tp'.requested = tp.requested + 1 /\ overtaken' = overtaken
    BY <1>1, <1>2, <2>1, RequestStep DEF request
  <2>3. Loose'
    <3>1. (Going(extra) => Loose)'
      BY GoingIsLoose, PTL
    <3>. QED  BY <2>2, <3>1
  <2>4. overtaken' \subseteq 0..tp'.requested
    BY <1>1, <2>2
  <2>. QED  BY <2>1, <2>2, <2>3, <2>4 DEF TpInv, Going
<1>3. CASE hear \/ pass_time \/ run_tick \/ UNCHANGED peer_vars
  <2>1. /\ Loose' /\ tp'.requested = tp.requested
        /\ \A extra \in Nat : Going(extra) => PaceKept /\ (~Overtakes => Going(extra)')
    BY <1>1, <1>3, OtherSteps DEF Kept
  <2>2. overtaken' = overtaken \/ (Overtakes /\ overtaken' = overtaken \cup {tp.requested})
    <3>1. CASE run_tick
      <4>1. overtaken' = IF Overtakes THEN overtaken \cup {tp.requested} ELSE overtaken
        BY <3>1 DEF run_tick
      <4>. QED  BY <4>1, Zenon
    <3>2. CASE hear \/ pass_time
      BY <3>2 DEF hear, pass_time
    <3>3. CASE UNCHANGED peer_vars
      BY <3>3 DEF peer_vars, vars
    <3>. QED  BY <1>3, <3>1, <3>2, <3>3
  <2>3. overtaken' \subseteq 0..tp'.requested
    <3>1. tp.requested \in 0..tp.requested
      BY <1>1
    <3>2. CASE overtaken' = overtaken
      BY <1>1, <2>1, <3>2
    <3>3. CASE overtaken' = overtaken \cup {tp.requested}
      BY <1>1, <2>1, <3>1, <3>3
    <3>. QED  BY <2>2, <3>2, <3>3
  <2>4. ASSUME tp.requested \notin overtaken
        PROVE  /\ PaceKept
               /\ tp'.requested \notin overtaken' =>
                    \E extra \in Nat : (overtaken' = {} => extra = 0) /\ Session(tp', segments', grant', extra)
    <3>1. PICK extra \in Nat : (overtaken = {} => extra = 0) /\ Session(tp, segments, grant, extra)
      BY <2>4 DEF TpInv
    <3>2. Going(extra)
      BY <1>1, <3>1 DEF Going
    <3>3. PaceKept /\ (~Overtakes => Going(extra)')
      BY <2>1, <3>2
    <3>4. ASSUME tp'.requested \notin overtaken' PROVE Session(tp', segments', grant', extra) /\ overtaken' = overtaken
      <4>1. ~Overtakes /\ overtaken' = overtaken
        <5>1. CASE run_tick
          <6>1. overtaken' = IF Overtakes THEN overtaken \cup {tp.requested} ELSE overtaken
            BY <5>1 DEF run_tick
          <6>2. CASE Overtakes
            BY <2>1, <3>4, <6>1, <6>2
          <6>. QED  BY <6>1, <6>2
        <5>2. CASE hear \/ pass_time
          <6>1. overtaken' = overtaken
            BY <5>2 DEF hear, pass_time
          <6>2. phase = "idle"
            <7>1. ASSUME NEW f, rx_frame(f) PROVE phase = "idle"
              BY <7>1 DEF rx_frame
            <7>2. ASSUME NEW d, tick(d) PROVE phase = "idle"
              BY <7>2 DEF tick
            <7>. QED  BY <5>2, <7>1, <7>2 DEF hear, pass_time
          <6>. QED  BY <6>1, <6>2 DEF Overtakes
        <5>3. CASE UNCHANGED peer_vars
          BY <5>3 DEF peer_vars, vars, Overtakes
        <5>. QED  BY <1>3, <5>1, <5>2, <5>3
      <4>. QED  BY <3>3, <4>1 DEF Going
    <3>. QED  BY <3>1, <3>3, <3>4
  <2>. QED  BY <2>1, <2>2, <2>3, <2>4 DEF TpInv
<1>. QED  BY <1>2, <1>3 DEF PeerNext

-----------------------------------------------------------------------------
LEMMA TpInvSuffices == TpInv => SentWholeOrReported
<1>. SUFFICES ASSUME TpInv PROVE SentWholeOrReported
  OBVIOUS
<1>1. /\ Covered(tp) /\ tp.requested \in Nat
      /\ tp.requested \notin overtaken =>
           \E extra \in Nat : /\ overtaken = {} => extra = 0
                              /\ Underway(tp, segments) /\ Balanced(tp, extra)
  BY DEF TpInv, Loose, Session, Typed
<1>2. NothingSilentlyDropped
  <2>1. ASSUME overtaken = {} PROVE tp.completed + Open(tp) <= tp.requested
    <3>1. Balanced(tp, 0)
      BY <1>1, <2>1
    <3>. QED  BY <1>1, <3>1 DEF Balanced
  <2>. QED  BY <1>1, <2>1 DEF NothingSilentlyDropped, Covered, Open
<1>3. \A k : Piece(k) = PieceFrom(tp, Reached(k - 1))
  BY DEF Piece, PieceFrom, Reached
<1>4. Segmented
  BY <1>1, <1>3 DEF Segmented, Underway, Reached
<1>. QED  BY <1>2, <1>4 DEF SentWholeOrReported

(* A message that is under way and was not overtaken has gone out as a     *)
(* prefix of itself, each piece once and in order, under the right         *)
(* numbers; and every message the application requested has been           *)
(* completed, is in work or is covered by a fault: for any sizes,          *)
(* capacities, timers, messages, peer frames and answers of the sink.      *)
THEOREM SentWholeOrReportedCorrect == PeerSpec => []SentWholeOrReported
<1>1. PeerInit => TpInv
  BY TpInvInit
<1>2. TpInv /\ [PeerNext]_peer_vars => TpInv'
  BY TpInvNext
<1>3. TpInv => SentWholeOrReported
  BY TpInvSuffices
<1>. QED  BY <1>1, <1>2, <1>3, PTL DEF PeerSpec

(* A consecutive frame of a message that was not overtaken leaves only     *)
(* after a clear to send for that message, within the block it opened and  *)
(* STmin after the one before it, in the burst of tick as well as in the   *)
(* retry of a frame the sink declined.                                     *)
THEOREM PacingKeptCorrect == PeerSpec => PacingKept
<1>1. PeerInit => TpInv
  BY TpInvInit
<1>2. TpInv /\ [PeerNext]_peer_vars => TpInv'
  BY TpInvNext
<1>3. TpInv /\ [PeerNext]_peer_vars =>
        [Sent("CF") /\ tp.requested \notin overtaken =>
           /\ grant.cts
           /\ grant.bs = 0 \/ grant.used < grant.bs
           /\ grant.gap >= grant.stmin]_peer_vars
  BY TpInvNext DEF PaceKept
<1>. QED  BY <1>1, <1>2, <1>3, PTL DEF PeerSpec, PacingKept

=============================================================================
