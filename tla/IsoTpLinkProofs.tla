-------------------------- MODULE IsoTpLinkProofs ---------------------------
(***************************************************************************)
(* IsoTpLink for any frame sizes, capacities, timers and messages: what an *)
(* application receives is what the other one sent, and what is lost is    *)
(* reported.                                                               *)
(***************************************************************************)
EXTENDS IsoTpLink, TLAPS

-----------------------------------------------------------------------------
(* The inductive invariant.  A mark says where a direction of the link is  *)
(* after some of its frames: the message the last data frame belongs to,   *)
(* how much of it has gone out, and how many messages have gone out whole. *)
(* Each frame on the wire moves the mark on; the sender's session is at    *)
(* the mark of the last frame, the receiver's at the mark of the last one  *)
(* it has read.  Faults are charged to the transmission (c) or the         *)
(* reception (d) they end.                                                 *)
Marks == [num : Nat, off : Nat, done : Nat]
Bytes == {"A", "B"} \X Nat \X Nat
IsSeq(s) == \E T : s \in Seq(T)
Empty == [pci |-> "NONE"]

Follows(f, sent, x, y) ==
  \/ f.pci = "FC" /\ y = x
  \/ /\ f.pci = "SF" /\ y.num \in x.num + 1 .. Len(sent)
     /\ f.data = sent[y.num] /\ y.off = Len(sent[y.num]) /\ y.done = x.done + 1
  \/ /\ f.pci = "FF" /\ y.num \in x.num + 1 .. Len(sent) /\ TP_FF_DATA_MAX < Len(sent[y.num])
     /\ f.data = SubSeq(sent[y.num], 1, TP_FF_DATA_MAX) /\ f.total = Len(sent[y.num])
     /\ y.off = TP_FF_DATA_MAX /\ y.done = x.done
  \/ /\ f.pci = "CF" /\ x.num \in 1 .. Len(sent) /\ y.num = x.num
     /\ x.off < y.off /\ y.off <= Len(sent[x.num])
     /\ f.data = SubSeq(sent[x.num], x.off + 1, y.off)
     /\ y.done = IF y.off = Len(sent[x.num]) THEN x.done + 1 ELSE x.done

Trail(w, sent, h) ==
  /\ h \in [Nat -> Marks] /\ h[0] = [num |-> 0, off |-> 0, done |-> 0]
  /\ \A k \in 1 .. Len(w) : Follows(w[k], sent, h[k - 1], h[k])

Shorter(a, b) == IF a < b THEN a ELSE b
Piece(t) == SubSeq(t.tx_buffer, t.tx_sent + 1, Shorter(t.tx_sent + TP_CF_DATA_MAX, t.tx_total))
Busy(t) == IF t.tx_state # "IDLE" \/ t.tx_pending.frame # Empty THEN 1 ELSE 0

(* What waits for the sink is the frame that comes next.                   *)
Awaits(t, sent, x) ==
  LET f == t.tx_pending.frame  last == sent[Len(sent)]
  IN  \/ t.tx_state = "IDLE" /\ x.num < Len(sent) /\ f.pci = "SF" /\ f.data = last
      \/ /\ t.tx_state = "IDLE" /\ x.num < Len(sent) /\ TP_FF_DATA_MAX < Len(last)
         /\ f.pci = "FF" /\ f.total = Len(last) /\ f.data = SubSeq(last, 1, TP_FF_DATA_MAX)
         /\ t.tx_buffer = last /\ t.tx_total = Len(last)
      \/ t.tx_state # "IDLE" /\ t.tx_sent < t.tx_total /\ f.pci = "CF" /\ f.data = Piece(t)

Sender(t, sent, c, x) ==
  /\ x.num <= Len(sent)
  /\ Len(sent) <= x.done + c + Busy(t)
  /\ t.tx_state # "IDLE" =>
       /\ x.num = Len(sent) /\ x.num > 0 /\ t.tx_sent = x.off
       /\ t.tx_buffer = sent[x.num] /\ t.tx_total = Len(sent[x.num])
  /\ t.tx_pending.frame # Empty => Awaits(t, sent, x)

(* ms is a subsequence of the first k messages sent.                       *)
Got(ms, sent, k) ==
  \E f \in [1 .. Len(ms) -> 1 .. k] :
    /\ \A i, j \in 1 .. Len(ms) : i < j => f[i] < f[j]
    /\ \A i \in 1 .. Len(ms) : ms[i] = sent[f[i]]

Cut(x, sent) == IF x.num > 0 /\ x.off < Len(sent[x.num]) THEN 1 ELSE 0

Receiver(r, sent, ms, d, x) ==
  /\ x.num <= Len(sent)
  /\ \/ r.rx_state = "IDLE" /\ Got(ms, sent, x.num) /\ x.done + Cut(x, sent) <= Len(ms) + d
     \/ /\ r.rx_state = "FIRST_FRAME" /\ x.num > 0 /\ Got(ms, sent, x.num - 1)
        /\ x.off < Len(sent[x.num]) /\ x.done <= Len(ms) + d
        /\ r.rx_data = SubSeq(sent[x.num], 1, x.off) /\ r.rx_total = Len(sent[x.num])

(* One direction: the sender t with its wire, messages and faults, and the *)
(* receiver r with the frames it read, what it delivered and its faults.   *)
Direction(t, w, sent, c, r, read, ms, d) ==
  /\ IsSeq(w) /\ sent \in Seq(Seq(Bytes)) /\ ms \in Seq(Seq(Bytes))
  /\ read \in 0 .. Len(w) /\ c \in Nat /\ d \in Nat
  /\ \E h : /\ Trail(w, sent, h)
            /\ Sender(t, sent, c, h[Len(w)])
            /\ Receiver(r, sent, ms, d, h[read])

TpFields == {"fc_block_size", "rx_state", "rx_total", "rx_data", "rx_expected_sn", "rx_deadline",
             "rx_pending_fc",
             "tx_state", "tx_buffer", "tx_total", "tx_sent", "tx_next_sn", "tx_block_remaining",
             "tx_block_unlimited", "tx_stmin", "tx_next_cf", "tx_deadline", "tx_wait_frames",
             "tx_pending", "requested", "completed", "faults", "last_fault"}
SlotFields == {"frame", "left"}

Shaped(t) ==
  /\ DOMAIN t = TpFields /\ DOMAIN t.tx_pending = SlotFields /\ DOMAIN t.rx_pending_fc = SlotFields
  /\ t.rx_pending_fc.frame = Empty \/ t.rx_pending_fc.frame.pci = "FC"
  /\ t.rx_state \in {"IDLE", "FIRST_FRAME"} /\ t.faults \in Nat

LinkInv ==
  /\ Shaped(tpA) /\ Shaped(tpB)
  /\ \E cA, dA, cB, dB \in Nat :
       /\ tpA.faults = cA + dA /\ tpB.faults = cB + dB
       /\ Direction(tpA, wireA, sentA, cA, tpB, readB, messagesB, dB)
       /\ Direction(tpB, wireB, sentB, cB, tpA, readA, messagesA, dA)

-----------------------------------------------------------------------------
(* Sequences.                                                              *)
LEMMA AppendIs ==
  ASSUME NEW T, NEW s \in Seq(T), NEW f
  PROVE  /\ Append(s, f) \in Seq(T \cup {f}) /\ Len(s) \in Nat /\ Len(Append(s, f)) = Len(s) + 1
         /\ Append(s, f)[Len(s) + 1] = f /\ \A k \in 1..Len(s) : Append(s, f)[k] = s[k]
<1>1. s \in Seq(T \cup {f}) /\ f \in T \cup {f}
  OBVIOUS
<1>. QED  BY <1>1

LEMMA Joined ==
  ASSUME NEW T, NEW m \in Seq(T), NEW a \in Nat, NEW b \in Nat, a <= b, b <= Len(m)
  PROVE  /\ SubSeq(m, 1, a) \o SubSeq(m, a + 1, b) = SubSeq(m, 1, b)
         /\ Len(SubSeq(m, 1, b)) = b /\ Len(SubSeq(m, a + 1, b)) = b - a
         /\ SubSeq(m, 1, Len(m)) = m
  OBVIOUS

LEMMA SentIs ==
  ASSUME NEW sent \in Seq(Seq(Bytes)), NEW k \in 1..Len(sent)
  PROVE  sent[k] \in Seq(Bytes) /\ Len(sent[k]) \in Nat
  OBVIOUS

-----------------------------------------------------------------------------
(* Marks only move on, and a frame completes or begins one message.        *)
LEMMA MarksMove ==
  ASSUME NEW sent \in Seq(Seq(Bytes)), NEW x \in Marks, NEW y \in Marks, NEW f,
         x.num <= Len(sent), Follows(f, sent, x, y)
  PROVE  /\ x.num <= y.num /\ y.num <= Len(sent) /\ x.done <= y.done
         /\ y.done + Cut(y, sent) <= x.done + 1
<1>1. x.num \in Nat /\ y.num \in Nat /\ x.done \in Nat /\ y.done \in Nat /\ Len(sent) \in Nat
  BY DEF Marks
<1>2. Cut(y, sent) \in {0, 1}
  BY DEF Cut
<1>3. CASE f.pci = "FC" /\ y = x
  BY <1>1, <1>2, <1>3
<1>4. CASE f.pci = "SF"
  <2>1. y.num \in x.num + 1 .. Len(sent) /\ y.off = Len(sent[y.num]) /\ y.done = x.done + 1
    BY <1>4 DEF Follows
  <2>2. Cut(y, sent) = 0
    <3>1. Len(sent[y.num]) \in Nat
      BY <1>1, <2>1, SentIs
    <3>. QED  BY <2>1, <3>1 DEF Cut
  <2>. QED  BY <1>1, <2>1, <2>2
<1>5. CASE f.pci = "FF"
  <2>1. y.num \in x.num + 1 .. Len(sent) /\ y.done = x.done
    BY <1>5 DEF Follows
  <2>. QED  BY <1>1, <1>2, <2>1, SMTT(30)
<1>6. CASE f.pci = "CF"
  <2>1. /\ x.num \in 1 .. Len(sent) /\ y.num = x.num /\ y.off <= Len(sent[x.num])
        /\ y.done = IF y.off = Len(sent[x.num]) THEN x.done + 1 ELSE x.done
    BY <1>6 DEF Follows
  <2>2. y.off = Len(sent[x.num]) => Cut(y, sent) = 0
    <3>1. Len(sent[x.num]) \in Nat
      BY <1>1, <2>1, SentIs
    <3>. QED  BY <2>1, <3>1 DEF Cut
  <2>. QED  BY <1>1, <1>2, <2>1, <2>2
<1>. QED  BY <1>3, <1>4, <1>5, <1>6 DEF Follows

(* A message more to send changes nothing of what was sent.                *)
LEMMA FollowsMore ==
  ASSUME NEW sent \in Seq(Seq(Bytes)), NEW m \in Seq(Bytes), NEW x \in Marks, NEW y \in Marks, NEW f,
         Follows(f, sent, x, y)
  PROVE  Follows(f, Append(sent, m), x, y)
<1>1. Len(Append(sent, m)) = Len(sent) + 1 /\ Len(sent) \in Nat
      /\ \A k \in 1..Len(sent) : Append(sent, m)[k] = sent[k]
  OBVIOUS
<1>2. x.num \in Nat /\ y.num \in Nat
  BY DEF Marks
<1>. QED  BY <1>1, <1>2, SMTT(30) DEF Follows

LEMMA GotMore ==
  ASSUME NEW sent \in Seq(Seq(Bytes)), NEW m \in Seq(Bytes), NEW ms \in Seq(Seq(Bytes)),
         NEW k \in Int, k <= Len(sent), Got(ms, sent, k)
  PROVE  Got(ms, Append(sent, m), k)
<1>1. \A i \in 1..k : Append(sent, m)[i] = sent[i]
  OBVIOUS
<1>. QED  BY <1>1, ZenonT(30) DEF Got

LEMMA GotLater ==
  ASSUME NEW sent, NEW ms \in Seq(Seq(Bytes)), NEW k \in Int, NEW l \in Int, k <= l, Got(ms, sent, k)
  PROVE  Got(ms, sent, l)
<1>1. 1..k \subseteq 1..l
  OBVIOUS
<1>. QED  BY <1>1 DEF Got

LEMMA GotNext ==
  ASSUME NEW sent \in Seq(Seq(Bytes)), NEW ms \in Seq(Seq(Bytes)), NEW k \in Nat, NEW l \in 1..Len(sent), k < l,
         Got(ms, sent, k)
  PROVE  Got(Append(ms, sent[l]), sent, l) /\ Append(ms, sent[l]) \in Seq(Seq(Bytes))
         /\ Len(Append(ms, sent[l])) = Len(ms) + 1
<1>. DEFINE n == Len(ms)  ns == Append(ms, sent[l])
<1>1. PICK f \in [1..n -> 1..k] : /\ \A i, j \in 1..n : i < j => f[i] < f[j]
                                  /\ \A i \in 1..n : ms[i] = sent[f[i]]
  BY DEF Got
<1>2. sent[l] \in Seq(Bytes)
  OBVIOUS
<1>3. ns \in Seq(Seq(Bytes)) /\ n \in Nat /\ Len(ns) = n + 1 /\ ns[n + 1] = sent[l]
      /\ \A i \in 1..n : ns[i] = ms[i]
  BY <1>2
<1>. DEFINE g == [i \in 1..(n + 1) |-> IF i = n + 1 THEN l ELSE f[i]]
<1>4. \A i \in 1..(n + 1) : i # n + 1 => i \in 1..n
  <2>1. \A q \in Nat : \A i \in 1..(q + 1) : i # q + 1 => i \in 1..q
    OBVIOUS
  <2>. QED  BY <1>3, <2>1
<1>5. \A i \in 1..n : f[i] \in 1..k
  OBVIOUS
<1>6. g \in [1..(n + 1) -> 1..l]
  BY <1>4, <1>5
<1>7. \A i, j \in 1..(n + 1) : i < j => g[i] < g[j]
  <2>. SUFFICES ASSUME NEW i \in 1..(n + 1), NEW j \in 1..(n + 1), i < j PROVE g[i] < g[j]
    OBVIOUS
  <2>1. i \in 1..n /\ g[i] = f[i] /\ f[i] \in 1..k
    BY <1>3, <1>5, SMTT(30)
  <2>2. CASE j = n + 1
    BY <2>1, <2>2, SMTT(30)
  <2>3. CASE j # n + 1
    BY <1>1, <1>4, <2>1, <2>3
  <2>. QED  BY <2>2, <2>3
<1>8. \A i \in 1..(n + 1) : ns[i] = sent[g[i]]
  BY <1>1, <1>3, <1>4
<1>. HIDE DEF g, ns
<1>9. Got(ns, sent, l)
  BY <1>3, <1>6, <1>7, <1>8, ZenonT(30) DEF Got
<1>. QED  BY <1>3, <1>9 DEF ns

(* One frame more on the wire.                                             *)
LEMMA TrailGrows ==
  ASSUME NEW w, IsSeq(w), NEW sent, NEW h, Trail(w, sent, h), NEW f, NEW y \in Marks,
         Follows(f, sent, h[Len(w)], y)
  PROVE  \E g : /\ Trail(Append(w, f), sent, g) /\ g[Len(w) + 1] = y
                /\ \A k \in 0..Len(w) : g[k] = h[k]
<1>. DEFINE n == Len(w)  g == [h EXCEPT ![n + 1] = y]  v == Append(w, f)
<1>1. PICK T : w \in Seq(T)
  BY DEF IsSeq
<1>2. n \in Nat /\ Len(v) = n + 1 /\ v[n + 1] = f /\ \A k \in 1..n : v[k] = w[k]
  BY <1>1, AppendIs
<1>3. h \in [Nat -> Marks]
  BY DEF Trail
<1>4. g \in [Nat -> Marks] /\ g[n + 1] = y /\ \A k \in Nat : k # n + 1 => g[k] = h[k]
  BY <1>2, <1>3
<1>. HIDE DEF g, v
<1>5. \A k \in 0..n : g[k] = h[k]
  BY <1>2, <1>4
<1>6. ASSUME NEW k \in 1..Len(v) PROVE Follows(v[k], sent, g[k - 1], g[k])
  <2>1. CASE k = n + 1
    <3>1. g[k - 1] = h[n] /\ g[k] = y /\ v[k] = f
      BY <1>2, <1>4, <1>5, <2>1
    <3>. QED  BY <3>1
  <2>2. CASE k # n + 1
    <3>1. k \in 1..n /\ k \in 0..n /\ k - 1 \in 0..n
      BY <1>2, <2>2
    <3>2. g[k - 1] = h[k - 1] /\ g[k] = h[k] /\ v[k] = w[k]
      BY <1>2, <1>5, <3>1
    <3>. QED  BY <3>1, <3>2 DEF Trail
  <2>. QED  BY <2>1, <2>2
<1>7. g[0] = h[0]
  BY <1>2, <1>5
<1>8. Trail(v, sent, g)
  BY <1>4, <1>6, <1>7 DEF Trail
<1>. QED  BY <1>4, <1>5, <1>8 DEF v

-----------------------------------------------------------------------------
(* What a step of the sender may be: its session stays at the mark, or it  *)
(* sends the frame that follows and goes with it.  news is sent, or sent   *)
(* and the message just handed over.                                       *)
Onward(t, u, w, v, sent, news, c, b) ==
  \A x \in Marks : Sender(t, sent, c, x) =>
    \/ v = w /\ Sender(u, news, b, x)
    \/ \E f : \E y \in Marks : v = Append(w, f) /\ Follows(f, news, x, y) /\ Sender(u, news, b, y)

LEMMA SenderSteps ==
  ASSUME NEW t, NEW w, NEW sent, NEW c, NEW r, NEW read, NEW ms, NEW d,
         Direction(t, w, sent, c, r, read, ms, d),
         NEW u, NEW v, NEW news, NEW b \in Nat, Onward(t, u, w, v, sent, news, c, b),
         news = sent \/ \E m \in Seq(Bytes) : news = Append(sent, m)
  PROVE  Direction(u, v, news, b, r, read, ms, d)
<1>1. /\ IsSeq(w) /\ sent \in Seq(Seq(Bytes)) /\ ms \in Seq(Seq(Bytes)) /\ read \in 0..Len(w) /\ d \in Nat
  BY DEF Direction
<1>2. PICK h : Trail(w, sent, h) /\ Sender(t, sent, c, h[Len(w)]) /\ Receiver(r, sent, ms, d, h[read])
  BY DEF Direction
<1>3. PICK T : w \in Seq(T)
  BY <1>1 DEF IsSeq
<1>4. Len(w) \in Nat /\ read \in Nat /\ h[Len(w)] \in Marks /\ h[read] \in Marks /\ \A k \in Nat : h[k] \in Marks
  BY <1>1, <1>2, <1>3 DEF Trail
<1>5. news \in Seq(Seq(Bytes)) /\ Trail(w, news, h) /\ Receiver(r, news, ms, d, h[read])
  <2>1. CASE news = sent
    BY <1>1, <1>2, <2>1
  <2>2. CASE \E m \in Seq(Bytes) : news = Append(sent, m)
    <3>1. PICK m \in Seq(Bytes) : news = Append(sent, m)
      BY <2>2
    <3>2. news \in Seq(Seq(Bytes)) /\ Len(news) = Len(sent) + 1 /\ Len(sent) \in Nat
          /\ \A k \in 1..Len(sent) : news[k] = sent[k]
      BY <1>1, <3>1
    <3>3. Trail(w, news, h)
      <4>1. ASSUME NEW k \in 1..Len(w) PROVE Follows(w[k], news, h[k - 1], h[k])
        <5>1. h[k - 1] \in Marks /\ h[k] \in Marks
          BY <1>4
        <5>2. Follows(w[k], sent, h[k - 1], h[k])
          BY <1>2 DEF Trail
        <5>. QED  BY <1>1, <3>1, <5>1, <5>2, FollowsMore
      <4>. QED  BY <1>2, <4>1 DEF Trail
    <3>. DEFINE x == h[read]
    <3>4. Receiver(r, sent, ms, d, x) /\ x.num \in Nat
      BY <1>2, <1>4 DEF Marks
    <3>. HIDE DEF x
    <3>5. x.num <= Len(sent) /\ x.num <= Len(news)
      BY <3>2, <3>4 DEF Receiver
    <3>6. x.num > 0 => news[x.num] = sent[x.num]
      BY <3>2, <3>4, <3>5
    <3>7. \A k \in Int : k <= Len(sent) /\ Got(ms, sent, k) => Got(ms, news, k)
      BY <1>1, <3>1, GotMore
    <3>8. Cut(x, news) = Cut(x, sent)
      BY <3>6 DEF Cut
    <3>9. Got(ms, sent, x.num) => Got(ms, news, x.num)
      BY <3>4, <3>5, <3>7
    <3>10. Got(ms, sent, x.num - 1) => Got(ms, news, x.num - 1)
      BY <3>2, <3>4, <3>5, <3>7
    <3>11. Receiver(r, news, ms, d, x)
      BY <3>4, <3>5, <3>6, <3>8, <3>9, <3>10, Zenon DEF Receiver
    <3>. QED  BY <3>2, <3>3, <3>11 DEF x
  <2>. QED  BY <2>1, <2>2
<1>. DEFINE x == h[Len(w)]
<1>6. \/ v = w /\ Sender(u, news, b, x)
      \/ \E f : \E y \in Marks : v = Append(w, f) /\ Follows(f, news, x, y) /\ Sender(u, news, b, y)
  BY <1>2, <1>4 DEF Onward
<1>. HIDE DEF x
<1>7. CASE v = w /\ Sender(u, news, b, x)
  BY <1>1, <1>5, <1>7 DEF Direction, x
<1>8. CASE \E f : \E y \in Marks : v = Append(w, f) /\ Follows(f, news, x, y) /\ Sender(u, news, b, y)
  <2>1. PICK f : \E y \in Marks : v = Append(w, f) /\ Follows(f, news, x, y) /\ Sender(u, news, b, y)
    BY <1>8
  <2>2. PICK y \in Marks : v = Append(w, f) /\ Follows(f, news, x, y) /\ Sender(u, news, b, y)
    BY <2>1
  <2>3. PICK g : /\ Trail(Append(w, f), news, g) /\ g[Len(w) + 1] = y
                 /\ \A k \in 0..Len(w) : g[k] = h[k]
    BY <1>1, <1>5, <2>2, TrailGrows DEF x
  <2>4. v \in Seq(T \cup {f}) /\ Len(v) = Len(w) + 1
    BY <1>3, <2>2, AppendIs
  <2>5. IsSeq(v) /\ read \in 0..Len(v)
    BY <1>1, <1>4, <2>4 DEF IsSeq
  <2>6. g[Len(v)] = y /\ g[read] = h[read]
    BY <1>1, <2>3, <2>4
  <2>. QED  BY <1>1, <1>5, <2>2, <2>3, <2>5, <2>6 DEF Direction
<1>. QED  BY <1>6, <1>7, <1>8

(* What a step of the receiver may be, when it reads no frame.             *)
SameRx(r, u) == u.rx_state = r.rx_state /\ u.rx_data = r.rx_data /\ u.rx_total = r.rx_total
Calm(r, u, e) ==
  \/ e = 0 /\ SameRx(r, u)
  \/ e = 1 /\ u.rx_state = "IDLE"

LEMMA ReceiverCalm ==
  ASSUME NEW t, NEW w, NEW sent, NEW c, NEW r, NEW read, NEW ms, NEW d,
         Direction(t, w, sent, c, r, read, ms, d), NEW u, NEW e, Calm(r, u, e)
  PROVE  Direction(t, w, sent, c, u, read, ms, d + e)
<1>1. /\ IsSeq(w) /\ sent \in Seq(Seq(Bytes)) /\ ms \in Seq(Seq(Bytes)) /\ read \in 0..Len(w) /\ d \in Nat /\ c \in Nat
  BY DEF Direction
<1>2. PICK h : Trail(w, sent, h) /\ Sender(t, sent, c, h[Len(w)]) /\ Receiver(r, sent, ms, d, h[read])
  BY DEF Direction
<1>3. h[read] \in Marks
  <2>1. PICK T : w \in Seq(T)
    BY <1>1 DEF IsSeq
  <2>. QED  BY <1>1, <1>2, <2>1 DEF Trail
<1>. DEFINE x == h[read]
<1>4. Receiver(u, sent, ms, d + e, x) /\ d + e \in Nat
  <2>. HIDE DEF x
  <2>0. Receiver(r, sent, ms, d, x) /\ x \in Marks
    BY <1>2, <1>3 DEF x
  <2>1. CASE e = 0 /\ SameRx(r, u)
    <3>1. d + e = d
      BY <1>1, <2>1
    <3>. QED  BY <1>1, <2>0, <2>1, <3>1, Zenon DEF Receiver, SameRx
  <2>2. CASE e = 1 /\ u.rx_state = "IDLE"
    <3>1. x.num \in Nat /\ x.done \in Nat /\ Cut(x, sent) \in {0, 1} /\ Len(ms) \in Nat
      BY <1>1, <2>0 DEF Marks, Cut
    <3>2. x.num <= Len(sent) /\ x.done <= Len(ms) + d
      BY <1>1, <2>0, <3>1 DEF Receiver
    <3>3. Got(ms, sent, x.num)
      <4>1. Got(ms, sent, x.num) \/ Got(ms, sent, x.num - 1)
        BY <2>0 DEF Receiver
      <4>. QED  BY <1>1, <3>1, <4>1, GotLater
    <3>4. x.done + Cut(x, sent) <= Len(ms) + (d + e) /\ d + e \in Nat
      BY <1>1, <2>2, <3>1, <3>2
    <3>. QED  BY <2>2, <3>2, <3>3, <3>4 DEF Receiver
  <2>. QED  BY <2>1, <2>2 DEF Calm
<1>. QED  BY <1>1, <1>2, <1>4 DEF Direction

(* ... and when it reads the frame f.                                      *)
Hears(r, u, ms, ns, f, e) ==
  \/ e = 1 /\ u.rx_state = "IDLE" /\ ns = ms
  \/ e = 0 /\ f.pci = "FC" /\ SameRx(r, u) /\ ns = ms
  \/ e = 0 /\ f.pci = "SF" /\ r.rx_state = "IDLE" /\ u.rx_state = "IDLE" /\ ns = Append(ms, f.data)
  \/ /\ e = 0 /\ f.pci = "FF" /\ r.rx_state = "IDLE" /\ u.rx_state = "FIRST_FRAME"
     /\ u.rx_data = f.data /\ u.rx_total = f.total /\ ns = ms
  \/ /\ e = 0 /\ f.pci = "CF" /\ r.rx_state = "FIRST_FRAME" /\ Len(r.rx_data \o f.data) >= r.rx_total
     /\ u.rx_state = "IDLE" /\ ns = Append(ms, r.rx_data \o f.data)
  \/ /\ e = 0 /\ f.pci = "CF" /\ r.rx_state = "FIRST_FRAME" /\ ~(Len(r.rx_data \o f.data) >= r.rx_total)
     /\ u.rx_state = "FIRST_FRAME" /\ u.rx_data = r.rx_data \o f.data /\ u.rx_total = r.rx_total
     /\ ns = ms

LEMMA ReceiverHears ==
  ASSUME NEW t, NEW w, NEW sent, NEW c, NEW r, NEW read, NEW ms, NEW d,
         Direction(t, w, sent, c, r, read, ms, d), read < Len(w),
         NEW u, NEW ns, NEW e, Hears(r, u, ms, ns, w[read + 1], e)
  PROVE  Direction(t, w, sent, c, u, read + 1, ns, d + e)
<1>1. /\ IsSeq(w) /\ sent \in Seq(Seq(Bytes)) /\ ms \in Seq(Seq(Bytes)) /\ read \in 0..Len(w) /\ d \in Nat /\ c \in Nat
  BY DEF Direction
<1>2. PICK h : Trail(w, sent, h) /\ Sender(t, sent, c, h[Len(w)]) /\ Receiver(r, sent, ms, d, h[read])
  BY DEF Direction
<1>. DEFINE x == h[read]  y == h[read + 1]  f == w[read + 1]
<1>3. x \in Marks /\ y \in Marks /\ read + 1 \in 0..Len(w) /\ Follows(f, sent, x, y)
  <2>1. PICK T : w \in Seq(T)
    BY <1>1 DEF IsSeq
  <2>2. read + 1 \in 1..Len(w) /\ (read + 1) - 1 = read /\ read \in Nat /\ read + 1 \in Nat
    BY <1>1, <2>1
  <2>. QED  BY <1>2, <2>2 DEF Trail
<1>4. Receiver(u, sent, ns, d + e, y) /\ d + e \in Nat /\ ns \in Seq(Seq(Bytes))
  <2>0. Receiver(r, sent, ms, d, x) /\ Hears(r, u, ms, ns, f, e)
    BY <1>2
  <2>. HIDE DEF x, y, f
  <2>1. /\ x.num \in Nat /\ x.off \in Nat /\ x.done \in Nat /\ Len(ms) \in Nat /\ Len(sent) \in Nat
        /\ y.num \in Nat /\ y.off \in Nat /\ y.done \in Nat /\ Cut(y, sent) \in {0, 1}
    BY <1>1, <1>3, SMTT(30) DEF Marks, Cut
  <2>2. x.num <= Len(sent) /\ x.done <= Len(ms) + d /\ (Got(ms, sent, x.num) \/ Got(ms, sent, x.num - 1))
    <3>1. CASE r.rx_state = "IDLE"
      <4>1. Got(ms, sent, x.num) /\ x.done + Cut(x, sent) <= Len(ms) + d
        BY <2>0, <3>1 DEF Receiver
      <4>2. Cut(x, sent) \in {0, 1}
        BY DEF Cut
      <4>. QED  BY <1>1, <2>0, <2>1, <4>1, <4>2 DEF Receiver
    <3>2. CASE r.rx_state # "IDLE"
      BY <2>0, <3>2 DEF Receiver
    <3>. QED  BY <3>1, <3>2
  <2>3. Got(ms, sent, x.num)
    BY <1>1, <2>1, <2>2, GotLater
  <2>4. x.num <= y.num /\ y.num <= Len(sent) /\ x.done <= y.done /\ y.done + Cut(y, sent) <= x.done + 1
    BY <1>1, <1>3, <2>2, MarksMove
  <2>5. Got(ms, sent, y.num)
    BY <1>1, <2>1, <2>3, <2>4, GotLater, SMTT(30)
  <2>6. CASE e = 1 /\ u.rx_state = "IDLE" /\ ns = ms
    <3>1. y.done + Cut(y, sent) <= Len(ms) + (d + e) /\ d + e \in Nat
      BY <1>1, <2>1, <2>2, <2>4, <2>6, SMTT(30)
    <3>. QED  BY <1>1, <2>4, <2>5, <2>6, <3>1 DEF Receiver
  <2>7. CASE e = 0 /\ f.pci = "FC" /\ SameRx(r, u) /\ ns = ms
    <3>1. d + e = d /\ y = x
      BY <1>1, <1>3, <2>7 DEF Follows
    <3>. QED  BY <1>1, <2>0, <2>7, <3>1, Zenon DEF Receiver, SameRx
  <2>8. CASE e = 0 /\ f.pci = "SF" /\ r.rx_state = "IDLE" /\ u.rx_state = "IDLE" /\ ns = Append(ms, f.data)
    <3>1. y.num \in x.num + 1 .. Len(sent) /\ f.data = sent[y.num]
      BY <1>3, <2>8 DEF Follows
    <3>2. y.num \in 1..Len(sent) /\ x.num < y.num
      BY <2>1, <3>1, SMTT(30)
    <3>3. Got(ns, sent, y.num) /\ ns \in Seq(Seq(Bytes)) /\ Len(ns) = Len(ms) + 1
      BY <1>1, <2>1, <2>3, <2>8, <3>1, <3>2, GotNext, SMTT(30)
    <3>4. y.done + Cut(y, sent) <= Len(ns) + (d + e) /\ d + e \in Nat
      BY <1>1, <2>1, <2>2, <2>4, <2>8, <3>3, SMTT(30)
    <3>. QED  BY <2>4, <2>8, <3>3, <3>4 DEF Receiver
  <2>9. CASE /\ e = 0 /\ f.pci = "FF" /\ r.rx_state = "IDLE" /\ u.rx_state = "FIRST_FRAME"
             /\ u.rx_data = f.data /\ u.rx_total = f.total /\ ns = ms
    <3>1. /\ y.num \in x.num + 1 .. Len(sent) /\ TP_FF_DATA_MAX < Len(sent[y.num])
          /\ f.data = SubSeq(sent[y.num], 1, TP_FF_DATA_MAX) /\ f.total = Len(sent[y.num])
          /\ y.off = TP_FF_DATA_MAX /\ y.done = x.done
      BY <1>3, <2>9 DEF Follows
    <3>2. Got(ms, sent, y.num - 1) /\ y.num > 0
      <4>1. x.num <= y.num - 1 /\ y.num - 1 \in Int /\ x.num \in Int
        BY <2>1, <3>1, SMTT(30)
      <4>2. Got(ms, sent, y.num - 1)
        BY <1>1, <2>3, <4>1, GotLater
      <4>. QED  BY <2>1, <3>1, <4>2, SMTT(30)
    <3>3. d + e = d
      BY <1>1, <2>9
    <3>. QED  BY <1>1, <2>2, <2>4, <2>9, <3>1, <3>2, <3>3 DEF Receiver
  <2>10. CASE e = 0 /\ f.pci = "CF" /\ r.rx_state = "FIRST_FRAME"
    <3>. DEFINE data == r.rx_data \o f.data  m == sent[x.num]
    <3>1. /\ x.num \in 1 .. Len(sent) /\ y.num = x.num /\ x.off < y.off /\ y.off <= Len(m)
          /\ f.data = SubSeq(m, x.off + 1, y.off)
          /\ y.done = IF y.off = Len(m) THEN x.done + 1 ELSE x.done
      BY <1>3, <2>10 DEF Follows
    <3>2. r.rx_data = SubSeq(m, 1, x.off) /\ r.rx_total = Len(m) /\ Got(ms, sent, x.num - 1)
      BY <2>0, <2>10 DEF Receiver
    <3>3. m \in Seq(Bytes) /\ Len(m) \in Nat
      BY <1>1, <3>1, SentIs
    <3>. HIDE DEF m
    <3>4. data = SubSeq(m, 1, y.off) /\ Len(data) = y.off /\ SubSeq(m, 1, Len(m)) = m
      <4>1. x.off <= y.off
        BY <2>1, <3>1
      <4>2. /\ SubSeq(m, 1, x.off) \o SubSeq(m, x.off + 1, y.off) = SubSeq(m, 1, y.off)
            /\ Len(SubSeq(m, 1, y.off)) = y.off /\ SubSeq(m, 1, Len(m)) = m
        <5>1. \A a, b \in Nat : a <= b /\ b <= Len(m) =>
                 /\ SubSeq(m, 1, a) \o SubSeq(m, a + 1, b) = SubSeq(m, 1, b)
                 /\ Len(SubSeq(m, 1, b)) = b /\ SubSeq(m, 1, Len(m)) = m
          BY <3>3, Joined
        <5>. QED  BY <2>1, <3>1, <4>1, <5>1
      <4>. QED  BY <3>1, <3>2, <4>2, Zenon
    <3>. HIDE DEF data
    <3>5. \/ Len(data) >= r.rx_total /\ u.rx_state = "IDLE" /\ ns = Append(ms, data)
          \/ /\ ~(Len(data) >= r.rx_total) /\ u.rx_state = "FIRST_FRAME" /\ u.rx_data = data
             /\ u.rx_total = r.rx_total /\ ns = ms
      <4>1. e # 1
        BY <2>10
      <4>. QED  BY <2>0, <2>10, <4>1, Zenon DEF Hears, data
    <3>6. CASE y.off = Len(m)
      <4>1. u.rx_state = "IDLE" /\ ns = Append(ms, sent[y.num])
        BY <3>1, <3>2, <3>3, <3>4, <3>5, <3>6 DEF m
      <4>2. x.num - 1 \in Nat /\ x.num - 1 < y.num /\ y.num \in 1..Len(sent)
        BY <2>1, <3>1, SMTT(30)
      <4>3. Got(ns, sent, y.num) /\ ns \in Seq(Seq(Bytes)) /\ Len(ns) = Len(ms) + 1
        BY <1>1, <3>2, <4>1, <4>2, GotNext
      <4>4. y.done + Cut(y, sent) <= Len(ns) + (d + e) /\ d + e \in Nat
        <5>1. e = 0 /\ d \in Nat
          BY <1>1, <2>10
        <5>. QED  BY <2>1, <2>2, <2>4, <4>3, <5>1, SMTT(30)
      <4>. QED  BY <2>4, <4>1, <4>3, <4>4 DEF Receiver
    <3>7. CASE y.off # Len(m)
      <4>1. ~(Len(data) >= r.rx_total) /\ y.off < Len(m)
        BY <2>1, <3>1, <3>2, <3>3, <3>4, <3>7, SMTT(30)
      <4>2. ns = ms /\ y.done = x.done /\ d + e = d
        BY <1>1, <2>10, <3>1, <3>5, <3>7, <4>1
      <4>3. u.rx_state = "FIRST_FRAME" /\ u.rx_data = data /\ u.rx_total = Len(m)
        BY <3>2, <3>5, <4>1
      <4>4. m = sent[y.num] /\ y.num > 0 /\ Got(ms, sent, y.num - 1)
        BY <2>1, <3>1, <3>2 DEF m
      <4>. QED  BY <1>1, <2>2, <2>4, <3>4, <4>1, <4>2, <4>3, <4>4 DEF Receiver
    <3>. QED  BY <3>6, <3>7
  <2>. QED  BY <2>0, <2>6, <2>7, <2>8, <2>9, <2>10, Zenon DEF Hears
<1>. QED  BY <1>1, <1>2, <1>3, <1>4 DEF Direction

-----------------------------------------------------------------------------
(* The steps of a sender.  One that leaves the session alone, or ends it   *)
(* with a fault; it may send a flow control.                               *)
TxLike(t, u) ==
  /\ u.tx_state = "IDLE" <=> t.tx_state = "IDLE"
  /\ u.tx_buffer = t.tx_buffer /\ u.tx_total = t.tx_total /\ u.tx_sent = t.tx_sent
  /\ u.tx_pending.frame = t.tx_pending.frame
TxOver(u) == u.tx_state = "IDLE" /\ u.tx_pending.frame = Empty
Passive(t, u, e) ==
  \/ e = 0 /\ TxLike(t, u)
  \/ e = 1 /\ TxOver(u)
OnlyFc(w, v) == v = w \/ \E f : f.pci = "FC" /\ v = Append(w, f)

LEMMA Untouched ==
  ASSUME NEW t, NEW u, NEW w, NEW v
  PROVE  (TxLike(t, u) => Passive(t, u, 0)) /\ (v = w => OnlyFc(w, v))
<1>1. v = w => OnlyFc(w, v)
  BY Zenon DEF OnlyFc
<1>2. TxLike(t, u) => Passive(t, u, 0)
  BY Zenon DEF Passive
<1>. QED  BY <1>1, <1>2

LEMMA LikeTransitive ==
  ASSUME NEW t, NEW s, NEW u, TxLike(t, s), TxLike(s, u)
  PROVE  TxLike(t, u)
  BY DEF TxLike

LEMMA LikeKeeps ==
  ASSUME NEW t, NEW u, TxLike(t, u), NEW sent, NEW c, NEW x, Sender(t, sent, c, x)
  PROVE  Sender(u, sent, c, x)
<1>1. Busy(u) = Busy(t)
  BY DEF Busy, TxLike
<1>2. Piece(u) = Piece(t)
  BY DEF Piece, TxLike
<1>3. Awaits(t, sent, x) => Awaits(u, sent, x)
  BY <1>2, Zenon DEF Awaits, TxLike
<1>. QED  BY <1>1, <1>3 DEF Sender, TxLike

LEMMA OverKeeps ==
  ASSUME NEW t, NEW u, TxOver(u), NEW sent \in Seq(Seq(Bytes)), NEW c \in Nat, NEW x \in Marks, Sender(t, sent, c, x)
  PROVE  Sender(u, sent, c + 1, x)
<1>1. x.done \in Nat /\ Len(sent) \in Nat /\ Busy(t) \in {0, 1} /\ Busy(u) = 0
  BY DEF Marks, Busy, TxOver
<1>2. Len(sent) <= x.done + c + Busy(t) /\ x.num <= Len(sent)
  BY DEF Sender
<1>3. Len(sent) <= x.done + (c + 1) + Busy(u)
  BY <1>1, <1>2
<1>. QED  BY <1>2, <1>3 DEF Sender, TxOver

LEMMA PassiveOnward ==
  ASSUME NEW t, NEW u, NEW e, Passive(t, u, e), NEW w, NEW v, OnlyFc(w, v),
         NEW sent \in Seq(Seq(Bytes)), NEW c \in Nat
  PROVE  Onward(t, u, w, v, sent, sent, c, c + e) /\ c + e \in Nat
<1>0. c + e \in Nat
  BY DEF Passive
<1>. SUFFICES ASSUME NEW x \in Marks, Sender(t, sent, c, x)
              PROVE  \/ v = w /\ Sender(u, sent, c + e, x)
                     \/ \E f : \E y \in Marks : /\ v = Append(w, f) /\ Follows(f, sent, x, y)
                                                /\ Sender(u, sent, c + e, y)
  BY <1>0 DEF Onward
<1>1. Sender(u, sent, c + e, x)
  <2>1. CASE e = 0 /\ TxLike(t, u)
    <3>1. c + e = c
      BY <2>1
    <3>. QED  BY <2>1, <3>1, LikeKeeps
  <2>2. CASE e = 1 /\ TxOver(u)
    BY <2>2, OverKeeps
  <2>. QED  BY <2>1, <2>2 DEF Passive
<1>2. \A f : f.pci = "FC" => Follows(f, sent, x, x)
  BY DEF Follows
<1>. QED  BY <1>1, <1>2 DEF OnlyFc

(* A request: the first frame of a message goes out or waits.              *)
IsSingle(f, m) == f.pci = "SF" /\ f.data = m
IsFirst(f, m) ==
  f.pci = "FF" /\ f.total = Len(m) /\ f.data = SubSeq(m, 1, TP_FF_DATA_MAX) /\ TP_FF_DATA_MAX < Len(m)
Sends(t, u, w, v, m) ==
  /\ TxOver(t)
  /\ \/ \E f : IsSingle(f, m) /\ v = Append(w, f) /\ TxOver(u)
     \/ v = w /\ u.tx_state = "IDLE" /\ IsSingle(u.tx_pending.frame, m)
     \/ \E f : /\ IsFirst(f, m) /\ v = Append(w, f)
               /\ u.tx_state = "FLOW_CONTROL" /\ u.tx_pending.frame = Empty
               /\ u.tx_buffer = m /\ u.tx_total = Len(m) /\ u.tx_sent = TP_FF_DATA_MAX
     \/ /\ v = w /\ u.tx_state = "IDLE" /\ IsFirst(u.tx_pending.frame, m)
        /\ u.tx_buffer = m /\ u.tx_total = Len(m)

LEMMA SendsOnward ==
  ASSUME NEW t, NEW u, NEW w, NEW v, NEW m \in Seq(Bytes), Sends(t, u, w, v, m),
         NEW sent \in Seq(Seq(Bytes)), NEW c \in Nat
  PROVE  Onward(t, u, w, v, sent, Append(sent, m), c, c)
<1>. DEFINE news == Append(sent, m)  n == Len(sent) + 1
<1>1. news \in Seq(Seq(Bytes)) /\ Len(news) = n /\ news[n] = m /\ Len(sent) \in Nat /\ Len(m) \in Nat /\ n \in Nat
  OBVIOUS
<1>. HIDE DEF news, n
<1>. SUFFICES ASSUME NEW x \in Marks, Sender(t, sent, c, x)
              PROVE  \/ v = w /\ Sender(u, news, c, x)
                     \/ \E f : \E y \in Marks : /\ v = Append(w, f) /\ Follows(f, news, x, y)
                                                /\ Sender(u, news, c, y)
  BY DEF Onward, news
<1>2. x.num \in Nat /\ x.done \in Nat /\ Busy(t) = 0
  BY DEF Marks, Busy, TxOver, Sends
<1>3. x.num < n /\ n <= x.done + c + 1 /\ n \in x.num + 1 .. Len(news)
  <2>1. x.num <= Len(sent) /\ Len(sent) <= x.done + c + Busy(t)
    BY DEF Sender
  <2>. QED  BY <1>1, <1>2, <2>1, SMTT(30) DEF n
<1>4. CASE \E f : IsSingle(f, m) /\ v = Append(w, f) /\ TxOver(u)
  <2>1. PICK f : IsSingle(f, m) /\ v = Append(w, f) /\ TxOver(u)
    BY <1>4
  <2>. DEFINE y == [num |-> n, off |-> Len(m), done |-> x.done + 1]
  <2>2. y \in Marks /\ y.num = n /\ y.off = Len(m) /\ y.done = x.done + 1
    BY <1>1, <1>2 DEF Marks
  <2>. HIDE DEF y
  <2>3. Follows(f, news, x, y)
    BY <1>1, <1>3, <2>1, <2>2 DEF Follows, IsSingle
  <2>4. Len(news) <= y.done + c + Busy(u) /\ y.num <= Len(news)
    <3>1. Busy(u) = 0
      BY <2>1 DEF Busy, TxOver
    <3>. QED  BY <1>1, <1>2, <1>3, <2>2, <3>1
  <2>5. Sender(u, news, c, y)
    BY <2>1, <2>4 DEF Sender, TxOver
  <2>. QED  BY <2>1, <2>2, <2>3, <2>5
<1>5. CASE v = w /\ u.tx_state = "IDLE" /\ IsSingle(u.tx_pending.frame, m)
  <2>1. u.tx_pending.frame # Empty /\ Busy(u) = 1
    BY <1>5 DEF IsSingle, Empty, Busy
  <2>2. Awaits(u, news, x)
    BY <1>1, <1>3, <1>5 DEF Awaits, IsSingle
  <2>3. Len(news) <= x.done + c + Busy(u) /\ x.num <= Len(news)
    BY <1>1, <1>2, <1>3, <2>1
  <2>. QED  BY <1>5, <2>2, <2>3 DEF Sender
<1>6. CASE \E f : /\ IsFirst(f, m) /\ v = Append(w, f)
                  /\ u.tx_state = "FLOW_CONTROL" /\ u.tx_pending.frame = Empty
                  /\ u.tx_buffer = m /\ u.tx_total = Len(m) /\ u.tx_sent = TP_FF_DATA_MAX
  <2>1. PICK f : /\ IsFirst(f, m) /\ v = Append(w, f)
                 /\ u.tx_state = "FLOW_CONTROL" /\ u.tx_pending.frame = Empty
                 /\ u.tx_buffer = m /\ u.tx_total = Len(m) /\ u.tx_sent = TP_FF_DATA_MAX
    BY <1>6
  <2>. DEFINE y == [num |-> n, off |-> TP_FF_DATA_MAX, done |-> x.done]
  <2>2. y \in Marks /\ y.num = n /\ y.off = TP_FF_DATA_MAX /\ y.done = x.done
    BY <1>1, <1>2, LinkAssumption DEF Marks
  <2>. HIDE DEF y
  <2>3. Follows(f, news, x, y)
    BY <1>1, <1>3, <2>1, <2>2 DEF Follows, IsFirst
  <2>4. Len(news) <= y.done + c + Busy(u) /\ y.num <= Len(news) /\ y.num > 0
    <3>1. Busy(u) = 1
      BY <2>1 DEF Busy
    <3>. QED  BY <1>1, <1>2, <1>3, <2>2, <3>1
  <2>5. Sender(u, news, c, y)
    BY <1>1, <2>1, <2>2, <2>4 DEF Sender
  <2>. QED  BY <2>1, <2>2, <2>3, <2>5
<1>7. CASE /\ v = w /\ u.tx_state = "IDLE" /\ IsFirst(u.tx_pending.frame, m)
           /\ u.tx_buffer = m /\ u.tx_total = Len(m)
  <2>1. u.tx_pending.frame # Empty /\ Busy(u) = 1
    BY <1>7 DEF IsFirst, Empty, Busy
  <2>2. Awaits(u, news, x)
    BY <1>1, <1>3, <1>7 DEF Awaits, IsFirst
  <2>3. Len(news) <= x.done + c + Busy(u) /\ x.num <= Len(news)
    BY <1>1, <1>2, <1>3, <2>1
  <2>. QED  BY <1>7, <2>2, <2>3 DEF Sender
<1>. QED  BY <1>4, <1>5, <1>6, <1>7, Zenon DEF Sends

(* A consecutive frame f with the next piece of the session has left.      *)
Advanced(t, u, f) ==
  /\ u.tx_pending.frame = Empty
  /\ \/ t.tx_sent + Len(f.data) >= t.tx_total /\ u.tx_state = "IDLE"
     \/ /\ ~(t.tx_sent + Len(f.data) >= t.tx_total) /\ u.tx_state # "IDLE"
        /\ u.tx_sent = t.tx_sent + Len(f.data)
        /\ u.tx_buffer = t.tx_buffer /\ u.tx_total = t.tx_total

LEMMA AdvancedOnward ==
  ASSUME NEW t, NEW u, NEW f, NEW sent \in Seq(Seq(Bytes)), NEW c \in Nat, NEW x \in Marks,
         Sender(t, sent, c, x), t.tx_state # "IDLE", t.tx_sent < t.tx_total,
         f.pci = "CF", f.data = Piece(t), Advanced(t, u, f)
  PROVE  \E y \in Marks : Follows(f, sent, x, y) /\ Sender(u, sent, c, y)
<1>. DEFINE m == sent[x.num]  to == Shorter(x.off + TP_CF_DATA_MAX, Len(m))
<1>1. /\ x.num = Len(sent) /\ x.num > 0 /\ t.tx_sent = x.off /\ t.tx_buffer = m /\ t.tx_total = Len(m)
      /\ Len(sent) <= x.done + c + 1
  BY DEF Sender, Busy
<1>2. x.num \in Nat /\ x.off \in Nat /\ x.done \in Nat /\ Len(sent) \in Nat /\ x.num \in 1..Len(sent)
  BY <1>1 DEF Marks
<1>3. m \in Seq(Bytes) /\ Len(m) \in Nat
  BY <1>2, SentIs
<1>4. f.data = SubSeq(m, x.off + 1, to)
  BY <1>1 DEF Piece
<1>. HIDE DEF m
<1>5. to \in Nat /\ x.off < to /\ to <= Len(m)
  BY <1>1, <1>2, <1>3, LinkAssumption, SMTT(30) DEF Shorter
<1>. HIDE DEF to
<1>6. x.off + Len(f.data) = to
  <2>1. Len(SubSeq(m, x.off + 1, to)) = to - x.off
    BY <1>2, <1>3, <1>5, SMTT(30)
  <2>. QED  BY <1>2, <1>4, <1>5, <2>1
<1>. DEFINE y == [num |-> x.num, off |-> to, done |-> IF to = Len(m) THEN x.done + 1 ELSE x.done]
<1>7. /\ y \in Marks /\ y.num = x.num /\ y.off = to
      /\ y.done = IF to = Len(m) THEN x.done + 1 ELSE x.done
  BY <1>2, <1>5 DEF Marks
<1>. HIDE DEF y
<1>8. Follows(f, sent, x, y)
  BY <1>2, <1>4, <1>5, <1>7 DEF Follows, m
<1>9. CASE to = Len(m)
  <2>1. u.tx_state = "IDLE" /\ u.tx_pending.frame = Empty
    BY <1>1, <1>3, <1>6, <1>9 DEF Advanced
  <2>2. Busy(u) = 0
    BY <2>1 DEF Busy
  <2>3. Len(sent) <= y.done + c + Busy(u) /\ y.num <= Len(sent)
    BY <1>1, <1>2, <1>7, <1>9, <2>2
  <2>4. Sender(u, sent, c, y)
    BY <2>1, <2>3 DEF Sender
  <2>. QED  BY <1>7, <1>8, <2>4
<1>10. CASE to # Len(m)
  <2>0. ~(t.tx_sent + Len(f.data) >= t.tx_total)
    BY <1>1, <1>3, <1>5, <1>6, <1>10
  <2>1. /\ u.tx_state # "IDLE" /\ u.tx_pending.frame = Empty /\ u.tx_sent = to
        /\ u.tx_buffer = m /\ u.tx_total = Len(m)
    BY <1>1, <1>6, <2>0 DEF Advanced
  <2>2. Busy(u) = 1
    BY <2>1 DEF Busy
  <2>3. Len(sent) <= y.done + c + Busy(u) /\ y.num <= Len(sent)
    BY <1>1, <1>2, <1>7, <1>10, <2>2
  <2>4. Sender(u, sent, c, y)
    BY <1>1, <1>7, <2>1, <2>3 DEF Sender, m
  <2>. QED  BY <1>7, <1>8, <2>4
<1>. QED  BY <1>9, <1>10

(* The burst sends the next piece, or keeps it waiting.                    *)
Bursts(t, u, w, v) ==
  /\ t.tx_state # "IDLE" /\ t.tx_sent < t.tx_total
  /\ \/ \E f : f.pci = "CF" /\ f.data = Piece(t) /\ v = Append(w, f) /\ Advanced(t, u, f)
     \/ /\ v = w /\ u.tx_state # "IDLE"
        /\ u.tx_buffer = t.tx_buffer /\ u.tx_total = t.tx_total /\ u.tx_sent = t.tx_sent
        /\ u.tx_pending.frame.pci = "CF" /\ u.tx_pending.frame.data = Piece(t)

LEMMA BurstsOnward ==
  ASSUME NEW t, NEW u, NEW w, NEW v, Bursts(t, u, w, v), NEW sent \in Seq(Seq(Bytes)), NEW c \in Nat
  PROVE  Onward(t, u, w, v, sent, sent, c, c)
<1>. SUFFICES ASSUME NEW x \in Marks, Sender(t, sent, c, x)
              PROVE  \/ v = w /\ Sender(u, sent, c, x)
                     \/ \E f : \E y \in Marks : /\ v = Append(w, f) /\ Follows(f, sent, x, y)
                                                /\ Sender(u, sent, c, y)
  BY DEF Onward
<1>1. CASE \E f : f.pci = "CF" /\ f.data = Piece(t) /\ v = Append(w, f) /\ Advanced(t, u, f)
  <2>1. PICK f : f.pci = "CF" /\ f.data = Piece(t) /\ v = Append(w, f) /\ Advanced(t, u, f)
    BY <1>1
  <2>2. \E y \in Marks : Follows(f, sent, x, y) /\ Sender(u, sent, c, y)
    BY <2>1, AdvancedOnward DEF Bursts
  <2>. QED  BY <2>1, <2>2
<1>2. CASE /\ v = w /\ u.tx_state # "IDLE"
           /\ u.tx_buffer = t.tx_buffer /\ u.tx_total = t.tx_total /\ u.tx_sent = t.tx_sent
           /\ u.tx_pending.frame.pci = "CF" /\ u.tx_pending.frame.data = Piece(t)
  <2>1. Busy(u) = 1 /\ Busy(t) = 1 /\ Piece(u) = Piece(t)
    BY <1>2 DEF Busy, Bursts, Piece
  <2>2. Awaits(u, sent, x)
    BY <1>2, <2>1 DEF Awaits, Bursts
  <2>. QED  BY <1>2, <2>1, <2>2 DEF Sender, Bursts
<1>. QED  BY <1>1, <1>2 DEF Bursts

(* The retry sends what waits.                                             *)
Retries(t, u, w, v) ==
  LET f == t.tx_pending.frame
  IN  /\ f # Empty /\ v = Append(w, f)
      /\ f.pci = "SF" => u.tx_state = t.tx_state /\ u.tx_pending.frame = Empty
      /\ f.pci = "FF" => /\ u.tx_state = "FLOW_CONTROL" /\ u.tx_pending.frame = Empty
                         /\ u.tx_sent = TP_FF_DATA_MAX
                         /\ u.tx_buffer = t.tx_buffer /\ u.tx_total = t.tx_total
      /\ f.pci = "CF" /\ t.tx_state # "IDLE" => Advanced(t, u, f)

LEMMA RetriesOnward ==
  ASSUME NEW t, NEW u, NEW w, NEW v, Retries(t, u, w, v), NEW sent \in Seq(Seq(Bytes)), NEW c \in Nat
  PROVE  Onward(t, u, w, v, sent, sent, c, c)
<1>. DEFINE f == t.tx_pending.frame  n == Len(sent)  m == sent[n]
<1>0. /\ f # Empty /\ v = Append(w, f)
      /\ f.pci = "SF" => u.tx_state = t.tx_state /\ u.tx_pending.frame = Empty
      /\ f.pci = "FF" => /\ u.tx_state = "FLOW_CONTROL" /\ u.tx_pending.frame = Empty
                         /\ u.tx_sent = TP_FF_DATA_MAX
                         /\ u.tx_buffer = t.tx_buffer /\ u.tx_total = t.tx_total
      /\ f.pci = "CF" /\ t.tx_state # "IDLE" => Advanced(t, u, f)
  BY DEF Retries
<1>. SUFFICES ASSUME NEW x \in Marks, Sender(t, sent, c, x)
              PROVE  \E y \in Marks : Follows(f, sent, x, y) /\ Sender(u, sent, c, y)
  BY <1>0 DEF Onward
<1>1. x.num \in Nat /\ x.done \in Nat /\ n \in Nat /\ n <= x.done + c + 1
  <2>1. Busy(t) = 1
    BY <1>0 DEF Busy
  <2>2. Len(sent) <= x.done + c + Busy(t)
    BY DEF Sender
  <2>. QED  BY <2>1, <2>2 DEF Marks
<1>2. Awaits(t, sent, x)
  BY <1>0 DEF Sender
<1>3. x.num < n => n \in x.num + 1 .. n /\ m \in Seq(Bytes) /\ Len(m) \in Nat /\ n > 0
  BY <1>1
<1>4. CASE t.tx_state = "IDLE" /\ x.num < n /\ f.pci = "SF" /\ f.data = m
  <2>. DEFINE y == [num |-> n, off |-> Len(m), done |-> x.done + 1]
  <2>2. y \in Marks /\ y.num = n /\ y.off = Len(m) /\ y.done = x.done + 1
    BY <1>1, <1>3, <1>4, SMTT(30) DEF Marks
  <2>. HIDE DEF y, f, m, n
  <2>3. Follows(f, sent, x, y)
    BY <1>3, <1>4, <2>2 DEF Follows, n, m
  <2>4. Busy(u) = 0 /\ TxOver(u)
    BY <1>0, <1>4 DEF Busy, TxOver
  <2>5. Len(sent) <= y.done + c + Busy(u) /\ y.num <= Len(sent)
    BY <1>1, <2>2, <2>4 DEF n
  <2>6. Sender(u, sent, c, y)
    BY <2>4, <2>5 DEF Sender, TxOver
  <2>. QED  BY <2>2, <2>3, <2>6
<1>5. CASE /\ t.tx_state = "IDLE" /\ x.num < n /\ TP_FF_DATA_MAX < Len(m)
           /\ f.pci = "FF" /\ f.total = Len(m) /\ f.data = SubSeq(m, 1, TP_FF_DATA_MAX)
           /\ t.tx_buffer = m /\ t.tx_total = Len(m)
  <2>. DEFINE y == [num |-> n, off |-> TP_FF_DATA_MAX, done |-> x.done]
  <2>2. y \in Marks /\ y.num = n /\ y.off = TP_FF_DATA_MAX /\ y.done = x.done
    BY <1>1, LinkAssumption DEF Marks
  <2>. HIDE DEF y, f, m, n
  <2>3. Follows(f, sent, x, y)
    BY <1>3, <1>5, <2>2 DEF Follows, n, m
  <2>4. /\ u.tx_state = "FLOW_CONTROL" /\ u.tx_pending.frame = Empty /\ u.tx_sent = TP_FF_DATA_MAX
        /\ u.tx_buffer = m /\ u.tx_total = Len(m)
    BY <1>0, <1>5
  <2>5. Busy(u) = 1
    BY <2>4 DEF Busy
  <2>6. Len(sent) <= y.done + c + Busy(u) /\ y.num <= Len(sent) /\ y.num > 0
    BY <1>1, <1>3, <1>5, <2>2, <2>5 DEF n
  <2>7. Sender(u, sent, c, y)
    BY <2>2, <2>4, <2>6 DEF Sender, n, m
  <2>. QED  BY <2>2, <2>3, <2>7
<1>6. CASE t.tx_state # "IDLE" /\ t.tx_sent < t.tx_total /\ f.pci = "CF" /\ f.data = Piece(t)
  BY <1>0, <1>6, AdvancedOnward
<1>. QED  BY <1>2, <1>4, <1>5, <1>6, Zenon DEF Awaits


LEMMA PendingIs ==
  ASSUME NEW t, NEW w, NEW sent, NEW c, NEW r, NEW read, NEW ms, NEW d,
         Direction(t, w, sent, c, r, read, ms, d)
  PROVE  /\ t.tx_pending.frame.pci = "CF" => t.tx_state # "IDLE"
         /\ t.tx_pending.frame = Empty \/ t.tx_pending.frame.pci \in {"SF", "FF", "CF"}
<1>1. PICK x : Sender(t, sent, c, x)
  BY DEF Direction
<1>2. Empty.pci = "NONE"
  BY DEF Empty
<1>3. CASE t.tx_pending.frame = Empty
  BY <1>2, <1>3
<1>4. CASE t.tx_pending.frame # Empty
  BY <1>1, <1>4 DEF Sender, Awaits
<1>. QED  BY <1>3, <1>4

-----------------------------------------------------------------------------
(* The engine of A: what its helpers and steps do to a session.            *)
LEMMA FaultIsA ==
  ASSUME NEW t, Shaped(t), NEW code
  PROVE  LET u == A!raise_fault(t, code)
         IN  Shaped(u) /\ SameRx(t, u) /\ TxLike(t, u) /\ u.faults = t.faults + 1
  BY DEF A!raise_fault, Shaped, SameRx, TxLike, TpFields

LEMMA RxEndsA ==
  ASSUME NEW t, Shaped(t), NEW code
  PROVE  LET u == A!abort_rx(A!raise_fault(t, code))
         IN  Shaped(u) /\ u.rx_state = "IDLE" /\ TxLike(t, u) /\ u.faults = t.faults + 1
<1>. DEFINE s == A!raise_fault(t, code)  u == A!abort_rx(s)
<1>1. Shaped(s) /\ TxLike(t, s) /\ s.faults = t.faults + 1
  BY FaultIsA
<1>. HIDE DEF s
<1>2. /\ DOMAIN u = TpFields /\ u.rx_state = "IDLE" /\ u.rx_pending_fc = [frame |-> Empty, left |-> 0]
      /\ u.tx_pending = s.tx_pending /\ u.faults = s.faults /\ TxLike(s, u)
  BY <1>1 DEF A!abort_rx, A!NoPending, A!None, Empty, Shaped, TxLike, TpFields
<1>. HIDE DEF u
<1>3. Shaped(u)
  BY <1>1, <1>2 DEF Shaped, SlotFields
<1>. QED  BY <1>1, <1>2, <1>3 DEF TxLike, s, u

LEMMA TxEndsA ==
  ASSUME NEW t, Shaped(t), NEW code
  PROVE  LET u == A!abort_tx(A!raise_fault(t, code))
         IN  Shaped(u) /\ SameRx(t, u) /\ TxOver(u) /\ u.faults = t.faults + 1
<1>. DEFINE s == A!raise_fault(t, code)  u == A!abort_tx(s)
<1>1. Shaped(s) /\ SameRx(t, s) /\ s.faults = t.faults + 1
  BY FaultIsA
<1>. HIDE DEF s
<1>2. /\ DOMAIN u = TpFields /\ u.tx_state = "IDLE" /\ u.tx_pending = [frame |-> Empty, left |-> 0]
      /\ u.rx_pending_fc = s.rx_pending_fc /\ u.faults = s.faults /\ SameRx(s, u)
  BY <1>1 DEF A!abort_tx, A!NoPending, A!None, Empty, Shaped, SameRx, TpFields
<1>. HIDE DEF u
<1>3. Shaped(u) /\ TxOver(u)
  BY <1>1, <1>2 DEF Shaped, SlotFields, TxOver, SameRx
<1>. QED  BY <1>1, <1>2, <1>3 DEF SameRx, s, u

(* A flow control is sent or waits.                                        *)
LEMMA AnswerIsA ==
  ASSUME NEW t, Shaped(t), NEW fc, fc.pci = "FC", A!answer_fc(fc, t)
  PROVE  Shaped(tpA') /\ SameRx(t, tpA') /\ TxLike(t, tpA') /\ tpA'.faults = t.faults /\ OnlyFc(wireA, wireA')
<1>1. PICK s : /\ tpA' = [t EXCEPT !.rx_pending_fc = s]
               /\ DOMAIN s = SlotFields /\ (s.frame = Empty \/ s.frame.pci = "FC")
  <2>1. tpA' = [t EXCEPT !.rx_pending_fc = [frame |-> Empty, left |-> 0]]
        \/ \E l : tpA' = [t EXCEPT !.rx_pending_fc = [frame |-> fc, left |-> l]]
    BY DEF A!answer_fc, A!emit_frame, A!NoPending, A!None, A!pending_store, Empty, Shaped, TpFields
  <2>2. \A f, l : DOMAIN [frame |-> f, left |-> l] = SlotFields /\ [frame |-> f, left |-> l].frame = f
    BY DEF SlotFields
  <2>. QED  BY <2>1, <2>2, Zenon
<1>2. OnlyFc(wireA, wireA')
  BY DEF A!answer_fc, A!emit_frame, OnlyFc
<1>3. /\ DOMAIN tpA' = TpFields /\ tpA'.rx_pending_fc = s /\ tpA'.tx_pending = t.tx_pending
      /\ tpA'.faults = t.faults /\ SameRx(t, tpA') /\ TxLike(t, tpA')
  BY <1>1 DEF Shaped, TpFields, SameRx, TxLike
<1>4. Shaped(tpA')
  BY <1>1, <1>3 DEF Shaped, SameRx
<1>. QED  BY <1>2, <1>3, <1>4

(* A frame is received.                                                    *)
HeardA(f) ==
  \E e, g \in Nat :
    /\ tpA'.faults = tpA.faults + e + g /\ Shaped(tpA')
    /\ Passive(tpA, tpA', e) /\ OnlyFc(wireA, wireA') /\ Hears(tpA, tpA', messagesA, messagesA', f, g)

LEMMA RefusedA ==
  ASSUME Shaped(tpA), NEW f, NEW code, wireA' = wireA, messagesA' = messagesA,
         \/ tpA' = A!abort_rx(A!raise_fault(tpA, code))
         \/ tpA.rx_state = "IDLE" /\ tpA' = A!raise_fault(tpA, code)
  PROVE  HeardA(f)
<1>1. Shaped(tpA') /\ tpA'.rx_state = "IDLE" /\ TxLike(tpA, tpA') /\ tpA'.faults = tpA.faults + 1
  BY RxEndsA, FaultIsA DEF SameRx
<1>2. tpA'.faults = tpA.faults + 0 + 1 /\ 0 \in Nat /\ 1 \in Nat
  BY <1>1 DEF Shaped
<1>3. Passive(tpA, tpA', 0) /\ OnlyFc(wireA, wireA')
  BY <1>1, Untouched
<1>4. Hears(tpA, tpA', messagesA, messagesA', f, 1)
  BY <1>1 DEF Hears
<1>. QED  BY <1>1, <1>2, <1>3, <1>4 DEF HeardA

LEMMA ReceptionIsA ==
  ASSUME Shaped(tpA), NEW f, NEW s, Shaped(s), TxLike(tpA, s), s.faults = tpA.faults, NEW fc, fc.pci = "FC",
         f.pci = "FF", tpA.rx_state = "IDLE", s.rx_state = "FIRST_FRAME",
         s.rx_data = f.data, s.rx_total = f.total, A!answer_fc(fc, s), UNCHANGED messagesA
  PROVE  HeardA(f)
<1>1. Shaped(tpA') /\ SameRx(s, tpA') /\ TxLike(s, tpA') /\ tpA'.faults = s.faults /\ OnlyFc(wireA, wireA')
  BY AnswerIsA
<1>2. tpA'.faults = tpA.faults + 0 + 0 /\ 0 \in Nat
  BY <1>1 DEF Shaped
<1>3. Passive(tpA, tpA', 0)
  BY <1>1, Untouched, LikeTransitive
<1>4. Hears(tpA, tpA', messagesA, messagesA', f, 0)
  BY <1>1, Zenon DEF Hears, SameRx
<1>. QED  BY <1>1, <1>2, <1>3, <1>4 DEF HeardA

LEMMA HearsFirstA ==
  ASSUME Shaped(tpA), NEW f, A!handle_ff(f)
  PROVE  HeardA(f)
<1>1. CASE tpA.rx_state # "IDLE" /\ A!drop_rx("PROTOCOL")
  BY <1>1, RefusedA, Zenon DEF A!drop_rx
<1>2. CASE tpA.rx_state = "IDLE" /\ A!ignore("PROTOCOL")
  BY <1>2, RefusedA DEF A!ignore
<1>3. CASE /\ tpA.rx_state = "IDLE" /\ UNCHANGED messagesA
           /\ A!answer_fc(A!FlowControl("OVFLW", 0, 0), A!raise_fault(tpA, "BUFFER_OVERFLOW"))
  <2>. DEFINE s == A!raise_fault(tpA, "BUFFER_OVERFLOW")  fc == A!FlowControl("OVFLW", 0, 0)
  <2>1. Shaped(s) /\ SameRx(tpA, s) /\ TxLike(tpA, s) /\ s.faults = tpA.faults + 1
    BY FaultIsA
  <2>2. fc.pci = "FC" /\ A!answer_fc(fc, s)
    BY <1>3 DEF A!FlowControl
  <2>. HIDE DEF s, fc
  <2>3. Shaped(tpA') /\ SameRx(s, tpA') /\ TxLike(s, tpA') /\ tpA'.faults = s.faults /\ OnlyFc(wireA, wireA')
    BY <2>1, <2>2, AnswerIsA
  <2>4. tpA'.faults = tpA.faults + 0 + 1 /\ 0 \in Nat /\ 1 \in Nat
    BY <2>1, <2>3 DEF Shaped
  <2>5. Passive(tpA, tpA', 0)
    BY <2>1, <2>3, Untouched, LikeTransitive
  <2>6. Hears(tpA, tpA', messagesA, messagesA', f, 1)
    BY <1>3, <2>1, <2>3 DEF Hears, SameRx
  <2>. QED  BY <2>3, <2>4, <2>5, <2>6 DEF HeardA
<1>4. CASE /\ tpA.rx_state = "IDLE" /\ UNCHANGED messagesA
           /\ A!answer_fc(A!FlowControl("CTS", tpA.fc_block_size, fc_stmin),
                          A!arm_n_cr([tpA EXCEPT !.rx_data = f.data, !.rx_total = f.total,
                                                 !.rx_expected_sn = 1 % SnMod,
                                                 !.rx_state = "FIRST_FRAME"]))
  <2>. DEFINE fc == A!FlowControl("CTS", tpA.fc_block_size, fc_stmin)
              s == A!arm_n_cr([tpA EXCEPT !.rx_data = f.data, !.rx_total = f.total,
                                          !.rx_expected_sn = 1 % SnMod, !.rx_state = "FIRST_FRAME"])
  <2>1. /\ DOMAIN s = TpFields /\ s.tx_pending = tpA.tx_pending /\ s.rx_pending_fc = tpA.rx_pending_fc
        /\ s.faults = tpA.faults /\ TxLike(tpA, s)
        /\ s.rx_state = "FIRST_FRAME" /\ s.rx_data = f.data /\ s.rx_total = f.total
    BY DEF A!arm_n_cr, Shaped, TpFields, TxLike
  <2>2. fc.pci = "FC" /\ A!answer_fc(fc, s) /\ f.pci = "FF"
    BY <1>4 DEF A!FlowControl, A!handle_ff
  <2>. HIDE DEF s, fc
  <2>3. Shaped(s)
    BY <2>1 DEF Shaped
  <2>. QED  BY <1>4, <2>1, <2>2, <2>3, ReceptionIsA
<1>. QED  BY <1>1, <1>2, <1>3, <1>4, Zenon DEF A!handle_ff

LEMMA HearsSingleA ==
  ASSUME Shaped(tpA), NEW f, A!handle_sf(f)
  PROVE  HeardA(f)
<1>1. CASE A!drop_rx("PROTOCOL")
  BY <1>1, RefusedA, Zenon DEF A!drop_rx
<1>2. CASE tpA.rx_state = "IDLE" /\ (A!ignore("PROTOCOL") \/ A!ignore("BUFFER_OVERFLOW"))
  BY <1>2, RefusedA DEF A!ignore
<1>3. CASE tpA.rx_state = "IDLE" /\ messagesA' = Append(messagesA, f.data) /\ UNCHANGED <<tpA, wireA>>
  <2>1. tpA'.faults = tpA.faults + 0 + 0 /\ 0 \in Nat /\ Shaped(tpA')
    BY <1>3 DEF Shaped
  <2>2. f.pci = "SF"
    BY DEF A!handle_sf
  <2>3. Passive(tpA, tpA', 0) /\ OnlyFc(wireA, wireA')
    BY <1>3, Untouched DEF TxLike
  <2>4. Hears(tpA, tpA', messagesA, messagesA', f, 0)
    BY <1>3, <2>2 DEF Hears
  <2>. QED  BY <2>1, <2>3, <2>4 DEF HeardA
<1>. QED  BY <1>1, <1>2, <1>3, Zenon DEF A!handle_sf

LEMMA HearsConsecutiveA ==
  ASSUME Shaped(tpA), NEW f, A!handle_cf(f)
  PROVE  HeardA(f)
<1>. DEFINE data == tpA.rx_data \o f.data
            s == A!arm_n_cr([tpA EXCEPT !.rx_expected_sn = (f.sn + 1) % SnMod])
<1>0. f.pci = "CF" /\ tpA.rx_state \in {"IDLE", "FIRST_FRAME"}
  BY DEF A!handle_cf, Shaped
<1>1. CASE A!drop_rx("PROTOCOL")
  BY <1>1, RefusedA, Zenon DEF A!drop_rx
<1>2. CASE tpA.rx_state # "FIRST_FRAME" /\ A!ignore("PROTOCOL")
  BY <1>0, <1>2, RefusedA DEF A!ignore
<1>3. /\ DOMAIN s = TpFields /\ s.tx_pending = tpA.tx_pending /\ s.rx_pending_fc = tpA.rx_pending_fc
      /\ s.faults = tpA.faults /\ TxLike(tpA, s)
      /\ s.rx_state = tpA.rx_state /\ s.rx_data = tpA.rx_data /\ s.rx_total = tpA.rx_total
  BY DEF A!arm_n_cr, Shaped, TpFields, TxLike
<1>. HIDE DEF s
<1>4. CASE /\ tpA.rx_state = "FIRST_FRAME" /\ Len(data) >= tpA.rx_total
           /\ tpA' = [s EXCEPT !.rx_state = "IDLE", !.rx_total = 0, !.rx_data = <<>>]
           /\ messagesA' = Append(messagesA, data) /\ UNCHANGED wireA
  <2>1. /\ DOMAIN tpA' = TpFields /\ tpA'.tx_pending = s.tx_pending /\ tpA'.rx_pending_fc = s.rx_pending_fc
        /\ tpA'.faults = s.faults /\ TxLike(s, tpA') /\ tpA'.rx_state = "IDLE"
    BY <1>3, <1>4 DEF TpFields, TxLike
  <2>2. Shaped(tpA') /\ tpA'.faults = tpA.faults + 0 + 0 /\ 0 \in Nat
    BY <1>3, <2>1 DEF Shaped
  <2>3. Passive(tpA, tpA', 0) /\ OnlyFc(wireA, wireA')
    BY <1>3, <1>4, <2>1, Untouched, LikeTransitive
  <2>4. Hears(tpA, tpA', messagesA, messagesA', f, 0)
    BY <1>0, <1>4, <2>1, Zenon DEF Hears
  <2>. QED  BY <2>2, <2>3, <2>4 DEF HeardA
<1>5. CASE /\ tpA.rx_state = "FIRST_FRAME" /\ ~(Len(data) >= tpA.rx_total)
           /\ tpA' = [s EXCEPT !.rx_data = data] /\ UNCHANGED <<messagesA, wireA>>
  <2>1. /\ DOMAIN tpA' = TpFields /\ tpA'.tx_pending = s.tx_pending /\ tpA'.rx_pending_fc = s.rx_pending_fc
        /\ tpA'.faults = s.faults /\ TxLike(s, tpA')
        /\ tpA'.rx_state = s.rx_state /\ tpA'.rx_total = s.rx_total /\ tpA'.rx_data = data
    BY <1>3, <1>5 DEF TpFields, TxLike
  <2>2. Shaped(tpA') /\ tpA'.faults = tpA.faults + 0 + 0 /\ 0 \in Nat
    BY <1>3, <2>1 DEF Shaped
  <2>3. Passive(tpA, tpA', 0) /\ OnlyFc(wireA, wireA')
    BY <1>3, <1>5, <2>1, Untouched, LikeTransitive
  <2>4. Hears(tpA, tpA', messagesA, messagesA', f, 0)
    BY <1>0, <1>3, <1>5, <2>1, Zenon DEF Hears
  <2>. QED  BY <2>2, <2>3, <2>4 DEF HeardA
<1>. QED  BY <1>1, <1>2, <1>4, <1>5, Zenon DEF A!handle_cf, s

LEMMA HearsControlA ==
  ASSUME Shaped(tpA), NEW f, A!handle_fc(f)
  PROVE  HeardA(f)
<1>0. f.pci = "FC"
  BY DEF A!handle_fc
<1>1. CASE A!drop_tx("PROTOCOL") \/ A!drop_tx("BUFFER_OVERFLOW")
  <2>1. /\ Shaped(tpA') /\ SameRx(tpA, tpA') /\ TxOver(tpA') /\ tpA'.faults = tpA.faults + 1
        /\ UNCHANGED <<wireA, messagesA>>
    BY <1>1, TxEndsA DEF A!drop_tx
  <2>2. tpA'.faults = tpA.faults + 1 + 0 /\ 0 \in Nat /\ 1 \in Nat
    BY <2>1 DEF Shaped
  <2>3. Passive(tpA, tpA', 1) /\ OnlyFc(wireA, wireA') /\ Hears(tpA, tpA', messagesA, messagesA', f, 0)
    BY <1>0, <2>1 DEF Passive, OnlyFc, Hears
  <2>. QED  BY <2>1, <2>2, <2>3 DEF HeardA
<1>2. CASE /\ tpA.tx_state = "FLOW_CONTROL" /\ UNCHANGED <<wireA, messagesA>>
           /\ \/ tpA' = [tpA EXCEPT !.tx_state = "CONSECUTIVE_FRAME", !.tx_wait_frames = 0,
                                     !.tx_block_unlimited = (f.bs = 0), !.tx_block_remaining = f.bs,
                                     !.tx_stmin = A!stmin_decode(f.stmin), !.tx_next_cf = 0]
              \/ tpA' = A!arm_n_bs([tpA EXCEPT !.tx_wait_frames = @ + 1])
  <2>1. /\ DOMAIN tpA' = TpFields /\ tpA'.tx_pending = tpA.tx_pending /\ tpA'.rx_pending_fc = tpA.rx_pending_fc
        /\ tpA'.faults = tpA.faults /\ TxLike(tpA, tpA') /\ SameRx(tpA, tpA')
    BY <1>2, ZenonT(30) DEF A!arm_n_bs, Shaped, TpFields, TxLike, SameRx
  <2>2. Shaped(tpA') /\ tpA'.faults = tpA.faults + 0 + 0 /\ 0 \in Nat
    BY <2>1 DEF Shaped, SameRx
  <2>3. Passive(tpA, tpA', 0) /\ OnlyFc(wireA, wireA')
    BY <1>2, <2>1, Untouched
  <2>4. Hears(tpA, tpA', messagesA, messagesA', f, 0)
    BY <1>0, <1>2, <2>1 DEF Hears
  <2>. QED  BY <2>2, <2>3, <2>4 DEF HeardA
<1>. QED  BY <1>1, <1>2, Zenon DEF A!handle_fc

LEMMA ReceiveIsA ==
  ASSUME Shaped(tpA), NEW f, A!rx_frame(f)
  PROVE  HeardA(f) /\ phaseA' = "idle" /\ sinkA' = sinkA
<1>1. CASE A!handle_invalid(f)
  <2>1. tpA.rx_state \in {"IDLE", "FIRST_FRAME"}
    BY DEF Shaped
  <2>2. \/ A!drop_rx("PROTOCOL")
        \/ tpA.rx_state = "IDLE" /\ A!ignore("PROTOCOL")
    BY <1>1, <2>1 DEF A!handle_invalid
  <2>3. HeardA(f)
    BY <2>2, RefusedA, Zenon DEF A!drop_rx, A!ignore
  <2>. QED  BY <2>3 DEF A!rx_frame
<1>. QED
  BY <1>1, HearsSingleA, HearsFirstA, HearsConsecutiveA, HearsControlA DEF A!rx_frame

(* A request.                                                              *)
LEMMA RequestIsA ==
  ASSUME Shaped(tpA), NEW m \in Seq(Bytes), A!send(m)
  PROVE  /\ Shaped(tpA') /\ SameRx(tpA, tpA') /\ tpA'.faults = tpA.faults /\ messagesA' = messagesA
         /\ Sends(tpA, tpA', wireA, wireA', m) /\ phaseA' = "idle" /\ sinkA' = sinkA
<1>0. TxOver(tpA) /\ messagesA' = messagesA /\ phaseA' = "idle" /\ sinkA' = sinkA
  BY DEF A!send, A!tx_busy, A!None, TxOver, Empty
<1>. DEFINE single == A!SingleFrame(m)  first == A!FirstFrame(m)
<1>1. IsSingle(single, m)
  BY DEF IsSingle, A!SingleFrame
<1>2. CASE Len(m) <= TP_SF_DATA_MAX
  <2>. DEFINE t == [tpA EXCEPT !.requested = @ + 1]
  <2>1. /\ DOMAIN t = TpFields /\ t.tx_pending = tpA.tx_pending /\ t.rx_pending_fc = tpA.rx_pending_fc
        /\ t.tx_state = tpA.tx_state /\ SameRx(tpA, t) /\ t.faults = tpA.faults
    BY DEF Shaped, TpFields, SameRx
  <2>2. \/ wireA' = Append(wireA, single) /\ tpA' = [t EXCEPT !.completed = @ + 1]
        \/ wireA' = wireA /\ tpA' = [t EXCEPT !.tx_pending = A!pending_store(t.tx_pending, single)]
    <3>1. A!send_sf(m)
      BY <1>2, LinkAssumption DEF A!send, A!send_ff
    <3>. QED  BY <3>1, Zenon DEF A!send_sf, A!emit_frame
  <2>. HIDE DEF t, single
  <2>3. CASE wireA' = Append(wireA, single) /\ tpA' = [t EXCEPT !.completed = @ + 1]
    <3>1. /\ DOMAIN tpA' = TpFields /\ tpA'.tx_pending = t.tx_pending /\ tpA'.rx_pending_fc = t.rx_pending_fc
          /\ tpA'.tx_state = t.tx_state /\ SameRx(t, tpA') /\ tpA'.faults = t.faults
      BY <2>1, <2>3 DEF TpFields, SameRx
    <3>2. Shaped(tpA') /\ SameRx(tpA, tpA')
      BY <2>1, <3>1 DEF Shaped, SameRx
    <3>3. TxOver(tpA')
      BY <1>0, <2>1, <3>1 DEF TxOver
    <3>. QED  BY <1>0, <1>1, <2>1, <2>3, <3>1, <3>2, <3>3 DEF Sends
  <2>4. CASE wireA' = wireA /\ tpA' = [t EXCEPT !.tx_pending = A!pending_store(t.tx_pending, single)]
    <3>1. /\ DOMAIN tpA' = TpFields /\ tpA'.tx_pending = A!pending_store(t.tx_pending, single)
          /\ tpA'.rx_pending_fc = t.rx_pending_fc
          /\ tpA'.tx_state = t.tx_state /\ SameRx(t, tpA') /\ tpA'.faults = t.faults
      BY <2>1, <2>4 DEF TpFields, SameRx
    <3>2. DOMAIN tpA'.tx_pending = SlotFields /\ tpA'.tx_pending.frame = single
      BY <3>1 DEF A!pending_store, SlotFields
    <3>3. Shaped(tpA') /\ SameRx(tpA, tpA')
      BY <2>1, <3>1, <3>2 DEF Shaped, SameRx
    <3>4. tpA'.tx_state = "IDLE"
      BY <1>0, <2>1, <3>1 DEF TxOver
    <3>. QED  BY <1>0, <1>1, <2>1, <2>4, <3>1, <3>2, <3>3, <3>4 DEF Sends
  <2>. QED  BY <2>2, <2>3, <2>4
<1>3. CASE ~(Len(m) <= TP_SF_DATA_MAX)
  <2>. DEFINE t == [tpA EXCEPT !.requested = @ + 1, !.tx_buffer = m, !.tx_total = Len(m),
                               !.tx_next_sn = 1 % SnMod, !.tx_wait_frames = 0]
  <2>0. IsFirst(first, m)
    <3>1. Len(m) \in Nat /\ TP_FF_DATA_MAX < Len(m)
      BY <1>3, LinkAssumption
    <3>. QED  BY <3>1 DEF IsFirst, A!FirstFrame
  <2>1. /\ DOMAIN t = TpFields /\ t.tx_pending = tpA.tx_pending /\ t.rx_pending_fc = tpA.rx_pending_fc
        /\ t.tx_state = tpA.tx_state /\ t.tx_buffer = m /\ t.tx_total = Len(m)
        /\ SameRx(tpA, t) /\ t.faults = tpA.faults
    BY DEF Shaped, TpFields, SameRx
  <2>2. \/ /\ wireA' = Append(wireA, first)
           /\ tpA' = A!arm_n_bs([t EXCEPT !.tx_sent = TP_FF_DATA_MAX, !.tx_state = "FLOW_CONTROL"])
        \/ /\ wireA' = wireA
           /\ tpA' = [t EXCEPT !.tx_sent = 0, !.tx_pending = A!pending_store(t.tx_pending, first)]
    <3>1. A!send_ff(m)
      BY <1>3 DEF A!send, A!send_sf
    <3>. QED  BY <3>1, Zenon DEF A!send_ff, A!emit_frame
  <2>. HIDE DEF t, first
  <2>3. CASE /\ wireA' = Append(wireA, first)
             /\ tpA' = A!arm_n_bs([t EXCEPT !.tx_sent = TP_FF_DATA_MAX, !.tx_state = "FLOW_CONTROL"])
    <3>1. /\ DOMAIN tpA' = TpFields /\ tpA'.tx_pending = t.tx_pending /\ tpA'.rx_pending_fc = t.rx_pending_fc
          /\ tpA'.tx_state = "FLOW_CONTROL" /\ tpA'.tx_sent = TP_FF_DATA_MAX
          /\ tpA'.tx_buffer = t.tx_buffer /\ tpA'.tx_total = t.tx_total
          /\ SameRx(t, tpA') /\ tpA'.faults = t.faults
      BY <2>1, <2>3 DEF A!arm_n_bs, TpFields, SameRx
    <3>2. Shaped(tpA') /\ SameRx(tpA, tpA')
      BY <2>1, <3>1 DEF Shaped, SameRx
    <3>3. tpA'.tx_pending.frame = Empty
      BY <1>0, <2>1, <3>1 DEF TxOver
    <3>4. Sends(tpA, tpA', wireA, wireA', m)
      BY <1>0, <2>0, <2>1, <2>3, <3>1, <3>3 DEF Sends
    <3>. QED  BY <1>0, <2>1, <3>1, <3>2, <3>4
  <2>4. CASE /\ wireA' = wireA
             /\ tpA' = [t EXCEPT !.tx_sent = 0, !.tx_pending = A!pending_store(t.tx_pending, first)]
    <3>1. /\ DOMAIN tpA' = TpFields /\ tpA'.tx_pending = A!pending_store(t.tx_pending, first)
          /\ tpA'.rx_pending_fc = t.rx_pending_fc
          /\ tpA'.tx_state = t.tx_state /\ tpA'.tx_buffer = t.tx_buffer /\ tpA'.tx_total = t.tx_total
          /\ SameRx(t, tpA') /\ tpA'.faults = t.faults
      BY <2>1, <2>4 DEF TpFields, SameRx
    <3>2. DOMAIN tpA'.tx_pending = SlotFields /\ tpA'.tx_pending.frame = first
      BY <3>1 DEF A!pending_store, SlotFields
    <3>3. Shaped(tpA') /\ SameRx(tpA, tpA')
      BY <2>1, <3>1, <3>2 DEF Shaped, SameRx
    <3>4. tpA'.tx_state = "IDLE"
      BY <1>0, <2>1, <3>1 DEF TxOver
    <3>5. Sends(tpA, tpA', wireA, wireA', m)
      BY <1>0, <2>0, <2>1, <2>4, <3>1, <3>2, <3>4 DEF Sends
    <3>. QED  BY <1>0, <2>1, <3>1, <3>3, <3>5
  <2>. QED  BY <2>2, <2>3, <2>4
<1>. QED  BY <1>2, <1>3

(* Time passes: the timers only shrink.                                    *)
LEMMA AdvanceIsA ==
  ASSUME Shaped(tpA), NEW d
  PROVE  LET u == A!advance_time(tpA, d)
         IN  Shaped(u) /\ SameRx(tpA, u) /\ TxLike(tpA, u) /\ u.faults = tpA.faults
<1>. DEFINE u == A!advance_time(tpA, d)
<1>1. /\ DOMAIN u = TpFields /\ u.tx_state = tpA.tx_state /\ u.tx_buffer = tpA.tx_buffer
      /\ u.tx_total = tpA.tx_total /\ u.tx_sent = tpA.tx_sent /\ SameRx(tpA, u) /\ u.faults = tpA.faults
      /\ u.tx_pending = [tpA.tx_pending EXCEPT !.left = A!Left(@, d)]
      /\ u.rx_pending_fc = [tpA.rx_pending_fc EXCEPT !.left = A!Left(@, d)]
  BY DEF A!advance_time, Shaped, TpFields, SameRx
<1>. HIDE DEF u
<1>2. /\ DOMAIN u.tx_pending = SlotFields /\ u.tx_pending.frame = tpA.tx_pending.frame
      /\ DOMAIN u.rx_pending_fc = SlotFields /\ u.rx_pending_fc.frame = tpA.rx_pending_fc.frame
  BY <1>1 DEF Shaped, SlotFields
<1>3. Shaped(u) /\ TxLike(tpA, u)
  BY <1>1, <1>2 DEF Shaped, SameRx, TxLike
<1>. QED  BY <1>1, <1>3 DEF u

(* A step that reads no frame: the reception goes on or ends with a fault, *)
(* and so does the transmission.                                           *)
CalmA ==
  \E e, g \in Nat :
    /\ tpA'.faults = tpA.faults + e + g /\ Shaped(tpA') /\ messagesA' = messagesA
    /\ Passive(tpA, tpA', e) /\ OnlyFc(wireA, wireA') /\ Calm(tpA, tpA', g)

LEMMA TickIsA ==
  ASSUME Shaped(tpA), A!tick(1)
  PROVE  CalmA
<1>. DEFINE t == A!advance_time(tpA, 1)
<1>1. Shaped(t) /\ SameRx(tpA, t) /\ TxLike(tpA, t) /\ t.faults = tpA.faults
  BY AdvanceIsA
<1>2. /\ tpA' = t \/ tpA' = A!abort_rx(A!raise_fault(t, "TIMEOUT"))
      /\ wireA' = wireA /\ messagesA' = messagesA
  BY DEF A!tick
<1>. HIDE DEF t
<1>4. OnlyFc(wireA, wireA') /\ 0 \in Nat /\ 1 \in Nat
  BY <1>2, Untouched
<1>5. CASE tpA' = t
  <2>1. Passive(tpA, tpA', 0) /\ Shaped(tpA')
    BY <1>1, <1>5, Untouched
  <2>2. Calm(tpA, tpA', 0) /\ tpA'.faults = tpA.faults + 0 + 0
    BY <1>1, <1>5 DEF Calm, Shaped
  <2>. QED  BY <1>2, <1>4, <2>1, <2>2 DEF CalmA
<1>6. CASE tpA' = A!abort_rx(A!raise_fault(t, "TIMEOUT"))
  <2>1. Shaped(tpA') /\ tpA'.rx_state = "IDLE" /\ TxLike(t, tpA') /\ tpA'.faults = t.faults + 1
    BY <1>1, <1>6, RxEndsA
  <2>2. Passive(tpA, tpA', 0)
    BY <1>1, <2>1, LikeTransitive, Untouched
  <2>3. Calm(tpA, tpA', 1) /\ tpA'.faults = tpA.faults + 0 + 1
    BY <1>1, <2>1 DEF Calm, Shaped
  <2>. QED  BY <1>2, <1>4, <2>1, <2>2, <2>3 DEF CalmA
<1>. QED  BY <1>2, <1>5, <1>6

(* The steps of a tick.                                                    *)
LEMMA PumpRxIsA ==
  ASSUME Shaped(tpA), A!pump_rx_pending
  PROVE  CalmA
<1>. DEFINE f == tpA.rx_pending_fc.frame
<1>1. \/ tpA' = tpA /\ wireA' = wireA
      \/ tpA' = A!abort_rx(A!raise_fault(tpA, "TIMEOUT")) /\ wireA' = wireA
      \/ /\ f # Empty /\ wireA' = Append(wireA, f)
         /\ tpA' = [tpA EXCEPT !.rx_pending_fc = [frame |-> Empty, left |-> 0]]
  BY DEF A!pump_rx_pending, A!emit_frame, A!NoPending, A!None, Empty
<1>2. messagesA' = messagesA /\ 0 \in Nat /\ 1 \in Nat
  BY DEF A!pump_rx_pending
<1>3. CASE tpA' = tpA /\ wireA' = wireA
  <2>1. TxLike(tpA, tpA')
    BY <1>3 DEF TxLike
  <2>2. Passive(tpA, tpA', 0) /\ OnlyFc(wireA, wireA')
    BY <1>3, <2>1, Untouched
  <2>3. Calm(tpA, tpA', 0) /\ tpA'.faults = tpA.faults + 0 + 0 /\ Shaped(tpA')
    BY <1>3 DEF Calm, SameRx, Shaped
  <2>. QED  BY <1>2, <2>2, <2>3 DEF CalmA
<1>4. CASE tpA' = A!abort_rx(A!raise_fault(tpA, "TIMEOUT")) /\ wireA' = wireA
  <2>1. Shaped(tpA') /\ tpA'.rx_state = "IDLE" /\ TxLike(tpA, tpA') /\ tpA'.faults = tpA.faults + 1
    BY <1>4, RxEndsA
  <2>2. Passive(tpA, tpA', 0) /\ OnlyFc(wireA, wireA')
    BY <1>4, <2>1, Untouched
  <2>3. Calm(tpA, tpA', 1) /\ tpA'.faults = tpA.faults + 0 + 1
    BY <2>1 DEF Calm, Shaped
  <2>. QED  BY <1>2, <2>1, <2>2, <2>3 DEF CalmA
<1>5. CASE /\ f # Empty /\ wireA' = Append(wireA, f)
           /\ tpA' = [tpA EXCEPT !.rx_pending_fc = [frame |-> Empty, left |-> 0]]
  <2>1. /\ DOMAIN tpA' = TpFields /\ tpA'.rx_pending_fc = [frame |-> Empty, left |-> 0]
        /\ tpA'.tx_pending = tpA.tx_pending /\ tpA'.faults = tpA.faults
        /\ SameRx(tpA, tpA') /\ TxLike(tpA, tpA')
    BY <1>5 DEF Shaped, TpFields, SameRx, TxLike
  <2>2. Shaped(tpA')
    BY <2>1 DEF Shaped, SlotFields, SameRx
  <2>3. f.pci = "FC"
    BY <1>5 DEF Shaped
  <2>4. OnlyFc(wireA, wireA')
    BY <1>5, <2>3, Zenon DEF OnlyFc
  <2>5. Passive(tpA, tpA', 0)
    BY <2>1, Untouched
  <2>6. Calm(tpA, tpA', 0) /\ tpA'.faults = tpA.faults + 0 + 0
    BY <2>1 DEF Calm, Shaped
  <2>. QED  BY <1>2, <2>2, <2>4, <2>5, <2>6 DEF CalmA
<1>. QED  BY <1>1, <1>3, <1>4, <1>5, Zenon

LEMMA StillIsA ==
  ASSUME Shaped(tpA), tpA' = tpA, wireA' = wireA, messagesA' = messagesA
  PROVE  CalmA
<1>1. TxLike(tpA, tpA')
  BY DEF TxLike
<1>2. Passive(tpA, tpA', 0) /\ OnlyFc(wireA, wireA') /\ 0 \in Nat
  BY <1>1, Untouched
<1>3. Calm(tpA, tpA', 0) /\ tpA'.faults = tpA.faults + 0 + 0 /\ Shaped(tpA')
  BY DEF Calm, SameRx, Shaped
<1>. QED  BY <1>2, <1>3 DEF CalmA

LEMMA TxTimeoutIsA ==
  ASSUME Shaped(tpA), tpA' = A!abort_tx(A!raise_fault(tpA, "TIMEOUT")), wireA' = wireA, messagesA' = messagesA
  PROVE  CalmA /\ tpA'.tx_pending.frame = Empty
<1>1. Shaped(tpA') /\ SameRx(tpA, tpA') /\ TxOver(tpA') /\ tpA'.faults = tpA.faults + 1
  BY TxEndsA
<1>2. Passive(tpA, tpA', 1) /\ OnlyFc(wireA, wireA') /\ 0 \in Nat /\ 1 \in Nat
  BY <1>1, Untouched DEF Passive
<1>3. Calm(tpA, tpA', 0) /\ tpA'.faults = tpA.faults + 1 + 0
  BY <1>1 DEF Calm, Shaped
<1>. QED  BY <1>1, <1>2, <1>3 DEF CalmA, TxOver

(* A consecutive frame f leaves.                                           *)
LEMMA CfSentIsA ==
  ASSUME NEW t, Shaped(t), t.tx_state # "IDLE", t.tx_pending.frame = Empty, NEW f
  PROVE  LET v == A!cf_sent(t, f)
         IN  Shaped(v) /\ SameRx(t, v) /\ v.faults = t.faults /\ Advanced(t, v, f)
<1>. DEFINE u == [t EXCEPT !.tx_sent = @ + Len(f.data), !.tx_next_sn = (f.sn + 1) % SnMod,
                           !.tx_block_remaining =
                              IF ~t.tx_block_unlimited /\ @ > 0 THEN @ - 1 ELSE @,
                           !.tx_next_cf = t.tx_stmin]
            v == A!cf_sent(t, f)
<1>1. /\ DOMAIN u = TpFields /\ u.tx_pending = t.tx_pending /\ u.rx_pending_fc = t.rx_pending_fc
      /\ u.faults = t.faults /\ SameRx(t, u) /\ u.tx_state = t.tx_state
      /\ u.tx_sent = t.tx_sent + Len(f.data) /\ u.tx_buffer = t.tx_buffer /\ u.tx_total = t.tx_total
  BY DEF Shaped, TpFields, SameRx
<1>2. \/ /\ u.tx_sent >= u.tx_total
         /\ v = [u EXCEPT !.completed = @ + 1, !.tx_state = "IDLE", !.tx_total = 0, !.tx_sent = 0]
      \/ /\ ~(u.tx_sent >= u.tx_total)
         /\ v = u \/ v = A!arm_n_bs([u EXCEPT !.tx_state = "FLOW_CONTROL"])
  BY Zenon DEF A!cf_sent
<1>. HIDE DEF u, v
<1>3. /\ DOMAIN v = TpFields /\ v.tx_pending = t.tx_pending /\ v.rx_pending_fc = t.rx_pending_fc
      /\ v.faults = t.faults /\ SameRx(t, v)
  <2>1. CASE v = u
    BY <1>1, <2>1, Zenon
  <2>2. CASE v = [u EXCEPT !.completed = @ + 1, !.tx_state = "IDLE", !.tx_total = 0, !.tx_sent = 0]
    BY <1>1, <2>2, SMTT(30) DEF TpFields, SameRx
  <2>3. CASE v = A!arm_n_bs([u EXCEPT !.tx_state = "FLOW_CONTROL"])
    <3>1. v = [u EXCEPT !.tx_state = "FLOW_CONTROL", !.tx_deadline = n_bs]
      BY <1>1, <2>3, SMTT(30) DEF A!arm_n_bs, TpFields
    <3>. QED  BY <1>1, <3>1, SMTT(30) DEF TpFields, SameRx
  <2>. QED  BY <1>2, <2>1, <2>2, <2>3, Zenon
<1>4. Shaped(v)
  BY <1>3 DEF Shaped, SameRx
<1>5. \/ u.tx_sent >= u.tx_total /\ v.tx_state = "IDLE"
      \/ /\ ~(u.tx_sent >= u.tx_total) /\ v.tx_state # "IDLE"
         /\ v.tx_sent = u.tx_sent /\ v.tx_buffer = u.tx_buffer /\ v.tx_total = u.tx_total
  BY <1>1, <1>2, ZenonT(30) DEF A!arm_n_bs, TpFields
<1>6. Advanced(t, v, f)
  BY <1>1, <1>3, <1>5, Zenon DEF Advanced
<1>. QED  BY <1>3, <1>4, <1>6 DEF v

SendingA ==
  /\ Shaped(tpA') /\ SameRx(tpA, tpA') /\ tpA'.faults = tpA.faults /\ messagesA' = messagesA
  /\ Bursts(tpA, tpA', wireA, wireA') \/ Retries(tpA, tpA', wireA, wireA')

LEMMA PumpCfIsA ==
  ASSUME Shaped(tpA), IsSeq(wireA), A!tx_pump_cf, ~A!Overtakes
  PROVE  SendingA
<1>. DEFINE f == A!NextCf
<1>0. /\ phaseA = "burst" /\ tpA.tx_state = "CONSECUTIVE_FRAME" /\ tpA.tx_sent < tpA.tx_total
      /\ messagesA' = messagesA
  BY DEF A!tx_pump_cf, A!CfDue
<1>1. f.pci = "CF" /\ f.data = Piece(tpA)
  BY DEF A!NextCf, A!ConsecutiveFrame, A!Least, Piece, Shorter
<1>2. \/ wireA' = Append(wireA, f) /\ tpA' = A!cf_sent(tpA, f)
      \/ /\ wireA' = wireA
         /\ tpA' = [tpA EXCEPT !.tx_pending = A!pending_store(tpA.tx_pending, f)]
  BY Zenon DEF A!tx_pump_cf, A!emit_frame
<1>. HIDE DEF f
<1>4. CASE wireA' = Append(wireA, f) /\ tpA' = A!cf_sent(tpA, f)
  <2>1. wireA' # wireA
    <3>1. PICK T : wireA \in Seq(T)
      BY DEF IsSeq
    <3>2. Len(wireA) \in Nat /\ Len(Append(wireA, f)) = Len(wireA) + 1
      BY <3>1, AppendIs
    <3>. QED  BY <1>4, <3>2
  <2>2. tpA.tx_pending.frame = Empty
    BY <1>0, <2>1 DEF A!Overtakes, A!None, Empty
  <2>3. Shaped(tpA') /\ SameRx(tpA, tpA') /\ tpA'.faults = tpA.faults /\ Advanced(tpA, tpA', f)
    BY <1>0, <1>4, <2>2, CfSentIsA
  <2>4. Bursts(tpA, tpA', wireA, wireA')
    BY <1>0, <1>1, <1>4, <2>3 DEF Bursts
  <2>. QED  BY <1>0, <2>3, <2>4 DEF SendingA
<1>5. CASE /\ wireA' = wireA
           /\ tpA' = [tpA EXCEPT !.tx_pending = A!pending_store(tpA.tx_pending, f)]
  <2>1. /\ DOMAIN tpA' = TpFields /\ tpA'.tx_pending = A!pending_store(tpA.tx_pending, f)
        /\ tpA'.rx_pending_fc = tpA.rx_pending_fc /\ tpA'.faults = tpA.faults /\ SameRx(tpA, tpA')
        /\ tpA'.tx_state = tpA.tx_state /\ tpA'.tx_buffer = tpA.tx_buffer
        /\ tpA'.tx_total = tpA.tx_total /\ tpA'.tx_sent = tpA.tx_sent
    BY <1>5 DEF Shaped, TpFields, SameRx
  <2>2. DOMAIN tpA'.tx_pending = SlotFields /\ tpA'.tx_pending.frame = f
    BY <2>1 DEF A!pending_store, SlotFields
  <2>3. Shaped(tpA')
    BY <2>1, <2>2 DEF Shaped, SameRx
  <2>4. Bursts(tpA, tpA', wireA, wireA')
    BY <1>0, <1>1, <1>5, <2>1, <2>2 DEF Bursts
  <2>. QED  BY <1>0, <2>1, <2>3, <2>4 DEF SendingA
<1>. QED  BY <1>2, <1>4, <1>5

LEMMA PumpTxIsA ==
  ASSUME Shaped(tpA), A!pump_tx,
         tpA.tx_pending.frame.pci = "CF" => tpA.tx_state # "IDLE",
         tpA.tx_pending.frame = Empty \/ tpA.tx_pending.frame.pci \in {"SF", "FF", "CF"}
  PROVE  CalmA \/ SendingA
<1>. DEFINE f == tpA.tx_pending.frame  u == [tpA EXCEPT !.tx_pending = A!NoPending]
<1>0. messagesA' = messagesA
  BY DEF A!pump_tx
<1>1. \/ tpA' = tpA /\ wireA' = wireA
      \/ tpA' = A!abort_tx(A!raise_fault(tpA, "TIMEOUT")) /\ wireA' = wireA
      \/ f # Empty /\ wireA' = Append(wireA, f) /\ tpA' = A!pending_sent(tpA, f)
  BY Zenon DEF A!pump_tx, A!emit_frame, A!None, Empty
<1>2. /\ DOMAIN u = TpFields /\ u.tx_pending = [frame |-> Empty, left |-> 0]
      /\ u.rx_pending_fc = tpA.rx_pending_fc /\ u.faults = tpA.faults /\ SameRx(tpA, u)
      /\ u.tx_state = tpA.tx_state /\ u.tx_buffer = tpA.tx_buffer /\ u.tx_total = tpA.tx_total
      /\ u.tx_sent = tpA.tx_sent
  BY DEF Shaped, TpFields, SameRx, A!NoPending, A!None, Empty
<1>. HIDE DEF f
<1>3. CASE tpA' = tpA /\ wireA' = wireA
  BY <1>0, <1>3, StillIsA
<1>4. CASE tpA' = A!abort_tx(A!raise_fault(tpA, "TIMEOUT")) /\ wireA' = wireA
  BY <1>0, <1>4, TxTimeoutIsA
<1>6. CASE f # Empty /\ wireA' = Append(wireA, f) /\ tpA' = A!pending_sent(tpA, f)
  <2>1. Shaped(u) /\ u.tx_pending.frame = Empty
    BY <1>2 DEF Shaped, SlotFields, SameRx
  <2>2. CASE f.pci = "SF"
    <3>1. tpA' = [u EXCEPT !.completed = @ + 1]
      BY <1>6, <2>2 DEF A!pending_sent
    <3>. HIDE DEF u
    <3>2. /\ DOMAIN tpA' = TpFields /\ tpA'.tx_pending = u.tx_pending /\ tpA'.rx_pending_fc = u.rx_pending_fc
          /\ tpA'.faults = u.faults /\ SameRx(u, tpA') /\ tpA'.tx_state = u.tx_state
      BY <1>2, <3>1 DEF TpFields, SameRx
    <3>3. Shaped(tpA') /\ SameRx(tpA, tpA') /\ tpA'.tx_pending.frame = Empty
      BY <1>2, <2>1, <3>2 DEF Shaped, SameRx
    <3>4. Retries(tpA, tpA', wireA, wireA')
      BY <1>2, <1>6, <2>2, <3>2, <3>3 DEF Retries, f
    <3>. QED  BY <1>0, <1>2, <3>2, <3>3, <3>4 DEF SendingA
  <2>3. CASE f.pci = "FF"
    <3>1. tpA' = A!arm_n_bs([u EXCEPT !.tx_sent = TP_FF_DATA_MAX, !.tx_wait_frames = 0,
                                      !.tx_state = "FLOW_CONTROL"])
      BY <1>6, <2>3 DEF A!pending_sent
    <3>. HIDE DEF u
    <3>2. /\ DOMAIN tpA' = TpFields /\ tpA'.tx_pending = u.tx_pending /\ tpA'.rx_pending_fc = u.rx_pending_fc
          /\ tpA'.faults = u.faults /\ SameRx(u, tpA') /\ tpA'.tx_state = "FLOW_CONTROL"
          /\ tpA'.tx_sent = TP_FF_DATA_MAX /\ tpA'.tx_buffer = u.tx_buffer /\ tpA'.tx_total = u.tx_total
      BY <1>2, <3>1 DEF A!arm_n_bs, TpFields, SameRx
    <3>3. Shaped(tpA') /\ SameRx(tpA, tpA') /\ tpA'.tx_pending.frame = Empty
      BY <1>2, <2>1, <3>2 DEF Shaped, SameRx
    <3>4. Retries(tpA, tpA', wireA, wireA')
      BY <1>2, <1>6, <2>3, <3>2, <3>3 DEF Retries, f
    <3>. QED  BY <1>0, <1>2, <3>2, <3>3, <3>4 DEF SendingA
  <2>4. CASE f.pci = "CF"
    <3>1. tpA' = A!cf_sent(u, f) /\ u.tx_state # "IDLE"
      BY <1>2, <1>6, <2>4 DEF A!pending_sent, f
    <3>. HIDE DEF u
    <3>2. Shaped(tpA') /\ SameRx(u, tpA') /\ tpA'.faults = u.faults /\ Advanced(u, tpA', f)
      BY <2>1, <3>1, CfSentIsA
    <3>3. SameRx(tpA, tpA') /\ Advanced(tpA, tpA', f) /\ tpA'.tx_pending.frame = Empty
      BY <1>2, <3>2 DEF SameRx, Advanced
    <3>4. Retries(tpA, tpA', wireA, wireA')
      BY <1>6, <2>4, <3>3 DEF Retries, f
    <3>. QED  BY <1>0, <1>2, <3>2, <3>3, <3>4 DEF SendingA
  <2>. QED  BY <1>6, <2>2, <2>3, <2>4 DEF f
<1>. QED  BY <1>1, <1>3, <1>4, <1>6, Zenon

LEMMA StepIsA ==
  ASSUME Shaped(tpA), IsSeq(wireA), A!tick_steps, ~A!Overtakes,
         tpA.tx_pending.frame.pci = "CF" => tpA.tx_state # "IDLE",
         tpA.tx_pending.frame = Empty \/ tpA.tx_pending.frame.pci \in {"SF", "FF", "CF"}
  PROVE  CalmA \/ SendingA
<1>1. CASE A!pump_rx_pending
  BY <1>1, PumpRxIsA
<1>2. CASE A!tick_n_bs
  <2>1. wireA' = wireA /\ messagesA' = messagesA
    BY <1>2 DEF A!tick_n_bs
  <2>2. tpA' = tpA \/ tpA' = A!abort_tx(A!raise_fault(tpA, "TIMEOUT"))
    BY <1>2 DEF A!tick_n_bs
  <2>. QED  BY <2>1, <2>2, StillIsA, TxTimeoutIsA
<1>3. CASE A!burst_over
  <2>1. wireA' = wireA /\ messagesA' = messagesA /\ tpA' = tpA
    BY <1>3 DEF A!burst_over
  <2>. QED  BY <2>1, StillIsA
<1>. QED  BY <1>1, <1>2, <1>3, PumpTxIsA, PumpCfIsA DEF A!tick_steps

(* A step of A moves the one direction as sender and the other as receiver. *)
LEMMA MovesA ==
  ASSUME LinkInv, Shaped(tpA'), tpB' = tpB, wireB' = wireB, messagesB' = messagesB,
         sentB' = sentB, readB' = readB,
         NEW e \in Nat, NEW g \in Nat, tpA'.faults = tpA.faults + e + g,
         \A c \in Nat : Onward(tpA, tpA', wireA, wireA', sentA, sentA', c, c + e),
         sentA' = sentA \/ \E m \in Seq(Bytes) : sentA' = Append(sentA, m),
         \/ readA' = readA /\ messagesA' = messagesA /\ Calm(tpA, tpA', g)
         \/ /\ readA < Len(wireB) /\ readA' = readA + 1
            /\ Hears(tpA, tpA', messagesA, messagesA', wireB[readA + 1], g)
  PROVE  LinkInv'
<1>1. PICK cA, dA, cB, dB \in Nat :
        /\ tpA.faults = cA + dA /\ tpB.faults = cB + dB
        /\ Direction(tpA, wireA, sentA, cA, tpB, readB, messagesB, dB)
        /\ Direction(tpB, wireB, sentB, cB, tpA, readA, messagesA, dA)
  BY DEF LinkInv
<1>2. tpA'.faults = (cA + e) + (dA + g) /\ cA + e \in Nat /\ dA + g \in Nat
  BY <1>1
<1>3. Direction(tpA', wireA', sentA', cA + e, tpB, readB, messagesB, dB)
  BY <1>1, <1>2, SenderSteps
<1>4. Direction(tpB, wireB, sentB, cB, tpA', readA', messagesA', dA + g)
  BY <1>1, ReceiverCalm, ReceiverHears
<1>5. Shaped(tpB')
  BY DEF LinkInv
<1>6. /\ Direction(tpA', wireA', sentA', cA + e, tpB', readB', messagesB', dB)
      /\ Direction(tpB', wireB', sentB', cB, tpA', readA', messagesA', dA + g)
      /\ tpB'.faults = cB + dB
  BY <1>1, <1>3, <1>4
<1>7. \E c1, d1, c2, d2 \in Nat :
        /\ tpA'.faults = c1 + d1 /\ tpB'.faults = c2 + d2
        /\ Direction(tpA', wireA', sentA', c1, tpB', readB', messagesB', d2)
        /\ Direction(tpB', wireB', sentB', c2, tpA', readA', messagesA', d1)
  BY <1>1, <1>2, <1>6
<1>. QED  BY <1>5, <1>7 DEF LinkInv

LEMMA RequestMovesA ==
  ASSUME LinkInv, request_A
  PROVE  LinkInv'
<1>1. PICK n \in LengthsA : /\ A!send(Message("A", Len(sentA) + 1, n))
                            /\ sentA' = Append(sentA, Message("A", Len(sentA) + 1, n))
  BY DEF request_A
<1>. DEFINE m == Message("A", Len(sentA) + 1, n)
<1>2. /\ Shaped(tpA) /\ sentA \in Seq(Seq(Bytes)) /\ tpA.faults \in Nat
  BY DEF LinkInv, Direction, Shaped
<1>3. m \in Seq(Bytes)
  <2>1. n \in Nat /\ Len(sentA) + 1 \in Nat
    BY <1>2, LinkAssumption
  <2>. QED  BY <2>1 DEF Message, Bytes
<1>. HIDE DEF m
<1>4. A!send(m) /\ sentA' = Append(sentA, m)
  BY <1>1 DEF m
<1>5. /\ Shaped(tpA') /\ SameRx(tpA, tpA') /\ tpA'.faults = tpA.faults /\ messagesA' = messagesA
      /\ Sends(tpA, tpA', wireA, wireA', m) /\ phaseA' = "idle" /\ sinkA' = sinkA
  BY <1>2, <1>3, <1>4, RequestIsA
<1>7. \A c \in Nat : Onward(tpA, tpA', wireA, wireA', sentA, sentA', c, c + 0)
  <2>1. \A c \in Nat : Onward(tpA, tpA', wireA, wireA', sentA, sentA', c, c)
    BY <1>2, <1>3, <1>4, <1>5, SendsOnward
  <2>2. \A c \in Nat : c + 0 = c
    OBVIOUS
  <2>. QED  BY <2>1, <2>2
<1>8. Calm(tpA, tpA', 0) /\ tpA'.faults = tpA.faults + 0 + 0 /\ 0 \in Nat
  BY <1>2, <1>5 DEF Calm
<1>9. /\ tpB' = tpB /\ wireB' = wireB /\ messagesB' = messagesB
      /\ sentB' = sentB /\ readA' = readA /\ readB' = readB
  BY DEF request_A, varsB
<1>. QED  BY <1>3, <1>4, <1>5, <1>7, <1>8, <1>9, MovesA

LEMMA PassiveMovesA ==
  ASSUME LinkInv, NEW e, Passive(tpA, tpA', e), OnlyFc(wireA, wireA'), sentA' = sentA
  PROVE  \A c \in Nat : Onward(tpA, tpA', wireA, wireA', sentA, sentA', c, c + e)
<1>1. sentA \in Seq(Seq(Bytes))
  BY DEF LinkInv, Direction
<1>. QED  BY <1>1, PassiveOnward

LEMMA ReceiveMovesA ==
  ASSUME LinkInv, receive_A
  PROVE  LinkInv'
<1>. DEFINE f == wireB[readA + 1]
<1>1. /\ readA < Len(wireB) /\ A!rx_frame(f) /\ readA' = readA + 1
      /\ tpB' = tpB /\ wireB' = wireB /\ messagesB' = messagesB
      /\ sentA' = sentA /\ sentB' = sentB /\ readB' = readB
  BY DEF receive_A, varsB
<1>2. Shaped(tpA)
  BY DEF LinkInv
<1>3. HeardA(f) /\ phaseA' = "idle" /\ sinkA' = sinkA
  BY <1>1, <1>2, ReceiveIsA
<1>4. PICK e, g \in Nat :
        /\ tpA'.faults = tpA.faults + e + g /\ Shaped(tpA')
        /\ Passive(tpA, tpA', e) /\ OnlyFc(wireA, wireA') /\ Hears(tpA, tpA', messagesA, messagesA', f, g)
  BY <1>3 DEF HeardA
<1>6. \A c \in Nat : Onward(tpA, tpA', wireA, wireA', sentA, sentA', c, c + e)
  BY <1>1, <1>4, PassiveMovesA
<1>. QED  BY <1>1, <1>4, <1>6, MovesA

LEMMA CalmMovesA ==
  ASSUME LinkInv, CalmA, tpB' = tpB, wireB' = wireB, messagesB' = messagesB,
         sentA' = sentA, sentB' = sentB, readA' = readA, readB' = readB
  PROVE  LinkInv'
<1>1. PICK e, g \in Nat :
        /\ tpA'.faults = tpA.faults + e + g /\ Shaped(tpA') /\ messagesA' = messagesA
        /\ Passive(tpA, tpA', e) /\ OnlyFc(wireA, wireA') /\ Calm(tpA, tpA', g)
  BY DEF CalmA
<1>2. \A c \in Nat : Onward(tpA, tpA', wireA, wireA', sentA, sentA', c, c + e)
  BY <1>1, PassiveMovesA
<1>. QED  BY <1>1, <1>2, MovesA

LEMMA TickMovesA ==
  ASSUME LinkInv, tick_A
  PROVE  LinkInv'
<1>1. /\ A!tick(1) /\ readA' = readA /\ readB' = readB /\ sentA' = sentA /\ sentB' = sentB
      /\ tpB' = tpB /\ wireB' = wireB /\ messagesB' = messagesB
  BY DEF tick_A, varsB
<1>2. CalmA
  BY <1>1, TickIsA DEF LinkInv
<1>. QED  BY <1>1, <1>2, CalmMovesA

LEMMA StepMovesA ==
  ASSUME LinkInv, steps_A, ~overtaken'
  PROVE  LinkInv'
<1>1. /\ A!tick_steps /\ ~A!Overtakes /\ readA' = readA /\ readB' = readB /\ sentA' = sentA /\ sentB' = sentB
      /\ tpB' = tpB /\ wireB' = wireB /\ messagesB' = messagesB
  BY DEF steps_A, varsB
<1>2. /\ Shaped(tpA) /\ IsSeq(wireA) /\ tpA.faults \in Nat /\ sentA \in Seq(Seq(Bytes))
      /\ \E c, r, read, ms, d : Direction(tpA, wireA, sentA, c, r, read, ms, d)
  BY DEF LinkInv, Direction, Shaped
<1>3. CalmA \/ SendingA
  BY <1>1, <1>2, PendingIs, StepIsA
<1>4. CASE CalmA
  BY <1>1, <1>3, <1>4, CalmMovesA
<1>5. CASE SendingA
  <2>1. /\ Shaped(tpA') /\ SameRx(tpA, tpA') /\ tpA'.faults = tpA.faults /\ messagesA' = messagesA
        /\ Bursts(tpA, tpA', wireA, wireA') \/ Retries(tpA, tpA', wireA, wireA')
    BY <1>5 DEF SendingA
  <2>2. \A c \in Nat : Onward(tpA, tpA', wireA, wireA', sentA, sentA', c, c + 0)
    <3>1. \A c \in Nat : Onward(tpA, tpA', wireA, wireA', sentA, sentA', c, c)
      BY <1>1, <1>2, <2>1, BurstsOnward, RetriesOnward
    <3>2. \A c \in Nat : c + 0 = c
      OBVIOUS
    <3>. QED  BY <3>1, <3>2
  <2>3. Calm(tpA, tpA', 0) /\ tpA'.faults = tpA.faults + 0 + 0 /\ 0 \in Nat
    BY <1>2, <2>1 DEF Calm
  <2>. QED  BY <1>1, <1>3, <2>1, <2>2, <2>3, MovesA
<1>. QED  BY <1>3, <1>4, <1>5
-----------------------------------------------------------------------------
(* The engine of B: the same lemmas about the other instance.              *)
LEMMA FaultIsB ==
  ASSUME NEW t, Shaped(t), NEW code
  PROVE  LET u == B!raise_fault(t, code)
         IN  Shaped(u) /\ SameRx(t, u) /\ TxLike(t, u) /\ u.faults = t.faults + 1
  BY DEF B!raise_fault, Shaped, SameRx, TxLike, TpFields

LEMMA RxEndsB ==
  ASSUME NEW t, Shaped(t), NEW code
  PROVE  LET u == B!abort_rx(B!raise_fault(t, code))
         IN  Shaped(u) /\ u.rx_state = "IDLE" /\ TxLike(t, u) /\ u.faults = t.faults + 1
<1>. DEFINE s == B!raise_fault(t, code)  u == B!abort_rx(s)
<1>1. Shaped(s) /\ TxLike(t, s) /\ s.faults = t.faults + 1
  BY FaultIsB
<1>. HIDE DEF s
<1>2. /\ DOMAIN u = TpFields /\ u.rx_state = "IDLE" /\ u.rx_pending_fc = [frame |-> Empty, left |-> 0]
      /\ u.tx_pending = s.tx_pending /\ u.faults = s.faults /\ TxLike(s, u)
  BY <1>1 DEF B!abort_rx, B!NoPending, B!None, Empty, Shaped, TxLike, TpFields
<1>. HIDE DEF u
<1>3. Shaped(u)
  BY <1>1, <1>2 DEF Shaped, SlotFields
<1>. QED  BY <1>1, <1>2, <1>3 DEF TxLike, s, u

LEMMA TxEndsB ==
  ASSUME NEW t, Shaped(t), NEW code
  PROVE  LET u == B!abort_tx(B!raise_fault(t, code))
         IN  Shaped(u) /\ SameRx(t, u) /\ TxOver(u) /\ u.faults = t.faults + 1
<1>. DEFINE s == B!raise_fault(t, code)  u == B!abort_tx(s)
<1>1. Shaped(s) /\ SameRx(t, s) /\ s.faults = t.faults + 1
  BY FaultIsB
<1>. HIDE DEF s
<1>2. /\ DOMAIN u = TpFields /\ u.tx_state = "IDLE" /\ u.tx_pending = [frame |-> Empty, left |-> 0]
      /\ u.rx_pending_fc = s.rx_pending_fc /\ u.faults = s.faults /\ SameRx(s, u)
  BY <1>1 DEF B!abort_tx, B!NoPending, B!None, Empty, Shaped, SameRx, TpFields
<1>. HIDE DEF u
<1>3. Shaped(u) /\ TxOver(u)
  BY <1>1, <1>2 DEF Shaped, SlotFields, TxOver, SameRx
<1>. QED  BY <1>1, <1>2, <1>3 DEF SameRx, s, u

(* A flow control is sent or waits.                                        *)
LEMMA AnswerIsB ==
  ASSUME NEW t, Shaped(t), NEW fc, fc.pci = "FC", B!answer_fc(fc, t)
  PROVE  Shaped(tpB') /\ SameRx(t, tpB') /\ TxLike(t, tpB') /\ tpB'.faults = t.faults /\ OnlyFc(wireB, wireB')
<1>1. PICK s : /\ tpB' = [t EXCEPT !.rx_pending_fc = s]
               /\ DOMAIN s = SlotFields /\ (s.frame = Empty \/ s.frame.pci = "FC")
  <2>1. tpB' = [t EXCEPT !.rx_pending_fc = [frame |-> Empty, left |-> 0]]
        \/ \E l : tpB' = [t EXCEPT !.rx_pending_fc = [frame |-> fc, left |-> l]]
    BY DEF B!answer_fc, B!emit_frame, B!NoPending, B!None, B!pending_store, Empty, Shaped, TpFields
  <2>2. \A f, l : DOMAIN [frame |-> f, left |-> l] = SlotFields /\ [frame |-> f, left |-> l].frame = f
    BY DEF SlotFields
  <2>. QED  BY <2>1, <2>2, Zenon
<1>2. OnlyFc(wireB, wireB')
  BY DEF B!answer_fc, B!emit_frame, OnlyFc
<1>3. /\ DOMAIN tpB' = TpFields /\ tpB'.rx_pending_fc = s /\ tpB'.tx_pending = t.tx_pending
      /\ tpB'.faults = t.faults /\ SameRx(t, tpB') /\ TxLike(t, tpB')
  BY <1>1 DEF Shaped, TpFields, SameRx, TxLike
<1>4. Shaped(tpB')
  BY <1>1, <1>3 DEF Shaped, SameRx
<1>. QED  BY <1>2, <1>3, <1>4

(* A frame is received.                                                    *)
HeardB(f) ==
  \E e, g \in Nat :
    /\ tpB'.faults = tpB.faults + e + g /\ Shaped(tpB')
    /\ Passive(tpB, tpB', e) /\ OnlyFc(wireB, wireB') /\ Hears(tpB, tpB', messagesB, messagesB', f, g)

LEMMA RefusedB ==
  ASSUME Shaped(tpB), NEW f, NEW code, wireB' = wireB, messagesB' = messagesB,
         \/ tpB' = B!abort_rx(B!raise_fault(tpB, code))
         \/ tpB.rx_state = "IDLE" /\ tpB' = B!raise_fault(tpB, code)
  PROVE  HeardB(f)
<1>1. Shaped(tpB') /\ tpB'.rx_state = "IDLE" /\ TxLike(tpB, tpB') /\ tpB'.faults = tpB.faults + 1
  BY RxEndsB, FaultIsB DEF SameRx
<1>2. tpB'.faults = tpB.faults + 0 + 1 /\ 0 \in Nat /\ 1 \in Nat
  BY <1>1 DEF Shaped
<1>3. Passive(tpB, tpB', 0) /\ OnlyFc(wireB, wireB')
  BY <1>1, Untouched
<1>4. Hears(tpB, tpB', messagesB, messagesB', f, 1)
  BY <1>1 DEF Hears
<1>. QED  BY <1>1, <1>2, <1>3, <1>4 DEF HeardB

LEMMA ReceptionIsB ==
  ASSUME Shaped(tpB), NEW f, NEW s, Shaped(s), TxLike(tpB, s), s.faults = tpB.faults, NEW fc, fc.pci = "FC",
         f.pci = "FF", tpB.rx_state = "IDLE", s.rx_state = "FIRST_FRAME",
         s.rx_data = f.data, s.rx_total = f.total, B!answer_fc(fc, s), UNCHANGED messagesB
  PROVE  HeardB(f)
<1>1. Shaped(tpB') /\ SameRx(s, tpB') /\ TxLike(s, tpB') /\ tpB'.faults = s.faults /\ OnlyFc(wireB, wireB')
  BY AnswerIsB
<1>2. tpB'.faults = tpB.faults + 0 + 0 /\ 0 \in Nat
  BY <1>1 DEF Shaped
<1>3. Passive(tpB, tpB', 0)
  BY <1>1, Untouched, LikeTransitive
<1>4. Hears(tpB, tpB', messagesB, messagesB', f, 0)
  BY <1>1, Zenon DEF Hears, SameRx
<1>. QED  BY <1>1, <1>2, <1>3, <1>4 DEF HeardB

LEMMA HearsFirstB ==
  ASSUME Shaped(tpB), NEW f, B!handle_ff(f)
  PROVE  HeardB(f)
<1>1. CASE tpB.rx_state # "IDLE" /\ B!drop_rx("PROTOCOL")
  BY <1>1, RefusedB, Zenon DEF B!drop_rx
<1>2. CASE tpB.rx_state = "IDLE" /\ B!ignore("PROTOCOL")
  BY <1>2, RefusedB DEF B!ignore
<1>3. CASE /\ tpB.rx_state = "IDLE" /\ UNCHANGED messagesB
           /\ B!answer_fc(B!FlowControl("OVFLW", 0, 0), B!raise_fault(tpB, "BUFFER_OVERFLOW"))
  <2>. DEFINE s == B!raise_fault(tpB, "BUFFER_OVERFLOW")  fc == B!FlowControl("OVFLW", 0, 0)
  <2>1. Shaped(s) /\ SameRx(tpB, s) /\ TxLike(tpB, s) /\ s.faults = tpB.faults + 1
    BY FaultIsB
  <2>2. fc.pci = "FC" /\ B!answer_fc(fc, s)
    BY <1>3 DEF B!FlowControl
  <2>. HIDE DEF s, fc
  <2>3. Shaped(tpB') /\ SameRx(s, tpB') /\ TxLike(s, tpB') /\ tpB'.faults = s.faults /\ OnlyFc(wireB, wireB')
    BY <2>1, <2>2, AnswerIsB
  <2>4. tpB'.faults = tpB.faults + 0 + 1 /\ 0 \in Nat /\ 1 \in Nat
    BY <2>1, <2>3 DEF Shaped
  <2>5. Passive(tpB, tpB', 0)
    BY <2>1, <2>3, Untouched, LikeTransitive
  <2>6. Hears(tpB, tpB', messagesB, messagesB', f, 1)
    BY <1>3, <2>1, <2>3 DEF Hears, SameRx
  <2>. QED  BY <2>3, <2>4, <2>5, <2>6 DEF HeardB
<1>4. CASE /\ tpB.rx_state = "IDLE" /\ UNCHANGED messagesB
           /\ B!answer_fc(B!FlowControl("CTS", tpB.fc_block_size, fc_stmin),
                          B!arm_n_cr([tpB EXCEPT !.rx_data = f.data, !.rx_total = f.total,
                                                 !.rx_expected_sn = 1 % SnMod,
                                                 !.rx_state = "FIRST_FRAME"]))
  <2>. DEFINE fc == B!FlowControl("CTS", tpB.fc_block_size, fc_stmin)
              s == B!arm_n_cr([tpB EXCEPT !.rx_data = f.data, !.rx_total = f.total,
                                          !.rx_expected_sn = 1 % SnMod, !.rx_state = "FIRST_FRAME"])
  <2>1. /\ DOMAIN s = TpFields /\ s.tx_pending = tpB.tx_pending /\ s.rx_pending_fc = tpB.rx_pending_fc
        /\ s.faults = tpB.faults /\ TxLike(tpB, s)
        /\ s.rx_state = "FIRST_FRAME" /\ s.rx_data = f.data /\ s.rx_total = f.total
    BY DEF B!arm_n_cr, Shaped, TpFields, TxLike
  <2>2. fc.pci = "FC" /\ B!answer_fc(fc, s) /\ f.pci = "FF"
    BY <1>4 DEF B!FlowControl, B!handle_ff
  <2>. HIDE DEF s, fc
  <2>3. Shaped(s)
    BY <2>1 DEF Shaped
  <2>. QED  BY <1>4, <2>1, <2>2, <2>3, ReceptionIsB
<1>. QED  BY <1>1, <1>2, <1>3, <1>4, Zenon DEF B!handle_ff

LEMMA HearsSingleB ==
  ASSUME Shaped(tpB), NEW f, B!handle_sf(f)
  PROVE  HeardB(f)
<1>1. CASE B!drop_rx("PROTOCOL")
  BY <1>1, RefusedB, Zenon DEF B!drop_rx
<1>2. CASE tpB.rx_state = "IDLE" /\ (B!ignore("PROTOCOL") \/ B!ignore("BUFFER_OVERFLOW"))
  BY <1>2, RefusedB DEF B!ignore
<1>3. CASE tpB.rx_state = "IDLE" /\ messagesB' = Append(messagesB, f.data) /\ UNCHANGED <<tpB, wireB>>
  <2>1. tpB'.faults = tpB.faults + 0 + 0 /\ 0 \in Nat /\ Shaped(tpB')
    BY <1>3 DEF Shaped
  <2>2. f.pci = "SF"
    BY DEF B!handle_sf
  <2>3. Passive(tpB, tpB', 0) /\ OnlyFc(wireB, wireB')
    BY <1>3, Untouched DEF TxLike
  <2>4. Hears(tpB, tpB', messagesB, messagesB', f, 0)
    BY <1>3, <2>2 DEF Hears
  <2>. QED  BY <2>1, <2>3, <2>4 DEF HeardB
<1>. QED  BY <1>1, <1>2, <1>3, Zenon DEF B!handle_sf

LEMMA HearsConsecutiveB ==
  ASSUME Shaped(tpB), NEW f, B!handle_cf(f)
  PROVE  HeardB(f)
<1>. DEFINE data == tpB.rx_data \o f.data
            s == B!arm_n_cr([tpB EXCEPT !.rx_expected_sn = (f.sn + 1) % SnMod])
<1>0. f.pci = "CF" /\ tpB.rx_state \in {"IDLE", "FIRST_FRAME"}
  BY DEF B!handle_cf, Shaped
<1>1. CASE B!drop_rx("PROTOCOL")
  BY <1>1, RefusedB, Zenon DEF B!drop_rx
<1>2. CASE tpB.rx_state # "FIRST_FRAME" /\ B!ignore("PROTOCOL")
  BY <1>0, <1>2, RefusedB DEF B!ignore
<1>3. /\ DOMAIN s = TpFields /\ s.tx_pending = tpB.tx_pending /\ s.rx_pending_fc = tpB.rx_pending_fc
      /\ s.faults = tpB.faults /\ TxLike(tpB, s)
      /\ s.rx_state = tpB.rx_state /\ s.rx_data = tpB.rx_data /\ s.rx_total = tpB.rx_total
  BY DEF B!arm_n_cr, Shaped, TpFields, TxLike
<1>. HIDE DEF s
<1>4. CASE /\ tpB.rx_state = "FIRST_FRAME" /\ Len(data) >= tpB.rx_total
           /\ tpB' = [s EXCEPT !.rx_state = "IDLE", !.rx_total = 0, !.rx_data = <<>>]
           /\ messagesB' = Append(messagesB, data) /\ UNCHANGED wireB
  <2>1. /\ DOMAIN tpB' = TpFields /\ tpB'.tx_pending = s.tx_pending /\ tpB'.rx_pending_fc = s.rx_pending_fc
        /\ tpB'.faults = s.faults /\ TxLike(s, tpB') /\ tpB'.rx_state = "IDLE"
    BY <1>3, <1>4 DEF TpFields, TxLike
  <2>2. Shaped(tpB') /\ tpB'.faults = tpB.faults + 0 + 0 /\ 0 \in Nat
    BY <1>3, <2>1 DEF Shaped
  <2>3. Passive(tpB, tpB', 0) /\ OnlyFc(wireB, wireB')
    BY <1>3, <1>4, <2>1, Untouched, LikeTransitive
  <2>4. Hears(tpB, tpB', messagesB, messagesB', f, 0)
    BY <1>0, <1>4, <2>1, Zenon DEF Hears
  <2>. QED  BY <2>2, <2>3, <2>4 DEF HeardB
<1>5. CASE /\ tpB.rx_state = "FIRST_FRAME" /\ ~(Len(data) >= tpB.rx_total)
           /\ tpB' = [s EXCEPT !.rx_data = data] /\ UNCHANGED <<messagesB, wireB>>
  <2>1. /\ DOMAIN tpB' = TpFields /\ tpB'.tx_pending = s.tx_pending /\ tpB'.rx_pending_fc = s.rx_pending_fc
        /\ tpB'.faults = s.faults /\ TxLike(s, tpB')
        /\ tpB'.rx_state = s.rx_state /\ tpB'.rx_total = s.rx_total /\ tpB'.rx_data = data
    BY <1>3, <1>5 DEF TpFields, TxLike
  <2>2. Shaped(tpB') /\ tpB'.faults = tpB.faults + 0 + 0 /\ 0 \in Nat
    BY <1>3, <2>1 DEF Shaped
  <2>3. Passive(tpB, tpB', 0) /\ OnlyFc(wireB, wireB')
    BY <1>3, <1>5, <2>1, Untouched, LikeTransitive
  <2>4. Hears(tpB, tpB', messagesB, messagesB', f, 0)
    BY <1>0, <1>3, <1>5, <2>1, Zenon DEF Hears
  <2>. QED  BY <2>2, <2>3, <2>4 DEF HeardB
<1>. QED  BY <1>1, <1>2, <1>4, <1>5, Zenon DEF B!handle_cf, s

LEMMA HearsControlB ==
  ASSUME Shaped(tpB), NEW f, B!handle_fc(f)
  PROVE  HeardB(f)
<1>0. f.pci = "FC"
  BY DEF B!handle_fc
<1>1. CASE B!drop_tx("PROTOCOL") \/ B!drop_tx("BUFFER_OVERFLOW")
  <2>1. /\ Shaped(tpB') /\ SameRx(tpB, tpB') /\ TxOver(tpB') /\ tpB'.faults = tpB.faults + 1
        /\ UNCHANGED <<wireB, messagesB>>
    BY <1>1, TxEndsB DEF B!drop_tx
  <2>2. tpB'.faults = tpB.faults + 1 + 0 /\ 0 \in Nat /\ 1 \in Nat
    BY <2>1 DEF Shaped
  <2>3. Passive(tpB, tpB', 1) /\ OnlyFc(wireB, wireB') /\ Hears(tpB, tpB', messagesB, messagesB', f, 0)
    BY <1>0, <2>1 DEF Passive, OnlyFc, Hears
  <2>. QED  BY <2>1, <2>2, <2>3 DEF HeardB
<1>2. CASE /\ tpB.tx_state = "FLOW_CONTROL" /\ UNCHANGED <<wireB, messagesB>>
           /\ \/ tpB' = [tpB EXCEPT !.tx_state = "CONSECUTIVE_FRAME", !.tx_wait_frames = 0,
                                     !.tx_block_unlimited = (f.bs = 0), !.tx_block_remaining = f.bs,
                                     !.tx_stmin = B!stmin_decode(f.stmin), !.tx_next_cf = 0]
              \/ tpB' = B!arm_n_bs([tpB EXCEPT !.tx_wait_frames = @ + 1])
  <2>1. /\ DOMAIN tpB' = TpFields /\ tpB'.tx_pending = tpB.tx_pending /\ tpB'.rx_pending_fc = tpB.rx_pending_fc
        /\ tpB'.faults = tpB.faults /\ TxLike(tpB, tpB') /\ SameRx(tpB, tpB')
    BY <1>2, ZenonT(30) DEF B!arm_n_bs, Shaped, TpFields, TxLike, SameRx
  <2>2. Shaped(tpB') /\ tpB'.faults = tpB.faults + 0 + 0 /\ 0 \in Nat
    BY <2>1 DEF Shaped, SameRx
  <2>3. Passive(tpB, tpB', 0) /\ OnlyFc(wireB, wireB')
    BY <1>2, <2>1, Untouched
  <2>4. Hears(tpB, tpB', messagesB, messagesB', f, 0)
    BY <1>0, <1>2, <2>1 DEF Hears
  <2>. QED  BY <2>2, <2>3, <2>4 DEF HeardB
<1>. QED  BY <1>1, <1>2, Zenon DEF B!handle_fc

LEMMA ReceiveIsB ==
  ASSUME Shaped(tpB), NEW f, B!rx_frame(f)
  PROVE  HeardB(f) /\ phaseB' = "idle" /\ sinkB' = sinkB
<1>1. CASE B!handle_invalid(f)
  <2>1. tpB.rx_state \in {"IDLE", "FIRST_FRAME"}
    BY DEF Shaped
  <2>2. \/ B!drop_rx("PROTOCOL")
        \/ tpB.rx_state = "IDLE" /\ B!ignore("PROTOCOL")
    BY <1>1, <2>1 DEF B!handle_invalid
  <2>3. HeardB(f)
    BY <2>2, RefusedB, Zenon DEF B!drop_rx, B!ignore
  <2>. QED  BY <2>3 DEF B!rx_frame
<1>. QED
  BY <1>1, HearsSingleB, HearsFirstB, HearsConsecutiveB, HearsControlB DEF B!rx_frame

(* A request.                                                              *)
LEMMA RequestIsB ==
  ASSUME Shaped(tpB), NEW m \in Seq(Bytes), B!send(m)
  PROVE  /\ Shaped(tpB') /\ SameRx(tpB, tpB') /\ tpB'.faults = tpB.faults /\ messagesB' = messagesB
         /\ Sends(tpB, tpB', wireB, wireB', m) /\ phaseB' = "idle" /\ sinkB' = sinkB
<1>0. TxOver(tpB) /\ messagesB' = messagesB /\ phaseB' = "idle" /\ sinkB' = sinkB
  BY DEF B!send, B!tx_busy, B!None, TxOver, Empty
<1>. DEFINE single == B!SingleFrame(m)  first == B!FirstFrame(m)
<1>1. IsSingle(single, m)
  BY DEF IsSingle, B!SingleFrame
<1>2. CASE Len(m) <= TP_SF_DATA_MAX
  <2>. DEFINE t == [tpB EXCEPT !.requested = @ + 1]
  <2>1. /\ DOMAIN t = TpFields /\ t.tx_pending = tpB.tx_pending /\ t.rx_pending_fc = tpB.rx_pending_fc
        /\ t.tx_state = tpB.tx_state /\ SameRx(tpB, t) /\ t.faults = tpB.faults
    BY DEF Shaped, TpFields, SameRx
  <2>2. \/ wireB' = Append(wireB, single) /\ tpB' = [t EXCEPT !.completed = @ + 1]
        \/ wireB' = wireB /\ tpB' = [t EXCEPT !.tx_pending = B!pending_store(t.tx_pending, single)]
    <3>1. B!send_sf(m)
      BY <1>2, LinkAssumption DEF B!send, B!send_ff
    <3>. QED  BY <3>1, Zenon DEF B!send_sf, B!emit_frame
  <2>. HIDE DEF t, single
  <2>3. CASE wireB' = Append(wireB, single) /\ tpB' = [t EXCEPT !.completed = @ + 1]
    <3>1. /\ DOMAIN tpB' = TpFields /\ tpB'.tx_pending = t.tx_pending /\ tpB'.rx_pending_fc = t.rx_pending_fc
          /\ tpB'.tx_state = t.tx_state /\ SameRx(t, tpB') /\ tpB'.faults = t.faults
      BY <2>1, <2>3 DEF TpFields, SameRx
    <3>2. Shaped(tpB') /\ SameRx(tpB, tpB')
      BY <2>1, <3>1 DEF Shaped, SameRx
    <3>3. TxOver(tpB')
      BY <1>0, <2>1, <3>1 DEF TxOver
    <3>. QED  BY <1>0, <1>1, <2>1, <2>3, <3>1, <3>2, <3>3 DEF Sends
  <2>4. CASE wireB' = wireB /\ tpB' = [t EXCEPT !.tx_pending = B!pending_store(t.tx_pending, single)]
    <3>1. /\ DOMAIN tpB' = TpFields /\ tpB'.tx_pending = B!pending_store(t.tx_pending, single)
          /\ tpB'.rx_pending_fc = t.rx_pending_fc
          /\ tpB'.tx_state = t.tx_state /\ SameRx(t, tpB') /\ tpB'.faults = t.faults
      BY <2>1, <2>4 DEF TpFields, SameRx
    <3>2. DOMAIN tpB'.tx_pending = SlotFields /\ tpB'.tx_pending.frame = single
      BY <3>1 DEF B!pending_store, SlotFields
    <3>3. Shaped(tpB') /\ SameRx(tpB, tpB')
      BY <2>1, <3>1, <3>2 DEF Shaped, SameRx
    <3>4. tpB'.tx_state = "IDLE"
      BY <1>0, <2>1, <3>1 DEF TxOver
    <3>. QED  BY <1>0, <1>1, <2>1, <2>4, <3>1, <3>2, <3>3, <3>4 DEF Sends
  <2>. QED  BY <2>2, <2>3, <2>4
<1>3. CASE ~(Len(m) <= TP_SF_DATA_MAX)
  <2>. DEFINE t == [tpB EXCEPT !.requested = @ + 1, !.tx_buffer = m, !.tx_total = Len(m),
                               !.tx_next_sn = 1 % SnMod, !.tx_wait_frames = 0]
  <2>0. IsFirst(first, m)
    <3>1. Len(m) \in Nat /\ TP_FF_DATA_MAX < Len(m)
      BY <1>3, LinkAssumption
    <3>. QED  BY <3>1 DEF IsFirst, B!FirstFrame
  <2>1. /\ DOMAIN t = TpFields /\ t.tx_pending = tpB.tx_pending /\ t.rx_pending_fc = tpB.rx_pending_fc
        /\ t.tx_state = tpB.tx_state /\ t.tx_buffer = m /\ t.tx_total = Len(m)
        /\ SameRx(tpB, t) /\ t.faults = tpB.faults
    BY DEF Shaped, TpFields, SameRx
  <2>2. \/ /\ wireB' = Append(wireB, first)
           /\ tpB' = B!arm_n_bs([t EXCEPT !.tx_sent = TP_FF_DATA_MAX, !.tx_state = "FLOW_CONTROL"])
        \/ /\ wireB' = wireB
           /\ tpB' = [t EXCEPT !.tx_sent = 0, !.tx_pending = B!pending_store(t.tx_pending, first)]
    <3>1. B!send_ff(m)
      BY <1>3 DEF B!send, B!send_sf
    <3>. QED  BY <3>1, Zenon DEF B!send_ff, B!emit_frame
  <2>. HIDE DEF t, first
  <2>3. CASE /\ wireB' = Append(wireB, first)
             /\ tpB' = B!arm_n_bs([t EXCEPT !.tx_sent = TP_FF_DATA_MAX, !.tx_state = "FLOW_CONTROL"])
    <3>1. /\ DOMAIN tpB' = TpFields /\ tpB'.tx_pending = t.tx_pending /\ tpB'.rx_pending_fc = t.rx_pending_fc
          /\ tpB'.tx_state = "FLOW_CONTROL" /\ tpB'.tx_sent = TP_FF_DATA_MAX
          /\ tpB'.tx_buffer = t.tx_buffer /\ tpB'.tx_total = t.tx_total
          /\ SameRx(t, tpB') /\ tpB'.faults = t.faults
      BY <2>1, <2>3 DEF B!arm_n_bs, TpFields, SameRx
    <3>2. Shaped(tpB') /\ SameRx(tpB, tpB')
      BY <2>1, <3>1 DEF Shaped, SameRx
    <3>3. tpB'.tx_pending.frame = Empty
      BY <1>0, <2>1, <3>1 DEF TxOver
    <3>4. Sends(tpB, tpB', wireB, wireB', m)
      BY <1>0, <2>0, <2>1, <2>3, <3>1, <3>3 DEF Sends
    <3>. QED  BY <1>0, <2>1, <3>1, <3>2, <3>4
  <2>4. CASE /\ wireB' = wireB
             /\ tpB' = [t EXCEPT !.tx_sent = 0, !.tx_pending = B!pending_store(t.tx_pending, first)]
    <3>1. /\ DOMAIN tpB' = TpFields /\ tpB'.tx_pending = B!pending_store(t.tx_pending, first)
          /\ tpB'.rx_pending_fc = t.rx_pending_fc
          /\ tpB'.tx_state = t.tx_state /\ tpB'.tx_buffer = t.tx_buffer /\ tpB'.tx_total = t.tx_total
          /\ SameRx(t, tpB') /\ tpB'.faults = t.faults
      BY <2>1, <2>4 DEF TpFields, SameRx
    <3>2. DOMAIN tpB'.tx_pending = SlotFields /\ tpB'.tx_pending.frame = first
      BY <3>1 DEF B!pending_store, SlotFields
    <3>3. Shaped(tpB') /\ SameRx(tpB, tpB')
      BY <2>1, <3>1, <3>2 DEF Shaped, SameRx
    <3>4. tpB'.tx_state = "IDLE"
      BY <1>0, <2>1, <3>1 DEF TxOver
    <3>5. Sends(tpB, tpB', wireB, wireB', m)
      BY <1>0, <2>0, <2>1, <2>4, <3>1, <3>2, <3>4 DEF Sends
    <3>. QED  BY <1>0, <2>1, <3>1, <3>3, <3>5
  <2>. QED  BY <2>2, <2>3, <2>4
<1>. QED  BY <1>2, <1>3

(* Time passes: the timers only shrink.                                    *)
LEMMA AdvanceIsB ==
  ASSUME Shaped(tpB), NEW d
  PROVE  LET u == B!advance_time(tpB, d)
         IN  Shaped(u) /\ SameRx(tpB, u) /\ TxLike(tpB, u) /\ u.faults = tpB.faults
<1>. DEFINE u == B!advance_time(tpB, d)
<1>1. /\ DOMAIN u = TpFields /\ u.tx_state = tpB.tx_state /\ u.tx_buffer = tpB.tx_buffer
      /\ u.tx_total = tpB.tx_total /\ u.tx_sent = tpB.tx_sent /\ SameRx(tpB, u) /\ u.faults = tpB.faults
      /\ u.tx_pending = [tpB.tx_pending EXCEPT !.left = B!Left(@, d)]
      /\ u.rx_pending_fc = [tpB.rx_pending_fc EXCEPT !.left = B!Left(@, d)]
  BY DEF B!advance_time, Shaped, TpFields, SameRx
<1>. HIDE DEF u
<1>2. /\ DOMAIN u.tx_pending = SlotFields /\ u.tx_pending.frame = tpB.tx_pending.frame
      /\ DOMAIN u.rx_pending_fc = SlotFields /\ u.rx_pending_fc.frame = tpB.rx_pending_fc.frame
  BY <1>1 DEF Shaped, SlotFields
<1>3. Shaped(u) /\ TxLike(tpB, u)
  BY <1>1, <1>2 DEF Shaped, SameRx, TxLike
<1>. QED  BY <1>1, <1>3 DEF u

(* A step that reads no frame: the reception goes on or ends with a fault, *)
(* and so does the transmission.                                           *)
CalmB ==
  \E e, g \in Nat :
    /\ tpB'.faults = tpB.faults + e + g /\ Shaped(tpB') /\ messagesB' = messagesB
    /\ Passive(tpB, tpB', e) /\ OnlyFc(wireB, wireB') /\ Calm(tpB, tpB', g)

LEMMA TickIsB ==
  ASSUME Shaped(tpB), B!tick(1)
  PROVE  CalmB
<1>. DEFINE t == B!advance_time(tpB, 1)
<1>1. Shaped(t) /\ SameRx(tpB, t) /\ TxLike(tpB, t) /\ t.faults = tpB.faults
  BY AdvanceIsB
<1>2. /\ tpB' = t \/ tpB' = B!abort_rx(B!raise_fault(t, "TIMEOUT"))
      /\ wireB' = wireB /\ messagesB' = messagesB
  BY DEF B!tick
<1>. HIDE DEF t
<1>4. OnlyFc(wireB, wireB') /\ 0 \in Nat /\ 1 \in Nat
  BY <1>2, Untouched
<1>5. CASE tpB' = t
  <2>1. Passive(tpB, tpB', 0) /\ Shaped(tpB')
    BY <1>1, <1>5, Untouched
  <2>2. Calm(tpB, tpB', 0) /\ tpB'.faults = tpB.faults + 0 + 0
    BY <1>1, <1>5 DEF Calm, Shaped
  <2>. QED  BY <1>2, <1>4, <2>1, <2>2 DEF CalmB
<1>6. CASE tpB' = B!abort_rx(B!raise_fault(t, "TIMEOUT"))
  <2>1. Shaped(tpB') /\ tpB'.rx_state = "IDLE" /\ TxLike(t, tpB') /\ tpB'.faults = t.faults + 1
    BY <1>1, <1>6, RxEndsB
  <2>2. Passive(tpB, tpB', 0)
    BY <1>1, <2>1, LikeTransitive, Untouched
  <2>3. Calm(tpB, tpB', 1) /\ tpB'.faults = tpB.faults + 0 + 1
    BY <1>1, <2>1 DEF Calm, Shaped
  <2>. QED  BY <1>2, <1>4, <2>1, <2>2, <2>3 DEF CalmB
<1>. QED  BY <1>2, <1>5, <1>6

(* The steps of a tick.                                                    *)
LEMMA PumpRxIsB ==
  ASSUME Shaped(tpB), B!pump_rx_pending
  PROVE  CalmB
<1>. DEFINE f == tpB.rx_pending_fc.frame
<1>1. \/ tpB' = tpB /\ wireB' = wireB
      \/ tpB' = B!abort_rx(B!raise_fault(tpB, "TIMEOUT")) /\ wireB' = wireB
      \/ /\ f # Empty /\ wireB' = Append(wireB, f)
         /\ tpB' = [tpB EXCEPT !.rx_pending_fc = [frame |-> Empty, left |-> 0]]
  BY DEF B!pump_rx_pending, B!emit_frame, B!NoPending, B!None, Empty
<1>2. messagesB' = messagesB /\ 0 \in Nat /\ 1 \in Nat
  BY DEF B!pump_rx_pending
<1>3. CASE tpB' = tpB /\ wireB' = wireB
  <2>1. TxLike(tpB, tpB')
    BY <1>3 DEF TxLike
  <2>2. Passive(tpB, tpB', 0) /\ OnlyFc(wireB, wireB')
    BY <1>3, <2>1, Untouched
  <2>3. Calm(tpB, tpB', 0) /\ tpB'.faults = tpB.faults + 0 + 0 /\ Shaped(tpB')
    BY <1>3 DEF Calm, SameRx, Shaped
  <2>. QED  BY <1>2, <2>2, <2>3 DEF CalmB
<1>4. CASE tpB' = B!abort_rx(B!raise_fault(tpB, "TIMEOUT")) /\ wireB' = wireB
  <2>1. Shaped(tpB') /\ tpB'.rx_state = "IDLE" /\ TxLike(tpB, tpB') /\ tpB'.faults = tpB.faults + 1
    BY <1>4, RxEndsB
  <2>2. Passive(tpB, tpB', 0) /\ OnlyFc(wireB, wireB')
    BY <1>4, <2>1, Untouched
  <2>3. Calm(tpB, tpB', 1) /\ tpB'.faults = tpB.faults + 0 + 1
    BY <2>1 DEF Calm, Shaped
  <2>. QED  BY <1>2, <2>1, <2>2, <2>3 DEF CalmB
<1>5. CASE /\ f # Empty /\ wireB' = Append(wireB, f)
           /\ tpB' = [tpB EXCEPT !.rx_pending_fc = [frame |-> Empty, left |-> 0]]
  <2>1. /\ DOMAIN tpB' = TpFields /\ tpB'.rx_pending_fc = [frame |-> Empty, left |-> 0]
        /\ tpB'.tx_pending = tpB.tx_pending /\ tpB'.faults = tpB.faults
        /\ SameRx(tpB, tpB') /\ TxLike(tpB, tpB')
    BY <1>5 DEF Shaped, TpFields, SameRx, TxLike
  <2>2. Shaped(tpB')
    BY <2>1 DEF Shaped, SlotFields, SameRx
  <2>3. f.pci = "FC"
    BY <1>5 DEF Shaped
  <2>4. OnlyFc(wireB, wireB')
    BY <1>5, <2>3, Zenon DEF OnlyFc
  <2>5. Passive(tpB, tpB', 0)
    BY <2>1, Untouched
  <2>6. Calm(tpB, tpB', 0) /\ tpB'.faults = tpB.faults + 0 + 0
    BY <2>1 DEF Calm, Shaped
  <2>. QED  BY <1>2, <2>2, <2>4, <2>5, <2>6 DEF CalmB
<1>. QED  BY <1>1, <1>3, <1>4, <1>5, Zenon

LEMMA StillIsB ==
  ASSUME Shaped(tpB), tpB' = tpB, wireB' = wireB, messagesB' = messagesB
  PROVE  CalmB
<1>1. TxLike(tpB, tpB')
  BY DEF TxLike
<1>2. Passive(tpB, tpB', 0) /\ OnlyFc(wireB, wireB') /\ 0 \in Nat
  BY <1>1, Untouched
<1>3. Calm(tpB, tpB', 0) /\ tpB'.faults = tpB.faults + 0 + 0 /\ Shaped(tpB')
  BY DEF Calm, SameRx, Shaped
<1>. QED  BY <1>2, <1>3 DEF CalmB

LEMMA TxTimeoutIsB ==
  ASSUME Shaped(tpB), tpB' = B!abort_tx(B!raise_fault(tpB, "TIMEOUT")), wireB' = wireB, messagesB' = messagesB
  PROVE  CalmB /\ tpB'.tx_pending.frame = Empty
<1>1. Shaped(tpB') /\ SameRx(tpB, tpB') /\ TxOver(tpB') /\ tpB'.faults = tpB.faults + 1
  BY TxEndsB
<1>2. Passive(tpB, tpB', 1) /\ OnlyFc(wireB, wireB') /\ 0 \in Nat /\ 1 \in Nat
  BY <1>1, Untouched DEF Passive
<1>3. Calm(tpB, tpB', 0) /\ tpB'.faults = tpB.faults + 1 + 0
  BY <1>1 DEF Calm, Shaped
<1>. QED  BY <1>1, <1>2, <1>3 DEF CalmB, TxOver

(* A consecutive frame f leaves.                                           *)
LEMMA CfSentIsB ==
  ASSUME NEW t, Shaped(t), t.tx_state # "IDLE", t.tx_pending.frame = Empty, NEW f
  PROVE  LET v == B!cf_sent(t, f)
         IN  Shaped(v) /\ SameRx(t, v) /\ v.faults = t.faults /\ Advanced(t, v, f)
<1>. DEFINE u == [t EXCEPT !.tx_sent = @ + Len(f.data), !.tx_next_sn = (f.sn + 1) % SnMod,
                           !.tx_block_remaining =
                              IF ~t.tx_block_unlimited /\ @ > 0 THEN @ - 1 ELSE @,
                           !.tx_next_cf = t.tx_stmin]
            v == B!cf_sent(t, f)
<1>1. /\ DOMAIN u = TpFields /\ u.tx_pending = t.tx_pending /\ u.rx_pending_fc = t.rx_pending_fc
      /\ u.faults = t.faults /\ SameRx(t, u) /\ u.tx_state = t.tx_state
      /\ u.tx_sent = t.tx_sent + Len(f.data) /\ u.tx_buffer = t.tx_buffer /\ u.tx_total = t.tx_total
  BY DEF Shaped, TpFields, SameRx
<1>2. \/ /\ u.tx_sent >= u.tx_total
         /\ v = [u EXCEPT !.completed = @ + 1, !.tx_state = "IDLE", !.tx_total = 0, !.tx_sent = 0]
      \/ /\ ~(u.tx_sent >= u.tx_total)
         /\ v = u \/ v = B!arm_n_bs([u EXCEPT !.tx_state = "FLOW_CONTROL"])
  BY Zenon DEF B!cf_sent
<1>. HIDE DEF u, v
<1>3. /\ DOMAIN v = TpFields /\ v.tx_pending = t.tx_pending /\ v.rx_pending_fc = t.rx_pending_fc
      /\ v.faults = t.faults /\ SameRx(t, v)
  <2>1. CASE v = u
    BY <1>1, <2>1, Zenon
  <2>2. CASE v = [u EXCEPT !.completed = @ + 1, !.tx_state = "IDLE", !.tx_total = 0, !.tx_sent = 0]
    BY <1>1, <2>2, SMTT(30) DEF TpFields, SameRx
  <2>3. CASE v = B!arm_n_bs([u EXCEPT !.tx_state = "FLOW_CONTROL"])
    <3>1. v = [u EXCEPT !.tx_state = "FLOW_CONTROL", !.tx_deadline = n_bs]
      BY <1>1, <2>3, SMTT(30) DEF B!arm_n_bs, TpFields
    <3>. QED  BY <1>1, <3>1, SMTT(30) DEF TpFields, SameRx
  <2>. QED  BY <1>2, <2>1, <2>2, <2>3, Zenon
<1>4. Shaped(v)
  BY <1>3 DEF Shaped, SameRx
<1>5. \/ u.tx_sent >= u.tx_total /\ v.tx_state = "IDLE"
      \/ /\ ~(u.tx_sent >= u.tx_total) /\ v.tx_state # "IDLE"
         /\ v.tx_sent = u.tx_sent /\ v.tx_buffer = u.tx_buffer /\ v.tx_total = u.tx_total
  BY <1>1, <1>2, ZenonT(30) DEF B!arm_n_bs, TpFields
<1>6. Advanced(t, v, f)
  BY <1>1, <1>3, <1>5, Zenon DEF Advanced
<1>. QED  BY <1>3, <1>4, <1>6 DEF v

SendingB ==
  /\ Shaped(tpB') /\ SameRx(tpB, tpB') /\ tpB'.faults = tpB.faults /\ messagesB' = messagesB
  /\ Bursts(tpB, tpB', wireB, wireB') \/ Retries(tpB, tpB', wireB, wireB')

LEMMA PumpCfIsB ==
  ASSUME Shaped(tpB), IsSeq(wireB), B!tx_pump_cf, ~B!Overtakes
  PROVE  SendingB
<1>. DEFINE f == B!NextCf
<1>0. /\ phaseB = "burst" /\ tpB.tx_state = "CONSECUTIVE_FRAME" /\ tpB.tx_sent < tpB.tx_total
      /\ messagesB' = messagesB
  BY DEF B!tx_pump_cf, B!CfDue
<1>1. f.pci = "CF" /\ f.data = Piece(tpB)
  BY DEF B!NextCf, B!ConsecutiveFrame, B!Least, Piece, Shorter
<1>2. \/ wireB' = Append(wireB, f) /\ tpB' = B!cf_sent(tpB, f)
      \/ /\ wireB' = wireB
         /\ tpB' = [tpB EXCEPT !.tx_pending = B!pending_store(tpB.tx_pending, f)]
  BY Zenon DEF B!tx_pump_cf, B!emit_frame
<1>. HIDE DEF f
<1>4. CASE wireB' = Append(wireB, f) /\ tpB' = B!cf_sent(tpB, f)
  <2>1. wireB' # wireB
    <3>1. PICK T : wireB \in Seq(T)
      BY DEF IsSeq
    <3>2. Len(wireB) \in Nat /\ Len(Append(wireB, f)) = Len(wireB) + 1
      BY <3>1, AppendIs
    <3>. QED  BY <1>4, <3>2
  <2>2. tpB.tx_pending.frame = Empty
    BY <1>0, <2>1 DEF B!Overtakes, B!None, Empty
  <2>3. Shaped(tpB') /\ SameRx(tpB, tpB') /\ tpB'.faults = tpB.faults /\ Advanced(tpB, tpB', f)
    BY <1>0, <1>4, <2>2, CfSentIsB
  <2>4. Bursts(tpB, tpB', wireB, wireB')
    BY <1>0, <1>1, <1>4, <2>3 DEF Bursts
  <2>. QED  BY <1>0, <2>3, <2>4 DEF SendingB
<1>5. CASE /\ wireB' = wireB
           /\ tpB' = [tpB EXCEPT !.tx_pending = B!pending_store(tpB.tx_pending, f)]
  <2>1. /\ DOMAIN tpB' = TpFields /\ tpB'.tx_pending = B!pending_store(tpB.tx_pending, f)
        /\ tpB'.rx_pending_fc = tpB.rx_pending_fc /\ tpB'.faults = tpB.faults /\ SameRx(tpB, tpB')
        /\ tpB'.tx_state = tpB.tx_state /\ tpB'.tx_buffer = tpB.tx_buffer
        /\ tpB'.tx_total = tpB.tx_total /\ tpB'.tx_sent = tpB.tx_sent
    BY <1>5 DEF Shaped, TpFields, SameRx
  <2>2. DOMAIN tpB'.tx_pending = SlotFields /\ tpB'.tx_pending.frame = f
    BY <2>1 DEF B!pending_store, SlotFields
  <2>3. Shaped(tpB')
    BY <2>1, <2>2 DEF Shaped, SameRx
  <2>4. Bursts(tpB, tpB', wireB, wireB')
    BY <1>0, <1>1, <1>5, <2>1, <2>2 DEF Bursts
  <2>. QED  BY <1>0, <2>1, <2>3, <2>4 DEF SendingB
<1>. QED  BY <1>2, <1>4, <1>5

LEMMA PumpTxIsB ==
  ASSUME Shaped(tpB), B!pump_tx,
         tpB.tx_pending.frame.pci = "CF" => tpB.tx_state # "IDLE",
         tpB.tx_pending.frame = Empty \/ tpB.tx_pending.frame.pci \in {"SF", "FF", "CF"}
  PROVE  CalmB \/ SendingB
<1>. DEFINE f == tpB.tx_pending.frame  u == [tpB EXCEPT !.tx_pending = B!NoPending]
<1>0. messagesB' = messagesB
  BY DEF B!pump_tx
<1>1. \/ tpB' = tpB /\ wireB' = wireB
      \/ tpB' = B!abort_tx(B!raise_fault(tpB, "TIMEOUT")) /\ wireB' = wireB
      \/ f # Empty /\ wireB' = Append(wireB, f) /\ tpB' = B!pending_sent(tpB, f)
  BY Zenon DEF B!pump_tx, B!emit_frame, B!None, Empty
<1>2. /\ DOMAIN u = TpFields /\ u.tx_pending = [frame |-> Empty, left |-> 0]
      /\ u.rx_pending_fc = tpB.rx_pending_fc /\ u.faults = tpB.faults /\ SameRx(tpB, u)
      /\ u.tx_state = tpB.tx_state /\ u.tx_buffer = tpB.tx_buffer /\ u.tx_total = tpB.tx_total
      /\ u.tx_sent = tpB.tx_sent
  BY DEF Shaped, TpFields, SameRx, B!NoPending, B!None, Empty
<1>. HIDE DEF f
<1>3. CASE tpB' = tpB /\ wireB' = wireB
  BY <1>0, <1>3, StillIsB
<1>4. CASE tpB' = B!abort_tx(B!raise_fault(tpB, "TIMEOUT")) /\ wireB' = wireB
  BY <1>0, <1>4, TxTimeoutIsB
<1>6. CASE f # Empty /\ wireB' = Append(wireB, f) /\ tpB' = B!pending_sent(tpB, f)
  <2>1. Shaped(u) /\ u.tx_pending.frame = Empty
    BY <1>2 DEF Shaped, SlotFields, SameRx
  <2>2. CASE f.pci = "SF"
    <3>1. tpB' = [u EXCEPT !.completed = @ + 1]
      BY <1>6, <2>2 DEF B!pending_sent
    <3>. HIDE DEF u
    <3>2. /\ DOMAIN tpB' = TpFields /\ tpB'.tx_pending = u.tx_pending /\ tpB'.rx_pending_fc = u.rx_pending_fc
          /\ tpB'.faults = u.faults /\ SameRx(u, tpB') /\ tpB'.tx_state = u.tx_state
      BY <1>2, <3>1 DEF TpFields, SameRx
    <3>3. Shaped(tpB') /\ SameRx(tpB, tpB') /\ tpB'.tx_pending.frame = Empty
      BY <1>2, <2>1, <3>2 DEF Shaped, SameRx
    <3>4. Retries(tpB, tpB', wireB, wireB')
      BY <1>2, <1>6, <2>2, <3>2, <3>3 DEF Retries, f
    <3>. QED  BY <1>0, <1>2, <3>2, <3>3, <3>4 DEF SendingB
  <2>3. CASE f.pci = "FF"
    <3>1. tpB' = B!arm_n_bs([u EXCEPT !.tx_sent = TP_FF_DATA_MAX, !.tx_wait_frames = 0,
                                      !.tx_state = "FLOW_CONTROL"])
      BY <1>6, <2>3 DEF B!pending_sent
    <3>. HIDE DEF u
    <3>2. /\ DOMAIN tpB' = TpFields /\ tpB'.tx_pending = u.tx_pending /\ tpB'.rx_pending_fc = u.rx_pending_fc
          /\ tpB'.faults = u.faults /\ SameRx(u, tpB') /\ tpB'.tx_state = "FLOW_CONTROL"
          /\ tpB'.tx_sent = TP_FF_DATA_MAX /\ tpB'.tx_buffer = u.tx_buffer /\ tpB'.tx_total = u.tx_total
      BY <1>2, <3>1 DEF B!arm_n_bs, TpFields, SameRx
    <3>3. Shaped(tpB') /\ SameRx(tpB, tpB') /\ tpB'.tx_pending.frame = Empty
      BY <1>2, <2>1, <3>2 DEF Shaped, SameRx
    <3>4. Retries(tpB, tpB', wireB, wireB')
      BY <1>2, <1>6, <2>3, <3>2, <3>3 DEF Retries, f
    <3>. QED  BY <1>0, <1>2, <3>2, <3>3, <3>4 DEF SendingB
  <2>4. CASE f.pci = "CF"
    <3>1. tpB' = B!cf_sent(u, f) /\ u.tx_state # "IDLE"
      BY <1>2, <1>6, <2>4 DEF B!pending_sent, f
    <3>. HIDE DEF u
    <3>2. Shaped(tpB') /\ SameRx(u, tpB') /\ tpB'.faults = u.faults /\ Advanced(u, tpB', f)
      BY <2>1, <3>1, CfSentIsB
    <3>3. SameRx(tpB, tpB') /\ Advanced(tpB, tpB', f) /\ tpB'.tx_pending.frame = Empty
      BY <1>2, <3>2 DEF SameRx, Advanced
    <3>4. Retries(tpB, tpB', wireB, wireB')
      BY <1>6, <2>4, <3>3 DEF Retries, f
    <3>. QED  BY <1>0, <1>2, <3>2, <3>3, <3>4 DEF SendingB
  <2>. QED  BY <1>6, <2>2, <2>3, <2>4 DEF f
<1>. QED  BY <1>1, <1>3, <1>4, <1>6, Zenon

LEMMA StepIsB ==
  ASSUME Shaped(tpB), IsSeq(wireB), B!tick_steps, ~B!Overtakes,
         tpB.tx_pending.frame.pci = "CF" => tpB.tx_state # "IDLE",
         tpB.tx_pending.frame = Empty \/ tpB.tx_pending.frame.pci \in {"SF", "FF", "CF"}
  PROVE  CalmB \/ SendingB
<1>1. CASE B!pump_rx_pending
  BY <1>1, PumpRxIsB
<1>2. CASE B!tick_n_bs
  <2>1. wireB' = wireB /\ messagesB' = messagesB
    BY <1>2 DEF B!tick_n_bs
  <2>2. tpB' = tpB \/ tpB' = B!abort_tx(B!raise_fault(tpB, "TIMEOUT"))
    BY <1>2 DEF B!tick_n_bs
  <2>. QED  BY <2>1, <2>2, StillIsB, TxTimeoutIsB
<1>3. CASE B!burst_over
  <2>1. wireB' = wireB /\ messagesB' = messagesB /\ tpB' = tpB
    BY <1>3 DEF B!burst_over
  <2>. QED  BY <2>1, StillIsB
<1>. QED  BY <1>1, <1>2, <1>3, PumpTxIsB, PumpCfIsB DEF B!tick_steps

(* A step of B moves the one direction as sender and the other as receiver. *)
LEMMA MovesB ==
  ASSUME LinkInv, Shaped(tpB'), tpA' = tpA, wireA' = wireA, messagesA' = messagesA,
         sentA' = sentA, readA' = readA,
         NEW e \in Nat, NEW g \in Nat, tpB'.faults = tpB.faults + e + g,
         \A c \in Nat : Onward(tpB, tpB', wireB, wireB', sentB, sentB', c, c + e),
         sentB' = sentB \/ \E m \in Seq(Bytes) : sentB' = Append(sentB, m),
         \/ readB' = readB /\ messagesB' = messagesB /\ Calm(tpB, tpB', g)
         \/ /\ readB < Len(wireA) /\ readB' = readB + 1
            /\ Hears(tpB, tpB', messagesB, messagesB', wireA[readB + 1], g)
  PROVE  LinkInv'
<1>1. PICK cB, dB, cA, dA \in Nat :
        /\ tpB.faults = cB + dB /\ tpA.faults = cA + dA
        /\ Direction(tpB, wireB, sentB, cB, tpA, readA, messagesA, dA)
        /\ Direction(tpA, wireA, sentA, cA, tpB, readB, messagesB, dB)
  BY DEF LinkInv
<1>2. tpB'.faults = (cB + e) + (dB + g) /\ cB + e \in Nat /\ dB + g \in Nat
  BY <1>1
<1>3. Direction(tpB', wireB', sentB', cB + e, tpA, readA, messagesA, dA)
  BY <1>1, <1>2, SenderSteps
<1>4. Direction(tpA, wireA, sentA, cA, tpB', readB', messagesB', dB + g)
  BY <1>1, ReceiverCalm, ReceiverHears
<1>5. Shaped(tpA')
  BY DEF LinkInv
<1>6. /\ Direction(tpB', wireB', sentB', cB + e, tpA', readA', messagesA', dA)
      /\ Direction(tpA', wireA', sentA', cA, tpB', readB', messagesB', dB + g)
      /\ tpA'.faults = cA + dA
  BY <1>1, <1>3, <1>4
<1>7. \E c1, d1, c2, d2 \in Nat :
        /\ tpB'.faults = c1 + d1 /\ tpA'.faults = c2 + d2
        /\ Direction(tpB', wireB', sentB', c1, tpA', readA', messagesA', d2)
        /\ Direction(tpA', wireA', sentA', c2, tpB', readB', messagesB', d1)
  BY <1>1, <1>2, <1>6
<1>. QED  BY <1>5, <1>7 DEF LinkInv

LEMMA RequestMovesB ==
  ASSUME LinkInv, request_B
  PROVE  LinkInv'
<1>1. PICK n \in LengthsB : /\ B!send(Message("B", Len(sentB) + 1, n))
                            /\ sentB' = Append(sentB, Message("B", Len(sentB) + 1, n))
  BY DEF request_B
<1>. DEFINE m == Message("B", Len(sentB) + 1, n)
<1>2. /\ Shaped(tpB) /\ sentB \in Seq(Seq(Bytes)) /\ tpB.faults \in Nat
  BY DEF LinkInv, Direction, Shaped
<1>3. m \in Seq(Bytes)
  <2>1. n \in Nat /\ Len(sentB) + 1 \in Nat
    BY <1>2, LinkAssumption
  <2>. QED  BY <2>1 DEF Message, Bytes
<1>. HIDE DEF m
<1>4. B!send(m) /\ sentB' = Append(sentB, m)
  BY <1>1 DEF m
<1>5. /\ Shaped(tpB') /\ SameRx(tpB, tpB') /\ tpB'.faults = tpB.faults /\ messagesB' = messagesB
      /\ Sends(tpB, tpB', wireB, wireB', m) /\ phaseB' = "idle" /\ sinkB' = sinkB
  BY <1>2, <1>3, <1>4, RequestIsB
<1>7. \A c \in Nat : Onward(tpB, tpB', wireB, wireB', sentB, sentB', c, c + 0)
  <2>1. \A c \in Nat : Onward(tpB, tpB', wireB, wireB', sentB, sentB', c, c)
    BY <1>2, <1>3, <1>4, <1>5, SendsOnward
  <2>2. \A c \in Nat : c + 0 = c
    OBVIOUS
  <2>. QED  BY <2>1, <2>2
<1>8. Calm(tpB, tpB', 0) /\ tpB'.faults = tpB.faults + 0 + 0 /\ 0 \in Nat
  BY <1>2, <1>5 DEF Calm
<1>9. /\ tpA' = tpA /\ wireA' = wireA /\ messagesA' = messagesA
      /\ sentA' = sentA /\ readB' = readB /\ readA' = readA
  BY DEF request_B, varsA
<1>. QED  BY <1>3, <1>4, <1>5, <1>7, <1>8, <1>9, MovesB

LEMMA PassiveMovesB ==
  ASSUME LinkInv, NEW e, Passive(tpB, tpB', e), OnlyFc(wireB, wireB'), sentB' = sentB
  PROVE  \A c \in Nat : Onward(tpB, tpB', wireB, wireB', sentB, sentB', c, c + e)
<1>1. sentB \in Seq(Seq(Bytes))
  BY DEF LinkInv, Direction
<1>. QED  BY <1>1, PassiveOnward

LEMMA ReceiveMovesB ==
  ASSUME LinkInv, receive_B
  PROVE  LinkInv'
<1>. DEFINE f == wireA[readB + 1]
<1>1. /\ readB < Len(wireA) /\ B!rx_frame(f) /\ readB' = readB + 1
      /\ tpA' = tpA /\ wireA' = wireA /\ messagesA' = messagesA
      /\ sentB' = sentB /\ sentA' = sentA /\ readA' = readA
  BY DEF receive_B, varsA
<1>2. Shaped(tpB)
  BY DEF LinkInv
<1>3. HeardB(f) /\ phaseB' = "idle" /\ sinkB' = sinkB
  BY <1>1, <1>2, ReceiveIsB
<1>4. PICK e, g \in Nat :
        /\ tpB'.faults = tpB.faults + e + g /\ Shaped(tpB')
        /\ Passive(tpB, tpB', e) /\ OnlyFc(wireB, wireB') /\ Hears(tpB, tpB', messagesB, messagesB', f, g)
  BY <1>3 DEF HeardB
<1>6. \A c \in Nat : Onward(tpB, tpB', wireB, wireB', sentB, sentB', c, c + e)
  BY <1>1, <1>4, PassiveMovesB
<1>. QED  BY <1>1, <1>4, <1>6, MovesB

LEMMA CalmMovesB ==
  ASSUME LinkInv, CalmB, tpA' = tpA, wireA' = wireA, messagesA' = messagesA,
         sentB' = sentB, sentA' = sentA, readB' = readB, readA' = readA
  PROVE  LinkInv'
<1>1. PICK e, g \in Nat :
        /\ tpB'.faults = tpB.faults + e + g /\ Shaped(tpB') /\ messagesB' = messagesB
        /\ Passive(tpB, tpB', e) /\ OnlyFc(wireB, wireB') /\ Calm(tpB, tpB', g)
  BY DEF CalmB
<1>2. \A c \in Nat : Onward(tpB, tpB', wireB, wireB', sentB, sentB', c, c + e)
  BY <1>1, PassiveMovesB
<1>. QED  BY <1>1, <1>2, MovesB

LEMMA TickMovesB ==
  ASSUME LinkInv, tick_B
  PROVE  LinkInv'
<1>1. /\ B!tick(1) /\ readB' = readB /\ readA' = readA /\ sentB' = sentB /\ sentA' = sentA
      /\ tpA' = tpA /\ wireA' = wireA /\ messagesA' = messagesA
  BY DEF tick_B, varsA
<1>2. CalmB
  BY <1>1, TickIsB DEF LinkInv
<1>. QED  BY <1>1, <1>2, CalmMovesB

LEMMA StepMovesB ==
  ASSUME LinkInv, steps_B, ~overtaken'
  PROVE  LinkInv'
<1>1. /\ B!tick_steps /\ ~B!Overtakes /\ readB' = readB /\ readA' = readA /\ sentB' = sentB /\ sentA' = sentA
      /\ tpA' = tpA /\ wireA' = wireA /\ messagesA' = messagesA
  BY DEF steps_B, varsA
<1>2. /\ Shaped(tpB) /\ IsSeq(wireB) /\ tpB.faults \in Nat /\ sentB \in Seq(Seq(Bytes))
      /\ \E c, r, read, ms, d : Direction(tpB, wireB, sentB, c, r, read, ms, d)
  BY DEF LinkInv, Direction, Shaped
<1>3. CalmB \/ SendingB
  BY <1>1, <1>2, PendingIs, StepIsB
<1>4. CASE CalmB
  BY <1>1, <1>3, <1>4, CalmMovesB
<1>5. CASE SendingB
  <2>1. /\ Shaped(tpB') /\ SameRx(tpB, tpB') /\ tpB'.faults = tpB.faults /\ messagesB' = messagesB
        /\ Bursts(tpB, tpB', wireB, wireB') \/ Retries(tpB, tpB', wireB, wireB')
    BY <1>5 DEF SendingB
  <2>2. \A c \in Nat : Onward(tpB, tpB', wireB, wireB', sentB, sentB', c, c + 0)
    <3>1. \A c \in Nat : Onward(tpB, tpB', wireB, wireB', sentB, sentB', c, c)
      BY <1>1, <1>2, <2>1, BurstsOnward, RetriesOnward
    <3>2. \A c \in Nat : c + 0 = c
      OBVIOUS
    <3>. QED  BY <3>1, <3>2
  <2>3. Calm(tpB, tpB', 0) /\ tpB'.faults = tpB.faults + 0 + 0 /\ 0 \in Nat
    BY <1>2, <2>1 DEF Calm
  <2>. QED  BY <1>1, <1>3, <2>1, <2>2, <2>3, MovesB
<1>. QED  BY <1>3, <1>4, <1>5

-----------------------------------------------------------------------------
(* The link.                                                               *)
LEMMA StartsIdle ==
  ASSUME NEW t, NEW bs,
         t = [fc_block_size |-> bs,
              rx_state |-> "IDLE", rx_total |-> 0, rx_data |-> <<>>, rx_expected_sn |-> 0,
              rx_deadline |-> 0, rx_pending_fc |-> [frame |-> Empty, left |-> 0],
              tx_state |-> "IDLE", tx_buffer |-> <<>>, tx_total |-> 0, tx_sent |-> 0,
              tx_next_sn |-> 0, tx_block_remaining |-> 0, tx_block_unlimited |-> FALSE,
              tx_stmin |-> 0, tx_next_cf |-> 0, tx_deadline |-> 0, tx_wait_frames |-> 0,
              tx_pending |-> [frame |-> Empty, left |-> 0],
              requested |-> 0, completed |-> 0, faults |-> 0, last_fault |-> "NONE"]
  PROVE  Shaped(t) /\ TxOver(t) /\ t.rx_state = "IDLE" /\ t.faults = 0
<1>1. /\ DOMAIN t = TpFields /\ t.tx_pending = [frame |-> Empty, left |-> 0]
      /\ t.rx_pending_fc = [frame |-> Empty, left |-> 0]
      /\ t.rx_state = "IDLE" /\ t.tx_state = "IDLE" /\ t.faults = 0
  BY DEF TpFields
<1>. QED  BY <1>1 DEF Shaped, SlotFields, TxOver

LEMMA StartsEmpty ==
  ASSUME NEW t, NEW r, TxOver(t), r.rx_state = "IDLE"
  PROVE  Direction(t, <<>>, <<>>, 0, r, 0, <<>>, 0)
<1>. DEFINE x == [num |-> 0, off |-> 0, done |-> 0]  h == [k \in Nat |-> x]
<1>1. /\ x \in Marks /\ x.num = 0 /\ x.done = 0 /\ h \in [Nat -> Marks] /\ h[0] = x
  BY DEF Marks
<1>2. /\ Len(<<>>) = 0 /\ <<>> \in Seq(Seq(Bytes)) /\ IsSeq(<<>>) /\ 0 \in 0..0 /\ 0 \in Nat
  BY DEF IsSeq
<1>3. Trail(<<>>, <<>>, h)
  BY <1>1, <1>2 DEF Trail
<1>. HIDE DEF x, h
<1>4. Sender(t, <<>>, 0, x)
  <2>1. Busy(t) = 0
    BY DEF Busy, TxOver
  <2>. QED  BY <1>1, <1>2, <2>1 DEF Sender, TxOver
<1>5. Receiver(r, <<>>, <<>>, 0, x)
  <2>1. Cut(x, <<>>) = 0
    BY <1>1 DEF Cut
  <2>2. Got(<<>>, <<>>, 0)
    <3>1. 1..Len(<<>>) = {}
      BY <1>2
    <3>2. [i \in {} |-> 0] \in [{} -> 1..0]
      OBVIOUS
    <3>. QED  BY <3>1, <3>2 DEF Got
  <2>. QED  BY <1>1, <1>2, <2>1, <2>2 DEF Receiver
<1>. QED  BY <1>1, <1>2, <1>3, <1>4, <1>5 DEF Direction

LEMMA LinkInvInit == Init => LinkInv
<1>. SUFFICES ASSUME Init PROVE LinkInv
  OBVIOUS
<1>1. Shaped(tpA) /\ TxOver(tpA) /\ tpA.rx_state = "IDLE" /\ tpA.faults = 0
  BY StartsIdle DEF Init, A!Init, A!Started, A!NoPending, A!None, Empty
<1>2. Shaped(tpB) /\ TxOver(tpB) /\ tpB.rx_state = "IDLE" /\ tpB.faults = 0
  BY StartsIdle DEF Init, B!Init, B!Started, B!NoPending, B!None, Empty
<1>3. /\ wireA = <<>> /\ messagesA = <<>> /\ sentA = <<>> /\ readA = 0
      /\ wireB = <<>> /\ messagesB = <<>> /\ sentB = <<>> /\ readB = 0
  BY DEF Init, A!Init, B!Init
<1>5. /\ Direction(tpA, wireA, sentA, 0, tpB, readB, messagesB, 0)
      /\ Direction(tpB, wireB, sentB, 0, tpA, readA, messagesA, 0)
  BY <1>1, <1>2, <1>3, StartsEmpty
<1>6. tpA.faults = 0 + 0 /\ tpB.faults = 0 + 0 /\ 0 \in Nat
  BY <1>1, <1>2
<1>. QED  BY <1>1, <1>2, <1>5, <1>6 DEF LinkInv

(* A burst past a declined frame ends the argument for good.               *)
LEMMA LinkInvNext == (overtaken \/ LinkInv) /\ [Next]_vars => overtaken' \/ LinkInv'
<1>. SUFFICES ASSUME overtaken \/ LinkInv, [Next]_vars, ~overtaken' PROVE LinkInv'
  OBVIOUS
<1>1. LinkInv
  BY DEF Next, vars, request_A, receive_A, tick_A, steps_A, request_B, receive_B, tick_B, steps_B
<1>2. CASE UNCHANGED vars
  BY <1>1, <1>2 DEF vars, varsA, varsB, LinkInv
<1>3. CASE request_A \/ receive_A \/ tick_A \/ steps_A
  BY <1>1, <1>3, RequestMovesA, ReceiveMovesA, TickMovesA, StepMovesA
<1>4. CASE request_B \/ receive_B \/ tick_B \/ steps_B
  BY <1>1, <1>4, RequestMovesB, ReceiveMovesB, TickMovesB, StepMovesB
<1>. QED  BY <1>2, <1>3, <1>4 DEF Next

LEMMA LinkInvCorrect == Spec => [](overtaken \/ LinkInv)
<1>1. Init => overtaken \/ LinkInv
  BY LinkInvInit
<1>2. (overtaken \/ LinkInv) /\ [Next]_vars => (overtaken \/ LinkInv)'
  BY LinkInvNext
<1>. QED  BY <1>1, <1>2, PTL DEF Spec

LEMMA GotIsSubsequence ==
  ASSUME NEW t, NEW w, NEW sent, NEW c, NEW r, NEW read, NEW ms, NEW d,
         Direction(t, w, sent, c, r, read, ms, d)
  PROVE  Subsequence(ms, sent)
<1>1. sent \in Seq(Seq(Bytes)) /\ ms \in Seq(Seq(Bytes)) /\ IsSeq(w) /\ read \in 0..Len(w)
  BY DEF Direction
<1>2. PICK h : Trail(w, sent, h) /\ Receiver(r, sent, ms, d, h[read])
  BY DEF Direction
<1>. DEFINE x == h[read]
<1>3. x.num \in Nat
  <2>1. PICK T : w \in Seq(T)
    BY <1>1 DEF IsSeq
  <2>2. read \in Nat
    BY <1>1, <2>1
  <2>. QED  BY <1>2, <2>2 DEF Trail, Marks
<1>. HIDE DEF x
<1>4. x.num <= Len(sent) /\ (Got(ms, sent, x.num) \/ Got(ms, sent, x.num - 1))
  BY <1>2 DEF Receiver, x
<1>5. Got(ms, sent, Len(sent))
  <2>1. x.num \in Int /\ x.num - 1 \in Int /\ Len(sent) \in Int /\ x.num - 1 <= Len(sent)
    BY <1>1, <1>3, <1>4
  <2>. QED  BY <1>1, <1>4, <2>1, GotLater
<1>6. DOMAIN ms = 1..Len(ms)
  BY <1>1
<1>7. 1..Len(sent) \in SUBSET (1..Len(sent))
  OBVIOUS
<1>. QED  BY <1>5, <1>6, <1>7 DEF Got, Subsequence

(* What an application receives is a subsequence of what the other one     *)
(* handed to send, for sinks that answer as they like: no timeout, abort   *)
(* or retry in engine.c makes a message from pieces of two, delivers one   *)
(* twice or out of order, until a burst sends past a declined frame.       *)
THEOREM DeliveredIntactCorrect == Spec => []DeliveredIntact
<1>1. overtaken \/ LinkInv => DeliveredIntact
  BY GotIsSubsequence DEF LinkInv, DeliveredIntact
<1>. QED  BY <1>1, LinkInvCorrect, PTL

LEMMA QuietBalance ==
  ASSUME NEW t, NEW w, NEW sent, NEW c \in Nat, NEW r, NEW ms, NEW d \in Nat,
         Direction(t, w, sent, c, r, Len(w), ms, d), Busy(t) = 0, r.rx_state = "IDLE"
  PROVE  Len(sent) \in Nat /\ Len(ms) \in Nat /\ Len(sent) <= Len(ms) + c + d
<1>1. sent \in Seq(Seq(Bytes)) /\ ms \in Seq(Seq(Bytes)) /\ IsSeq(w)
  BY DEF Direction
<1>2. PICK h : /\ Trail(w, sent, h) /\ Sender(t, sent, c, h[Len(w)])
               /\ Receiver(r, sent, ms, d, h[Len(w)])
  BY DEF Direction
<1>. DEFINE x == h[Len(w)]
<1>3. x.done \in Nat
  <2>1. PICK T : w \in Seq(T)
    BY <1>1 DEF IsSeq
  <2>2. Len(w) \in Nat
    BY <2>1
  <2>. QED  BY <1>2, <2>2 DEF Trail, Marks
<1>. HIDE DEF x
<1>4. Len(sent) <= x.done + c + Busy(t)
  BY <1>2 DEF Sender, x
<1>5. x.done + Cut(x, sent) <= Len(ms) + d /\ Cut(x, sent) \in {0, 1}
  BY <1>2 DEF Receiver, Cut, x
<1>. QED  BY <1>1, <1>3, <1>4, <1>5, SMTT(30)

(* When the link has come to rest, every message sent was delivered or has *)
(* a fault of its own at one end, whatever engine.c aborted on the way and *)
(* however the sinks answered, as long as no burst has sent past a         *)
(* declined frame.                                                         *)
THEOREM LossIsReportedCorrect == Spec => [](overtaken \/ LossIsReported)
<1>1. ASSUME LinkInv, Quiet
      PROVE  Len(sentA) + Len(sentB) <= Len(messagesA) + Len(messagesB) + tpA.faults + tpB.faults
  <2>1. PICK cA, dA, cB, dB \in Nat :
          /\ tpA.faults = cA + dA /\ tpB.faults = cB + dB
          /\ Direction(tpA, wireA, sentA, cA, tpB, readB, messagesB, dB)
          /\ Direction(tpB, wireB, sentB, cB, tpA, readA, messagesA, dA)
    BY <1>1 DEF LinkInv
  <2>2. /\ readA = Len(wireB) /\ readB = Len(wireA)
        /\ Busy(tpA) = 0 /\ Busy(tpB) = 0 /\ tpA.rx_state = "IDLE" /\ tpB.rx_state = "IDLE"
    BY <1>1 DEF Quiet, A!tx_busy, B!tx_busy, A!None, B!None, Busy, Empty
  <2>3. Len(sentA) \in Nat /\ Len(messagesB) \in Nat /\ Len(sentA) <= Len(messagesB) + cA + dB
    BY <2>1, <2>2, QuietBalance
  <2>4. Len(sentB) \in Nat /\ Len(messagesA) \in Nat /\ Len(sentB) <= Len(messagesA) + cB + dA
    BY <2>1, <2>2, QuietBalance
  <2>. QED  BY <2>1, <2>3, <2>4
<1>2. overtaken \/ LinkInv => overtaken \/ LossIsReported
  BY <1>1 DEF LossIsReported
<1>. QED  BY <1>2, LinkInvCorrect, PTL

=============================================================================
