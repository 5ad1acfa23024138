----------------------------- MODULE IsoTpPeer ------------------------------
(***************************************************************************)
(* One transport engine against a peer that may send any frame at any      *)
(* time: well-formed, malformed, out of sequence or out of state.          *)
(***************************************************************************)
EXTENDS IsoTp

CONSTANTS
  Elapsed,    \* ms that may pass between two ticks; the injected clock decides
  Lengths,    \* lengths of the messages the application sends
  FfTotals,   \* total lengths the peer's first frames announce
  BlockSizes, StMins,  \* what the peer's flow controls carry
  MaxSends,   \* bound: messages sent
  MaxHeard,   \* bound: frames the peer sends, waits it was asked for not counted
  MaxGap      \* bound: pauses are counted up to this many ms, all STmin below it

ASSUME PeerAssumption ==
  /\ Elapsed \subseteq Nat /\ Lengths \subseteq Nat
  /\ BlockSizes \subseteq 0 .. 255 /\ StMins \subseteq 0 .. 255
  /\ MaxGap \in Nat /\ \A st \in StMins : stmin_decode(st) <= MaxGap

VARIABLES
  heard,      \* frames received so far
  grant,      \* history: whether this message has had a CTS, what the last one
              \* allowed, what was used of it, and the pause since the last frame
  segments,   \* history: the consecutive frames sent since the last first frame
  overtaken   \* history: the messages, by number, of which a frame was declined
              \* and then overtaken by the burst of a later tick

peer_vars == <<vars, heard, grant, segments, overtaken>>

Message(n, length) == [i \in 1 .. length |-> <<n, i>>]

PeerFrames ==
  [pci: {"SF"}, dl: {0, 1, TP_SF_DATA_MAX}, data: {<<"x">>}]
    \cup [pci: {"FF"}, total: FfTotals, data: {<<>>, Message("x", TP_FF_DATA_MAX)}]
    \cup [pci: {"CF"}, sn: 0 .. SnMod - 1, data: {Message("x", k) : k \in 1 .. TP_CF_DATA_MAX}]
    \cup [pci: {"FC"}, fs: {"CTS"}, bs: BlockSizes,
          stmin: StMins, length: {3}]
    \cup [pci: {"FC"}, fs: {"CTS", "WAIT", "OVFLW", "RESERVED"}, bs: {0}, stmin: {0}, length: {2, 3}]
    \cup {[pci |-> "INVALID"]}

NoGrant == [cts |-> FALSE, bs |-> 0, stmin |-> 0, used |-> 0, gap |-> 0]

PeerInit ==
  /\ Init
  /\ heard = 0
  /\ grant = NoGrant
  /\ segments = <<>> /\ overtaken = {}

(* A step sends at most one frame.                                         *)
Sent(pci) == Len(wire') > Len(wire) /\ wire'[Len(wire')].pci = pci

Recorded ==
  segments' = CASE Sent("FF") -> <<>>
                [] Sent("CF") -> Append(segments, wire'[Len(wire')])
                [] OTHER -> segments

(* After a CTS the first consecutive frame may go out at once.             *)
hear ==
  /\ \E f \in PeerFrames :
       /\ rx_frame(f)
       /\ grant' = IF f.pci = "FC" /\ tp'.tx_state = "CONSECUTIVE_FRAME"
                   THEN [cts |-> TRUE, bs |-> f.bs, stmin |-> stmin_decode(f.stmin),
                         used |-> 0, gap |-> MaxGap]
                   ELSE grant
       /\ \/ heard < MaxHeard /\ heard' = heard + 1
          \/ f.pci = "FC" /\ f.fs = "WAIT" /\ tp.tx_state = "FLOW_CONTROL" /\ heard' = heard
  /\ UNCHANGED <<segments, overtaken>>

request ==
  /\ tp.requested < MaxSends
  /\ \E n \in Lengths : send(Message(tp.requested + 1, n))
  /\ Recorded
  /\ grant' = NoGrant
  /\ UNCHANGED <<heard, overtaken>>

pass_time ==
  /\ \E d \in Elapsed : /\ tick(d)
                        /\ grant' = [grant EXCEPT !.gap = Least(@ + d, MaxGap)]
  /\ UNCHANGED <<heard, segments, overtaken>>

run_tick ==
  /\ tick_steps
  /\ Recorded
  /\ grant' = IF Sent("CF") THEN [grant EXCEPT !.used = @ + 1, !.gap = 0] ELSE grant
  /\ overtaken' = IF Overtakes THEN overtaken \cup {tp.requested} ELSE overtaken
  /\ UNCHANGED heard

PeerNext == hear \/ request \/ pass_time \/ run_tick

PeerSpec == PeerInit /\ [][PeerNext]_peer_vars

(* The main loop calls tick again and again, and a tick runs to its end.   *)
PeerFairSpec == PeerSpec /\ WF_peer_vars(pass_time) /\ WF_peer_vars(run_tick)

-----------------------------------------------------------------------------
(* The k-th piece of a message after the bytes of the first frame.         *)
Piece(k) ==
  LET from == TP_FF_DATA_MAX + (k - 1) * TP_CF_DATA_MAX
  IN  SubSeq(tp.tx_buffer, from + 1, Least(from + TP_CF_DATA_MAX, tp.tx_total))

(* A message goes out as its first bytes followed by each further piece    *)
(* once, in order, under sequence numbers that count from 1, whatever the  *)
(* sink declined in between (SW-FR-TP-007, SW-FR-TP-009), unless one of    *)
(* its frames was overtaken.                                               *)
Segmented ==
  tp.tx_state # "IDLE" /\ tp.requested \notin overtaken =>
    /\ \A k \in 1 .. Len(segments) : segments[k].sn = k % SnMod /\ segments[k].data = Piece(k)
    /\ tp.tx_sent = TP_FF_DATA_MAX + Len(segments) * TP_CF_DATA_MAX

(* Every requested message was handed over completely, is still in work or *)
(* ended in a fault (engine.c:29, "Nothing is silently dropped"), and none *)
(* is reported complete twice before the first frame is overtaken.         *)
NothingSilentlyDropped ==
  LET open == IF tx_busy(tp) THEN 1 ELSE 0
  IN  /\ tp.requested <= tp.completed + open + tp.faults
      /\ overtaken = {} => tp.completed + open <= tp.requested

(* A message goes out piece by piece without a gap or a repetition, or the *)
(* application learns of it.  The exception is the code's own: a declined  *)
(* frame stays in its slot when the burst of the same tick gets a frame    *)
(* past the sink (engine.c:329, 376), and is then sent a second time.      *)
SentWholeOrReported == Segmented /\ NothingSilentlyDropped

(* The peer's flow control is honoured, also by retried frames: no         *)
(* consecutive frame of a message before its clear to send, at most BS in  *)
(* a block, STmin apart (SW-FR-TP-008).  The second copy of an overtaken   *)
(* frame and what follows it are exempt, as above.                         *)
PacingKept ==
  [][Sent("CF") /\ tp.requested \notin overtaken =>
       /\ grant.cts
       /\ grant.bs = 0 \/ grant.used < grant.bs
       /\ grant.gap >= grant.stmin]_peer_vars

(* Neither session can hang: with ticks going on, each one ends, whatever  *)
(* the peer sends or withholds and however often the sink declines.        *)
SessionsEnd ==
  /\ tx_busy(tp) ~> ~tx_busy(tp)
  /\ tp.rx_state = "FIRST_FRAME" ~> tp.rx_state = "IDLE"
  /\ tp.rx_pending_fc.frame # None ~> tp.rx_pending_fc.frame = None
=============================================================================
