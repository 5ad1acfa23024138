----------------------------- MODULE IsoTpLink ------------------------------
(***************************************************************************)
(* Two transport engines on one CAN link, A and B, each with its own tick, *)
(* sink and timers.  The bus delivers every frame a sink accepted, in the  *)
(* order of acceptance (CAN repeats a frame until it is acknowledged).     *)
(***************************************************************************)
EXTENDS Integers, Sequences

CONSTANTS
  TP_SF_DATA_MAX, TP_FF_DATA_MAX, TP_CF_DATA_MAX, SnMod, rx_capacity, tx_capacity,
  FcBlockSizesA, FcBlockSizesB, fc_stmin, n_as, n_bs, n_cr, max_wait_frames, Sinks,
  LengthsA, LengthsB,  \* lengths of the messages each application may send
  MaxSends             \* bound: messages the two applications send

(* What TpAssumption says of the constants the proofs use.                 *)
ASSUME LinkAssumption ==
  /\ TP_SF_DATA_MAX \in Nat \ {0} /\ TP_FF_DATA_MAX \in Nat \ {0} /\ TP_CF_DATA_MAX \in Nat \ {0}
  /\ TP_FF_DATA_MAX <= TP_SF_DATA_MAX
  /\ Sinks \subseteq {"willing", "free"}
  /\ LengthsA \subseteq Nat /\ LengthsB \subseteq Nat

VARIABLES tpA, phaseA, sinkA, wireA, messagesA,
          tpB, phaseB, sinkB, wireB, messagesB,
          sentA, sentB,  \* history: messages handed to send, in order
          readA, readB,  \* how many frames of the other node were received
          ahead,         \* ticks of A minus ticks of B, if Prompt
          overtaken      \* history: a burst has sent past a frame its sink declined

varsA == <<tpA, phaseA, sinkA, wireA, messagesA>>
varsB == <<tpB, phaseB, sinkB, wireB, messagesB>>
vars == <<varsA, varsB, sentA, sentB, readA, readB, ahead, overtaken>>

A == INSTANCE IsoTp WITH tp <- tpA, phase <- phaseA, sink <- sinkA, wire <- wireA,
                         messages <- messagesA, FcBlockSizes <- FcBlockSizesA
B == INSTANCE IsoTp WITH tp <- tpB, phase <- phaseB, sink <- sinkB, wire <- wireB,
                         messages <- messagesB, FcBlockSizes <- FcBlockSizesB

(* With willing sinks the link is also taken to be prompt: frames arrive   *)
(* within a tick and the nodes tick at one rate.  Otherwise nothing is     *)
(* known of either.                                                        *)
Prompt == sinkA = "willing"

Message(node, n, length) == [i \in 1 .. length |-> <<node, n, i>>]

Init ==
  /\ A!Init /\ B!Init /\ sinkA = sinkB
  /\ sentA = <<>> /\ sentB = <<>>
  /\ readA = 0 /\ readB = 0 /\ ahead = 0 /\ overtaken = FALSE

request_A ==
  /\ Len(sentA) + Len(sentB) < MaxSends
  /\ \E n \in LengthsA : LET m == Message("A", Len(sentA) + 1, n)
                         IN  A!send(m) /\ sentA' = Append(sentA, m)
  /\ UNCHANGED <<varsB, sentB, readA, readB, ahead, overtaken>>

request_B ==
  /\ Len(sentA) + Len(sentB) < MaxSends
  /\ \E n \in LengthsB : LET m == Message("B", Len(sentB) + 1, n)
                         IN  B!send(m) /\ sentB' = Append(sentB, m)
  /\ UNCHANGED <<varsA, sentA, readA, readB, ahead, overtaken>>

receive_A ==
  /\ readA < Len(wireB)
  /\ A!rx_frame(wireB[readA + 1])
  /\ readA' = readA + 1
  /\ UNCHANGED <<varsB, sentA, sentB, readB, ahead, overtaken>>

receive_B ==
  /\ readB < Len(wireA)
  /\ B!rx_frame(wireA[readB + 1])
  /\ readB' = readB + 1
  /\ UNCHANGED <<varsA, sentA, sentB, readA, ahead, overtaken>>

(* A tick of one node that is `lead` ticks ahead of the other.             *)
MayTick(lead) ==
  Prompt => /\ phaseA = "idle" /\ phaseB = "idle"
            /\ readA = Len(wireB) /\ readB = Len(wireA)
            /\ lead <= 0

tick_A ==
  /\ MayTick(ahead)
  /\ A!tick(1)
  /\ ahead' = IF Prompt THEN ahead + 1 ELSE 0
  /\ UNCHANGED <<varsB, sentA, sentB, readA, readB, overtaken>>

tick_B ==
  /\ MayTick(-ahead)
  /\ B!tick(1)
  /\ ahead' = IF Prompt THEN ahead - 1 ELSE 0
  /\ UNCHANGED <<varsA, sentA, sentB, readA, readB, overtaken>>

steps_A ==
  /\ A!tick_steps
  /\ overtaken' = (overtaken \/ A!Overtakes)
  /\ UNCHANGED <<varsB, sentA, sentB, readA, readB, ahead>>

steps_B ==
  /\ B!tick_steps
  /\ overtaken' = (overtaken \/ B!Overtakes)
  /\ UNCHANGED <<varsA, sentA, sentB, readA, readB, ahead>>

Next ==
  \/ request_A \/ receive_A \/ tick_A \/ steps_A
  \/ request_B \/ receive_B \/ tick_B \/ steps_B

Spec == Init /\ [][Next]_vars

(* Both main loops go on and the bus delivers.                             *)
Fairness ==
  /\ WF_vars(receive_A) /\ WF_vars(tick_A) /\ WF_vars(steps_A)
  /\ WF_vars(receive_B) /\ WF_vars(tick_B) /\ WF_vars(steps_B)

FairSpec == Spec /\ Fairness

-----------------------------------------------------------------------------
(* got is sent with some messages left out.                                *)
Subsequence(got, sent) ==
  \E S \in SUBSET (1 .. Len(sent)) :
    \E f \in [1 .. Len(got) -> S] :
      /\ \A i, j \in DOMAIN got : i < j => f[i] < f[j]
      /\ \A i \in DOMAIN got : got[i] = sent[f[i]]

(* What an application receives is what the other one sent: whole          *)
(* messages, unaltered, in order, none twice and none pieced together from *)
(* two, however ticks, timeouts and retries of both nodes interleave.  A   *)
(* burst that gets past a declined frame ends the promise: the frame goes  *)
(* out twice (engine.c:329, 376), and where the sequence number has come   *)
(* round in between the receiver takes it for the next piece.              *)
DeliveredIntact ==
  ~overtaken => Subsequence(messagesB, sentA) /\ Subsequence(messagesA, sentB)

Quiet ==
  /\ readA = Len(wireB) /\ readB = Len(wireA)
  /\ phaseA = "idle" /\ phaseB = "idle"
  /\ ~A!tx_busy(tpA) /\ ~B!tx_busy(tpB)
  /\ tpA.rx_state = "IDLE" /\ tpB.rx_state = "IDLE"

(* When both engines have come to rest, a message that did not arrive has  *)
(* left a fault of its own at one end at least (SW-FR-TP-009, "shall never *)
(* be silently dropped").                                                  *)
LossIsReported ==
  Quiet => Len(sentA) + Len(sentB)
             <= Len(messagesA) + Len(messagesB) + tpA.faults + tpB.faults

(* A message that goes out in a single frame or within the first block.    *)
(* The receiver sends no flow control after it (engine.c:512).             *)
InOneBlock(m, bs) ==
  \/ Len(m) <= TP_SF_DATA_MAX
  \/ bs = 0
  \/ Len(m) <= TP_FF_DATA_MAX + bs * TP_CF_DATA_MAX

AllInOneBlock ==
  /\ \A i \in DOMAIN sentA : InOneBlock(sentA[i], tpB.fc_block_size)
  /\ \A i \in DOMAIN sentB : InOneBlock(sentB[i], tpA.fc_block_size)

(* What a prompt link still has to bring: messages within a block, or the  *)
(* faults at both ends that a longer one leads to.                         *)
Owing ==
  IF AllInOneBlock
  THEN Len(messagesB) < Len(sentA) \/ Len(messagesA) < Len(sentB)
  ELSE tpA.faults = 0 \/ tpB.faults = 0

(* On a prompt link with willing sinks no engine ever sees a reason for a  *)
(* fault, and every message arrives, as long as each fits the block the    *)
(* other node grants.  The first that does not ends in a fault at either   *)
(* end: sender and receiver do not wait for each other for ever            *)
(* (engine.c:303, 512).                                                    *)
EveryMessageArrives ==
  /\ [](Prompt /\ AllInOneBlock => tpA.faults = 0 /\ tpB.faults = 0)
  /\ []<>(Prompt => ~Owing)
=============================================================================
