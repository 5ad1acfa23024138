---------------------------- MODULE DeviceProofs ----------------------------
(***************************************************************************)
(* What the parts of the event library next to the hardware promise.       *)
(*                                                                         *)
(* The ring between interrupt and main loop is race-free and first-in      *)
(* first-out for every capacity, any number of frames and any interleaving.*)
(*                                                                         *)
(* The fault path, for every queue size, watchdog period and hook          *)
(* configuration: what holds of the outputs, the retention register and    *)
(* the watchdog wherever a reset or a power failure falls.                 *)
(***************************************************************************)
EXTENDS IsrQueue, FaultPath, TLAPS

-----------------------------------------------------------------------------
(* IsrQueue.                                                               *)
(* The interrupt decides with a tail it read earlier.  That is safe since  *)
(* the main loop only ever shrinks the ring: seen from the stale tail the  *)
(* ring looks at least as full as it is.                                   *)
StaleTailSafe ==
  /\ isr \in {"check", "publish"} => Distance(isr_tail, head) >= Distance(tail, head)
  /\ isr = "publish" => Next_index(head) # isr_tail /\ slots[head] = offered
  /\ main \in {"copy", "release"} => tail # head
  /\ main = "release" => main_event = slots[tail]

IndInv == TypeOK /\ Fifo /\ RingContents /\ CountersAccount /\ StaleTailSafe

-----------------------------------------------------------------------------
(* Arithmetic of the ring.                                                 *)
LEMMA DistanceType ==
  ASSUME NEW t \in Indices, NEW h \in Indices
  PROVE  Distance(t, h) \in Nat /\ Distance(t, h) <= Capacity - 1 /\ (Distance(t, h) = 0 <=> t = h)
  BY RingAssumption DEF Distance, Indices

(* Publishing one more frame lengthens the occupied stretch by one.        *)
LEMMA AdvanceHead ==
  ASSUME NEW t \in Indices, NEW h \in Indices, Next_index(h) # t
  PROVE  /\ Next_index(h) \in Indices
         /\ Distance(t, Next_index(h)) = Distance(t, h) + 1
  BY RingAssumption DEF Distance, Indices, Next_index

(* Releasing one frame shortens the occupied stretch by one.               *)
LEMMA AdvanceTail ==
  ASSUME NEW t \in Indices, NEW h \in Indices, t # h
  PROVE  /\ Next_index(t) \in Indices
         /\ Distance(Next_index(t), h) = Distance(t, h) - 1
         /\ \A k \in Nat : k < Distance(t, h) - 1 => Slot(Next_index(t), k) = Slot(t, k + 1)
  BY RingAssumption DEF Distance, Indices, Next_index, Slot

(* The ring is full exactly when one slot is left.                         *)
LEMMA FullRing ==
  ASSUME NEW t \in Indices, NEW h \in Indices
  PROVE  Next_index(h) = t <=> Distance(t, h) = Capacity - 1
  BY RingAssumption DEF Distance, Indices, Next_index

(* Slots of the occupied stretch lie in the ring and are never the head.   *)
LEMMA SlotFacts ==
  ASSUME NEW t \in Indices, NEW h \in Indices
  PROVE  /\ Slot(t, 0) = t
         /\ Slot(t, Distance(t, h)) = h
         /\ \A k \in Nat : k < Distance(t, h) => Slot(t, k) \in Indices /\ Slot(t, k) # h
  BY RingAssumption DEF Distance, Indices, Slot

-----------------------------------------------------------------------------
(* An initialised ring satisfies the inductive invariant.                  *)
LEMMA InitInd == Init => IndInv
  BY RingAssumption DEF Init, IndInv, TypeOK, Fifo, RingContents, CountersAccount,
                        StaleTailSafe, Distance, Indices

(* Every step of the interrupt keeps the invariant.                        *)
LEMMA IsrInd ==
  ASSUME IndInv, Isr
  PROVE  IndInv'
<1> USE RingAssumption
<1>1. CASE push_read
  <2>1. TypeOK'
    BY <1>1 DEF push_read, IndInv, TypeOK, consumer
  <2>2. Fifo' /\ RingContents'
    BY <1>1 DEF push_read, IndInv, Fifo, RingContents, consumer
  <2>3. CountersAccount'
    BY <1>1 DEF push_read, IndInv, CountersAccount, TypeOK, consumer
  <2>4. StaleTailSafe'
    BY <1>1, DistanceType, SMTT(30) DEF push_read, IndInv, StaleTailSafe, TypeOK, consumer
  <2> QED
    BY <2>1, <2>2, <2>3, <2>4 DEF IndInv
<1>2. CASE push_drop
  <2>1. TypeOK'
    BY <1>2 DEF push_drop, IndInv, TypeOK, consumer
  <2>2. Fifo' /\ RingContents'
    BY <1>2 DEF push_drop, IndInv, Fifo, RingContents, consumer
  <2>3. CountersAccount'
    BY <1>2 DEF push_drop, IndInv, CountersAccount, TypeOK, consumer
  <2>4. StaleTailSafe'
    BY <1>2 DEF push_drop, IndInv, StaleTailSafe, consumer
  <2> QED
    BY <2>1, <2>2, <2>3, <2>4 DEF IndInv
<1>3. CASE push_write
  <2>0. /\ head \in Indices /\ tail \in Indices /\ isr_tail \in Indices
        /\ slots \in [Indices -> Nat] /\ offered \in Nat
        /\ slots' = [slots EXCEPT ![head] = offered]
    BY <1>3 DEF push_write, IndInv, TypeOK
  <2>1. TypeOK'
    BY <1>3, <2>0 DEF push_write, IndInv, TypeOK, consumer
  <2>2. Fifo'
    BY <1>3 DEF push_write, IndInv, Fifo, consumer
  <2>3. RingContents'
    <3>1. \A k \in 0 .. Distance(tail, head) - 1 : slots'[Slot(tail, k)] = slots[Slot(tail, k)]
      BY <2>0, SlotFacts, DistanceType
    <3> QED
      BY <1>3, <3>1 DEF push_write, IndInv, RingContents, consumer
  <2>4. CountersAccount'
    BY <1>3 DEF push_write, IndInv, CountersAccount, consumer
  <2>5. StaleTailSafe'
    BY <1>3, <2>0 DEF push_write, IndInv, StaleTailSafe, consumer
  <2> QED
    BY <2>1, <2>2, <2>3, <2>4, <2>5 DEF IndInv
<1>4. CASE push_publish
  <2>0. /\ head \in Indices /\ tail \in Indices /\ isr_tail \in Indices
        /\ slots[head] = offered /\ Next_index(head) # isr_tail /\ offered \in Nat
        /\ Distance(isr_tail, head) >= Distance(tail, head)
        /\ accepted \in Seq(Nat) /\ received \in Seq(Nat)
        /\ head' = Next_index(head) /\ tail' = tail /\ slots' = slots
        /\ accepted' = Append(accepted, offered) /\ received' = received
    BY <1>4 DEF push_publish, IndInv, TypeOK, StaleTailSafe, consumer
  <2>1. Next_index(head) # tail
    BY <2>0, FullRing, DistanceType, SMTT(30)
  <2>2. head' \in Indices /\ Distance(tail, head') = Distance(tail, head) + 1
    BY <2>0, <2>1, AdvanceHead
  <2>3. /\ accepted' \in Seq(Nat) /\ Len(accepted') = Len(accepted) + 1
        /\ accepted'[Len(accepted) + 1] = offered
        /\ \A i \in 1 .. Len(accepted) : accepted'[i] = accepted[i]
        /\ Len(accepted) \in Nat /\ Len(received) \in Nat
    BY <2>0
  <2>4. TypeOK'
    BY <1>4, <2>2, <2>3 DEF push_publish, IndInv, TypeOK, consumer
  <2>5. Fifo'
    BY <2>0, <2>3 DEF IndInv, Fifo
  <2>6. RingContents'
    <3>1. Distance(tail, head) = Len(accepted) - Len(received)
      BY DEF IndInv, RingContents
    <3>4. Distance(tail', head') = Distance(tail, head) + 1
      BY <2>0, <2>2, Zenon
    <3>2. Distance(tail', head') = Len(accepted') - Len(received')
      BY <2>0, <2>3, <3>1, <3>4
    <3>3. ASSUME NEW k \in 0 .. Distance(tail', head') - 1
          PROVE  slots'[Slot(tail', k)] = accepted'[Len(received') + k + 1]
      <4>1. CASE k = Distance(tail, head)
        BY <2>0, <2>3, <3>1, <4>1, SlotFacts
      <4>2. CASE k # Distance(tail, head)
        <5>1. k \in 0 .. Distance(tail, head) - 1
          BY <2>0, <3>4, <4>2, DistanceType, SMTT(30)
        <5>2. slots[Slot(tail, k)] = accepted[Len(received) + k + 1]
          BY <5>1 DEF IndInv, RingContents
        <5>3. Len(received) + k + 1 \in 1 .. Len(accepted)
          BY <2>3, <3>1, <5>1
        <5> QED
          BY <2>0, <2>3, <5>2, <5>3
      <4> QED
        BY <4>1, <4>2
    <3> QED
      BY <3>2, <3>3 DEF RingContents
  <2>7. CountersAccount'
    BY <1>4, <2>3 DEF push_publish, IndInv, CountersAccount, TypeOK, consumer
  <2>8. StaleTailSafe'
    BY <1>4, <2>0, <2>1, <2>2 DEF push_publish, IndInv, StaleTailSafe, consumer
  <2> QED
    BY <2>4, <2>5, <2>6, <2>7, <2>8 DEF IndInv
<1>5. CASE push_count
  <2>0. Distance(isr_tail, head) \in Nat /\ Distance(isr_tail, head) <= Capacity - 1
    BY DistanceType DEF IndInv, TypeOK
  <2>1. TypeOK'
    BY <1>5, <2>0 DEF push_count, IndInv, TypeOK, consumer
  <2>2. Fifo' /\ RingContents'
    BY <1>5 DEF push_count, IndInv, Fifo, RingContents, consumer
  <2>3. CountersAccount'
    BY <1>5, <2>0, SMTT(30) DEF push_count, IndInv, CountersAccount, TypeOK, consumer
  <2>4. StaleTailSafe'
    BY <1>5 DEF push_count, IndInv, StaleTailSafe, consumer
  <2> QED
    BY <2>1, <2>2, <2>3, <2>4 DEF IndInv
<1> QED
  BY <1>1, <1>2, <1>3, <1>4, <1>5 DEF Isr

(* Every step of the main loop keeps the invariant.                        *)
LEMMA MainInd ==
  ASSUME IndInv, Main
  PROVE  IndInv'
<1> USE RingAssumption
<1>1. CASE drain_start \/ pop_empty
  <2>1. TypeOK'
    BY <1>1, SMTT(30) DEF drain_start, pop_empty, IndInv, TypeOK, producer
  <2>2. Fifo' /\ RingContents'
    BY <1>1 DEF drain_start, pop_empty, IndInv, Fifo, RingContents, producer
  <2>3. CountersAccount'
    BY <1>1 DEF drain_start, pop_empty, IndInv, CountersAccount, producer
  <2>4. StaleTailSafe'
    BY <1>1 DEF drain_start, pop_empty, IndInv, StaleTailSafe, producer
  <2> QED
    BY <2>1, <2>2, <2>3, <2>4 DEF IndInv
<1>2. CASE pop_nonempty
  <2>1. TypeOK'
    BY <1>2 DEF pop_nonempty, IndInv, TypeOK, producer
  <2>2. Fifo' /\ RingContents'
    BY <1>2 DEF pop_nonempty, IndInv, Fifo, RingContents, producer
  <2>3. CountersAccount'
    BY <1>2 DEF pop_nonempty, IndInv, CountersAccount, producer
  <2>4. StaleTailSafe'
    BY <1>2 DEF pop_nonempty, IndInv, StaleTailSafe, producer
  <2> QED
    BY <2>1, <2>2, <2>3, <2>4 DEF IndInv
<1>3. CASE pop_copy
  <2>1. TypeOK'
    BY <1>3 DEF pop_copy, IndInv, TypeOK, producer
  <2>2. Fifo' /\ RingContents'
    BY <1>3 DEF pop_copy, IndInv, Fifo, RingContents, producer
  <2>3. CountersAccount'
    BY <1>3 DEF pop_copy, IndInv, CountersAccount, producer
  <2>4. StaleTailSafe'
    BY <1>3 DEF pop_copy, IndInv, StaleTailSafe, producer
  <2> QED
    BY <2>1, <2>2, <2>3, <2>4 DEF IndInv
<1>4. CASE pop_release
  <2>0. /\ head \in Indices /\ tail \in Indices /\ isr_tail \in Indices
        /\ tail # head /\ main_event = slots[tail] /\ main_event \in Nat
        /\ accepted \in Seq(Nat) /\ received \in Seq(Nat)
        /\ tail' = Next_index(tail) /\ head' = head /\ slots' = slots
        /\ received' = Append(received, main_event) /\ accepted' = accepted
    BY <1>4 DEF pop_release, IndInv, TypeOK, StaleTailSafe, producer
  <2>1. /\ tail' \in Indices /\ Distance(tail', head) = Distance(tail, head) - 1
        /\ \A k \in Nat : k < Distance(tail, head) - 1 => Slot(tail', k) = Slot(tail, k + 1)
    BY <2>0, AdvanceTail
  <2>2. /\ received' \in Seq(Nat) /\ Len(received') = Len(received) + 1
        /\ received'[Len(received) + 1] = main_event
        /\ \A i \in 1 .. Len(received) : received'[i] = received[i]
        /\ Len(accepted) \in Nat /\ Len(received) \in Nat
    BY <2>0
  <2>3. /\ Distance(tail, head) = Len(accepted) - Len(received)
        /\ \A k \in 0 .. Distance(tail, head) - 1 :
             slots[Slot(tail, k)] = accepted[Len(received) + k + 1]
    BY DEF IndInv, RingContents
  <2>4. Distance(tail, head) \in Nat /\ Distance(tail, head) >= 1 /\ Slot(tail, 0) = tail
    BY <2>0, DistanceType, SlotFacts, SMTT(30)
  <2>5. main_event = accepted[Len(received) + 1]
    <3>1. 0 \in 0 .. Distance(tail, head) - 1
      BY <2>4
    <3> QED
      BY <2>0, <2>2, <2>3, <2>4, <3>1
  <2>6. TypeOK'
    BY <1>4, <2>1, <2>2 DEF pop_release, IndInv, TypeOK, producer
  <2>7. Fifo'
    <3>1. Len(received') <= Len(accepted')
      BY <2>0, <2>2, <2>3, <2>4
    <3>2. ASSUME NEW i \in 1 .. Len(received') PROVE received'[i] = accepted'[i]
      <4>1. CASE i = Len(received) + 1
        BY <2>0, <2>2, <2>5, <4>1
      <4>2. CASE i \in 1 .. Len(received)
        BY <2>0, <2>2, <4>2 DEF IndInv, Fifo
      <4> QED
        BY <2>2, <4>1, <4>2
    <3> QED
      BY <3>1, <3>2 DEF Fifo
  <2>8. RingContents'
    <3>1. Distance(tail', head') = Distance(tail, head) - 1
      BY <2>0, <2>1, Zenon
    <3>2. ASSUME NEW k \in 0 .. Distance(tail', head') - 1
          PROVE  slots'[Slot(tail', k)] = accepted'[Len(received') + k + 1]
      <4>1. k \in Nat /\ k < Distance(tail, head) - 1 /\ k + 1 \in 0 .. Distance(tail, head) - 1
        BY <2>4, <3>1
      <4>2. slots[Slot(tail, k + 1)] = accepted[Len(received) + (k + 1) + 1]
        BY <2>3, <4>1
      <4>3. Len(received') + k + 1 = Len(received) + (k + 1) + 1
        BY <2>2, <4>1
      <4>4. Slot(tail', k) = Slot(tail, k + 1)
        BY <2>1, <4>1
      <4> QED
        BY <2>0, <4>2, <4>3, <4>4, Zenon
    <3> QED
      BY <2>0, <2>2, <2>3, <2>4, <3>1, <3>2 DEF RingContents
  <2>9. CountersAccount'
    BY <1>4, <2>2 DEF pop_release, IndInv, CountersAccount, TypeOK, producer
  <2>10. StaleTailSafe'
    BY <1>4, <2>0, <2>1, <2>4, DistanceType, SMTT(30) DEF pop_release, IndInv, StaleTailSafe, TypeOK, producer
  <2> QED
    BY <2>6, <2>7, <2>8, <2>9, <2>10 DEF IndInv
<1>5. CASE drain_deliver
  <2>1. TypeOK'
    BY <1>5, SMTT(30) DEF drain_deliver, IndInv, TypeOK, producer
  <2>2. Fifo' /\ RingContents'
    BY <1>5 DEF drain_deliver, IndInv, Fifo, RingContents, producer
  <2>3. CountersAccount'
    BY <1>5 DEF drain_deliver, IndInv, CountersAccount, TypeOK, producer
  <2>4. StaleTailSafe'
    BY <1>5 DEF drain_deliver, IndInv, StaleTailSafe, producer
  <2> QED
    BY <2>1, <2>2, <2>3, <2>4 DEF IndInv
<1> QED
  BY <1>1, <1>2, <1>3, <1>4, <1>5 DEF Main

(* Every step keeps the invariant.                                         *)
LEMMA NextInd == IndInv /\ [Next]_vars => IndInv'
<1> SUFFICES ASSUME IndInv, [Next]_vars PROVE IndInv'
  OBVIOUS
<1>1. CASE UNCHANGED vars
  BY <1>1 DEF vars, producer, consumer, IndInv, TypeOK, Fifo, RingContents, CountersAccount,
              StaleTailSafe
<1> QED
  BY <1>1, IsrInd, MainInd DEF Next

(* What the main loop receives is a prefix of what the interrupt stored.   *)
THEOREM FifoCorrect == Spec => [](Fifo /\ RingContents)
<1>1. IndInv => Fifo /\ RingContents
  BY DEF IndInv
<1> QED
  BY <1>1, InitInd, NextInd, PTL DEF Spec

(* Producer and consumer never touch the same slot at the same time.       *)
THEOREM RaceFree == Spec => []NoSlotRace
<1>1. IndInv => NoSlotRace
  BY DEF IndInv, StaleTailSafe, NoSlotRace
<1> QED
  BY <1>1, InitInd, NextInd, PTL DEF Spec

(* Every frame the interrupt was offered is in the ring, out of it or      *)
(* counted as dropped.                                                     *)
THEOREM CountersCorrect == Spec => [](TypeOK /\ CountersAccount)
<1>1. IndInv => TypeOK /\ CountersAccount
  BY DEF IndInv
<1> QED
  BY <1>1, InitInd, NextInd, PTL DEF Spec

-----------------------------------------------------------------------------
(* FaultPath.                                                              *)
BootPlaces == {"boot", "restore", "clear", "bind"}
Places == BootPlaces \cup {"run", "escalate", "fail_safe", "iwdg", "returning", "spin"}

Flags ==
  /\ terminal \in BOOLEAN /\ is_running \in BOOLEAN /\ hang_induced \in BOOLEAN
  /\ tx_authorized \in BOOLEAN /\ safe_state_active \in BOOLEAN /\ iwdgrstf \in BOOLEAN
  /\ retention \in BOOLEAN /\ owed \in BOOLEAN

Counters == stored \in 0..QueueSlots /\ remaining \in 0..Timeout /\ log \in Nat

PathTypeOK == pc \in Places /\ hooks \subseteq Hooks /\ Flags /\ Counters

OutputsOff == safe_state_active /\ ~tx_authorized

(* What escalation has done so far.  Once the fail-safe hook has run, the  *)
(* outputs stay off to the end of the escalation; OutputsSafe speaks of    *)
(* its last place only and is not inductive without this.                  *)
FailSafeHolds ==
  pc \in {"iwdg", "returning", "spin"} /\ "hal_fail_safe" \in hooks => OutputsOff

(* A saturation on record stays in the register until the log has it: the  *)
(* register is cleared only where nothing is owed any more                 *)
(* (restore_retained_fault).                                               *)
RetainedUntilLogged ==
  /\ owed => retention
  /\ pc = "clear" => ~owed

(* A queue that is terminal has a processor that is escalating, spinning   *)
(* or cut off from feeding the watchdog: no path leads back to a main loop *)
(* that keeps the watchdog alive (hard_fault_escalate, watchdog_feed).     *)
CannotFeedItsWayOut ==
  /\ terminal /\ pc = "run" => hang_induced
  /\ terminal => pc \notin BootPlaces
  /\ pc = "returning" /\ "iwdg_escalate" \in hooks => hang_induced
  /\ pc \in {"escalate", "fail_safe", "iwdg", "returning", "spin"} => terminal

(* From the end of boot the watchdog runs until the reset it causes.       *)
WatchdogArmed == pc # "boot" => is_running

PathInv ==
  /\ PathTypeOK
  /\ OutputsSafe
  /\ FailSafeHolds
  /\ RetainedUntilLogged
  /\ CannotFeedItsWayOut
  /\ WatchdogArmed

-----------------------------------------------------------------------------
LEMMA PathInvInit == PathInit => PathInv
<1>. SUFFICES ASSUME PathInit PROVE PathInv
  OBVIOUS
<1>1. PathTypeOK
  <2>1. Flags
    BY DEF PathInit, Flags
  <2>2. Counters
    BY PathAssumption DEF PathInit, Counters
  <2>. QED  BY <2>1, <2>2 DEF PathInit, PathTypeOK, Places, BootPlaces
<1>2. OutputsSafe /\ FailSafeHolds
  BY DEF PathInit, OutputsSafe, FailSafeHolds, OutputsOff
<1>3. RetainedUntilLogged
  BY DEF PathInit, RetainedUntilLogged
<1>4. CannotFeedItsWayOut
  BY  DEF PathInit, CannotFeedItsWayOut, BootPlaces
<1>5. WatchdogArmed
  BY DEF PathInit, WatchdogArmed
<1>. QED  BY <1>1, <1>2, <1>3, <1>4, <1>5 DEF PathInv

LEMMA PathInvNext == PathInv /\ [PathNext]_path_vars => PathInv'
<1>. SUFFICES ASSUME PathInv, [PathNext]_path_vars PROVE PathInv'
  OBVIOUS
<1>. USE PathAssumption DEF PathInv, PathTypeOK, Flags, Places, BootPlaces, wdg, set_safe_state
<1>. USE DEF OutputsSafe, FailSafeHolds, OutputsOff, RetainedUntilLogged, CannotFeedItsWayOut, WatchdogArmed
<1>1. CASE watchdog_init
  <2>1. Counters'
    BY <1>1 DEF watchdog_init, Counters
  <2>2. Flags' /\ pc' \in Places /\ hooks' \subseteq Hooks
    BY <1>1 DEF watchdog_init
  <2>3. OutputsSafe' /\ FailSafeHolds' /\ RetainedUntilLogged' /\ CannotFeedItsWayOut' /\ WatchdogArmed'
    BY <1>1 DEF watchdog_init
  <2>. QED  BY <2>1, <2>2, <2>3
<1>2. CASE restore_copy
  <2>1. Counters'
    BY <1>2 DEF restore_copy, Counters
  <2>2. Flags' /\ pc' \in Places /\ hooks' \subseteq Hooks
    BY <1>2 DEF restore_copy
  <2>3. OutputsSafe' /\ FailSafeHolds' /\ RetainedUntilLogged' /\ CannotFeedItsWayOut' /\ WatchdogArmed'
    BY <1>2 DEF restore_copy
  <2>. QED  BY <2>1, <2>2, <2>3
<1>3. CASE restore_clear
  BY <1>3 DEF restore_clear, Counters
<1>4. CASE bind_hooks
  BY <1>4 DEF bind_hooks, Counters
<1>5. CASE feed
  BY <1>5 DEF feed, Counters
<1>6. ASSUME NEW a \in BOOLEAN, authorize_tx(a) PROVE PathInv'
  BY <1>6 DEF authorize_tx, Counters
<1>7. CASE push_fault
  <2>1. Counters'
    BY <1>7 DEF push_fault, Counters
  <2>2. Flags' /\ pc' \in Places /\ hooks' \subseteq Hooks
    BY <1>7 DEF push_fault
  <2>3. OutputsSafe' /\ FailSafeHolds' /\ RetainedUntilLogged' /\ CannotFeedItsWayOut' /\ WatchdogArmed'
    BY <1>7 DEF push_fault
  <2>. QED  BY <2>1, <2>2, <2>3
<1>8. CASE pop_fault
  BY <1>8 DEF pop_fault, Counters
<1>9. CASE induce_hang
  BY <1>9 DEF induce_hang, Counters
<1>10. CASE escalate_retention
  BY <1>10 DEF escalate_retention, Counters
<1>11. CASE escalate_fail_safe
  BY <1>11 DEF escalate_fail_safe, Counters
<1>12. CASE escalate_iwdg
  <2>1. Counters'
    BY <1>12 DEF escalate_iwdg, watchdog_escalate, Counters
  <2>2. Flags' /\ pc' \in Places /\ hooks' \subseteq Hooks
    BY <1>12 DEF escalate_iwdg, watchdog_escalate
  <2>3. OutputsSafe' /\ FailSafeHolds' /\ RetainedUntilLogged' /\ CannotFeedItsWayOut' /\ WatchdogArmed'
    BY <1>12 DEF escalate_iwdg, watchdog_escalate
  <2>. QED  BY <2>1, <2>2, <2>3
<1>13. CASE escalate_return
  BY <1>13 DEF escalate_return, Counters
<1>14. CASE iwdg_tick
  <2>1. Counters'
    <3>1. CASE remaining > 1
      BY <1>14, <3>1 DEF iwdg_tick, Counters
    <3>2. CASE ~(remaining > 1)
      BY <1>14, <3>2 DEF iwdg_tick, ram_lost, Counters
    <3>. QED  BY <3>1, <3>2
  <2>2. Flags' /\ pc' \in Places /\ hooks' \subseteq Hooks
    BY <1>14, ZenonT(30) DEF iwdg_tick, ram_lost
  <2>3. OutputsSafe' /\ FailSafeHolds' /\ RetainedUntilLogged' /\ CannotFeedItsWayOut' /\ WatchdogArmed'
    BY <1>14 DEF iwdg_tick, ram_lost
  <2>. QED  BY <2>1, <2>2, <2>3
<1>15. CASE power_cycle
  <2>1. Counters'
    BY <1>15 DEF power_cycle, ram_lost, Counters
  <2>2. Flags' /\ pc' \in Places /\ hooks' \subseteq Hooks
    BY <1>15 DEF power_cycle, ram_lost
  <2>3. OutputsSafe' /\ FailSafeHolds' /\ RetainedUntilLogged' /\ CannotFeedItsWayOut' /\ WatchdogArmed'
    BY <1>15 DEF power_cycle, ram_lost
  <2>. QED  BY <2>1, <2>2, <2>3
<1>16. CASE UNCHANGED path_vars
  BY <1>16 DEF path_vars, Counters
<1>. QED
  BY <1>1, <1>2, <1>3, <1>4, <1>5, <1>6, <1>7, <1>8, <1>9, <1>10, <1>11, <1>12, <1>13, <1>14,
     <1>15, <1>16 DEF PathNext, Boot, MainLoop, Escalation

(* From a reset to the start of the main loop, and while spinning with a   *)
(* fail-safe hook, the outputs are off: for every hook configuration and   *)
(* wherever resets and power failures fall (SW-FR-BM-006).                 *)
THEOREM OutputsSafeCorrect == PathSpec => []OutputsSafe
<1>1. PathInv => OutputsSafe
  BY DEF PathInv
<1>. QED  BY <1>1, PathInvInit, PathInvNext, PTL DEF PathSpec

(* A retained saturation is in the register until the log has it, so no    *)
(* reset between the copy and the clearing loses it                        *)
(* (restore_retained_fault): the safety half of SaturationReported.        *)
THEOREM RetentionCorrect == PathSpec => []RetainedUntilLogged
<1>1. PathInv => RetainedUntilLogged
  BY DEF PathInv
<1>. QED  BY <1>1, PathInvInit, PathInvNext, PTL DEF PathSpec

(* As long as the queue is terminal the watchdog runs and its counter is   *)
(* never raised: whatever the main loop tries, each tick brings the reset  *)
(* nearer (watchdog_feed after watchdog_escalate).  With the oscillator    *)
(* ticking, this is why EscalationResets holds.                            *)
NoFeedAfterSaturation ==
  [][terminal => is_running /\ (terminal' => remaining' <= remaining)]_path_vars

THEOREM NoFeedCorrect == PathSpec => NoFeedAfterSaturation
<1>1. ASSUME PathInv, [PathNext]_path_vars, terminal, terminal' PROVE remaining' <= remaining
  <2>1. pc \notin BootPlaces /\ (pc = "run" => hang_induced) /\ remaining \in Int
    BY <1>1 DEF PathInv, PathTypeOK, Counters, CannotFeedItsWayOut
  <2>2. ~watchdog_init /\ ~feed
    BY <2>1 DEF watchdog_init, feed, BootPlaces
  <2>3. CASE escalate_iwdg
    BY <1>1, <2>3 DEF escalate_iwdg, watchdog_escalate, PathInv, PathTypeOK, Counters
  <2>4. CASE iwdg_tick
    <3>1. remaining' = remaining - 1
      BY <1>1, <2>4 DEF iwdg_tick, ram_lost
    <3>. QED  BY <2>1, <3>1
  <2>5. CASE power_cycle
    BY <1>1, <2>5 DEF power_cycle, ram_lost
  <2>6. ASSUME remaining' = remaining PROVE remaining' <= remaining
    BY <2>1, <2>6
  <2>7. CASE restore_copy \/ restore_clear \/ bind_hooks \/ UNCHANGED path_vars
    BY <2>6, <2>7 DEF restore_copy, restore_clear, bind_hooks, path_vars, wdg
  <2>8. CASE (\E a \in BOOLEAN : authorize_tx(a)) \/ push_fault \/ pop_fault \/ induce_hang
    BY <2>6, <2>8 DEF authorize_tx, push_fault, pop_fault, induce_hang, wdg
  <2>9. CASE escalate_retention \/ escalate_fail_safe \/ escalate_return
    BY <2>6, <2>9 DEF escalate_retention, escalate_fail_safe, escalate_return, wdg
  <2>. QED
    BY <1>1, <2>2, <2>3, <2>4, <2>5, <2>7, <2>8, <2>9 DEF PathNext, Boot, MainLoop, Escalation
<1>2. PathInv /\ [PathNext]_path_vars => [terminal => is_running /\ (terminal' => remaining' <= remaining)]_path_vars
  BY <1>1 DEF PathInv, CannotFeedItsWayOut, WatchdogArmed, BootPlaces
<1>. QED
  BY <1>2, PathInvInit, PathInvNext, PTL DEF PathSpec, NoFeedAfterSaturation

=============================================================================
