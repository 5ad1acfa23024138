------------------------- MODULE ApplicationProofs --------------------------
(***************************************************************************)
(* The parts above the event bus.  RecipeEngine for any recipes, signals,  *)
(* bounds and inputs: no value changes silently, and the bus never goes    *)
(* back in time, which rests on the order of BoundedQueue.  The battery    *)
(* governor for all requests and scales.  The UDS server for all           *)
(* configurations and requests.  The codec for all documents and sizes.    *)
(***************************************************************************)
EXTENDS RecipeEngine, Uds, Governor, Codec, FiniteSetTheorems, WellFoundedInduction, TLAPS

-----------------------------------------------------------------------------
(* What inserting into a sequence and removing from it give.               *)
InsertedAt(t, T, s, i, e) ==
  /\ t \in Seq(T) /\ Len(t) = Len(s) + 1
  /\ \A k \in 1..(Len(s) + 1) : /\ k < i => t[k] = s[k]
                                /\ k = i => t[k] = e
                                /\ k > i => t[k] = s[k - 1]

LEMMA InsertAtElements ==
  ASSUME NEW T, NEW s \in Seq(T), NEW e \in T, NEW i \in 1..(Len(s) + 1)
  PROVE  InsertedAt(SeqX!InsertAt(s, i, e), T, s, i, e)
<1>. DEFINE a == SubSeq(s, 1, i - 1)  b == SubSeq(s, i, Len(s))  c == a \o <<e>>
<1>1. a \in Seq(T) /\ Len(a) = i - 1 /\ \A k \in 1..(i - 1) : a[k] = s[k]
  OBVIOUS
<1>2. b \in Seq(T) /\ Len(b) = Len(s) - i + 1 /\ \A k \in 1..(Len(s) - i + 1) : b[k] = s[i + k - 1]
  OBVIOUS
<1>. HIDE DEF a, b
<1>3. c \in Seq(T) /\ Len(c) = i /\ c[i] = e /\ \A k \in 1..(i - 1) : c[k] = s[k]
  BY <1>1
<1>. HIDE DEF c
<1>4. Len(c \o b) = Len(s) + 1 /\ c \o b \in Seq(T)
  <2>1. c \in Seq(T) /\ b \in Seq(T) /\ Len(c) + Len(b) = Len(s) + 1
    BY <1>2, <1>3
  <2>2. Len(c \o b) = Len(c) + Len(b) /\ c \o b \in Seq(T)
    BY <2>1
  <2>. QED  BY <2>1, <2>2
<1>5. ASSUME NEW k \in 1..(Len(s) + 1)
      PROVE  /\ k < i => (c \o b)[k] = s[k]
             /\ k = i => (c \o b)[k] = e
             /\ k > i => (c \o b)[k] = s[k - 1]
  <2>1. CASE k <= i
    <3>1. (c \o b)[k] = c[k] /\ (k < i => k \in 1..(i - 1))
      BY <1>2, <1>3, <2>1
    <3>. QED  BY <1>3, <2>1, <3>1
  <2>2. CASE k > i
    <3>1. (c \o b)[k] = b[k - i] /\ k - i \in 1..(Len(s) - i + 1)
      BY <1>2, <1>3, <2>2, SMTT(30)
    <3>2. b[k - i] = s[i + (k - i) - 1] /\ i + (k - i) - 1 = k - 1
      BY <1>2, <3>1
    <3>. QED  BY <2>2, <3>1, <3>2
  <2>3. k <= i \/ k > i
    OBVIOUS
  <2>. QED  BY <2>1, <2>2, <2>3, Zenon
<1>6. SeqX!InsertAt(s, i, e) = c \o b
  BY DEF SeqX!InsertAt, c, b, a
<1>. QED  BY <1>4, <1>5, <1>6 DEF InsertedAt

LEMMA RemoveAtElements ==
  ASSUME NEW T, NEW s \in Seq(T), NEW i \in 1..Len(s)
  PROVE  LET t == SeqX!RemoveAt(s, i) IN
         /\ t \in Seq(T) /\ Len(t) = Len(s) - 1
         /\ \A k \in 1..(Len(s) - 1) : /\ k < i => t[k] = s[k]
                                       /\ k >= i => t[k] = s[k + 1]
<1>. DEFINE a == SubSeq(s, 1, i - 1)  b == SubSeq(s, i + 1, Len(s))
<1>1. a \in Seq(T) /\ Len(a) = i - 1 /\ \A k \in 1..(i - 1) : a[k] = s[k]
  OBVIOUS
<1>2. b \in Seq(T) /\ Len(b) = Len(s) - i /\ \A k \in 1..(Len(s) - i) : b[k] = s[i + k]
  OBVIOUS
<1>. HIDE DEF a, b
<1>3. Len(a \o b) = Len(s) - 1 /\ a \o b \in Seq(T)
  <2>1. a \in Seq(T) /\ b \in Seq(T) /\ Len(a) + Len(b) = Len(s) - 1
    BY <1>1, <1>2
  <2>2. Len(a \o b) = Len(a) + Len(b) /\ a \o b \in Seq(T)
    BY <2>1
  <2>. QED  BY <2>1, <2>2
<1>4. ASSUME NEW k \in 1..(Len(s) - 1)
      PROVE  (k < i => (a \o b)[k] = s[k]) /\ (k >= i => (a \o b)[k] = s[k + 1])
  <2>1. CASE k < i
    <3>1. (a \o b)[k] = a[k] /\ k \in 1..(i - 1)
      BY <1>1, <1>2, <2>1
    <3>. QED  BY <1>1, <2>1, <3>1
  <2>2. CASE k >= i
    <3>1. (a \o b)[k] = b[k - i + 1] /\ k - i + 1 \in 1..(Len(s) - i)
      BY <1>1, <1>2, <2>2, SMTT(30)
    <3>2. b[k - i + 1] = s[i + (k - i + 1)] /\ i + (k - i + 1) = k + 1
      BY <1>2, <3>1
    <3>. QED  BY <2>2, <3>1, <3>2
  <2>. QED  BY <2>1, <2>2
<1>5. SeqX!RemoveAt(s, i) = a \o b
  BY DEF SeqX!RemoveAt, b, a
<1>. QED  BY <1>3, <1>4, <1>5

LEMMA LeastNatural ==
  ASSUME NEW T, T \subseteq Nat, T # {}
  PROVE  \E k \in T : \A j \in T : k <= j
<1>1. PICK k \in T : \A j \in T : ~(<<j, k>> \in OpToRel(<, Nat))
  BY WFMin, NatLessThanWellFounded, Zenon
<1>2. \A j \in T : ~(j < k)
  BY <1>1 DEF OpToRel
<1>. QED  BY <1>2

-----------------------------------------------------------------------------
(* The queue: events in the order of their timestamps, all of them between *)
(* two times.                                                              *)
Time(s, k) == s[k].timestamp_us
InTime(s) == \A i, j \in 1..Len(s) : i <= j => Time(s, i) <= Time(s, j)
Within(s, low, high) ==
  \A i \in 1..Len(s) : Time(s, i) \in Nat /\ low <= Time(s, i) /\ Time(s, i) <= high
Slots(s, low, high) == (\E T : s \in Seq(T)) /\ Within(s, low, high) /\ InTime(s)

IsQueue(q) ==
  q = [slots |-> q.slots, capacity |-> q.capacity, hard_fault_terminal |-> q.hard_fault_terminal,
       reserved |-> q.reserved]

LEMMA PlaceFound ==
  ASSUME NEW T, NEW s \in Seq(T), NEW e
  PROVE  /\ Place(s, e) \in 1..(Len(s) + 1)
         /\ \A k \in 1..Len(s) : k < Place(s, e) => KeyLeq(s[k], e)
         /\ Place(s, e) <= Len(s) => ~KeyLeq(s[Place(s, e)], e)
<1>. DEFINE later == {i \in DOMAIN s : ~KeyLeq(s[i], e)}
<1>1. DOMAIN s = 1..Len(s) /\ Len(s) \in Nat
  OBVIOUS
<1>2. CASE later = {}
  <2>1. Place(s, e) = Len(s) + 1
    BY <1>2 DEF Place
  <2>. QED  BY <1>1, <1>2, <2>1
<1>3. CASE later # {}
  <2>1. \E i \in later : \A j \in later : i <= j
    <3>1. later \subseteq Nat
      BY <1>1
    <3>. HIDE DEF later
    <3>. QED  BY <1>3, <3>1, LeastNatural
  <2>2. Place(s, e) \in later /\ \A j \in later : Place(s, e) <= j
    BY <1>3, <2>1 DEF Place
  <2>3. Place(s, e) \in 1..Len(s) /\ ~KeyLeq(s[Place(s, e)], e)
    BY <1>1, <2>2
  <2>4. ASSUME NEW k \in 1..Len(s), k < Place(s, e) PROVE KeyLeq(s[k], e)
    <3>1. ~(Place(s, e) <= k)
      BY <1>1, <2>3, <2>4
    <3>. QED  BY <1>1, <2>2, <3>1
  <2>. QED  BY <1>1, <2>3, <2>4
<1>. QED  BY <1>2, <1>3

LEMMA InsertedSlots ==
  ASSUME NEW s, NEW low \in Nat, NEW high \in Nat, Slots(s, low, high), NEW e, e.timestamp_us \in Nat,
         low <= e.timestamp_us, e.timestamp_us <= high
  PROVE  Slots(Inserted(s, e), low, high)
<1>1. PICK T : s \in Seq(T)
  BY DEF Slots
<1>. DEFINE U == T \cup {e}  p == Place(s, e)  t == Inserted(s, e)  n == Len(s)
<1>2. s \in Seq(U) /\ e \in U /\ n \in Nat
  BY <1>1
<1>3. p \in 1..(n + 1) /\ (\A k \in 1..n : k < p => KeyLeq(s[k], e)) /\ (p <= n => ~KeyLeq(s[p], e))
  BY <1>1, PlaceFound
<1>. HIDE DEF p, U
<1>4. /\ t \in Seq(U) /\ Len(t) = n + 1
      /\ \A k \in 1..(n + 1) : /\ k < p => t[k] = s[k]
                               /\ k = p => t[k] = e
                               /\ k > p => t[k] = s[k - 1]
  <2>1. t = SeqX!InsertAt(s, p, e)
    BY DEF Inserted, p
  <2>. HIDE DEF t
  <2>2. InsertedAt(SeqX!InsertAt(s, p, e), U, s, p, e)
    BY <1>2, <1>3, InsertAtElements, Zenon
  <2>. QED  BY <2>1, <2>2, Zenon DEF InsertedAt
<1>. HIDE DEF t
<1>5. \A k \in 1..n : Time(s, k) \in Nat /\ low <= Time(s, k) /\ Time(s, k) <= high
  BY DEF Slots, Within
<1>6. \A i, j \in 1..n : i <= j => Time(s, i) <= Time(s, j)
  BY DEF Slots, InTime
<1>7. \A k \in 1..n : k < p => Time(s, k) <= e.timestamp_us
  BY <1>3, <1>5 DEF KeyLeq, Time
<1>8. \A k \in 1..n : k >= p => e.timestamp_us <= Time(s, k)
  <2>. SUFFICES ASSUME NEW k \in 1..n, k >= p PROVE e.timestamp_us <= Time(s, k)
    OBVIOUS
  <2>1. p \in 1..n /\ p <= n
    BY <1>2, <1>3
  <2>2. e.timestamp_us <= Time(s, p)
    BY <1>3, <1>5, <2>1 DEF KeyLeq, Time
  <2>3. Time(s, p) <= Time(s, k)
    BY <1>6, <2>1
  <2>. QED  BY <1>5, <2>1, <2>2, <2>3
<1>9. \A k \in 1..(n + 1) : /\ k < p => k \in 1..n /\ Time(t, k) = Time(s, k)
                            /\ k = p => Time(t, k) = e.timestamp_us
                            /\ k > p => k - 1 \in 1..n /\ Time(t, k) = Time(s, k - 1)
  BY <1>2, <1>3, <1>4 DEF Time
<1>10. ASSUME NEW k \in 1..(n + 1)
       PROVE  Time(t, k) \in Nat /\ low <= Time(t, k) /\ Time(t, k) <= high
  BY <1>2, <1>3, <1>5, <1>9, SMTT(30)
<1>11. ASSUME NEW i \in 1..(n + 1), NEW j \in 1..(n + 1), i <= j PROVE Time(t, i) <= Time(t, j)
  <2>0. i \in Int /\ j \in Int /\ p \in Int
    BY <1>2, <1>3
  <2>1. CASE j < p
    BY <1>6, <1>9, <1>11, <2>0, <2>1
  <2>2. CASE i > p
    BY <1>6, <1>9, <1>11, <2>0, <2>2
  <2>3. CASE i < p /\ j = p
    BY <1>7, <1>9, <2>3
  <2>4. CASE i = p /\ j > p
    BY <1>8, <1>9, <2>0, <2>4
  <2>5. CASE i < p /\ j > p
    <3>1. Time(t, i) <= e.timestamp_us
      BY <1>7, <1>9, <2>5
    <3>2. e.timestamp_us <= Time(t, j)
      BY <1>8, <1>9, <2>0, <2>5
    <3>. QED  BY <1>10, <3>1, <3>2
  <2>6. CASE i = p /\ j = p
    BY <1>9, <2>6
  <2>. QED  BY <1>11, <2>0, <2>1, <2>2, <2>3, <2>4, <2>5, <2>6
<1>. QED  BY <1>4, <1>10, <1>11 DEF Slots, Within, InTime, t

LEMMA RemovedSlots ==
  ASSUME NEW s, NEW low, NEW high, Slots(s, low, high), NEW p \in 1..Len(s)
  PROVE  Slots(SeqX!RemoveAt(s, p), low, high)
<1>1. PICK T : s \in Seq(T)
  BY DEF Slots
<1>. DEFINE t == SeqX!RemoveAt(s, p)  n == Len(s)
<1>2. /\ t \in Seq(T) /\ Len(t) = n - 1 /\ n \in Nat
      /\ \A k \in 1..(n - 1) : (k < p => t[k] = s[k]) /\ (k >= p => t[k] = s[k + 1])
  BY <1>1, RemoveAtElements
<1>. HIDE DEF t
<1>3. \A k \in 1..(n - 1) : \E m \in 1..n : Time(t, k) = Time(s, m) /\ m = IF k < p THEN k ELSE k + 1
  BY <1>2 DEF Time
<1>4. ASSUME NEW k \in 1..(n - 1) PROVE Time(t, k) \in Nat /\ low <= Time(t, k) /\ Time(t, k) <= high
  BY <1>3 DEF Slots, Within
<1>5. ASSUME NEW i \in 1..(n - 1), NEW j \in 1..(n - 1), i <= j PROVE Time(t, i) <= Time(t, j)
  <2>1. PICK a \in 1..n : Time(t, i) = Time(s, a) /\ a = IF i < p THEN i ELSE i + 1
    BY <1>3
  <2>2. PICK b \in 1..n : Time(t, j) = Time(s, b) /\ b = IF j < p THEN j ELSE j + 1
    BY <1>3
  <2>3. a <= b
    BY <1>5, <2>1, <2>2
  <2>. QED  BY <2>1, <2>2, <2>3 DEF Slots, InTime
<1>. QED  BY <1>2, <1>4, <1>5 DEF Slots, Within, InTime, t

LEMMA NewestFound ==
  ASSUME NEW T, NEW s \in Seq(T), OrdinaryAt(s) # {}
  PROVE  (CHOOSE i \in OrdinaryAt(s) : \A j \in OrdinaryAt(s) : j <= i) \in 1..Len(s)
<1>. DEFINE v == OrdinaryAt(s)  n == Len(s)
<1>1. v \subseteq 1..n /\ n \in Nat
  BY DEF OrdinaryAt
<1>. HIDE DEF v, n
<1>2. \E i \in v : \A j \in v : j <= i
  <2>. DEFINE gaps == {n - i : i \in v}
  <2>1. gaps \subseteq Nat /\ gaps # {}
    BY <1>1 DEF v
  <2>2. PICK g \in gaps : \A h \in gaps : g <= h
    <3>. HIDE DEF gaps
    <3>. QED  BY <2>1, LeastNatural
  <2>3. PICK i \in v : g = n - i
    OBVIOUS
  <2>4. ASSUME NEW j \in v PROVE j <= i
    <3>1. n - i <= n - j
      BY <2>2, <2>3
    <3>. QED  BY <1>1, <3>1
  <2>. QED  BY <2>4
<1>3. (CHOOSE i \in v : \A j \in v : j <= i) \in v
  BY <1>2
<1>. QED  BY <1>1, <1>3 DEF v, n

LEMMA QueueExcept ==
  ASSUME NEW q, IsQueue(q), NEW x
  PROVE  /\ IsQueue([q EXCEPT !.slots = x]) /\ [q EXCEPT !.slots = x].slots = x
         /\ IsQueue([q EXCEPT !.hard_fault_terminal = x])
         /\ [q EXCEPT !.hard_fault_terminal = x].slots = q.slots
  BY DEF IsQueue

LEMMA PushSlots ==
  ASSUME NEW q, IsQueue(q), NEW low \in Nat, NEW high \in Nat, Slots(q.slots, low, high),
         NEW e, e.timestamp_us \in Nat, low <= e.timestamp_us, e.timestamp_us <= high
  PROVE  IsQueue(push(q, e).queue) /\ Slots(push(q, e).queue.slots, low, high)
<1>. DEFINE v == OrdinaryAt(q.slots)
            newest == CHOOSE i \in v : \A j \in v : j <= i
            shorter == SeqX!RemoveAt(q.slots, newest)
<1>0. PICK T : q.slots \in Seq(T)
  BY DEF Slots
<1>1. Slots(Inserted(q.slots, e), low, high)
  BY InsertedSlots
<1>2. ASSUME v # {} PROVE Slots(Inserted(shorter, e), low, high)
  <2>1. newest \in 1..Len(q.slots)
    BY <1>0, <1>2, NewestFound
  <2>. HIDE DEF newest
  <2>2. Slots(shorter, low, high)
    BY <2>1, RemovedSlots
  <2>. HIDE DEF shorter
  <2>. QED  BY <2>2, InsertedSlots
<1>. HIDE DEF v, shorter
<1>3. \/ push(q, e) = Refused(q)
      \/ push(q, e) = Refused([q EXCEPT !.hard_fault_terminal = TRUE])
      \/ push(q, e) = Admitted(q, Inserted(q.slots, e))
      \/ v # {} /\ push(q, e) = Admitted(q, Inserted(shorter, e))
  BY Zenon DEF push, v, shorter, newest
<1>4. ASSUME NEW x, Slots(x, low, high)
      PROVE  IsQueue(Admitted(q, x).queue) /\ Slots(Admitted(q, x).queue.slots, low, high)
  <2>1. Admitted(q, x).queue = [q EXCEPT !.slots = x]
    BY DEF Admitted
  <2>2. IsQueue([q EXCEPT !.slots = x]) /\ [q EXCEPT !.slots = x].slots = x
    BY QueueExcept, Zenon
  <2>. QED  BY <1>4, <2>1, <2>2, Zenon
<1>5. ASSUME NEW x, IsQueue(x), x.slots = q.slots
      PROVE  IsQueue(Refused(x).queue) /\ Slots(Refused(x).queue.slots, low, high)
  <2>1. Refused(x).queue = x
    BY DEF Refused
  <2>. QED  BY <1>5, <2>1
<1>6. IsQueue([q EXCEPT !.hard_fault_terminal = TRUE]) /\ [q EXCEPT !.hard_fault_terminal = TRUE].slots = q.slots
  BY QueueExcept, Zenon
<1>. QED  BY <1>1, <1>2, <1>3, <1>4, <1>5, <1>6, Zenon

LEMMA PopSlots ==
  ASSUME NEW q, IsQueue(q), NEW low, NEW high, Slots(q.slots, low, high), ~is_empty(q)
  PROVE  LET t == Head(q.slots).timestamp_us IN
         /\ IsQueue(pop(q)) /\ Slots(pop(q).slots, t, high) /\ Slots(pop(q).slots, low, high)
         /\ t \in Nat /\ low <= t /\ t <= high
<1>. DEFINE s == q.slots  t == Head(s).timestamp_us  r == Tail(s)  n == Len(s)
<1>0. PICK T : s \in Seq(T)
  BY DEF Slots
<1>1. IsQueue(pop(q)) /\ pop(q).slots = r
  BY QueueExcept DEF pop
<1>2. s # <<>> /\ n \in Nat \ {0} /\ Head(s) = s[1]
  BY <1>0 DEF is_empty
<1>3. r \in Seq(T) /\ Len(r) = n - 1 /\ \A k \in 1..(n - 1) : r[k] = s[k + 1]
  BY <1>0, <1>2
<1>4. t = Time(s, 1) /\ 1 \in 1..n
  BY <1>2 DEF Time
<1>. HIDE DEF s, r, t
<1>5. t \in Nat /\ low <= t /\ t <= high
  BY <1>4 DEF Slots, Within, s
<1>6. \A k \in 1..(n - 1) : k + 1 \in 1..n /\ Time(r, k) = Time(s, k + 1)
  BY <1>2, <1>3 DEF Time
<1>7. ASSUME NEW k \in 1..(n - 1)
      PROVE  Time(r, k) \in Nat /\ low <= Time(r, k) /\ Time(r, k) <= high /\ t <= Time(r, k)
  <2>1. k + 1 \in 1..n /\ Time(r, k) = Time(s, k + 1) /\ 1 <= k + 1
    BY <1>2, <1>6
  <2>. QED  BY <1>4, <2>1 DEF Slots, Within, InTime, s
<1>8. ASSUME NEW i \in 1..(n - 1), NEW j \in 1..(n - 1), i <= j PROVE Time(r, i) <= Time(r, j)
  <2>1. i + 1 \in 1..n /\ j + 1 \in 1..n /\ i + 1 <= j + 1
    BY <1>2, <1>8
  <2>2. Time(s, i + 1) <= Time(s, j + 1)
    BY <2>1 DEF Slots, InTime, s
  <2>. QED  BY <1>6, <2>2
<1>9. Slots(r, t, high) /\ Slots(r, low, high)
  BY <1>3, <1>7, <1>8 DEF Slots, Within, InTime
<1>. QED  BY <1>1, <1>5, <1>9 DEF t, s

-----------------------------------------------------------------------------
(* Nothing on the bus is older than the event dispatched last or newer     *)
(* than the clock, and what runs is that event.                            *)
IsRun(x) == x = [event |-> x.event, r |-> x.r, a |-> x.a]
TimeInv ==
  /\ clock \in Nat /\ last_time \in Nat /\ last_time <= clock
  /\ IsQueue(bus) /\ Slots(bus.slots, last_time, clock)
  /\ run # Nil => IsRun(run) /\ run.event.timestamp_us = last_time

LEMMA TimeInvInit == Init => TimeInv
<1>. SUFFICES ASSUME Init PROVE TimeInv
  OBVIOUS
<1>1. IsQueue(bus) /\ bus.slots = <<>> /\ clock = 0 /\ last_time = 0 /\ run = Nil
  BY DEF Init, queue_init, IsQueue
<1>2. <<>> \in Seq(Nat)
  OBVIOUS
<1>3. Slots(bus.slots, 0, 0)
  BY <1>1, <1>2 DEF Slots, Within, InTime
<1>. QED  BY <1>1, <1>3 DEF TimeInv

(* The event in progress stays the same until its last recipe is done.     *)
LEMMA RunStays ==
  ASSUME TimeInv, run # Nil, NEW x, x = NextRecipe \/ \E k : x = [run EXCEPT !.a = k]
  PROVE  x # Nil => IsRun(x) /\ x.event = run.event
<1>1. IsRun(run)
  BY DEF TimeInv
<1>2. ASSUME NEW y, IsRun(y), NEW k
      PROVE  IsRun([y EXCEPT !.a = k]) /\ [y EXCEPT !.a = k].event = y.event
  <2>1. [y EXCEPT !.a = k] = [event |-> y.event, r |-> y.r, a |-> k]
    BY <1>2 DEF IsRun
  <2>. QED  BY <2>1 DEF IsRun
<1>3. CASE x = NextRecipe
  BY <1>3 DEF NextRecipe, IsRun
<1>4. CASE \E k : x = [run EXCEPT !.a = k]
  BY <1>1, <1>2, <1>4, ZenonT(30)
<1>. QED  BY <1>3, <1>4

(* A step of the engine that pushes nothing, or an event of the time of    *)
(* the one it works on.                                                    *)
LEMMA EngineKeepsTime ==
  ASSUME TimeInv, run # Nil, UNCHANGED <<clock, last_time>>,
         run' = NextRecipe \/ \E k : run' = [run EXCEPT !.a = k],
         bus' = bus \/ \E e : bus' = push(bus, e).queue /\ e.timestamp_us = run.event.timestamp_us
  PROVE  TimeInv'
<1>1. run' # Nil => IsRun(run') /\ run'.event = run.event
  BY RunStays
<1>2. IsQueue(bus') /\ Slots(bus'.slots, last_time, clock)
  <2>1. CASE bus' = bus
    BY <2>1 DEF TimeInv
  <2>2. ASSUME NEW e, bus' = push(bus, e).queue, e.timestamp_us = run.event.timestamp_us
        PROVE  IsQueue(bus') /\ Slots(bus'.slots, last_time, clock)
    <3>1. e.timestamp_us = last_time /\ last_time \in Nat /\ clock \in Nat /\ last_time <= clock
      BY <2>2 DEF TimeInv
    <3>2. e.timestamp_us \in Nat /\ last_time <= e.timestamp_us /\ e.timestamp_us <= clock
      BY <3>1
    <3>3. IsQueue(bus) /\ Slots(bus.slots, last_time, clock)
      BY DEF TimeInv
    <3>. QED  BY <2>2, <3>1, <3>2, <3>3, PushSlots
  <2>. QED  BY <2>1, <2>2
<1>. QED  BY <1>1, <1>2 DEF TimeInv

LEMMA EventTime ==
  ASSUME NEW type, NEW about, NEW value, NEW class, NEW time
  PROVE  Event(type, about, value, class, time).timestamp_us = time
  BY DEF Event

LEMMA EngineStepKeepsTime == ASSUME TimeInv, EngineStep PROVE TimeInv'
<1>1. run # Nil /\ UNCHANGED <<clock, last_time>>
  BY DEF EngineStep, skip_recipe, invoke_recipe, send_message, set_signal, set_variable,
         action_to_sink, raise_fault, Does, host_vars
<1>2. ASSUME NEW ok, Done(ok) PROVE run' = NextRecipe \/ \E k : run' = [run EXCEPT !.a = k]
  BY <1>2 DEF Done
<1>3. run' = NextRecipe \/ \E k : run' = [run EXCEPT !.a = k]
  <2>1. CASE skip_recipe
    BY <2>1 DEF skip_recipe
  <2>2. CASE invoke_recipe
    BY <2>2 DEF invoke_recipe
  <2>3. CASE send_message \/ set_signal \/ set_variable \/ action_to_sink \/ raise_fault
    <3>1. \E ok : Done(ok)
      BY <2>3 DEF send_message, set_signal, set_variable, action_to_sink, raise_fault
    <3>. QED  BY <1>2, <3>1
  <2>. QED  BY <2>1, <2>2, <2>3 DEF EngineStep
<1>4. bus' = bus \/ \E e : bus' = push(bus, e).queue /\ e.timestamp_us = run.event.timestamp_us
  <2>1. CASE set_signal
    <3>1. bus' = bus \/ \E s, value : announce(s, value, GENERATED, run.event.timestamp_us)
      BY <2>1 DEF set_signal
    <3>2. ASSUME NEW s, NEW value, announce(s, value, GENERATED, run.event.timestamp_us)
          PROVE  \E e : bus' = push(bus, e).queue /\ e.timestamp_us = run.event.timestamp_us
      BY <3>2, EventTime DEF announce
    <3>. QED  BY <3>1, <3>2
  <2>2. CASE raise_fault
    BY <2>2, EventTime DEF raise_fault, FaultTime
  <2>3. CASE skip_recipe \/ invoke_recipe \/ send_message \/ set_variable \/ action_to_sink
    BY <2>3 DEF skip_recipe, invoke_recipe, send_message, set_variable, action_to_sink
  <2>. QED  BY <2>1, <2>2, <2>3 DEF EngineStep
<1>. QED  BY <1>1, <1>3, <1>4, EngineKeepsTime

LEMMA LaterSlots ==
  ASSUME NEW s, NEW low \in Nat, NEW high \in Nat, NEW later \in Nat, high <= later, Slots(s, low, high)
  PROVE  Slots(s, low, later)
  BY DEF Slots, Within

LEMMA InputKeepsTime == ASSUME TimeInv, ingest_frame \/ external_event PROVE TimeInv'
<1>1. run = Nil /\ UNCHANGED <<run, last_time>> /\ clock' \in Nat /\ clock <= clock'
  BY DEF TimeInv, ingest_frame, external_event, Input
<1>2. bus' = bus \/ \E e : bus' = push(bus, e).queue /\ e.timestamp_us = clock'
  <2>1. CASE ingest_frame
    <3>1. bus' = bus \/ \E s, value : announce(s, value, CAN_RX, clock')
      BY <2>1 DEF ingest_frame
    <3>2. ASSUME NEW s, NEW value, announce(s, value, CAN_RX, clock')
          PROVE  \E e : bus' = push(bus, e).queue /\ e.timestamp_us = clock'
      BY <3>2, EventTime DEF announce
    <3>. QED  BY <3>1, <3>2
  <2>2. CASE external_event
    <3>1. PICK x \in External : bus' = push(bus, Event(x.type, x.about, Unset, x.class, clock')).queue
      BY <2>2 DEF external_event
    <3>. QED  BY <3>1, EventTime
  <2>. QED  BY <2>1, <2>2
<1>3. IsQueue(bus) /\ Slots(bus.slots, last_time, clock') /\ last_time \in Nat /\ last_time <= clock'
  BY <1>1, LaterSlots DEF TimeInv
<1>4. IsQueue(bus') /\ Slots(bus'.slots, last_time, clock')
  <2>1. ASSUME NEW e, bus' = push(bus, e).queue, e.timestamp_us = clock'
        PROVE  IsQueue(bus') /\ Slots(bus'.slots, last_time, clock')
    <3>1. e.timestamp_us \in Nat /\ last_time <= e.timestamp_us /\ e.timestamp_us <= clock'
      BY <1>1, <1>3, <2>1
    <3>. QED  BY <1>1, <1>3, <2>1, <3>1, PushSlots
  <2>. QED  BY <1>2, <1>3, <2>1
<1>. QED  BY <1>1, <1>3, <1>4 DEF TimeInv

LEMMA DrainKeepsTime == ASSUME TimeInv, drain_bus PROVE TimeInv' /\ last_time' >= last_time
<1>. DEFINE e == Head(bus.slots)
<1>1. /\ run = Nil /\ ~is_empty(bus) /\ bus' = pop(bus) /\ clock' = clock
      /\ \/ run' = [event |-> e, r |-> 1, a |-> 0] /\ last_time' = e.timestamp_us
         \/ UNCHANGED <<run, last_time>>
  BY DEF drain_bus
<1>2. /\ clock \in Nat /\ last_time \in Nat /\ last_time <= clock
      /\ IsQueue(bus) /\ Slots(bus.slots, last_time, clock)
  BY DEF TimeInv
<1>3. /\ IsQueue(bus') /\ Slots(bus'.slots, e.timestamp_us, clock) /\ Slots(bus'.slots, last_time, clock)
      /\ e.timestamp_us \in Nat /\ last_time <= e.timestamp_us /\ e.timestamp_us <= clock
  BY <1>1, <1>2, PopSlots
<1>. HIDE DEF e
<1>4. CASE UNCHANGED <<run, last_time>>
  BY <1>1, <1>2, <1>3, <1>4 DEF TimeInv
<1>5. CASE run' = [event |-> e, r |-> 1, a |-> 0] /\ last_time' = e.timestamp_us
  <2>1. IsRun(run') /\ run'.event = e
    BY <1>5 DEF IsRun
  <2>. QED  BY <1>1, <1>2, <1>3, <1>5, <2>1 DEF TimeInv
<1>. QED  BY <1>1, <1>4, <1>5

LEMMA TimeInvNext == TimeInv /\ [Next]_vars => TimeInv' /\ (last_time' >= last_time)
<1>. SUFFICES ASSUME TimeInv, [Next]_vars PROVE TimeInv' /\ last_time' >= last_time
  OBVIOUS
<1>0. last_time \in Nat
  BY DEF TimeInv
<1>1. CASE UNCHANGED vars
  BY <1>0, <1>1 DEF vars, host_vars, TimeInv
<1>2. CASE EngineStep
  <2>1. last_time' = last_time
    BY <1>2 DEF EngineStep, skip_recipe, invoke_recipe, send_message, set_signal, set_variable,
                action_to_sink, raise_fault, host_vars
  <2>. QED  BY <1>0, <1>2, <2>1, EngineStepKeepsTime
<1>3. CASE ingest_frame \/ external_event
  <2>1. last_time' = last_time
    BY <1>3 DEF ingest_frame, external_event, Input
  <2>. QED  BY <1>0, <1>3, <2>1, InputKeepsTime
<1>. QED  BY <1>1, <1>2, <1>3, DrainKeepsTime DEF Next

(* The bus never goes back in time, for any recipes, however they feed     *)
(* events back and however full the bus is: the consequences of an event   *)
(* carry its time and are dispatched before anything newer (emit_generated,*)
(* gateway_drain_bus).                                                     *)
THEOREM ConsequencesFirstCorrect == Spec => ConsequencesFirst
<1>1. TimeInv /\ [Next]_vars => [last_time' >= last_time]_vars
  BY TimeInvNext
<1>. QED  BY <1>1, TimeInvInit, TimeInvNext, PTL DEF Spec, ConsequencesFirst

-----------------------------------------------------------------------------
(* Writing a signal and announcing it keeps the two in step.               *)
LEMMA AnnouncedStays ==
  ASSUME NoSilentChange, NEW s, NEW value, NEW class, NEW time,
         store' = Set(store, s, value), announce(s, value, class, time)
  PROVE  NoSilentChange'
<1>. SUFFICES ASSUME NEW x \in DOMAIN store' PROVE x \in lost' \/ Get(announced', x) = store'[x]
  BY DEF NoSilentChange, Get
<1>1. \/ announced' = Set(announced, s, value) /\ lost' = lost \ {s}
      \/ announced' = announced /\ lost' = lost \cup {s}
  BY DEF announce
<1>2. x # s => x \in DOMAIN store /\ store'[x] = store[x]
  BY DEF Set
<1>3. x = s => store'[x] = value
  BY DEF Set
<1>4. x # s => x \in lost \/ Get(announced, x) = store[x]
  BY <1>2 DEF NoSilentChange
<1>. QED  BY <1>1, <1>2, <1>3, <1>4 DEF Set, Get

LEMMA NoSilentChangeNext == NoSilentChange /\ [Next]_vars => NoSilentChange'
<1>. SUFFICES ASSUME NoSilentChange, [Next]_vars PROVE NoSilentChange'
  OBVIOUS
<1>0. ASSUME UNCHANGED <<store, announced, lost>> PROVE NoSilentChange'
  BY <1>0 DEF NoSilentChange, Get
<1>1. CASE UNCHANGED vars
  BY <1>0, <1>1 DEF vars
<1>2. CASE skip_recipe \/ invoke_recipe \/ send_message \/ set_variable \/ action_to_sink \/ raise_fault
  BY <1>0, <1>2 DEF skip_recipe, invoke_recipe, send_message, set_variable, action_to_sink, raise_fault
<1>3. CASE external_event \/ drain_bus
  BY <1>0, <1>3 DEF external_event, drain_bus
<1>4. CASE set_signal
  <2>. DEFINE s == resolve_signal(Action.signal)
  <2>1. \/ UNCHANGED <<store, announced, lost>>
        \/ store' = Set(store, s, Value) /\ announce(s, Value, GENERATED, run.event.timestamp_us)
        \/ /\ store' = Set(store, s, Value) /\ IsSet(Value) /\ Get(store, s) = Value
           /\ UNCHANGED <<announced, lost>>
    BY <1>4 DEF set_signal, values_equal
  <2>. HIDE DEF s
  <2>2. ASSUME store' = Set(store, s, Value), IsSet(Value), Get(store, s) = Value, UNCHANGED <<announced, lost>>
        PROVE  NoSilentChange'
    <3>1. s \in DOMAIN store /\ store[s] = Value
      BY <2>2 DEF Get, IsSet, Unset
    <3>2. \A x \in DOMAIN store' : x \in DOMAIN store /\ store'[x] = store[x]
      BY <2>2, <3>1 DEF Set
    <3>. QED  BY <2>2, <3>2 DEF NoSilentChange, Get
  <2>. QED  BY <1>0, <2>1, <2>2, AnnouncedStays
<1>5. CASE ingest_frame
  <2>1. \/ UNCHANGED <<store, announced, lost>>
        \/ \E f \in Ingress : store' = Set(store, f[1], f[2]) /\ announce(f[1], f[2], CAN_RX, clock')
    BY <1>5 DEF ingest_frame
  <2>. QED  BY <1>0, <2>1, AnnouncedStays
<1>. QED  BY <1>1, <1>2, <1>3, <1>4, <1>5 DEF Next, EngineStep

(* Every value in the store was announced or its announcement refused, for *)
(* any recipes and capacities (recipe_action_set_signal,                   *)
(* gateway_ingest_frame).                                                  *)
THEOREM NoSilentChangeCorrect == Spec => []NoSilentChange
<1>1. Init => NoSilentChange
  BY DEF Init, NoSilentChange
<1>. QED  BY <1>1, NoSilentChangeNext, PTL DEF Spec

-----------------------------------------------------------------------------
(* Arithmetic.  Products are nonlinear for the solver, so each law the     *)
(* proofs need is a lemma.                                                 *)
LEMMA DivMod ==
  ASSUME NEW n \in Int, NEW d \in Int, d > 0
  PROVE  n = d * (n \div d) + (n % d)
  OBVIOUS

LEMMA ProductNat == ASSUME NEW a \in Nat, NEW b \in Nat PROVE a * b \in Nat
  OBVIOUS

LEMMA ProductMono ==
  ASSUME NEW a \in Nat, NEW b \in Nat, NEW c \in Nat, a <= b
  PROVE a * c <= b * c /\ c * a <= c * b
  OBVIOUS

LEMMA ProductAssoc ==
  ASSUME NEW a \in Nat, NEW b \in Nat, NEW c \in Nat
  PROVE a * (b * c) = (a * b) * c /\ a * b = b * a
  OBVIOUS

LEMMA Distribute ==
  ASSUME NEW a \in Nat, NEW b \in Nat, NEW c \in Nat
  PROVE (a + b) * c = a * c + b * c /\ c * (a + b) = c * a + c * b
  OBVIOUS

LEMMA DivBounds ==
  ASSUME NEW n \in Nat, NEW d \in Nat \ {0}
  PROVE  /\ n \div d \in Nat /\ n % d \in Nat /\ n % d < d
         /\ d * (n \div d) \in Nat /\ d * (n \div d) <= n
         /\ n = d * (n \div d) + (n % d)
<1>1. n \div d \in Nat
  OBVIOUS
<1>2. n % d \in Nat /\ n % d < d
  OBVIOUS
<1>3. n \in Int /\ d \in Int /\ d > 0
  OBVIOUS
<1>4. n = d * (n \div d) + (n % d)
  BY <1>3, DivMod
<1>5. d * (n \div d) \in Nat
  BY <1>1, ProductNat
<1>. HIDE <1>1
<1>6. ASSUME NEW x \in Nat, NEW y \in Nat, n = x + y PROVE x <= n
  BY <1>6
<1>7. d * (n \div d) <= n
  BY <1>2, <1>4, <1>5, <1>6
<1>. QED  BY <1>1, <1>2, <1>4, <1>5, <1>7

LEMMA DivLeast ==
  ASSUME NEW n \in Nat, NEW d \in Nat \ {0}, NEW q \in Nat
  PROVE  q * d <= n => q <= n \div d
  OBVIOUS

(* A quotient with a remainder below the divisor is the only one.          *)
LEMMA QuotientBelow ==
  ASSUME NEW d \in Nat \ {0}, NEW a \in Nat, NEW b \in Nat, NEW x \in Nat, NEW y \in Nat,
         x < d, d * a + x = d * b + y
  PROVE  ~(a < b)
<1>. SUFFICES ASSUME a < b PROVE FALSE
  OBVIOUS
<1>1. d * (a + 1) <= d * b
  BY ProductMono
<1>2. d * (a + 1) = d * a + d * 1
  BY Distribute
<1>3. d * a \in Nat /\ d * b \in Nat
  BY ProductNat
<1>4. d * 1 = d
  OBVIOUS
<1>5. ASSUME NEW u \in Nat, NEW v \in Nat, u + d <= v, u + x = v + y PROVE FALSE
  BY <1>5
<1>. QED  BY <1>1, <1>2, <1>3, <1>4, <1>5

-----------------------------------------------------------------------------
(* What maximum_power computes in two parts is the product divided once:   *)
(* no precision is lost by splitting it.                                   *)
LEMMA SplitDivision ==
  ASSUME NEW p \in Nat, NEW e \in Nat, NEW d \in Nat \ {0}
  PROVE  (p \div d) * e + ((p % d) * e) \div d = (p * e) \div d
<1>. DEFINE w == p \div d  r == p % d
            q == (r * e) \div d
            big == (p * e) \div d
<1>1. w \in Nat /\ r \in Nat /\ p = d * w + r
  BY DivBounds
<1>. HIDE DEF w, r
<1>2. r * e \in Nat /\ p * e \in Nat /\ w * e \in Nat
  BY <1>1, ProductNat
<1>3. q \in Nat /\ (r * e) % d \in Nat /\ r * e = d * q + ((r * e) % d) /\ (r * e) % d < d
  BY <1>2, DivBounds
<1>4. big \in Nat /\ (p * e) % d \in Nat /\ p * e = d * big + ((p * e) % d) /\ (p * e) % d < d
  BY <1>2, DivBounds
<1>. HIDE DEF q, big
<1>5. p * e = d * (w * e) + r * e
  <2>1. d * w \in Nat
    BY <1>1, ProductNat
  <2>2. p * e = (d * w) * e + r * e
    BY <1>1, <2>1, Distribute
  <2>. QED  BY <1>1, <2>2, ProductAssoc
<1>6. d * (w * e + q) = d * (w * e) + d * q
  BY <1>2, <1>3, Distribute
<1>7. d * (w * e + q) + ((r * e) % d) = d * big + ((p * e) % d)
  <2>1. d * (w * e) \in Nat /\ d * q \in Nat /\ d * big \in Nat
    BY <1>2, <1>3, <1>4, ProductNat
  <2>2. ASSUME NEW x \in Nat, NEW y \in Nat, NEW z \in Nat, NEW t, NEW u, NEW v,
               t = x + u, u = y + z, v = x + y
        PROVE v + z = t
    BY <2>2
  <2>3. d * (w * e + q) + ((r * e) % d) = p * e
    BY <1>3, <1>5, <1>6, <2>1, <2>2
  <2>. QED  BY <1>4, <2>3
<1>8. w * e + q \in Nat
  BY <1>2, <1>3
<1>9. w * e + q = big
  <2>1. ~(w * e + q < big)
    BY <1>3, <1>4, <1>7, <1>8, QuotientBelow
  <2>2. ~(big < w * e + q)
    BY <1>3, <1>4, <1>7, <1>8, QuotientBelow
  <2>. QED  BY <1>4, <1>8, <2>1, <2>2
<1>. QED  BY <1>9 DEF w, r, q, big

(* The least i with n <= i * d.                                            *)
LEMMA Ceiling ==
  ASSUME NEW n \in Nat, NEW d \in Nat \ {0}, NEW i \in Nat
  PROVE  LET c == (n \div d) + (IF n % d = 0 THEN 0 ELSE 1)
         IN  c \in Nat /\ (n <= i * d => c <= i) /\ (~(n <= i * d) => c > i)
<1>. DEFINE q == n \div d  m == n % d
            c == q + (IF m = 0 THEN 0 ELSE 1)
<1>1. q \in Nat /\ m \in Nat /\ m < d /\ d * q \in Nat /\ n = d * q + m
  BY DivBounds
<1>. HIDE DEF q, m
<1>2. c \in Nat
  BY <1>1
<1>3. i * d \in Nat /\ i * d = d * i
  BY ProductNat, ProductAssoc
<1>4. ASSUME n <= i * d PROVE c <= i
  <2>. SUFFICES ASSUME c > i PROVE FALSE
    BY <1>2
  <2>1. CASE m = 0
    <3>1. i + 1 <= q
      BY <1>1, <2>1
    <3>2. d * (i + 1) <= d * q /\ d * (i + 1) = d * i + d * 1 /\ d * 1 = d
      BY <1>1, <3>1, ProductMono, Distribute
    <3>3. ASSUME NEW u \in Nat, NEW v \in Nat, u + d <= v, v <= u PROVE FALSE
      BY <3>3
    <3>. QED  BY <1>1, <1>3, <1>4, <2>1, <3>2, <3>3
  <2>2. CASE m # 0
    <3>1. i <= q
      BY <1>1, <2>2
    <3>2. d * i <= d * q
      BY <1>1, <3>1, ProductMono
    <3>3. ASSUME NEW u \in Nat, NEW v \in Nat, u <= v, v + m <= u PROVE FALSE
      BY <1>1, <2>2, <3>3
    <3>. QED  BY <1>1, <1>3, <1>4, <3>2, <3>3
  <2>. QED  BY <2>1, <2>2
<1>5. ASSUME ~(n <= i * d) PROVE c > i
  <2>. SUFFICES ASSUME c <= i PROVE FALSE
    BY <1>2
  <2>1. CASE m = 0
    <3>1. q <= i
      BY <1>1, <2>1
    <3>2. d * q <= d * i
      BY <1>1, <3>1, ProductMono
    <3>. QED  BY <1>1, <1>3, <1>5, <2>1, <3>2
  <2>2. CASE m # 0
    <3>1. q + 1 <= i
      BY <1>1, <2>2
    <3>2. d * (q + 1) <= d * i /\ d * (q + 1) = d * q + d * 1 /\ d * 1 = d
      BY <1>1, <3>1, ProductMono, Distribute
    <3>3. ASSUME NEW u \in Nat, NEW v \in Nat, v + d <= u, u < v + m PROVE FALSE
      BY <1>1, <3>3
    <3>4. d * i < d * q + m
      BY <1>1, <1>3, <1>5
    <3>. QED  BY <1>1, <1>3, <3>2, <3>3, <3>4
  <2>. QED  BY <2>1, <2>2
<1>. QED  BY <1>2, <1>4, <1>5 DEF q, m

-----------------------------------------------------------------------------
(* The governor.                                                           *)

Typed(r) ==
  /\ r.power \in 0..UMax /\ r.torque \in 0..UMax
  /\ r.voltage \in 0..UMax /\ r.current \in 0..UMax /\ r.efficiency \in 0..UMax

LEMMA MaximumPower ==
  ASSUME NEW r, Typed(r)
  PROVE  maximum_power(r) = saturate_u32((r.current * r.voltage * r.efficiency) \div PowerDenominator)
<1>1. r.current * r.voltage \in Nat /\ r.efficiency \in Nat
  BY GovernorAssumption, ProductNat DEF Typed
<1>. QED  BY <1>1, SplitDivision, GovernorAssumption DEF maximum_power

(* A power is within maximum_power exactly if it draws no more than the    *)
(* limit in exact arithmetic.                                              *)
LEMMA WithinMaximum ==
  ASSUME NEW r, Typed(r), NEW p \in 0..UMax
  PROVE  /\ maximum_power(r) \in 0..UMax
         /\ p <= maximum_power(r) <=> p * PowerDenominator <= r.current * r.voltage * r.efficiency
<1>. DEFINE n == r.current * r.voltage * r.efficiency
            D == PowerDenominator
            q == n \div D
<1>1. n \in Nat
  BY GovernorAssumption, ProductNat DEF Typed
<1>. HIDE DEF n
<1>2. q \in Nat /\ D * q \in Nat /\ D * q <= n
  BY <1>1, GovernorAssumption, DivBounds
<1>3. p * D <= n => p <= q
  BY <1>1, GovernorAssumption, DivLeast
<1>4. p <= q => p * D <= n
  <2>. SUFFICES ASSUME p <= q PROVE p * D <= n
    OBVIOUS
  <2>1. p * D <= q * D
    BY <1>2, GovernorAssumption, ProductMono
  <2>2. q * D = D * q /\ p * D \in Nat
    BY <1>2, GovernorAssumption, ProductAssoc, ProductNat
  <2>. QED  BY <1>1, <1>2, <2>1, <2>2
<1>5. maximum_power(r) = IF q > UMax THEN UMax ELSE q
  BY MaximumPower DEF saturate_u32, n
<1>. HIDE DEF q
<1>6. maximum_power(r) \in 0..UMax /\ (p <= maximum_power(r) <=> p <= q)
  BY <1>2, <1>5, GovernorAssumption
<1>. QED  BY <1>3, <1>4, <1>6 DEF n

(* The current computed for a request, rounded up and cut to UMax, against *)
(* the limit.                                                              *)
LEMMA RequestedCurrent ==
  ASSUME NEW r, Typed(r), ~Invalid(r)
  PROVE  /\ r.power <= maximum_power(r) => requested_current(r) <= r.current
         /\ ~(r.power <= maximum_power(r)) => ~(requested_current(r) < r.current)
<1>. DEFINE n == r.power * PowerDenominator
            d == r.voltage * r.efficiency
            c == (n \div d) + (IF n % d = 0 THEN 0 ELSE 1)
<1>1. n \in Nat /\ d \in Nat \ {0}
  <2>1. r.power \in Nat /\ r.voltage \in Nat \ {0} /\ r.efficiency \in Nat \ {0}
    BY GovernorAssumption DEF Typed, Invalid
  <2>2. ASSUME NEW a \in Nat \ {0}, NEW b \in Nat \ {0} PROVE a * b \in Nat \ {0}
    <3>1. 1 * b <= a * b
      BY ProductMono
    <3>. QED  BY <3>1, ProductNat
  <2>. QED  BY <2>1, <2>2, ProductNat, GovernorAssumption
<1>2. r.current \in Nat /\ r.current <= UMax
  BY GovernorAssumption DEF Typed
<1>3. r.current * d = r.current * r.voltage * r.efficiency
  BY <1>2, GovernorAssumption, ProductAssoc DEF Typed
<1>4. r.power <= maximum_power(r) <=> n <= r.current * d
  BY <1>3, WithinMaximum DEF Typed
<1>. HIDE DEF n, d
<1>5. c \in Nat /\ (n <= r.current * d => c <= r.current) /\ (~(n <= r.current * d) => c > r.current)
  BY <1>1, <1>2, Ceiling
<1>6. requested_current(r) = IF c > UMax THEN UMax ELSE c
  BY <1>1 DEF requested_current, saturate_u32, n, d
<1>. HIDE DEF c
<1>. QED  BY <1>2, <1>4, <1>5, <1>6, GovernorAssumption

LEMMA ScaledTorque ==
  ASSUME NEW r, Typed(r), NEW allowed \in 0..UMax
  PROVE  scale_torque(r.torque, allowed, r.power) * r.power <= r.torque * allowed
<1>. DEFINE n == r.torque * allowed  q == n \div r.power
            s == scale_torque(r.torque, allowed, r.power)
<1>1. n \in Nat /\ r.power \in Nat
  BY GovernorAssumption, ProductNat DEF Typed
<1>2. CASE r.power = 0
  BY <1>1, <1>2 DEF scale_torque
<1>3. CASE r.power # 0
  <2>. HIDE DEF n
  <2>1. q \in Nat /\ r.power * q \in Nat /\ r.power * q <= n
    BY <1>1, <1>3, DivBounds
  <2>2. s = IF q > UMax THEN UMax ELSE q
    BY <1>3 DEF scale_torque, saturate_u32, n
  <2>. HIDE DEF s, q
  <2>3. s \in Nat /\ s <= q
    BY <2>1, <2>2, GovernorAssumption
  <2>4. s * r.power <= q * r.power /\ q * r.power = r.power * q /\ s * r.power \in Nat
    BY <1>1, <2>1, <2>3, ProductMono, ProductAssoc, ProductNat
  <2>. QED  BY <1>1, <2>1, <2>4 DEF n, s
<1>. QED  BY <1>2, <1>3

(* A controller's request and the answer to it.                            *)
GovernorSpec == GovernorInit /\ [][gate]_governor_vars

LEMMA GateWithinLimit ==
  ASSUME NEW r, Typed(r), gate_response(r).sent
  PROVE  LET a == gate_response(r) IN
         /\ a.power * PowerDenominator <= r.current * r.voltage * r.efficiency
         /\ a.torque * r.power <= r.torque * a.power
         /\ a.fault_code = "NONE" => requested_current(r) <= r.current
         /\ requested_current(r) < r.current => a.fault_code = "NONE"
<1>. DEFINE a == gate_response(r)  m == maximum_power(r)
            allowed == IF r.power < m THEN r.power ELSE m
            e == evaluate_request(r)
<1>1. may_transmit(e) /\ a.power = e.allowed_power /\ a.torque = e.allowed_torque /\ a.fault_code = e.fault_code
  BY DEF gate_response, Pending
<1>2. e.decision # "BLOCK"
  BY <1>1 DEF may_transmit
<1>3. /\ ~Invalid(r)
      /\ e.allowed_power = allowed /\ e.allowed_torque = scale_torque(r.torque, allowed, r.power)
      /\ e.fault_code = IF Exceeds(r) THEN "GOVERNOR_INTERVENTION" ELSE "NONE"
  BY <1>2 DEF evaluate_request, Blocked
<1>4. m \in 0..UMax /\ r.power \in 0..UMax
  BY WithinMaximum DEF Typed
<1>. HIDE DEF m, a, e
<1>5. allowed \in 0..UMax /\ allowed <= m
  BY <1>4, GovernorAssumption
<1>6. Exceeds(r) <=> ~(r.power <= m)
  BY <1>4, GovernorAssumption DEF Exceeds, m
<1>. HIDE DEF allowed
<1>7. allowed * PowerDenominator <= r.current * r.voltage * r.efficiency
  BY <1>5, WithinMaximum DEF m
<1>8. scale_torque(r.torque, allowed, r.power) * r.power <= r.torque * allowed
  BY <1>5, ScaledTorque
<1>9. /\ ~Exceeds(r) => requested_current(r) <= r.current
      /\ Exceeds(r) => ~(requested_current(r) < r.current)
  BY <1>3, <1>6, RequestedCurrent DEF m
<1>. QED  BY <1>1, <1>3, <1>7, <1>8, <1>9 DEF a

(* What is sent is within the limit of the battery for every request of    *)
(* 32-bit numbers and every scale, not only for the small numbers of the   *)
(* run (cancestry_bms_governor_gate_response).                             *)
THEOREM GovernorCorrect == GovernorSpec => []CurrentWithinLimit
<1>. DEFINE Inv == Typed(request) /\ CurrentWithinLimit
<1>1. GovernorInit => Inv
  BY GovernorAssumption DEF GovernorInit, Typed, CurrentWithinLimit, Pending
<1>2. Inv /\ [gate]_governor_vars => Inv'
  <2>. SUFFICES ASSUME Inv, [gate]_governor_vars PROVE Inv'
    OBVIOUS
  <2>1. CASE gate
    <3>1. request' = request /\ answer' = gate_response(request)
      BY <2>1 DEF gate
    <3>2. Typed(request)'
      BY <3>1 DEF Typed
    <3>3. CurrentWithinLimit'
      BY <3>1, GateWithinLimit DEF CurrentWithinLimit, requested_current, saturate_u32
    <3>. QED  BY <3>2, <3>3
  <2>2. CASE UNCHANGED governor_vars
    BY <2>2 DEF governor_vars, Typed, CurrentWithinLimit, requested_current, saturate_u32
  <2>. QED  BY <2>1, <2>2
<1>. QED  BY <1>1, <1>2, PTL DEF GovernorSpec

-----------------------------------------------------------------------------
(* The UDS server.                                                         *)

ServerSpec == ServerInit /\ [][ServerNext]_server_vars

(* The tables are sequences, and the requests are counted.                 *)
Tabled(entries) == \E n \in Nat : DOMAIN entries = 1 .. n

ServerInv ==
  /\ initialized => /\ Tabled(config.dids) /\ Tabled(config.routines)
                    /\ \A k \in DOMAIN config.dids : config.dids[k].length \in Nat
  /\ counters.requests \in Nat

LEMMA LoadedTables ==
  ASSUME NEW doc \in Configurations, Acceptable(doc)
  PROVE  LET c == config_load(doc) IN
         /\ Tabled(c.dids) /\ Tabled(c.routines)
         /\ \A k \in DOMAIN c.dids : c.dids[k].length \in Nat
<1>1. ASSUME NEW entries \in {doc.dids, doc.routines} PROVE Tabled(Listed(entries))
  <2>1. CASE entries = None
    <3>1. DOMAIN <<>> = 1 .. 0
      BY SMTT(30)
    <3>. QED  BY <2>1, <3>1 DEF Tabled, Listed
  <2>2. CASE entries # None
    <3>1. entries # Malformed
      BY <1>1, <2>2 DEF Acceptable
    <3>2. Len(entries) \in Nat /\ DOMAIN entries = 1 .. Len(entries)
      BY <1>1, <2>2, <3>1, UdsAssumption
    <3>. QED  BY <2>2, <3>2 DEF Tabled, Listed
  <2>. QED  BY <2>1, <2>2
<1>2. /\ DOMAIN config_load(doc).dids = DOMAIN Listed(doc.dids)
      /\ DOMAIN config_load(doc).routines = DOMAIN Listed(doc.routines)
  BY DEF config_load, build_config
<1>3. ASSUME NEW k \in DOMAIN config_load(doc).dids PROVE config_load(doc).dids[k].length \in Nat
  <2>1. k \in DOMAIN Listed(doc.dids)
    BY <1>2, <1>3
  <2>2. doc.dids # None /\ Listed(doc.dids) = doc.dids
    BY <2>1 DEF Listed
  <2>3. build_did(doc.dids[k])
    BY <2>1, <2>2 DEF Acceptable
  <2>4. doc.dids[k].length \in Nat
    BY <2>3, UdsAssumption DEF build_did, scalar_uint
  <2>5. config_load(doc).dids[k].length = doc.dids[k].length
    BY <2>1, <2>2 DEF config_load, build_config
  <2>. QED  BY <2>4, <2>5
<1>. QED  BY <1>1, <1>2, <1>3 DEF Tabled

(* The tables are searched by index: 0 is not found.                       *)
LEMMA Searched ==
  ASSUME NEW c, NEW id, Tabled(c.dids), Tabled(c.routines)
  PROVE  /\ find_did(c, id) \in Nat /\ (find_did(c, id) # 0 => find_did(c, id) \in DOMAIN c.dids)
         /\ find_routine(c, id) \in Nat
<1>1. ASSUME NEW n \in Nat, NEW found \in SUBSET (1 .. n)
      PROVE  LET k == IF found = {} THEN 0 ELSE CHOOSE k \in found : \A j \in found : k <= j
             IN  k \in Nat /\ (k # 0 => k \in found)
  <2>1. CASE found = {}
    BY <2>1
  <2>2. CASE found # {}
    <3>1. found \subseteq Nat
      OBVIOUS
    <3>2. \E k \in found : \A j \in found : k <= j
      BY <2>2, <3>1, LeastNatural, Zenon
    <3>3. (CHOOSE k \in found : \A j \in found : k <= j) \in found
      BY <3>2, Zenon
    <3>. QED  BY <2>2, <3>1, <3>3
  <2>. QED  BY <2>1, <2>2
<1>2. find_did(c, id) \in Nat /\ (find_did(c, id) # 0 => find_did(c, id) \in DOMAIN c.dids)
  <2>. DEFINE found == {k \in DOMAIN c.dids : c.dids[k].did = id}
  <2>1. PICK n \in Nat : DOMAIN c.dids = 1 .. n
    BY DEF Tabled
  <2>2. found \in SUBSET (1 .. n)
    BY <2>1
  <2>3. find_did(c, id) = IF found = {} THEN 0 ELSE CHOOSE k \in found : \A j \in found : k <= j
    BY DEF find_did, IndexOf
  <2>. HIDE DEF found
  <2>4. find_did(c, id) \in Nat /\ (find_did(c, id) # 0 => find_did(c, id) \in found)
    BY <1>1, <2>2, <2>3
  <2>. QED  BY <2>4 DEF found
<1>3. find_routine(c, id) \in Nat
  BY <1>1 DEF find_routine, IndexOf, Tabled
<1>. QED  BY <1>2, <1>3

(* What a reply leaves alone.                                              *)
Untouched(result) == result.data = did_data /\ result.store = signal_store

LEMMA NegativeUntouched ==
  ASSUME NEW sid, NEW nrc, NEW capacity, NEW status, NEW response
  PROVE  /\ Untouched(negative(sid, nrc, capacity))
         /\ Untouched(Denied(negative(sid, nrc, capacity)))
         /\ Untouched(AnsweredOnly(status, response))
  BY DEF Untouched, negative, Denied, AnsweredOnly, Answered

LEMMA ReadUntouched ==
  ASSUME ServerInv, initialized, NEW req, Len(req) \in Nat, NEW capacity \in Nat
  PROVE  Untouched(read_data_by_identifier(req, capacity))
<1>. DEFINE index == IF Len(req) = 3 THEN find_did(config, Identifier(req, 2)) ELSE 0
            entry == config.dids[index]
            value == IF attached /\ entry.signal # None THEN Get(signal_store, did_signal_ids[index]) ELSE Unset
            answered == IF IsSet(value) /\ ~Encodable(value, entry.length)
                        THEN negative(RDBI, CONDITIONS_NOT_CORRECT, capacity)
                        ELSE AnsweredOnly("OK", <<RDBI + POSITIVE_OFFSET, req[2], req[3]>>
                                             \o IF IsSet(value) THEN encode_value_le(value, entry.length)
                                                ELSE SlotOf(did_data, entry))
            result == read_data_by_identifier(req, capacity)
<1>1. index \in Nat
  BY Searched DEF ServerInv
<1>2. Untouched(answered)
  BY NegativeUntouched
<1>3. \/ result = negative(RDBI, INCORRECT_MESSAGE_LENGTH, capacity)
      \/ result = negative(RDBI, REQUEST_OUT_OF_RANGE, capacity)
      \/ result = AnsweredOnly("CAPACITY", <<>>)
      \/ result = answered
  <2>1. CASE Len(req) # 3
    BY <2>1 DEF read_data_by_identifier
  <2>2. CASE Len(req) = 3 /\ index = 0
    BY <2>2, SMTT(30) DEF read_data_by_identifier
  <2>3. CASE index > 0 /\ capacity < entry.length + 3
    BY <1>1, <2>3, SMTT(30) DEF read_data_by_identifier
  <2>4. CASE index > 0 /\ ~(capacity < entry.length + 3)
    <3>1. index \in DOMAIN config.dids
      BY <2>4, Searched DEF ServerInv
    <3>2. entry.length \in Nat
      BY <3>1 DEF ServerInv
    <3>3. capacity >= entry.length + 3
      BY <2>4, <3>2, SMTT(30)
    <3>. QED  BY <1>1, <2>4, <3>3 DEF read_data_by_identifier
  <2>. QED  BY <1>1, <2>1, <2>2, <2>3, <2>4
<1>. QED  BY <1>2, <1>3, NegativeUntouched

LEMMA RoutineUntouched ==
  ASSUME ServerInv, initialized, NEW req, NEW capacity \in Nat, NEW decision \in BOOLEAN
  PROVE  Untouched(routine_control(req, capacity, decision))
<1>. DEFINE index == find_routine(config, Identifier(req, 3))
<1>1. index \in Nat
  BY Searched DEF ServerInv
<1>. QED  BY <1>1, NegativeUntouched DEF routine_control

LEMMA WriteAllOrNothing ==
  ASSUME ServerInv, initialized, NEW req, Len(req) \in Nat, NEW capacity \in Nat, NEW decision \in BOOLEAN,
         write_data_by_identifier(req, capacity, decision).status # "OK"
  PROVE  Untouched(write_data_by_identifier(req, capacity, decision))
<1>. DEFINE index == IF Len(req) >= 3 THEN find_did(config, Identifier(req, 2)) ELSE 0
            result == write_data_by_identifier(req, capacity, decision)
            effect == mirror_and_store(index, SubSeq(req, 4, Len(req)))
            done == IF effect.ok
                    THEN Answered("OK", <<WDBI + POSITIVE_OFFSET, req[2], req[3]>>, effect.data, effect.store)
                    ELSE Answered("NEGATIVE", <<NEGATIVE, WDBI, GENERAL_PROGRAMMING_FAILURE>>,
                                  effect.data, effect.store)
<1>1. index \in Nat
  BY Searched DEF ServerInv
<1>2. done.status # "OK" => Untouched(done)
  BY DEF Answered, Untouched, mirror_and_store
<1>3. \/ result = negative(WDBI, INCORRECT_MESSAGE_LENGTH, capacity)
      \/ result = negative(WDBI, REQUEST_OUT_OF_RANGE, capacity)
      \/ result = AnsweredOnly("CAPACITY", <<>>)
      \/ result = Denied(negative(WDBI, CONDITIONS_NOT_CORRECT, capacity))
      \/ result = done
  BY <1>1 DEF write_data_by_identifier
<1>. QED  BY <1>2, <1>3, NegativeUntouched, SMTT(30)

LEMMA ServiceAllOrNothing ==
  ASSUME ServerInv, initialized, NEW req \in ClientRequests, NEW capacity \in Capacities,
         NEW decision \in BOOLEAN, service(req, capacity, decision).status # "OK"
  PROVE  Untouched(service(req, capacity, decision))
<1>1. Len(req) \in Nat /\ capacity \in Nat
  BY UdsAssumption
<1>2. \/ service(req, capacity, decision) \in {negative(0, SERVICE_NOT_SUPPORTED, capacity),
                                              negative(req[1], SERVICE_NOT_SUPPORTED, capacity)}
      \/ service(req, capacity, decision) = read_data_by_identifier(req, capacity)
      \/ service(req, capacity, decision) = write_data_by_identifier(req, capacity, decision)
      \/ service(req, capacity, decision) = routine_control(req, capacity, decision)
  BY DEF service
<1>. QED  BY <1>1, <1>2, NegativeUntouched, ReadUntouched, RoutineUntouched, WriteAllOrNothing

LEMMA ServerInvInductive == ServerSpec => []ServerInv
<1>1. ServerInit => ServerInv
  <2>. SUFFICES ASSUME ServerInit PROVE ServerInv
    OBVIOUS
  <2>1. counters.requests \in Nat
    BY DEF ServerInit, NoCounts
  <2>2. ASSUME initialized
        PROVE  /\ Tabled(config.dids) /\ Tabled(config.routines)
               /\ \A k \in DOMAIN config.dids : config.dids[k].length \in Nat
    <3>1. PICK doc \in Configurations : config = config_load(doc)
      BY DEF ServerInit
    <3>2. config # None
      BY <2>2 DEF ServerInit
    <3>3. Acceptable(doc)
      BY <3>1, <3>2 DEF config_load
    <3>. QED  BY <3>1, <3>3, LoadedTables
  <2>. QED  BY <2>1, <2>2 DEF ServerInv
<1>2. ServerInv /\ [ServerNext]_server_vars => ServerInv'
  <2>. SUFFICES ASSUME ServerInv, [ServerNext]_server_vars PROVE ServerInv'
    OBVIOUS
  <2>1. CASE process
    BY <2>1 DEF process, counted, ServerInv, Tabled
  <2>2. CASE other_writer
    BY <2>2 DEF other_writer, ServerInv, Tabled
  <2>3. CASE UNCHANGED server_vars
    BY <2>3 DEF server_vars, ServerInv, Tabled
  <2>. QED  BY <2>1, <2>2, <2>3 DEF ServerNext
<1>. QED  BY <1>1, <1>2, PTL DEF ServerSpec

(* No refused request leaves a trace in the DID data or in the signals,    *)
(* for every configuration, request and response buffer: the signal is     *)
(* mirrored before the bytes are stored, and a missing slot stops both     *)
(* (write_data_by_identifier).                                             *)
THEOREM NoPartialEffectCorrect == ServerSpec => NoPartialEffect
<1>. DEFINE Step == counters'.requests > counters.requests /\ reply'.status # "OK"
                      => UNCHANGED <<did_data, signal_store>>
<1>1. ServerInv /\ [ServerNext]_server_vars => [Step]_server_vars
  <2>. SUFFICES ASSUME ServerInv, ServerNext PROVE Step
    OBVIOUS
  <2>1. CASE process
    <3>1. PICK req \in ClientRequests, capacity \in Capacities, decision \in BOOLEAN :
            LET result == service(req, capacity, decision)
            IN  /\ reply' = [status |-> result.status, response |-> result.response]
                /\ did_data' = result.data
                /\ signal_store' = result.store
      BY <2>1 DEF process
    <3>2. initialized
      BY <2>1 DEF process
    <3>3. reply'.status = service(req, capacity, decision).status
      BY <3>1
    <3>. QED  BY <3>1, <3>2, <3>3, ServiceAllOrNothing DEF Untouched
  <2>2. CASE other_writer
    <3>1. counters' = counters /\ counters.requests \in Nat
      BY <2>2 DEF other_writer, ServerInv
    <3>. QED  BY <3>1
  <2>. QED  BY <2>1, <2>2 DEF ServerNext
<1>. QED  BY <1>1, ServerInvInductive, PTL DEF ServerSpec, NoPartialEffect

-----------------------------------------------------------------------------
(* Reading back what was written.  First, induction up to a number, and    *)
(* that a function defined by recursion on 0 .. n exists.                  *)
LEMMA CountedUp ==
  ASSUME NEW n \in Nat, NEW P, 0 \in P, \A k \in 1 .. n : k - 1 \in P => k \in P
  PROVE  \A k \in 0 .. n : k \in P
<1>. DEFINE T == {j \in 0 .. n : j \notin P}
<1>. SUFFICES ASSUME T # {} PROVE FALSE
  OBVIOUS
<1>1. T \subseteq Nat
  OBVIOUS
<1>2. PICK m \in T : \A j \in T : m <= j
  BY <1>1, LeastNatural, Zenon
<1>3. m \in 1 .. n /\ m \notin P
  BY <1>2
<1>4. m - 1 \in P
  BY <1>2, <1>3
<1>. QED  BY <1>3, <1>4

Recursion(G, x, n, f) == f = [k \in 0 .. n |-> IF k = 0 THEN x ELSE G[k][f[k - 1]]]

LEMMA SequenceFunction ==
  ASSUME NEW T, NEW x \in Seq(T)
  PROVE  Len(x) \in Nat /\ x \in [1 .. Len(x) -> T]
  OBVIOUS

LEMMA FunctionSequence ==
  ASSUME NEW T, NEW n \in Nat, NEW x \in [1 .. n -> T]
  PROVE  x \in Seq(T) /\ Len(x) = n
  OBVIOUS

LEMMA RecursiveFunction ==
  ASSUME NEW S, NEW n \in Nat, NEW x \in S, NEW G \in [1 .. n -> [S -> S]]
  PROVE  \E f \in [0 .. n -> S] : Recursion(G, x, n, f)
<1>. DEFINE Defined(f, m) == f = [k \in 0 .. m |-> IF k = 0 THEN x ELSE G[k][f[k - 1]]]
            P == {m \in 0 .. n : \E f \in [0 .. m -> S] : Defined(f, m)}
<1>1. 0 \in P
  <2>. DEFINE f == [k \in 0 .. 0 |-> x]
  <2>1. f \in [0 .. 0 -> S] /\ \A k \in 0 .. 0 : f[k] = IF k = 0 THEN x ELSE G[k][f[k - 1]]
    OBVIOUS
  <2>. HIDE DEF f
  <2>2. Defined(f, 0)
    BY <2>1
  <2>. QED  BY <2>1, <2>2
<1>2. ASSUME NEW m \in 1 .. n, m - 1 \in P PROVE m \in P
  <2>1. PICK f \in [0 .. m - 1 -> S] : Defined(f, m - 1)
    BY <1>2
  <2>. DEFINE g == [k \in 0 .. m |-> IF k = m THEN G[m][f[m - 1]] ELSE f[k]]
  <2>2. f[m - 1] \in S /\ G[m] \in [S -> S]
    OBVIOUS
  <2>3. g \in [0 .. m -> S]
    BY <2>2
  <2>4. \A k \in 0 .. m : g[k] = IF k = 0 THEN x ELSE G[k][g[k - 1]]
    <3>. SUFFICES ASSUME NEW k \in 0 .. m PROVE g[k] = IF k = 0 THEN x ELSE G[k][g[k - 1]]
      OBVIOUS
    <3>1. m \in Nat /\ k # 0 => k - 1 \in 0 .. m - 1 /\ g[k - 1] = f[k - 1]
      OBVIOUS
    <3>2. CASE k = m
      BY <3>1, <3>2
    <3>3. CASE k # m
      <4>1. k \in 0 .. m - 1
        BY <3>3
      <4>2. f[k] = IF k = 0 THEN x ELSE G[k][f[k - 1]]
        BY <2>1, <4>1
      <4>. QED  BY <3>1, <3>3, <4>2
    <3>. QED  BY <3>2, <3>3
  <2>. HIDE DEF g
  <2>5. Defined(g, m)
    BY <2>3, <2>4
  <2>. HIDE DEF Defined
  <2>. QED  BY <2>3, <2>5
<1>. HIDE DEF P
<1>3. \A m \in 0 .. n : m \in P
  BY <1>1, <1>2, CountedUp
<1>. QED  BY <1>3 DEF P, Recursion

LEMMA ByteConstants ==
  /\ ByteBase \in Nat /\ ByteBase > 1 /\ LengthMax \in Nat
  /\ \A req \in ClientRequests : req \in Seq(Nat) /\ \A k \in 2 .. Len(req) : req[k] < ByteBase
<1>1. /\ ByteBase \in Nat \ {0, 1} /\ LengthMax \in Nat
      /\ \A req \in ClientRequests : req \in Seq(Nat) /\ \A k \in 2 .. Len(req) : req[k] < ByteBase
  BY UdsAssumption, Zenon
<1>. QED  BY <1>1

(* The weights of the bytes.                                               *)
LEMMA RadixIs ==
  /\ \A k \in 0 .. LengthMax : Radix[k] \in Nat /\ Radix[k] > 0
  /\ Radix[0] = 1
  /\ \A k \in 1 .. LengthMax : Radix[k] = ByteBase * Radix[k - 1]
<1>. DEFINE n == LengthMax
            S == Nat \ {0}
            G == [k \in 1 .. n |-> [v \in S |-> ByteBase * v]]
            Def(f) == f = [k \in 0 .. n |-> IF k = 0 THEN 1 ELSE ByteBase * f[k - 1]]
<1>0. n \in Nat /\ ByteBase \in Nat /\ ByteBase > 0 /\ 1 \in S
  BY ByteConstants
<1>1. \A v \in S : ByteBase * v \in S
  BY <1>0
<1>2. G \in [1 .. n -> [S -> S]] /\ \A k \in 1 .. n : \A v \in S : G[k][v] = ByteBase * v
  BY <1>1
<1>. HIDE DEF S, G, n
<1>3. PICK f \in [0 .. n -> S] : Recursion(G, 1, n, f)
  <2>1. n \in Nat /\ 1 \in S /\ G \in [1 .. n -> [S -> S]]
    BY <1>0, <1>2
  <2>. QED  BY <2>1, RecursiveFunction, Zenon
<1>4. Def(f)
  <2>1. \A k \in 1 .. n : G[k][f[k - 1]] = ByteBase * f[k - 1]
    <3>1. \A k \in 1 .. n : k - 1 \in 0 .. n
      BY <1>0
    <3>. QED  BY <1>2, <3>1
  <2>2. [k \in 0 .. n |-> IF k = 0 THEN 1 ELSE G[k][f[k - 1]]] = [k \in 0 .. n |-> IF k = 0 THEN 1 ELSE ByteBase * f[k - 1]]
    BY <1>0, <2>1
  <2>. QED  BY <1>3, <2>2 DEF Recursion
<1>5. Radix = CHOOSE g : Def(g)
  BY DEF Radix, n
<1>6. Def(Radix)
  BY <1>4, <1>5
<1>7. Radix[0] = 1 /\ \A k \in 1 .. n : Radix[k] = ByteBase * Radix[k - 1]
  BY <1>0, <1>6
<1>. DEFINE P == {k \in 0 .. n : Radix[k] \in S}
<1>8. 0 \in P
  BY <1>0, <1>7
<1>9. ASSUME NEW k \in 1 .. n, k - 1 \in P PROVE k \in P
  BY <1>0, <1>1, <1>7, <1>9
<1>. HIDE DEF P
<1>10. \A k \in 0 .. n : k \in P
  BY <1>0, <1>8, <1>9, CountedUp
<1>. QED  BY <1>7, <1>10 DEF P, S, n

(* Decoding runs from the last byte down, each above the ones decoded.     *)
Above(d, v) == d + ByteBase * v

LEMMA AboveIs == \A d, v \in Nat : Above(d, v) \in Nat
  BY ByteConstants DEF Above

Decoding(data, from) ==
  from = [k \in 1 .. Len(data) + 1 |-> IF k > Len(data) THEN 0 ELSE Above(data[k], from[k + 1])]

LEMMA DecodeIs ==
  ASSUME NEW data \in Seq(0 .. ByteMax)
  PROVE  \E from \in [1 .. Len(data) + 1 -> Nat] :
           /\ decode_le(data) = from[1] /\ from[Len(data) + 1] = 0
           /\ \A k \in 1 .. Len(data) : from[k] = Above(data[k], from[k + 1])
<1>. DEFINE n == Len(data)
            G == [j \in 1 .. n |-> [v \in Nat |-> Above(data[n + 1 - j], v)]]
<1>0. /\ n \in Nat /\ 0 \in Nat /\ ByteBase \in Nat
      /\ \A j \in 1 .. n : n + 1 - j \in 1 .. n /\ data[j] \in Nat
  BY ByteConstants DEF ByteMax
<1>1. \A j \in 1 .. n : \A v \in Nat : Above(data[n + 1 - j], v) \in Nat
  BY <1>0, AboveIs
<1>2. G \in [1 .. n -> [Nat -> Nat]] /\ \A j \in 1 .. n : \A v \in Nat : G[j][v] = Above(data[n + 1 - j], v)
  BY <1>1
<1>. HIDE DEF G, n
<1>3. PICK g \in [0 .. n -> Nat] : Recursion(G, 0, n, g)
  BY <1>0, <1>2, RecursiveFunction
<1>4. g[0] = 0 /\ \A j \in 1 .. n : g[j] = Above(data[n + 1 - j], g[j - 1])
  <2>1. \A j \in 0 .. n : g[j] = IF j = 0 THEN 0 ELSE G[j][g[j - 1]]
    BY <1>3 DEF Recursion
  <2>2. \A j \in 1 .. n : g[j - 1] \in Nat /\ j \in 0 .. n /\ j # 0
    BY <1>0
  <2>3. \A j \in 1 .. n : g[j] = G[j][g[j - 1]]
    BY <2>1, <2>2
  <2>4. g[0] = 0
    BY <1>0, <2>1
  <2>5. ASSUME NEW j \in 1 .. n PROVE g[j] = Above(data[n + 1 - j], g[j - 1])
    <3>1. g[j - 1] \in Nat /\ g[j] = G[j][g[j - 1]]
      BY <2>2, <2>3
    <3>2. G[j][g[j - 1]] = Above(data[n + 1 - j], g[j - 1])
      BY <1>2, <3>1
    <3>. QED  BY <3>1, <3>2
  <2>. QED  BY <2>4, <2>5
<1>. DEFINE h == [k \in 1 .. n + 1 |-> g[n + 1 - k]]
<1>5. h[n + 1] = 0 /\ \A k \in 1 .. n : h[k] = Above(data[k], h[k + 1])
  <2>1. h[n + 1] = 0
    BY <1>0, <1>4
  <2>2. ASSUME NEW k \in 1 .. n PROVE h[k] = Above(data[k], h[k + 1])
    <3>. DEFINE j == n + 1 - k
    <3>1. j \in 1 .. n /\ n + 1 - j = k /\ j - 1 = n + 1 - (k + 1) /\ k \in 1 .. n + 1 /\ k + 1 \in 1 .. n + 1
      BY <1>0
    <3>2. h[k] = g[j] /\ h[k + 1] = g[j - 1]
      BY <3>1
    <3>. HIDE DEF j, h
    <3>. QED  BY <1>4, <3>1, <3>2
  <2>. QED  BY <2>1, <2>2
<1>6. Decoding(data, h)
  <2>1. h = [k \in 1 .. n + 1 |-> h[k]]
    OBVIOUS
  <2>. HIDE DEF h
  <2>2. ASSUME NEW k \in 1 .. n + 1 PROVE h[k] = IF k > n THEN 0 ELSE Above(data[k], h[k + 1])
    <3>1. (k = n + 1 /\ k > n) \/ (k \in 1 .. n /\ ~(k > n))
      BY <1>0
    <3>. QED  BY <1>5, <3>1
  <2>. QED  BY <2>1, <2>2 DEF Decoding, n
<1>. DEFINE from == CHOOSE f : Decoding(data, f)
<1>7. decode_le(data) = from[1]
  BY DEF decode_le, Decoding, Above
<1>8. Decoding(data, from)
  BY <1>6
<1>. HIDE DEF from, h
<1>9. from[n + 1] = 0 /\ \A k \in 1 .. n : from[k] = Above(data[k], from[k + 1])
  <2>1. \A k \in 1 .. n + 1 : from[k] = IF k > n THEN 0 ELSE Above(data[k], from[k + 1])
    BY <1>8 DEF Decoding, n
  <2>2. n + 1 \in 1 .. n + 1 /\ n + 1 > n /\ \A k \in 1 .. n : k \in 1 .. n + 1 /\ ~(k > n)
    BY <1>0
  <2>. QED  BY <2>1, <2>2
<1>. DEFINE P == {j \in 0 .. n : from[n + 1 - j] \in Nat}
<1>10. 0 \in P
  BY <1>0, <1>9
<1>11. ASSUME NEW j \in 1 .. n, j - 1 \in P PROVE j \in P
  <2>1. n + 1 - j \in 1 .. n /\ n + 1 - (j - 1) = (n + 1 - j) + 1
    BY <1>0
  <2>2. from[(n + 1 - j) + 1] \in Nat
    BY <1>11, <2>1
  <2>3. data[n + 1 - j] \in Nat
    BY <1>0, <2>1
  <2>4. from[n + 1 - j] \in Nat
    BY <1>0, <1>9, <2>1, <2>2, <2>3, AboveIs
  <2>. QED  BY <2>4
<1>12. \A j \in 0 .. n : j \in P
  <2>. HIDE DEF P
  <2>. QED  BY <1>0, <1>10, <1>11, CountedUp
<1>13. \A k \in 1 .. n + 1 : from[k] \in Nat
  <2>. SUFFICES ASSUME NEW k \in 1 .. n + 1 PROVE from[k] \in Nat
    OBVIOUS
  <2>1. n + 1 - k \in 0 .. n /\ n + 1 - (n + 1 - k) = k
    BY <1>0
  <2>2. n + 1 - k \in P
    BY <1>12, <2>1
  <2>. QED  BY <2>1, <2>2
<1>14. from \in [1 .. n + 1 -> Nat]
  BY <1>8, <1>13 DEF Decoding, n
<1>. QED  BY <1>7, <1>9, <1>14 DEF n

LEMMA Quotient ==
  ASSUME NEW m \in Nat \ {0}, NEW q \in Nat, NEW low \in Nat, low < m, NEW x, x = low + m * q
  PROVE  x \div m = q /\ x % m = low
  OBVIOUS


(* Encoding gives the bytes back that decoding took.                       *)
LEMMA Digits ==
  ASSUME NEW data \in Seq(0 .. ByteMax), Len(data) <= LengthMax
  PROVE  /\ decode_le(data) \in Nat /\ decode_le(data) < Radix[Len(data)]
         /\ encode_value_le(UIntV(decode_le(data)), Len(data)) = data
<1>. DEFINE n == Len(data)
<1>0. /\ n \in Nat /\ n <= LengthMax /\ LengthMax \in Nat /\ ByteBase \in Nat /\ ByteBase > 1
      /\ \A k \in 1 .. n : data[k] \in Nat /\ data[k] <= ByteBase - 1
      /\ data = [k \in 1 .. n |-> data[k]]
  BY ByteConstants DEF ByteMax
<1>1. PICK from \in [1 .. n + 1 -> Nat] :
        /\ decode_le(data) = from[1] /\ from[n + 1] = 0
        /\ \A k \in 1 .. n : from[k] = data[k] + ByteBase * from[k + 1]
  <2>1. PICK from \in [1 .. n + 1 -> Nat] :
          /\ decode_le(data) = from[1] /\ from[n + 1] = 0
          /\ \A k \in 1 .. n : from[k] = Above(data[k], from[k + 1])
    BY DecodeIs
  <2>2. \A k \in 1 .. n : from[k] = data[k] + ByteBase * from[k + 1]
    BY <2>1 DEF Above
  <2>. QED  BY <2>1, <2>2
<1>. HIDE DEF n
<1>. DEFINE Low(k, low) == low \in Nat /\ low < Radix[k] /\ from[1] = low + Radix[k] * from[k + 1]
            P == {k \in 0 .. n : \E low : Low(k, low)}
<1>2. 0 \in P
  <2>1. from[1] \in Nat /\ Radix[0] = 1
    BY <1>0, RadixIs
  <2>2. Low(0, 0)
    BY <2>1
  <2>. QED  BY <1>0, <2>2, SMTT(30)
<1>3. ASSUME NEW k \in 1 .. n, k - 1 \in P PROVE k \in P
  <2>1. PICK low : Low(k - 1, low)
    BY <1>3
  <2>2. /\ k \in 1 .. LengthMax /\ k - 1 \in 0 .. LengthMax /\ (k - 1) + 1 = k
        /\ from[k] \in Nat /\ from[k + 1] \in Nat /\ data[k] \in Nat /\ data[k] <= ByteBase - 1
    BY <1>0, SMTT(30)
  <2>. DEFINE r == Radix[k - 1]  q == from[k + 1]  d == data[k]
  <2>3. r \in Nat /\ r > 0 /\ Radix[k] = ByteBase * r
    BY <2>2, RadixIs
  <2>4. low \in Nat /\ low < r /\ from[1] = low + r * from[k]
    BY <2>1, <2>2
  <2>5. from[k] = d + ByteBase * q
    BY <1>1
  <2>6. q \in Nat /\ d \in Nat /\ d <= ByteBase - 1 /\ ByteBase \in Nat /\ ByteBase > 1
    BY <1>0, <2>2
  <2>. HIDE DEF r, q, d
  <2>7. r * from[k] = r * d + (ByteBase * r) * q
    BY <2>3, <2>5, <2>6
  <2>8. r * d \in Nat /\ r * d <= r * (ByteBase - 1)
    BY <2>3, <2>6
  <2>9. r * (ByteBase - 1) = ByteBase * r - r
    BY <2>3, <2>6
  <2>. DEFINE new == low + r * d
  <2>10. new \in Nat /\ new < Radix[k]
    <3>. DEFINE x == r * d  y == ByteBase * r
    <3>1. x \in Nat /\ y \in Nat /\ x <= y - r /\ Radix[k] = y /\ new = low + x
      BY <2>3, <2>6, <2>8, <2>9
    <3>. HIDE DEF x, y, new
    <3>. QED  BY <2>3, <2>4, <3>1
  <2>11. from[1] = new + Radix[k] * q
    <3>. DEFINE x == r * d  z == (ByteBase * r) * q
    <3>1. x \in Nat /\ z \in Nat /\ r * from[k] = x + z /\ Radix[k] * q = z /\ new = low + x
      BY <2>3, <2>6, <2>7, <2>8
    <3>2. from[1] = low + (x + z)
      BY <2>4, <3>1
    <3>. HIDE DEF x, z, new
    <3>. QED  BY <2>4, <3>1, <3>2
  <2>12. Low(k, new)
    BY <2>10, <2>11 DEF q
  <2>. HIDE DEF Low
  <2>. QED  BY <2>12
<1>4. \A k \in 0 .. n : \E low : Low(k, low)
  <2>1. \A k \in 0 .. n : k \in P
    <3>. HIDE DEF P
    <3>. QED  BY <1>0, <1>2, <1>3, CountedUp
  <2>. QED  BY <2>1
<1>5. from[1] \in Nat /\ from[1] < Radix[n]
  <2>1. PICK low : Low(n, low)
    BY <1>0, <1>4, SMTT(30)
  <2>2. Radix[n] \in Nat /\ Radix[n] * from[n + 1] = 0
    BY <1>0, <1>1, RadixIs
  <2>. QED  BY <2>1, <2>2
<1>. DEFINE v == decode_le(data)
<1>6. v \in Nat /\ v < Radix[n] /\ v % Radix[n] = v
  <2>1. v \in Nat /\ v < Radix[n] /\ Radix[n] \in Nat
    BY <1>0, <1>1, <1>5, RadixIs
  <2>. HIDE DEF v
  <2>. QED  BY <2>1, SMTT(30)
<1>7. ASSUME NEW k \in 1 .. n PROVE ((v % Radix[n]) \div Radix[k - 1]) % ByteBase = data[k]
  <2>1. /\ k - 1 \in 0 .. n /\ k - 1 \in 0 .. LengthMax /\ (k - 1) + 1 = k
        /\ from[k] \in Nat /\ from[k + 1] \in Nat /\ data[k] \in Nat /\ data[k] < ByteBase
    BY <1>0, SMTT(30)
  <2>2. PICK low : Low(k - 1, low)
    BY <1>4, <2>1
  <2>3. Radix[k - 1] \in Nat \ {0}
    BY <2>1, RadixIs
  <2>4. v = low + Radix[k - 1] * from[k] /\ low \in Nat /\ low < Radix[k - 1]
    BY <1>1, <2>1, <2>2
  <2>5. v \div Radix[k - 1] = from[k]
    <3>. DEFINE r == Radix[k - 1]  q == from[k]
    <3>1. r \in Nat \ {0} /\ q \in Nat /\ low \in Nat /\ low < r /\ v = low + r * q
      BY <2>1, <2>3, <2>4
    <3>. HIDE DEF r, q, v
    <3>2. v \div r = q
      BY <3>1, Quotient
    <3>. QED  BY <3>2 DEF r, q
  <2>6. from[k] = data[k] + ByteBase * from[k + 1] /\ ByteBase \in Nat \ {0}
    BY <1>0, <1>1
  <2>7. from[k] % ByteBase = data[k]
    <3>. DEFINE x == from[k]  q == from[k + 1]  d == data[k]
    <3>1. ByteBase \in Nat \ {0} /\ q \in Nat /\ d \in Nat /\ d < ByteBase /\ x = d + ByteBase * q
      BY <2>1, <2>6
    <3>. HIDE DEF x, q, d
    <3>2. x % ByteBase = d
      BY <3>1, Quotient
    <3>. QED  BY <3>2 DEF x, d
  <2>. QED  BY <1>6, <2>5, <2>7
<1>8. encode_value_le(UIntV(v), n) = data
  <2>1. UIntV(v).v = v
    BY DEF UIntV
  <2>. HIDE DEF v
  <2>2. encode_value_le(UIntV(v), n) = [k \in 1 .. n |-> ((v % Radix[n]) \div Radix[k - 1]) % ByteBase]
    BY <2>1 DEF encode_value_le
  <2>. QED  BY <1>0, <1>7, <2>2
<1>. QED  BY <1>6, <1>8 DEF n


-----------------------------------------------------------------------------
(* The slots of the DIDs follow one another in the buffer.                 *)
LEMMA OffsetIs ==
  ASSUME NEW dids, Len(dids) \in Nat, \A k \in 1 .. Len(dids) : dids[k].length \in Nat
  PROVE  /\ data_offset(dids, 1) = 0
         /\ \A k \in 1 .. Len(dids) + 1 : data_offset(dids, k) \in Nat
         /\ \A k \in 1 .. Len(dids) : data_offset(dids, k + 1) = data_offset(dids, k) + dids[k].length
<1>. DEFINE n == Len(dids)
            G == [k \in 1 .. n |-> [v \in Nat |-> v + dids[k].length]]
            Def(f) == f = [k \in 0 .. n |-> IF k = 0 THEN 0 ELSE f[k - 1] + dids[k].length]
<1>0. n \in Nat /\ 0 \in Nat /\ \A k \in 1 .. n : dids[k].length \in Nat
  OBVIOUS
<1>1. G \in [1 .. n -> [Nat -> Nat]] /\ \A k \in 1 .. n : \A v \in Nat : G[k][v] = v + dids[k].length
  BY <1>0
<1>. HIDE DEF G, n
<1>2. PICK f \in [0 .. n -> Nat] : Recursion(G, 0, n, f)
  BY <1>0, <1>1, RecursiveFunction
<1>3. Def(f)
  <2>1. \A k \in 1 .. n : f[k - 1] \in Nat
    BY <1>0
  <2>2. \A k \in 1 .. n : G[k][f[k - 1]] = f[k - 1] + dids[k].length
    BY <1>1, <2>1
  <2>3. \A k \in 0 .. n : (IF k = 0 THEN 0 ELSE G[k][f[k - 1]]) = IF k = 0 THEN 0 ELSE f[k - 1] + dids[k].length
    BY <1>0, <2>2, SMTT(30)
  <2>. QED  BY <1>2, <2>3 DEF Recursion
<1>. DEFINE upto == CHOOSE g : Def(g)
<1>4. \A k : data_offset(dids, k) = upto[k - 1]
  BY DEF data_offset, n
<1>5. Def(upto)
  BY <1>3
<1>. HIDE DEF upto
<1>6. \A k \in 0 .. n : upto[k] = IF k = 0 THEN 0 ELSE upto[k - 1] + dids[k].length
  BY <1>5
<1>. HIDE DEF Def
<1>. DEFINE P == {k \in 0 .. n : upto[k] \in Nat}
<1>7. 0 \in P
  <2>1. 0 \in 0 .. n
    BY <1>0
  <2>2. upto[0] = 0
    BY <1>6, <2>1
  <2>. QED  BY <2>1, <2>2
<1>8. ASSUME NEW k \in 1 .. n, k - 1 \in P PROVE k \in P
  <2>1. k \in 0 .. n /\ k # 0 /\ upto[k - 1] \in Nat /\ dids[k].length \in Nat
    BY <1>0, <1>8
  <2>2. upto[k] = upto[k - 1] + dids[k].length
    BY <1>6, <2>1
  <2>. QED  BY <2>1, <2>2
<1>9. \A k \in 0 .. n : upto[k] \in Nat
  <2>1. \A k \in 0 .. n : k \in P
    <3>. HIDE DEF P
    <3>. QED  BY <1>0, <1>7, <1>8, CountedUp
  <2>. QED  BY <2>1
<1>10. data_offset(dids, 1) = 0
  BY <1>0, <1>4, <1>6
<1>11. \A k \in 1 .. n + 1 : data_offset(dids, k) \in Nat
  <2>1. \A k \in 1 .. n + 1 : k - 1 \in 0 .. n
    BY <1>0
  <2>. QED  BY <1>4, <1>9, <2>1
<1>12. ASSUME NEW k \in 1 .. n PROVE data_offset(dids, k + 1) = data_offset(dids, k) + dids[k].length
  <2>1. k + 1 - 1 = k /\ k \in 0 .. n /\ k # 0
    BY <1>0
  <2>. QED  BY <1>4, <1>6, <2>1
<1>. QED  BY <1>10, <1>11, <1>12 DEF n

LEMMA OffsetsGrow ==
  ASSUME NEW dids, Len(dids) \in Nat, \A k \in 1 .. Len(dids) : dids[k].length \in Nat,
         NEW i \in 1 .. Len(dids), NEW j \in i + 1 .. Len(dids) + 1
  PROVE  data_offset(dids, i) + dids[i].length <= data_offset(dids, j)
<1>. DEFINE n == Len(dids)
            m == n - i
            P == {d \in 0 .. m : data_offset(dids, i + 1) <= data_offset(dids, i + 1 + d)}
<1>1. n \in Nat /\ m \in Nat /\ i \in Nat
  OBVIOUS
<1>2. /\ \A k \in 1 .. n + 1 : data_offset(dids, k) \in Nat
      /\ \A k \in 1 .. n : data_offset(dids, k + 1) = data_offset(dids, k) + dids[k].length
      /\ \A k \in 1 .. n : dids[k].length \in Nat
  BY OffsetIs
<1>3. 0 \in P
  BY <1>1, <1>2, SMTT(30)
<1>4. ASSUME NEW d \in 1 .. m, d - 1 \in P PROVE d \in P
  <2>. DEFINE k == i + d
  <2>1. k \in 1 .. n /\ i + 1 + (d - 1) = k /\ i + 1 + d = k + 1 /\ k \in 1 .. n + 1 /\ i + 1 \in 1 .. n + 1
    BY <1>1
  <2>2. data_offset(dids, i + 1) <= data_offset(dids, k)
    BY <1>4, <2>1
  <2>. HIDE DEF k
  <2>3. data_offset(dids, i + 1) <= data_offset(dids, k + 1)
    <3>1. data_offset(dids, i + 1) \in Nat /\ data_offset(dids, k) \in Nat /\ dids[k].length \in Nat
      BY <1>2, <2>1
    <3>2. data_offset(dids, k + 1) = data_offset(dids, k) + dids[k].length
      BY <1>2, <2>1
    <3>. QED  BY <2>2, <3>1, <3>2, SMTT(30)
  <2>4. data_offset(dids, i + 1) <= data_offset(dids, i + 1 + d)
    <3>. HIDE DEF m, P
    <3>. QED  BY <2>1, <2>3, Zenon
  <2>5. d \in 0 .. m
    BY <1>1
  <2>. HIDE DEF m
  <2>. QED  BY <2>4, <2>5, Zenon
<1>5. \A d \in 0 .. m : d \in P
  <2>. HIDE DEF P, m
  <2>. QED  BY <1>1, <1>3, <1>4, CountedUp
<1>6. j - (i + 1) \in 0 .. m /\ i + 1 + (j - (i + 1)) = j
  BY <1>1
<1>7. data_offset(dids, i + 1) <= data_offset(dids, j)
  BY <1>5, <1>6
<1>. QED  BY <1>2, <1>7

(* The tables the server works with.                                       *)
Laid(c) ==
  /\ Len(c.dids) \in Nat /\ DOMAIN c.dids = 1 .. Len(c.dids) /\ c.did_data_length \in Nat
  /\ \A k \in DOMAIN c.dids :
       /\ c.dids[k].did \in 0 .. IdMax
       /\ c.dids[k].length \in Nat /\ c.dids[k].length <= LengthMax /\ c.dids[k].data_offset \in Nat
       /\ c.dids[k].data_offset + c.dids[k].length <= c.did_data_length
       /\ c.dids[k].default # None =>
            c.dids[k].default \in Seq(0 .. ByteMax) /\ Len(c.dids[k].default) = c.dids[k].length
  /\ \A i, j \in DOMAIN c.dids :
       /\ i < j => c.dids[i].data_offset + c.dids[i].length <= c.dids[j].data_offset
       /\ c.dids[i].did = c.dids[j].did => i = j

LEMMA LoadedLaid ==
  ASSUME NEW doc \in Configurations, Acceptable(doc)
  PROVE  Laid(build_config(doc))
<1>. DEFINE dids == Listed(doc.dids)
            n == Len(dids)
            c == build_config(doc)
<1>1. n \in Nat /\ DOMAIN dids = 1 .. n
  <2>1. CASE doc.dids = None
    BY <2>1 DEF Listed
  <2>2. CASE doc.dids # None
    <3>1. doc.dids # Malformed
      BY <2>2 DEF Acceptable
    <3>2. doc.dids \in {doc.dids, doc.routines}
      OBVIOUS
    <3>3. Len(doc.dids) \in Nat /\ DOMAIN doc.dids = 1 .. Len(doc.dids)
      BY <2>2, <3>1, <3>2, UdsAssumption, Zenon
    <3>. QED  BY <2>2, <3>3 DEF Listed
  <2>. QED  BY <2>1, <2>2
<1>2. ASSUME NEW k \in 1 .. n
      PROVE  /\ dids = doc.dids /\ dids[k].did \in 0 .. IdMax
             /\ dids[k].length \in Nat /\ dids[k].length <= LengthMax
             /\ dids[k].default # None => dids[k].default \in Seq(0 .. ByteMax) /\ Len(dids[k].default) = dids[k].length
  <2>1. doc.dids # None
    BY <1>1 DEF Listed
  <2>2. dids = doc.dids /\ doc.dids # Malformed /\ build_did(dids[k])
    BY <1>1, <2>1 DEF Listed, Acceptable
  <2>3. dids[k].did \in 0 .. IdMax /\ dids[k].length \in 1 .. LengthMax
    BY <2>2 DEF build_did, scalar_uint
  <2>4. ASSUME dids[k].default # None
        PROVE  dids[k].default \in Seq(0 .. ByteMax) /\ Len(dids[k].default) = dids[k].length
    <3>. DEFINE x == dids[k].default
    <3>1. x # Malformed /\ Len(x) = dids[k].length /\ \A p \in DOMAIN x : x[p] \in 0 .. ByteMax
      BY <2>2, <2>4 DEF build_did, build_byte_array, scalar_uint
    <3>2. doc.dids \notin {None, Malformed} /\ k \in 1 .. Len(doc.dids)
      BY <2>1, <2>2
    <3>3. \A p \in 1 .. Len(doc.dids) : doc.dids[p].default \in {None, Malformed} \cup Seq(Int)
      BY <3>2, UdsAssumption, Zenon
    <3>4. x \in Seq(Int)
      BY <2>2, <2>4, <3>1, <3>2, <3>3
    <3>. HIDE DEF x
    <3>5. x \in Seq(0 .. ByteMax)
      <4>1. Len(x) \in Nat /\ x \in [1 .. Len(x) -> Int] /\ DOMAIN x = 1 .. Len(x)
        BY <3>4
      <4>2. x \in [1 .. Len(x) -> 0 .. ByteMax]
        BY <3>1, <4>1
      <4>. QED  BY <4>1, <4>2, FunctionSequence
    <3>. QED  BY <3>1, <3>5 DEF x
  <2>. QED  BY <2>2, <2>3, <2>4, ByteConstants
<1>3. ASSUME NEW i \in 1 .. n, NEW j \in 1 .. n, dids[i].did = dids[j].did PROVE i = j
  <2>1. dids = doc.dids /\ doc.dids # None
    BY <1>1, <1>2 DEF Listed
  <2>2. \A p, q \in DOMAIN doc.dids : doc.dids[p].did = doc.dids[q].did => p = q
    BY <2>1 DEF Acceptable, Distinct
  <2>. QED  BY <1>1, <1>3, <2>1, <2>2
<1>4. /\ \A k \in 1 .. n + 1 : data_offset(dids, k) \in Nat
      /\ \A i \in 1 .. n, j \in 1 .. n + 1 :
           i < j => data_offset(dids, i) + dids[i].length <= data_offset(dids, j)
  <2>1. \A k \in 1 .. Len(dids) : dids[k].length \in Nat
    BY <1>2
  <2>2. ASSUME NEW i \in 1 .. n, NEW j \in 1 .. n + 1, i < j
        PROVE  data_offset(dids, i) + dids[i].length <= data_offset(dids, j)
    <3>1. j \in i + 1 .. n + 1
      BY <1>1, <2>2
    <3>. HIDE DEF dids
    <3>. QED  BY <1>1, <2>1, <3>1, OffsetsGrow
  <2>. HIDE DEF dids
  <2>. QED  BY <1>1, <2>1, <2>2, OffsetIs
<1>5. /\ c.dids = [k \in 1 .. n |->
                    [did |-> dids[k].did, length |-> dids[k].length, signal |-> dids[k].signal,
                     default |-> dids[k].default, data_offset |-> data_offset(dids, k)]]
      /\ c.did_data_length = data_offset(dids, n + 1)
  BY <1>1 DEF build_config
<1>. HIDE DEF dids, c
<1>6. Len(c.dids) = n /\ DOMAIN c.dids = 1 .. n
  BY <1>1, <1>5
<1>7. \A k \in 1 .. n : /\ c.dids[k].did = dids[k].did /\ c.dids[k].length = dids[k].length
                        /\ c.dids[k].default = dids[k].default /\ c.dids[k].data_offset = data_offset(dids, k)
  BY <1>5
<1>. HIDE DEF n
<1>8. c.did_data_length \in Nat /\ \A k \in 1 .. n : data_offset(dids, k) \in Nat /\ k < n + 1 /\ n + 1 \in 1 .. n + 1
  BY <1>1, <1>4, <1>5
<1>9. ASSUME NEW k \in 1 .. n
      PROVE  /\ c.dids[k].did \in 0 .. IdMax
             /\ c.dids[k].length \in Nat /\ c.dids[k].length <= LengthMax /\ c.dids[k].data_offset \in Nat
             /\ c.dids[k].data_offset + c.dids[k].length <= c.did_data_length
             /\ c.dids[k].default # None =>
                  c.dids[k].default \in Seq(0 .. ByteMax) /\ Len(c.dids[k].default) = c.dids[k].length
  BY <1>2, <1>4, <1>5, <1>7, <1>8, SMTT(30)
<1>10. ASSUME NEW i \in 1 .. n, NEW j \in 1 .. n
       PROVE  /\ i < j => c.dids[i].data_offset + c.dids[i].length <= c.dids[j].data_offset
              /\ c.dids[i].did = c.dids[j].did => i = j
  <2>1. j \in 1 .. n + 1
    BY <1>1
  <2>. QED  BY <1>3, <1>4, <1>7, <2>1
<1>11. Laid(c)
  BY <1>1, <1>6, <1>8, <1>9, <1>10 DEF Laid
<1>. QED  BY <1>11 DEF c


Buffers(c) == [1 .. c.did_data_length -> 0 .. ByteMax]

LEMMA SlotIs ==
  ASSUME NEW c, Laid(c), NEW data \in Buffers(c), NEW k \in DOMAIN c.dids
  PROVE  LET e == c.dids[k] IN
         /\ SlotOf(data, e) = [p \in 1 .. e.length |-> data[e.data_offset + p]]
         /\ \A p \in 1 .. e.length : e.data_offset + p \in 1 .. c.did_data_length
<1>. DEFINE e == c.dids[k]  o == e.data_offset  l == e.length
<1>1. o \in Nat /\ l \in Nat /\ c.did_data_length \in Nat /\ o + l <= c.did_data_length
  BY DEF Laid
<1>2. SlotOf(data, e) = SubSeq(data, o + 1, o + l)
  BY DEF SlotOf
<1>. HIDE DEF o, l
<1>3. SubSeq(data, o + 1, o + l) = [p \in 1 .. l |-> data[o + p]]
  <2>1. SubSeq(data, o + 1, o + l) = [p \in 1 .. (1 + (o + l) - (o + 1)) |-> data[p + (o + 1) - 1]]
    BY <1>1
  <2>2. 1 + (o + l) - (o + 1) = l /\ \A p \in 1 .. l : p + (o + 1) - 1 = o + p
    BY <1>1
  <2>. QED  BY <2>1, <2>2
<1>. QED  BY <1>1, <1>2, <1>3, SMTT(30) DEF o, l

(* Writing a slot leaves the others as they are.                           *)
LEMMA StoredIs ==
  ASSUME NEW c, Laid(c), NEW data \in Buffers(c), NEW i \in DOMAIN c.dids,
         NEW bytes \in Seq(0 .. ByteMax), Len(bytes) = c.dids[i].length
  PROVE  LET new == Stored(data, c.dids[i], bytes) IN
         /\ new \in Buffers(c) /\ SlotOf(new, c.dids[i]) = bytes
         /\ \A j \in DOMAIN c.dids : j # i => SlotOf(new, c.dids[j]) = SlotOf(data, c.dids[j])
<1>. DEFINE N == c.did_data_length
            o == c.dids[i].data_offset
            l == c.dids[i].length
            new == Stored(data, c.dids[i], bytes)
<1>1. /\ o \in Nat /\ l \in Nat /\ N \in Nat /\ o + l <= N
      /\ data \in [1 .. N -> 0 .. ByteMax] /\ DOMAIN data = 1 .. N
      /\ bytes \in [1 .. l -> 0 .. ByteMax]
  <2>1. o \in Nat /\ l \in Nat /\ N \in Nat /\ o + l <= N
    BY DEF Laid
  <2>2. data \in [1 .. N -> 0 .. ByteMax] /\ DOMAIN data = 1 .. N
    BY DEF Buffers
  <2>3. bytes \in [1 .. l -> 0 .. ByteMax]
    <3>1. bytes \in [1 .. Len(bytes) -> 0 .. ByteMax]
      BY SequenceFunction
    <3>. QED  BY <3>1
  <2>. QED  BY <2>1, <2>2, <2>3
<1>2. new = [p \in 1 .. N |-> IF p \in o + 1 .. o + l THEN bytes[p - o] ELSE data[p]]
  BY <1>1 DEF Stored
<1>. HIDE DEF new
<1>3. new \in Buffers(c)
  <2>1. \A p \in 1 .. N : p \in o + 1 .. o + l => p - o \in 1 .. l
    BY <1>1, SMTT(30)
  <2>2. \A p \in 1 .. N : (IF p \in o + 1 .. o + l THEN bytes[p - o] ELSE data[p]) \in 0 .. ByteMax
    BY <1>1, <2>1
  <2>. QED  BY <1>2, <2>2 DEF Buffers
<1>4. SlotOf(new, c.dids[i]) = bytes
  <2>1. SlotOf(new, c.dids[i]) = [p \in 1 .. l |-> new[o + p]]
    BY <1>3, SlotIs
  <2>2. \A p \in 1 .. l : o + p \in 1 .. N /\ o + p \in o + 1 .. o + l /\ (o + p) - o = p
    BY <1>1, SMTT(30)
  <2>3. \A p \in 1 .. l : new[o + p] = bytes[p]
    BY <1>2, <2>2
  <2>4. bytes = [p \in 1 .. l |-> bytes[p]]
    BY <1>1
  <2>. QED  BY <2>1, <2>3, <2>4
<1>5. ASSUME NEW j \in DOMAIN c.dids, j # i PROVE SlotOf(new, c.dids[j]) = SlotOf(data, c.dids[j])
  <2>. DEFINE oj == c.dids[j].data_offset  lj == c.dids[j].length
  <2>1. oj \in Nat /\ lj \in Nat /\ oj + lj <= N /\ (oj + lj <= o \/ o + l <= oj)
    <3>1. i \in Nat /\ j \in Nat
      BY DEF Laid
    <3>2. i < j \/ j < i
      BY <1>5, <3>1
    <3>. QED  BY <3>2 DEF Laid
  <2>2. /\ SlotOf(new, c.dids[j]) = [p \in 1 .. lj |-> new[oj + p]]
        /\ SlotOf(data, c.dids[j]) = [p \in 1 .. lj |-> data[oj + p]]
    <3>1. SlotOf(new, c.dids[j]) = [p \in 1 .. lj |-> new[oj + p]]
      BY <1>3, SlotIs
    <3>2. SlotOf(data, c.dids[j]) = [p \in 1 .. lj |-> data[oj + p]]
      BY SlotIs
    <3>. QED  BY <3>1, <3>2
  <2>. HIDE DEF oj, lj
  <2>3. \A p \in 1 .. lj : oj + p \in 1 .. N /\ oj + p \notin o + 1 .. o + l
    BY <1>1, <2>1
  <2>4. \A p \in 1 .. lj : new[oj + p] = data[oj + p]
    BY <1>2, <2>3
  <2>. QED  BY <2>2, <2>4
<1>. QED  BY <1>3, <1>4, <1>5 DEF new

(* After initialisation every slot holds its default.                      *)
LEMMA SeededIs ==
  ASSUME NEW c, Laid(c)
  PROVE  /\ Seeded(c) \in Buffers(c)
         /\ \A k \in DOMAIN c.dids : /\ SlotOf(Seeded(c), c.dids[k]) = Default(c.dids[k])
                                     /\ Default(c.dids[k]) \in Seq(0 .. ByteMax)
                                     /\ Len(Default(c.dids[k])) = c.dids[k].length
<1>. DEFINE n == Len(c.dids)
            S == Buffers(c)
            x == Zeros(c.did_data_length)
            Next1(k, v) == IF c.dids[k].default = None THEN v ELSE Stored(v, c.dids[k], c.dids[k].default)
            G == [k \in 1 .. n |-> [v \in S |-> Next1(k, v)]]
            Def(f) == f = [k \in 0 .. n |-> IF k = 0 THEN x ELSE Next1(k, f[k - 1])]
            Z(k) == Zeros(c.dids[k].length)
            D(k) == Default(c.dids[k])
<1>0. n \in Nat /\ DOMAIN c.dids = 1 .. n /\ c.did_data_length \in Nat /\ 0 \in 0 .. ByteMax
  BY ByteConstants DEF Laid, ByteMax
<1>1. x \in S
  BY <1>0 DEF Zeros, Buffers
<1>2. ASSUME NEW k \in 1 .. n, NEW v \in S
      PROVE  /\ Next1(k, v) \in S
             /\ c.dids[k].default = None => Next1(k, v) = v
             /\ c.dids[k].default # None => SlotOf(Next1(k, v), c.dids[k]) = c.dids[k].default
             /\ \A j \in 1 .. n : j # k => SlotOf(Next1(k, v), c.dids[j]) = SlotOf(v, c.dids[j])
  <2>1. CASE c.dids[k].default = None
    BY <2>1
  <2>2. CASE c.dids[k].default # None
    <3>1. c.dids[k].default \in Seq(0 .. ByteMax) /\ Len(c.dids[k].default) = c.dids[k].length
      BY <1>0, <2>2 DEF Laid
    <3>. QED  BY <1>0, <2>2, <3>1, StoredIs
  <2>. QED  BY <2>1, <2>2
<1>3. G \in [1 .. n -> [S -> S]] /\ \A k \in 1 .. n : \A v \in S : G[k][v] = Next1(k, v)
  BY <1>2
<1>4. Seeded(c) = (CHOOSE f : Def(f))[n]
  BY DEF Seeded
<1>. HIDE DEF G, n, S, x, Next1
<1>5. PICK f \in [0 .. n -> S] : Recursion(G, x, n, f)
  BY <1>0, <1>1, <1>3, RecursiveFunction
<1>6. Def(f)
  <2>1. \A k \in 1 .. n : f[k - 1] \in S
    BY <1>0
  <2>2. \A k \in 1 .. n : G[k][f[k - 1]] = Next1(k, f[k - 1])
    BY <1>3, <2>1
  <2>3. \A k \in 0 .. n : (IF k = 0 THEN x ELSE G[k][f[k - 1]]) = IF k = 0 THEN x ELSE Next1(k, f[k - 1])
    BY <1>0, <2>2
  <2>. QED  BY <1>5, <2>3 DEF Recursion
<1>. DEFINE after == CHOOSE g : Def(g)
<1>7. Def(after)
  BY <1>6
<1>. HIDE DEF after
<1>8. \A k \in 0 .. n : after[k] = IF k = 0 THEN x ELSE Next1(k, after[k - 1])
  BY <1>7
<1>. HIDE DEF Def
<1>9. \A k \in 1 .. n : c.dids[k].length \in Nat /\ SlotOf(x, c.dids[k]) = Z(k)
  <2>. SUFFICES ASSUME NEW k \in 1 .. n PROVE c.dids[k].length \in Nat /\ SlotOf(x, c.dids[k]) = Z(k)
    OBVIOUS
  <2>. DEFINE l == c.dids[k].length  o == c.dids[k].data_offset
  <2>1. /\ SlotOf(x, c.dids[k]) = [p \in 1 .. l |-> x[o + p]]
        /\ \A p \in 1 .. l : o + p \in 1 .. c.did_data_length
    BY <1>0, <1>1, SlotIs DEF S
  <2>2. \A p \in 1 .. l : x[o + p] = 0
    BY <2>1 DEF x, Zeros
  <2>3. Z(k) = [p \in 1 .. l |-> 0]
    BY DEF Zeros
  <2>4. l \in Nat
    BY <1>0 DEF Laid
  <2>. HIDE DEF l, o
  <2>5. SlotOf(x, c.dids[k]) = Z(k)
    BY <2>1, <2>2, <2>3
  <2>. QED  BY <2>4, <2>5 DEF l
<1>10. \A k \in 1 .. n : D(k) = IF c.dids[k].default = None THEN Z(k) ELSE c.dids[k].default
  BY DEF Default
<1>. HIDE DEF Z, D
<1>. DEFINE P == {k \in 0 .. n : /\ after[k] \in S
                                 /\ \A j \in 1 .. n : SlotOf(after[k], c.dids[j]) = IF j <= k THEN D(j) ELSE Z(j)}
<1>11. 0 \in P
  <2>1. 0 \in 0 .. n
    BY <1>0
  <2>2. after[0] = x
    BY <1>8, <2>1
  <2>3. \A j \in 1 .. n : ~(j <= 0)
    OBVIOUS
  <2>. QED  BY <1>1, <1>9, <2>1, <2>2, <2>3
<1>12. ASSUME NEW k \in 1 .. n, k - 1 \in P PROVE k \in P
  <2>. DEFINE v == after[k - 1]
  <2>1. v \in S /\ \A j \in 1 .. n : SlotOf(v, c.dids[j]) = IF j <= k - 1 THEN D(j) ELSE Z(j)
    BY <1>12
  <2>2. k \in 0 .. n /\ k # 0
    BY <1>0
  <2>3. after[k] = Next1(k, v)
    BY <1>8, <2>2
  <2>. HIDE DEF v
  <2>4. Next1(k, v) \in S
    BY <1>2, <2>1
  <2>5. ASSUME NEW j \in 1 .. n
        PROVE  SlotOf(Next1(k, v), c.dids[j]) = IF j <= k THEN D(j) ELSE Z(j)
    <3>1. CASE j = k
      <4>1. ~(k <= k - 1) /\ k <= k
        BY <2>2
      <4>2. SlotOf(v, c.dids[k]) = Z(k)
        BY <2>1, <4>1
      <4>3. SlotOf(Next1(k, v), c.dids[k]) = D(k)
        BY <1>2, <1>10, <2>1, <4>2
      <4>. QED  BY <3>1, <4>1, <4>3
    <3>2. CASE j # k
      <4>1. (j <= k) <=> (j <= k - 1)
        BY <1>0, <3>2
      <4>2. SlotOf(Next1(k, v), c.dids[j]) = SlotOf(v, c.dids[j])
        BY <1>2, <2>1, <3>2
      <4>. QED  BY <2>1, <4>1, <4>2
    <3>. QED  BY <3>1, <3>2
  <2>. QED  BY <2>2, <2>3, <2>4, <2>5
<1>13. after[n] \in S /\ \A j \in 1 .. n : SlotOf(after[n], c.dids[j]) = D(j)
  <2>1. \A k \in 0 .. n : k \in P
    <3>. HIDE DEF P
    <3>. QED  BY <1>0, <1>11, <1>12, CountedUp
  <2>2. n \in 0 .. n
    BY <1>0
  <2>3. n \in P
    BY <2>1, <2>2
  <2>4. \A j \in 1 .. n : j <= n
    BY <1>0
  <2>. QED  BY <2>3, <2>4
<1>14. ASSUME NEW k \in 1 .. n PROVE D(k) \in Seq(0 .. ByteMax) /\ Len(D(k)) = c.dids[k].length
  <2>1. CASE c.dids[k].default = None
    <3>1. Z(k) \in [1 .. c.dids[k].length -> 0 .. ByteMax]
      BY <1>0, <1>9 DEF Z, Zeros
    <3>2. Z(k) \in Seq(0 .. ByteMax) /\ Len(Z(k)) = c.dids[k].length
      <4>. DEFINE l == c.dids[k].length  z == Z(k)
      <4>1. l \in Nat /\ z \in [1 .. l -> 0 .. ByteMax]
        BY <1>9, <3>1
      <4>. HIDE DEF l, z
      <4>2. z \in Seq(0 .. ByteMax) /\ Len(z) = l
        BY <4>1, FunctionSequence
      <4>. QED  BY <4>2 DEF l, z
    <3>. QED  BY <1>10, <2>1, <3>2
  <2>2. CASE c.dids[k].default # None
    BY <1>0, <1>10, <2>2 DEF Laid
  <2>. QED  BY <2>1, <2>2
<1>. QED  BY <1>0, <1>4, <1>13, <1>14 DEF S, D, after


-----------------------------------------------------------------------------
(* What is to be read back is in the slot of its DID, and if the DID is    *)
(* mirrored, the signal is unset or its value is the decoded bytes.        *)
Kept(k) ==
  /\ current[k] \in Seq(0 .. ByteMax) /\ Len(current[k]) = config.dids[k].length
  /\ SlotOf(did_data, config.dids[k]) = current[k]
  /\ attached /\ config.dids[k].signal # None =>
       Get(signal_store, did_signal_ids[k]) \in {Unset, UIntV(decode_le(current[k]))}

KeptInv ==
  /\ ~initialized => current = <<>>
  /\ initialized =>
       /\ Laid(config) /\ did_data \in Buffers(config)
       /\ DOMAIN did_signal_ids = DOMAIN config.dids /\ DOMAIN current = DOMAIN config.dids
       /\ \A k \in DOMAIN config.dids : did_signal_ids[k] = None <=> config.dids[k].signal = None
       /\ \A k \in DOMAIN current : current[k] # None => Kept(k)

LEMMA FoundDid ==
  ASSUME NEW c, Laid(c), NEW k \in DOMAIN c.dids
  PROVE  find_did(c, c.dids[k].did) = k
<1>. DEFINE id == c.dids[k].did
            found == {j \in DOMAIN c.dids : c.dids[j].did = id}
<1>1. find_did(c, id) = IF found = {} THEN 0 ELSE CHOOSE i \in found : \A j \in found : i <= j
  BY DEF find_did, IndexOf
<1>2. found = {k}
  BY DEF Laid
<1>3. k \in Nat
  BY DEF Laid
<1>. HIDE DEF found
<1>4. (CHOOSE i \in found : \A j \in found : i <= j) = k
  BY <1>2, <1>3
<1>. QED  BY <1>1, <1>2, <1>4

(* A read returns what is kept.                                            *)
LEMMA ReadsKept == ASSUME KeptInv PROVE ReadYourWrites
<1>. SUFFICES ASSUME NEW k \in DOMAIN current, current[k] # None
              PROVE  LET id == config.dids[k].did
                         req == <<RDBI, id \div ByteBase, id % ByteBase>>
                     IN  read_data_by_identifier(req, LengthMax + 3).response =
                           <<RDBI + POSITIVE_OFFSET, req[2], req[3]>> \o current[k]
  BY DEF ReadYourWrites
<1>. DEFINE e == config.dids[k]
            id == e.did
            req == <<RDBI, id \div ByteBase, id % ByteBase>>
            value == IF attached /\ e.signal # None THEN Get(signal_store, did_signal_ids[k]) ELSE Unset
            capacity == LengthMax + 3
            body == IF IsSet(value) THEN encode_value_le(value, e.length) ELSE SlotOf(did_data, e)
<1>1. initialized
  BY DEF KeptInv
<1>2. /\ Laid(config) /\ k \in DOMAIN config.dids /\ Kept(k)
      /\ id \in Nat /\ e.length \in Nat /\ e.length <= LengthMax /\ LengthMax \in Nat /\ ByteBase \in Nat \ {0}
  BY <1>1, ByteConstants DEF KeptInv, Laid
<1>3. Len(req) = 3 /\ req[2] = id \div ByteBase /\ req[3] = id % ByteBase
  OBVIOUS
<1>4. Identifier(req, 2) = id
  <2>1. Identifier(req, 2) = (id \div ByteBase) * ByteBase + (id % ByteBase)
    <3>. DEFINE high == id \div ByteBase  low == id % ByteBase
    <3>1. req[2] = high /\ req[2 + 1] = low
      OBVIOUS
    <3>. HIDE DEF high, low, req
    <3>2. Identifier(req, 2) = high * ByteBase + low
      BY <3>1 DEF Identifier
    <3>. QED  BY <3>2, Zenon DEF high, low
  <2>2. id \in Int /\ id \in Nat /\ ByteBase \in Nat \ {0} /\ ByteBase \in Int /\ ByteBase > 0
    BY <1>2
  <2>. HIDE DEF id, req
  <2>3. id = ByteBase * (id \div ByteBase) + (id % ByteBase)
    BY <2>2, DivMod, Zenon
  <2>4. (id \div ByteBase) * ByteBase = ByteBase * (id \div ByteBase)
    BY <2>2
  <2>. QED  BY <2>1, <2>3, <2>4, Zenon
<1>5. find_did(config, Identifier(req, 2)) = k
  BY <1>2, <1>4, FoundDid
<1>6. k > 0 /\ k # 0 /\ capacity >= e.length + 3 /\ ~(capacity < e.length + 3)
  BY <1>2 DEF Laid
<1>7. (IsSet(value) => Encodable(value, e.length)) /\ body = current[k]
  <2>1. value \in {Unset, UIntV(decode_le(current[k]))}
    BY <1>2 DEF Kept
  <2>2. CASE value = Unset
    BY <1>2, <2>2 DEF IsSet, Unset, Kept
  <2>3. CASE value = UIntV(decode_le(current[k]))
    <3>1. /\ current[k] \in Seq(0 .. ByteMax) /\ Len(current[k]) = e.length /\ Len(current[k]) <= LengthMax
      BY <1>2 DEF Kept
    <3>2. /\ decode_le(current[k]) < Radix[e.length]
          /\ encode_value_le(UIntV(decode_le(current[k])), e.length) = current[k]
      BY <3>1, Digits
    <3>3. value.kind = "uint" /\ value.v = decode_le(current[k])
      BY <2>3 DEF UIntV
    <3>. HIDE DEF value
    <3>4. IsSet(value) /\ Encodable(value, e.length)
      BY <3>2, <3>3 DEF IsSet, Encodable
    <3>5. encode_value_le(value, e.length) = current[k]
      BY <2>3, <3>2
    <3>. QED  BY <3>4, <3>5
  <2>. QED  BY <2>1, <2>2, <2>3
<1>8. read_data_by_identifier(req, capacity)
        = IF IsSet(value) /\ ~Encodable(value, e.length)
          THEN negative(RDBI, CONDITIONS_NOT_CORRECT, capacity)
          ELSE AnsweredOnly("OK", <<RDBI + POSITIVE_OFFSET, req[2], req[3]>> \o body)
  <2>. HIDE DEF req
  <2>. QED  BY <1>3, <1>5, <1>6 DEF read_data_by_identifier
<1>. HIDE DEF value, body
<1>9. read_data_by_identifier(req, capacity) = AnsweredOnly("OK", <<RDBI + POSITIVE_OFFSET, req[2], req[3]>> \o current[k])
  BY <1>7, <1>8
<1>. DEFINE served == <<RDBI + POSITIVE_OFFSET, req[2], req[3]>> \o current[k]
<1>10. AnsweredOnly("OK", served).response = served
  <2>. HIDE DEF served
  <2>. QED  BY DEF AnsweredOnly, Answered
<1>11. read_data_by_identifier(req, capacity).response = served
  <2>. HIDE DEF req
  <2>. QED  BY <1>9, <1>10
<1>. QED  BY <1>11, Zenon

(* What a positive answer to a write has done.                             *)
LEMMA WriteDone ==
  ASSUME ServerInv, initialized, NEW req, Len(req) \in Nat, NEW capacity \in Nat, NEW decision \in BOOLEAN,
         write_data_by_identifier(req, capacity, decision).status = "OK"
  PROVE  LET result == write_data_by_identifier(req, capacity, decision)
             index == find_did(config, Identifier(req, 2))
             effect == mirror_and_store(index, SubSeq(req, 4, Len(req)))
         IN  /\ index \in DOMAIN config.dids /\ Len(req) = config.dids[index].length + 3
             /\ effect.ok /\ result.data = effect.data /\ result.store = effect.store
<1>. DEFINE index == IF Len(req) >= 3 THEN find_did(config, Identifier(req, 2)) ELSE 0
            result == write_data_by_identifier(req, capacity, decision)
            effect == mirror_and_store(index, SubSeq(req, 4, Len(req)))
            done == IF effect.ok
                    THEN Answered("OK", <<WDBI + POSITIVE_OFFSET, req[2], req[3]>>, effect.data, effect.store)
                    ELSE Answered("NEGATIVE", <<NEGATIVE, WDBI, GENERAL_PROGRAMMING_FAILURE>>,
                                  effect.data, effect.store)
<1>1. index \in Nat /\ (index # 0 => index \in DOMAIN config.dids)
  BY Searched, SMTT(30) DEF ServerInv
<1>2. \/ result \in {negative(WDBI, INCORRECT_MESSAGE_LENGTH, capacity), negative(WDBI, REQUEST_OUT_OF_RANGE, capacity),
                     AnsweredOnly("CAPACITY", <<>>), Denied(negative(WDBI, CONDITIONS_NOT_CORRECT, capacity))}
      \/ result = done /\ index > 0 /\ Len(req) = config.dids[index].length + 3
  BY <1>1 DEF write_data_by_identifier
<1>3. result = done /\ index > 0 /\ Len(req) = config.dids[index].length + 3
  BY <1>2 DEF negative, AnsweredOnly, Answered, Denied
<1>4. index = find_did(config, Identifier(req, 2)) /\ index \in DOMAIN config.dids
  BY <1>1, <1>3
<1>5. effect.ok
  <2>. HIDE DEF effect
  <2>. QED  BY <1>3 DEF Answered
<1>6. result.data = effect.data /\ result.store = effect.store
  <2>. HIDE DEF effect
  <2>. QED  BY <1>3, <1>5 DEF Answered
<1>. HIDE DEF result, effect, index
<1>. QED  BY <1>3, <1>4, <1>5, <1>6 DEF result, effect


LEMMA ServiceDone ==
  ASSUME ServerInv, initialized, NEW req \in ClientRequests, NEW capacity \in Capacities,
         NEW decision \in BOOLEAN
  PROVE  LET result == service(req, capacity, decision) IN
         IF result.status = "OK" /\ req[1] = WDBI
         THEN result = write_data_by_identifier(req, capacity, decision)
         ELSE Untouched(result)
<1>. DEFINE result == service(req, capacity, decision)
<1>1. Len(req) \in Nat /\ capacity \in Nat
  <2>1. \A c \in Capacities : c \in Nat
    BY UdsAssumption, Zenon
  <2>. QED  BY <2>1, ByteConstants
<1>2. CASE result.status # "OK"
  BY <1>2, ServiceAllOrNothing
<1>3. CASE result.status = "OK" /\ req[1] # WDBI
  <2>1. \/ result \in {negative(0, SERVICE_NOT_SUPPORTED, capacity), negative(req[1], SERVICE_NOT_SUPPORTED, capacity)}
        \/ result = read_data_by_identifier(req, capacity)
        \/ result = routine_control(req, capacity, decision)
    BY <1>3 DEF service
  <2>2. Untouched(result)
    <3>. HIDE DEF result
    <3>. QED  BY <1>1, <2>1, NegativeUntouched, ReadUntouched, RoutineUntouched
  <2>. QED  BY <1>3, <2>2
<1>4. CASE result.status = "OK" /\ req[1] = WDBI
  <2>1. negative(0, SERVICE_NOT_SUPPORTED, capacity).status # "OK"
    BY DEF negative, AnsweredOnly, Answered
  <2>2. req # <<>>
    <3>1. ASSUME req = <<>> PROVE result = negative(0, SERVICE_NOT_SUPPORTED, capacity)
      BY <3>1 DEF service
    <3>. HIDE DEF result
    <3>. QED  BY <1>4, <2>1, <3>1
  <2>3. result = write_data_by_identifier(req, capacity, decision)
    BY <1>4, <2>2 DEF service, RDBI, WDBI, ROUTINE_CONTROL
  <2>. QED  BY <1>4, <2>3
<1>. QED  BY <1>2, <1>3, <1>4

(* What the loader and init leave behind is kept.                          *)
LEMMA KeptInit == ServerInit => KeptInv
<1>. SUFFICES ASSUME ServerInit PROVE KeptInv
  OBVIOUS
<1>1. CASE ~initialized
  BY <1>1 DEF ServerInit, KeptInv
<1>2. CASE initialized
  <2>1. PICK doc \in Configurations : config = config_load(doc)
    BY DEF ServerInit
  <2>2. config # None /\ Resolvable(config)
    BY <1>2 DEF ServerInit
  <2>3. Laid(config)
    BY <2>1, <2>2, LoadedLaid DEF config_load
  <2>4. /\ did_data = Seeded(config) /\ current = [k \in DOMAIN config.dids |-> Default(config.dids[k])]
        /\ did_signal_ids = [k \in DOMAIN config.dids |->
                               IF config.dids[k].signal = None THEN None ELSE Namespace[config.dids[k].signal]]
        /\ signal_store = <<>>
    BY <1>2 DEF ServerInit
  <2>5. \A k \in DOMAIN config.dids : did_signal_ids[k] = None <=> config.dids[k].signal = None
    <3>1. \A name \in DOMAIN Namespace : Namespace[name] # None
      BY UdsAssumption, Zenon
    <3>. QED  BY <2>2, <2>4, <3>1 DEF Resolvable
  <2>6. ASSUME NEW k \in DOMAIN config.dids PROVE Kept(k)
    <3>1. current[k] = Default(config.dids[k])
      BY <2>4
    <3>2. Get(signal_store, did_signal_ids[k]) = Unset
      BY <2>4 DEF Get
    <3>. QED  BY <2>3, <2>4, <3>1, <3>2, SeededIs DEF Kept
  <2>7. did_data \in Buffers(config)
    BY <2>3, <2>4, SeededIs
  <2>8. DOMAIN did_signal_ids = DOMAIN config.dids /\ DOMAIN current = DOMAIN config.dids
    BY <2>4
  <2>. QED  BY <1>2, <2>3, <2>5, <2>6, <2>7, <2>8 DEF KeptInv
<1>. QED  BY <1>1, <1>2

LEMMA SetIs ==
  ASSUME NEW table, NEW id, NEW value
  PROVE  /\ Get(Set(table, id, value), id) = value
         /\ \A x : x # id => Get(Set(table, id, value), x) = Get(table, x)
  BY DEF Get, Set

LEMMA OtherWriterKeeps == ASSUME KeptInv, other_writer PROVE KeptInv'
<1>1. PICK w \in Writes :
        /\ signal_store' = Set(signal_store, w[1], w[2])
        /\ current' = [k \in DOMAIN current |-> IF k \in Mapped(w[1]) THEN None ELSE current[k]]
  BY DEF other_writer
<1>2. initialized /\ UNCHANGED <<config, did_data, did_signal_ids, initialized, attached>>
  BY DEF other_writer
<1>3. ASSUME NEW k \in DOMAIN current, current'[k] # None PROVE Kept(k)'
  <2>1. k \notin Mapped(w[1]) /\ current'[k] = current[k]
    BY <1>1, <1>3
  <2>2. Kept(k) /\ k \in DOMAIN did_signal_ids
    BY <1>2, <1>3, <2>1 DEF KeptInv
  <2>3. did_signal_ids[k] # w[1]
    BY <2>1, <2>2 DEF Mapped
  <2>4. Get(signal_store', did_signal_ids[k]) = Get(signal_store, did_signal_ids[k])
    BY <1>1, <2>3, SetIs
  <2>. QED  BY <1>2, <2>1, <2>2, <2>4 DEF Kept
<1>4. DOMAIN current' = DOMAIN current
  BY <1>1
<1>. QED  BY <1>2, <1>3, <1>4 DEF KeptInv, Laid, Buffers

LEMMA ProcessKeeps == ASSUME KeptInv, ServerInv, process PROVE KeptInv'
<1>1. PICK req \in ClientRequests, capacity \in Capacities, decision \in BOOLEAN :
        LET result == service(req, capacity, decision)
        IN  /\ did_data' = result.data
            /\ signal_store' = result.store
            /\ current' = IF result.status = "OK" /\ req[1] = WDBI
                          THEN AfterWrite(find_did(config, Identifier(req, 2)), SubSeq(req, 4, Len(req)))
                          ELSE current
  BY DEF process
<1>. DEFINE result == service(req, capacity, decision)
<1>2. initialized /\ UNCHANGED <<config, did_signal_ids, initialized, attached>>
  BY DEF process
<1>3. CASE ~(result.status = "OK" /\ req[1] = WDBI)
  <2>1. Untouched(result)
    BY <1>2, <1>3, ServiceDone
  <2>2. UNCHANGED <<did_data, signal_store, current>>
    <3>1. did_data' = result.data /\ signal_store' = result.store /\ current' = current
      BY <1>1, <1>3
    <3>. HIDE DEF result
    <3>. QED  BY <2>1, <3>1 DEF Untouched
  <2>. QED  BY <1>2, <2>2 DEF KeptInv, Kept, Laid, Buffers
<1>4. CASE result.status = "OK" /\ req[1] = WDBI
  <2>. DEFINE index == find_did(config, Identifier(req, 2))
              bytes == SubSeq(req, 4, Len(req))
              e == config.dids[index]
              effect == mirror_and_store(index, bytes)
              mirrored == attached /\ e.signal # None
  <2>1. /\ result = write_data_by_identifier(req, capacity, decision)
        /\ did_data' = result.data /\ signal_store' = result.store /\ current' = AfterWrite(index, bytes)
    BY <1>1, <1>2, <1>4, ServiceDone
  <2>2. Len(req) \in Nat /\ capacity \in Nat /\ req \in Seq(Nat) /\ \A k \in 2 .. Len(req) : req[k] < ByteBase
    <3>1. \A c \in Capacities : c \in Nat
      BY UdsAssumption, Zenon
    <3>. QED  BY <3>1, ByteConstants
  <2>3. /\ index \in DOMAIN config.dids /\ Len(req) = e.length + 3
        /\ effect.ok /\ did_data' = effect.data /\ signal_store' = effect.store
    <3>. HIDE DEF result
    <3>1. write_data_by_identifier(req, capacity, decision).status = "OK"
      BY <1>4, <2>1
    <3>. QED  BY <1>2, <2>1, <2>2, <3>1, WriteDone
  <2>. HIDE DEF result
  <2>4. /\ did_data' = Stored(did_data, e, bytes)
        /\ signal_store' = IF mirrored THEN Set(signal_store, did_signal_ids[index], UIntV(decode_le(bytes)))
                           ELSE signal_store
    <3>. HIDE DEF index, bytes
    <3>. QED  BY <2>3 DEF mirror_and_store
  <2>5. /\ Laid(config) /\ did_data \in Buffers(config) /\ e.length \in Nat
        /\ DOMAIN did_signal_ids = DOMAIN config.dids /\ DOMAIN current = DOMAIN config.dids
        /\ \A k \in DOMAIN config.dids : did_signal_ids[k] = None <=> config.dids[k].signal = None
        /\ \A k \in DOMAIN config.dids : current[k] # None => Kept(k)
    BY <1>2, <2>3 DEF KeptInv, Laid
  <2>6. bytes \in Seq(0 .. ByteMax) /\ Len(bytes) = e.length
    <3>. DEFINE l == e.length
    <3>1. l \in Nat /\ Len(req) = l + 3
      BY <2>3, <2>5
    <3>. HIDE DEF l
    <3>2. bytes = [p \in 1 .. l |-> req[p + 3]]
      BY <2>2, <3>1
    <3>3. \A p \in 1 .. l : p + 3 \in 2 .. Len(req) /\ p + 3 \in 1 .. Len(req)
      BY <3>1
    <3>4. \A p \in 1 .. l : req[p + 3] \in 0 .. ByteMax
      BY <2>2, <3>3, ByteConstants DEF ByteMax
    <3>5. bytes \in [1 .. l -> 0 .. ByteMax]
      BY <3>2, <3>4
    <3>. HIDE DEF bytes
    <3>6. bytes \in Seq(0 .. ByteMax) /\ Len(bytes) = l
      BY <3>1, <3>5, FunctionSequence
    <3>. QED  BY <3>6 DEF l
  <2>. HIDE DEF index, bytes, effect
  <2>7. /\ did_data' \in Buffers(config) /\ SlotOf(did_data', e) = bytes
        /\ \A j \in DOMAIN config.dids : j # index => SlotOf(did_data', config.dids[j]) = SlotOf(did_data, config.dids[j])
    BY <2>3, <2>4, <2>5, <2>6, StoredIs
  <2>8. /\ DOMAIN current' = DOMAIN config.dids /\ current'[index] = bytes
        /\ \A k \in DOMAIN config.dids : k # index =>
             IF attached /\ did_signal_ids[index] # None /\ k \in Aliases(index)
             THEN current'[k] = None ELSE current'[k] = current[k]
    BY <2>1, <2>3, <2>5 DEF AfterWrite
  <2>9. ASSUME NEW k \in DOMAIN config.dids, current'[k] # None PROVE Kept(k)'
    <3>1. CASE k = index
      <4>1. mirrored => Get(signal_store', did_signal_ids[index]) = UIntV(decode_le(bytes))
        BY <2>4, SetIs
      <4>. QED  BY <1>2, <2>6, <2>7, <2>8, <3>1, <4>1 DEF Kept
    <3>2. CASE k # index
      <4>1. current'[k] = current[k] /\ ~(attached /\ did_signal_ids[index] # None /\ k \in Aliases(index))
        BY <2>8, <2>9, <3>2
      <4>2. Kept(k)
        BY <2>5, <2>9, <4>1
      <4>3. SlotOf(did_data', config.dids[k]) = SlotOf(did_data, config.dids[k])
        BY <2>7, <3>2
      <4>4. Get(signal_store', did_signal_ids[k]) = Get(signal_store, did_signal_ids[k])
        <5>1. CASE ~mirrored
          BY <2>4, <5>1
        <5>2. CASE mirrored
          <6>1. did_signal_ids[index] # None
            BY <2>3, <2>5, <5>2
          <6>2. did_signal_ids[k] # did_signal_ids[index]
            BY <2>5, <4>1, <5>2, <6>1 DEF Aliases
          <6>. QED  BY <2>4, <5>2, <6>2, SetIs
        <5>. QED  BY <5>1, <5>2
      <4>. QED  BY <1>2, <4>1, <4>2, <4>3, <4>4 DEF Kept
    <3>. QED  BY <3>1, <3>2
  <2>. QED  BY <1>2, <2>5, <2>7, <2>8, <2>9 DEF KeptInv, Laid, Buffers
<1>. QED  BY <1>3, <1>4

(* A read of a DID returns the last approved write to it, or its default,  *)
(* until another writer touches its signal, for every configuration the    *)
(* loader accepts and every width of a byte: slots do not overlap, and     *)
(* encoding undoes decoding (data_offset, uds_decode_le,                   *)
(* uds_encode_value_le).                                                   *)
THEOREM ReadYourWritesCorrect == ServerSpec => []ReadYourWrites
<1>1. KeptInv /\ ServerInv /\ [ServerNext]_server_vars => KeptInv'
  <2>. SUFFICES ASSUME KeptInv, ServerInv, [ServerNext]_server_vars PROVE KeptInv'
    OBVIOUS
  <2>1. CASE UNCHANGED server_vars
    BY <2>1 DEF server_vars, KeptInv, Kept, Laid, Buffers
  <2>. QED  BY <2>1, ProcessKeeps, OtherWriterKeeps DEF ServerNext
<1>2. KeptInv => ReadYourWrites
  BY ReadsKept
<1>. QED  BY <1>1, <1>2, KeptInit, ServerInvInductive, PTL DEF ServerSpec

-----------------------------------------------------------------------------
(* Where the bits of a Motorola signal are.                                *)
LEMMA CodecConstants ==
  /\ ByteBits \in Nat \ {0} /\ WordBits \in Nat \ {0} /\ ClassicBytes \in Nat \ {0}
  /\ FdLengths \subseteq Nat /\ IsFiniteSet(FdLengths)
  BY CodecAssumption, Zenon

LEMMA Mirrored ==
  ASSUME NEW p \in Nat
  PROVE  /\ be_idx(p) \in Nat /\ be_idx(be_idx(p)) = p
         /\ \A n \in Nat : p < n * ByteBits => be_idx(p) < n * ByteBits
<1>. DEFINE b == ByteBits  q == p \div b  r == p % b
<1>1. b \in Nat \ {0}
  BY CodecConstants
<1>. HIDE DEF b
<1>2. q \in Nat /\ r \in Nat /\ r < b /\ p = r + b * q
  BY <1>1
<1>. HIDE DEF q, r
<1>. DEFINE low == b - 1 - r
<1>3. low \in Nat /\ low < b
  BY <1>1, <1>2
<1>4. be_idx(p) = low + b * q
  <2>1. be_idx(p) = q * b + (b - 1 - r)
    BY DEF be_idx, b, q, r
  <2>2. q * b = b * q /\ b * q \in Nat
    BY <1>1, <1>2
  <2>. QED  BY <1>1, <1>2, <2>1, <2>2
<1>. HIDE DEF low
<1>5. be_idx(p) \div b = q /\ be_idx(p) % b = low
  <2>. DEFINE x == be_idx(p)
  <2>1. x = low + b * q
    BY <1>4
  <2>. HIDE DEF x
  <2>2. x \div b = q /\ x % b = low
    BY <1>1, <1>2, <1>3, <2>1, Quotient
  <2>. QED  BY <2>2 DEF x
<1>6. be_idx(be_idx(p)) = p
  <2>1. be_idx(be_idx(p)) = q * b + (b - 1 - low)
    BY <1>5 DEF be_idx, b
  <2>2. q * b = b * q /\ b * q \in Nat
    BY <1>1, <1>2
  <2>3. b - 1 - low = r
    BY <1>1, <1>2 DEF low
  <2>. QED  BY <1>2, <2>1, <2>2, <2>3
<1>7. be_idx(p) \in Nat
  BY <1>1, <1>2, <1>3, <1>4
<1>8. ASSUME NEW n \in Nat, p < n * b PROVE be_idx(p) < n * b
  <2>1. b * q \in Nat /\ n * b = b * n /\ b * n \in Nat
    BY <1>1, <1>2
  <2>2. q < n
    <3>. SUFFICES ASSUME n <= q PROVE FALSE
      BY <1>2
    <3>1. b * n <= b * q
      BY <1>1, <1>2, ProductMono
    <3>. QED  BY <1>2, <1>8, <2>1, <3>1
  <2>3. b * (q + 1) <= b * n
    BY <1>1, <1>2, <2>2, ProductMono
  <2>4. b * (q + 1) = b * q + b
    BY <1>1, <1>2
  <2>. QED  BY <1>1, <1>2, <1>3, <1>4, <2>1, <2>3, <2>4
<1>. QED  BY <1>6, <1>7, <1>8 DEF b

(* A finite set of numbers has a largest.                                  *)
LEMMA LargestNatural ==
  ASSUME NEW S \in SUBSET Nat, IsFiniteSet(S), S # {}
  PROVE  Lists!Max(S) \in S /\ \A y \in S : Lists!Max(S) >= y
<1>. DEFINE n == Cardinality(S)
<1>1. n \in Nat /\ ExistsBijection(1 .. n, S)
  BY FS_CardinalityType
<1>. HIDE DEF n
<1>2. PICK f \in [1 .. n -> S] : \A y \in S : \E i \in 1 .. n : f[i] = y
  BY <1>1 DEF ExistsBijection, Bijection, Surjection
<1>3. PICK s0 \in S : TRUE
  OBVIOUS
<1>. DEFINE P == {k \in 0 .. n : \E x \in S : \A i \in 1 .. k : f[i] <= x}
<1>4. 0 \in P
  BY <1>1, <1>3
<1>5. ASSUME NEW k \in 1 .. n, k - 1 \in P PROVE k \in P
  <2>1. PICK x \in S : \A i \in 1 .. k - 1 : f[i] <= x
    BY <1>5
  <2>. DEFINE z == IF f[k] <= x THEN x ELSE f[k]
  <2>2. z \in S /\ k \in 0 .. n /\ f[k] \in S
    <3>1. f[k] \in S
      OBVIOUS
    <3>2. k \in 0 .. n
      BY <1>1
    <3>. QED  BY <3>1, <3>2
  <2>3. ASSUME NEW i \in 1 .. k PROVE f[i] <= z
    <3>1. f[i] \in Nat /\ x \in Nat /\ f[k] \in Nat
      <4>1. i \in 1 .. n
        BY <1>1
      <4>2. f[i] \in S /\ x \in S /\ f[k] \in S
        BY <2>2, <4>1
      <4>. QED  BY <4>2
    <3>2. CASE i = k
      BY <3>1, <3>2
    <3>3. CASE i # k
      <4>1. f[i] <= x
        BY <1>1, <2>1, <3>3
      <4>. QED  BY <3>1, <4>1
    <3>. QED  BY <3>2, <3>3
  <2>. HIDE DEF z
  <2>. QED  BY <2>2, <2>3
<1>6. n \in P
  <2>1. \A k \in 0 .. n : k \in P
    <3>. HIDE DEF P
    <3>. QED  BY <1>1, <1>4, <1>5, CountedUp
  <2>. HIDE DEF P
  <2>. QED  BY <1>1, <2>1
<1>7. PICK x \in S : \A y \in S : x >= y
  <2>1. PICK x \in S : \A i \in 1 .. n : f[i] <= x
    BY <1>6
  <2>. QED  BY <1>2, <2>1
<1>. QED  BY <1>7 DEF Lists!Max

LEMMA MaxBytesIs ==
  \A can_fd : MaxBytes(can_fd) \in Nat
<1>. DEFINE S == FdLengths \cup {ClassicBytes}
<1>1. S \in SUBSET Nat /\ S # {} /\ ClassicBytes \in Nat
  BY CodecConstants
<1>2. IsFiniteSet(S)
  BY CodecConstants, FS_AddElement
<1>. HIDE DEF S
<1>3. Lists!Max(S) \in Nat
  BY <1>1, <1>2, LargestNatural
<1>. QED  BY <1>1, <1>3 DEF MaxBytes, S

(* A signal the parser accepts has its bits in the payload.                *)
Fitting(s, can_fd) ==
  /\ Fits(s, MaxBytes(can_fd))
  /\ Bits(s) \subseteq 0 .. MaxBytes(can_fd) * ByteBits - 1
  /\ Cardinality(Bits(s)) = s.bit_length

LEMMA SignalFits ==
  ASSUME NEW d, NEW can_fd, parse_signal(d, MaxBytes(can_fd) * ByteBits)
  PROVE  Fitting(build_signal(d), can_fd)
<1>. DEFINE s == build_signal(d)  n == MaxBytes(can_fd)  all == n * ByteBits
            b == d.start_bit  l == d.bit_length
<1>0. n \in Nat /\ ByteBits \in Nat /\ WordBits \in Nat
  BY MaxBytesIs, CodecConstants
<1>1. all \in Nat
  BY <1>0
<1>2. parse_signal_fields(d, all) /\ parse_signal_bits(d, all)
  BY DEF parse_signal
<1>3. s.start_bit = b /\ s.bit_length = l /\ s.layout = Layout(d)
  BY DEF build_signal
<1>. HIDE DEF n
<1>4. b \in Nat /\ b < all /\ l \in Nat /\ l > 0
  <2>1. b \in 0 .. all - 1 /\ l \in 1 .. WordBits
    BY <1>2 DEF parse_signal_fields
  <2>. HIDE DEF all, b, l
  <2>. QED  BY <1>0, <1>1, <2>1
<1>. SUFFICES Fits(s, n) /\ Bits(s) \subseteq 0 .. all - 1 /\ Cardinality(Bits(s)) = l
  BY <1>3 DEF Fitting, n
<1>5. CASE Layout(d) = "sawtooth"
  <2>. DEFINE m == be_idx(b)  at == [k \in 0 .. l - 1 |-> SawBit(b, k)]
  <2>1. m + l <= all
    BY <1>2, <1>5 DEF parse_signal_bits
  <2>2. m \in Nat
    BY <1>4, Mirrored
  <2>. HIDE DEF m, b, l
  <2>3. ASSUME NEW k \in 0 .. l - 1
        PROVE  SawBit(b, k) \in Nat /\ SawBit(b, k) < all /\ be_idx(SawBit(b, k)) = m + k
    <3>1. m + k \in Nat /\ m + k < all
      BY <1>1, <1>4, <2>1, <2>2
    <3>2. SawBit(b, k) = be_idx(m + k)
      BY DEF SawBit, m
    <3>. HIDE DEF m
    <3>. QED  BY <1>0, <3>1, <3>2, Mirrored
  <2>4. Bits(s) = {SawBit(b, k) : k \in 0 .. l - 1}
    BY <1>3, <1>5 DEF Bits
  <2>5. Fits(s, n)
    BY <1>3, <1>5, <2>3 DEF Fits, codec_bits_saw_fits
  <2>. HIDE DEF s, all
  <2>6. Bits(s) \subseteq 0 .. all - 1
    BY <1>1, <2>3, <2>4
  <2>7. Cardinality(Bits(s)) = l
    <3>1. at \in [0 .. l - 1 -> Bits(s)] /\ \A v \in Bits(s) : \E k \in 0 .. l - 1 : at[k] = v
      BY <2>4
    <3>2. ASSUME NEW i \in 0 .. l - 1, NEW j \in 0 .. l - 1, at[i] = at[j] PROVE i = j
      <4>1. SawBit(b, i) = SawBit(b, j)
        BY <3>2
      <4>2. m + i = m + j
        BY <2>3, <4>1
      <4>. QED  BY <1>4, <2>2, <4>2
    <3>. HIDE DEF at
    <3>3. at \in Bijection(0 .. l - 1, Bits(s))
      BY <3>1, <3>2 DEF Bijection, Injection, IsInjective, Surjection
    <3>4. l - 1 \in Int /\ 0 \in Int /\ ~(0 > l - 1) /\ l - 1 - 0 + 1 = l
      BY <1>4
    <3>5. IsFiniteSet(0 .. l - 1) /\ Cardinality(0 .. l - 1) = l
      BY <3>4, FS_Interval
    <3>. QED  BY <3>3, <3>5, FS_Bijection DEF ExistsBijection
  <2>. QED  BY <2>5, <2>6, <2>7
<1>6. CASE Layout(d) # "sawtooth"
  <2>1. PICK first, last \in Int :
          /\ s.first_bit = first /\ s.last_bit = last
          /\ 0 <= first /\ last < all /\ last - first + 1 = l
    <3>1. CASE d.endianness = "little"
      <4>1. s.first_bit = b /\ s.last_bit = b + l - 1
        BY <1>6, <3>1 DEF build_signal
      <4>2. b + l <= all
        BY <1>2, <1>6, <3>1 DEF parse_signal_bits
      <4>. HIDE DEF s, b, l, all
      <4>. QED  BY <1>1, <1>4, <4>1, <4>2
    <3>2. CASE d.endianness # "little"
      <4>1. s.first_bit = b - (l - 1) /\ s.last_bit = b
        BY <1>6, <3>2 DEF build_signal
      <4>2. b >= l - 1
        BY <1>2, <1>6, <3>2 DEF parse_signal_bits
      <4>. HIDE DEF s, b, l, all
      <4>. QED  BY <1>1, <1>4, <4>1, <4>2
    <3>. QED  BY <3>1, <3>2
  <2>2. Bits(s) = first .. last
    BY <1>3, <1>6, <2>1 DEF Bits
  <2>3. Fits(s, n)
    BY <1>3, <1>6, <2>1 DEF Fits
  <2>. HIDE DEF s, b, l, all
  <2>4. Cardinality(Bits(s)) = l
    <3>1. first \in Int /\ ~(first > last)
      BY <1>4, <2>1
    <3>. QED  BY <2>1, <2>2, <3>1, FS_Interval
  <2>5. Bits(s) \subseteq 0 .. all - 1
    BY <1>1, <2>1, <2>2
  <2>. QED  BY <2>3, <2>4, <2>5
<1>. QED  BY <1>5, <1>6

(* What the parser has seen to for the encoder and the decoder.            *)
Sound(s) ==
  /\ s.start_bit \in Nat /\ s.bit_length \in 1 .. WordBits
  /\ s.type \in {"uint", "int", "boolean", "enum"}
  /\ s.layout # "sawtooth" => s.first_bit \in Nat /\ s.last_bit = s.first_bit + s.bit_length - 1
  /\ s.scale \in Int /\ s.offset \in Int /\ s.min \in Int /\ s.max \in Int
  /\ s.strict \in BOOLEAN /\ s.has_min \in BOOLEAN /\ s.has_max \in BOOLEAN
  /\ s.type \in {"uint", "int"} => s.scale # 0
  /\ s.type = "boolean" => s.bit_length = 1

LEMMA SignalSound ==
  ASSUME NEW d, NEW n \in Nat, parse_signal(d, n), SignalTyped(d)
  PROVE  Sound(build_signal(d))
<1>. DEFINE s == build_signal(d)
<1>1. /\ s.start_bit = d.start_bit /\ s.bit_length = d.bit_length /\ s.type = d.type /\ s.layout = Layout(d)
      /\ s.scale = Field(d, "scale", RealUnit) /\ s.offset = Field(d, "offset", 0)
      /\ s.min = Field(d, "min", 0) /\ s.max = Field(d, "max", 0) /\ s.strict = Field(d, "strict", TRUE)
      /\ s.has_min = ("min" \in DOMAIN d) /\ s.has_max = ("max" \in DOMAIN d)
  BY DEF build_signal
<1>2. /\ Layout(d) # "sawtooth" /\ d.endianness = "little" =>
           s.first_bit = d.start_bit /\ s.last_bit = d.start_bit + d.bit_length - 1
      /\ Layout(d) # "sawtooth" /\ d.endianness # "little" =>
           s.first_bit = d.start_bit - (d.bit_length - 1) /\ s.last_bit = d.start_bit
  BY DEF build_signal
<1>. HIDE DEF s
<1>3. /\ d.start_bit \in 0 .. n - 1 /\ d.bit_length \in 1 .. WordBits
      /\ d.type \in {"uint", "int", "boolean", "enum"}
  BY DEF parse_signal, parse_signal_fields
<1>4. d.start_bit \in Nat /\ d.bit_length \in Nat /\ d.bit_length > 0
  BY <1>3, CodecConstants
<1>5. s.layout # "sawtooth" => s.first_bit \in Nat /\ s.last_bit = s.first_bit + s.bit_length - 1
  <2>1. CASE Layout(d) # "sawtooth" /\ d.endianness = "little"
    BY <1>1, <1>2, <1>4, <2>1
  <2>2. CASE Layout(d) # "sawtooth" /\ d.endianness # "little"
    <3>1. d.start_bit >= d.bit_length - 1
      BY <2>2 DEF parse_signal, parse_signal_bits
    <3>. QED  BY <1>1, <1>2, <1>4, <2>2, <3>1
  <2>. QED  BY <1>1, <2>1, <2>2
<1>6. /\ \A key \in {"scale", "offset", "min", "max"} : key \in DOMAIN d => d[key] \in Int
      /\ "strict" \in DOMAIN d => d["strict"] \in BOOLEAN
  BY DEF SignalTyped
<1>7. s.scale \in Int /\ s.offset \in Int /\ s.min \in Int /\ s.max \in Int
  BY <1>1, <1>6 DEF Field, RealUnit
<1>8. s.strict \in BOOLEAN /\ s.has_min \in BOOLEAN /\ s.has_max \in BOOLEAN
  <2>1. s.strict = IF "strict" \in DOMAIN d THEN d["strict"] ELSE TRUE
    BY <1>1 DEF Field
  <2>2. s.strict \in BOOLEAN
    BY <1>6, <2>1, Zenon
  <2>3. s.has_min \in BOOLEAN
    <3>1. s.has_min = ("min" \in DOMAIN d)
      BY <1>1
    <3>2. ("min" \in DOMAIN d) \in BOOLEAN
      OBVIOUS
    <3>. QED  BY <3>1, <3>2, Zenon
  <2>4. s.has_max \in BOOLEAN
    <3>1. s.has_max = ("max" \in DOMAIN d)
      BY <1>1
    <3>2. ("max" \in DOMAIN d) \in BOOLEAN
      OBVIOUS
    <3>. QED  BY <3>1, <3>2, Zenon
  <2>. QED  BY <2>2, <2>3, <2>4
<1>9. s.type \in {"uint", "int"} => s.scale # 0
  BY <1>1 DEF parse_signal, parse_signal_scaling
<1>10. s.type = "boolean" => s.bit_length = 1
  BY <1>1 DEF parse_signal, parse_signal_rules
<1>. QED  BY <1>1, <1>3, <1>4, <1>5, <1>7, <1>8, <1>9, <1>10 DEF Sound, s

-----------------------------------------------------------------------------
(* What is where in sequences put one behind the other.                    *)
Chained(ss, f) ==
  /\ f[0] = <<>>
  /\ \A k \in 1 .. Len(ss) : f[k] = f[k - 1] \o ss[k]

LEMMA FlattenIs ==
  ASSUME NEW T, NEW ss \in Seq(Seq(T))
  PROVE  \E f \in [0 .. Len(ss) -> Seq(T)] : Chained(ss, f) /\ Lists!FlattenSeq(ss) = f[Len(ss)]
<1>. DEFINE n == Len(ss)
            G == [k \in 1 .. n |-> [v \in Seq(T) |-> v \o ss[k]]]
            Def(g) == g = [i \in 1 .. Len(ss) |-> IF i = 1 THEN ss[i] ELSE g[i - 1] \o ss[i]]
<1>0. n \in Nat /\ <<>> \in Seq(T) /\ \A k \in 1 .. n : ss[k] \in Seq(T)
  BY SequenceFunction
<1>1. CASE n = 0
  <2>. DEFINE f == [k \in 0 .. 0 |-> <<>>]
  <2>1. ss = <<>>
    BY <1>1
  <2>2. Lists!FlattenSeq(ss) = <<>>
    BY <1>1, <2>1 DEF Lists!FlattenSeq
  <2>3. f \in [0 .. n -> Seq(T)] /\ f[0] = <<>>
    BY <1>0, <1>1
  <2>. HIDE DEF f
  <2>4. Chained(ss, f)
    BY <1>1, <2>3 DEF Chained
  <2>. QED  BY <1>1, <2>2, <2>3, <2>4
<1>2. CASE n # 0
  <2>1. G \in [1 .. n -> [Seq(T) -> Seq(T)]] /\ \A k \in 1 .. n : \A v \in Seq(T) : G[k][v] = v \o ss[k]
    <3>1. \A k \in 1 .. n : \A v \in Seq(T) : v \o ss[k] \in Seq(T)
      BY <1>0
    <3>. HIDE DEF n
    <3>. QED  BY <3>1, Zenon
  <2>. HIDE DEF G, n
  <2>2. PICK f \in [0 .. n -> Seq(T)] : Recursion(G, <<>>, n, f)
    BY <1>0, <2>1, RecursiveFunction
  <2>3. f[0] = <<>> /\ \A k \in 1 .. n : f[k] = f[k - 1] \o ss[k]
    <3>1. 0 \in 0 .. n /\ \A k \in 1 .. n : k # 0 /\ k \in 0 .. n /\ k - 1 \in 0 .. n
      BY <1>0
    <3>2. \A k \in 0 .. n : f[k] = IF k = 0 THEN <<>> ELSE G[k][f[k - 1]]
      BY <2>2 DEF Recursion
    <3>3. \A k \in 1 .. n : f[k - 1] \in Seq(T)
      BY <3>1
    <3>. QED  BY <2>1, <3>1, <3>2, <3>3
  <2>. DEFINE g == [i \in 1 .. n |-> f[i]]
  <2>4. Def(g)
    <3>1. ASSUME NEW i \in 1 .. n PROVE g[i] = IF i = 1 THEN ss[i] ELSE g[i - 1] \o ss[i]
      <4>1. g[i] = f[i - 1] \o ss[i] /\ ss[i] \in Seq(T)
        BY <1>0, <2>3
      <4>2. CASE i = 1
        <5>1. f[i - 1] = <<>>
          BY <2>3, <4>2
        <5>. QED  BY <4>1, <4>2, <5>1
      <4>3. CASE i # 1
        <5>1. i - 1 \in 1 .. n
          BY <1>0, <4>3
        <5>2. g[i - 1] = f[i - 1]
          BY <5>1
        <5>. HIDE DEF g
        <5>. QED  BY <4>1, <4>3, <5>2
      <4>. QED  BY <4>2, <4>3
    <3>2. g = [i \in 1 .. n |-> g[i]]
      OBVIOUS
    <3>. HIDE DEF g
    <3>3. g = [i \in 1 .. n |-> IF i = 1 THEN ss[i] ELSE g[i - 1] \o ss[i]]
      BY <3>1, <3>2
    <3>. QED  BY <3>3 DEF n
  <2>. HIDE DEF g
  <2>. DEFINE c == CHOOSE h : Def(h)
  <2>5. Def(c)
    BY <2>4, ZenonT(30)
  <2>6. Lists!FlattenSeq(ss) = c[Len(ss)]
    BY <1>2 DEF Lists!FlattenSeq, n
  <2>. HIDE DEF c
  <2>7. \A i \in 1 .. n : c[i] = IF i = 1 THEN ss[i] ELSE c[i - 1] \o ss[i]
    BY <2>5 DEF n
  <2>. HIDE DEF Def
  <2>. DEFINE P == {k \in 0 .. n : k = 0 \/ c[k] = f[k]}
  <2>8. 0 \in P
    BY <1>0
  <2>9. ASSUME NEW k \in 1 .. n, k - 1 \in P PROVE k \in P
    <3>1. k \in 0 .. n /\ f[k] = f[k - 1] \o ss[k] /\ ss[k] \in Seq(T)
      <4>1. k \in 0 .. n
        BY <1>0
      <4>. HIDE DEF P
      <4>. QED  BY <1>0, <2>3, <4>1, Zenon
    <3>2. CASE k = 1
      <4>1. f[k - 1] = <<>> /\ c[k] = ss[k]
        BY <2>3, <2>7, <3>2
      <4>2. c[k] = f[k]
        BY <3>1, <4>1
      <4>. QED  BY <3>1, <4>2
    <3>3. CASE k # 1
      <4>1. c[k - 1] = f[k - 1]
        BY <1>0, <2>9, <3>3
      <4>2. c[k] = f[k]
        BY <2>7, <3>1, <3>3, <4>1
      <4>. QED  BY <3>1, <4>2
    <3>. QED  BY <3>2, <3>3
  <2>10. n \in P
    <3>. HIDE DEF P
    <3>1. \A k \in 0 .. n : k \in P
      BY <1>0, <2>8, <2>9, CountedUp
    <3>. QED  BY <1>0, <3>1
  <2>11. c[n] = f[n]
    BY <1>2, <2>10
  <2>. QED  BY <2>2, <2>3, <2>6, <2>11 DEF n, Chained
<1>. QED  BY <1>1, <1>2


-----------------------------------------------------------------------------
(* The maps that can be registered.                                        *)
Loadable == {build_map(root.codec_map) : root \in {r \in Documents \cup Shapes : map_load_checked(r)}}

SignalLists(m) == [k \in DOMAIN m.messages |-> m.messages[k].signals]

LEMMA LoadableMessages ==
  ASSUME NEW m \in Loadable
  PROVE  /\ \E T : SignalLists(m) \in Seq(Seq(T)) /\ \A s \in T : Fitting(s, m.can_fd) /\ Sound(s)
         /\ \A i, j \in DOMAIN m.messages : m.messages[i].id = m.messages[j].id => i = j
<1>1. PICK root \in Documents \cup Shapes : map_load_checked(root) /\ m = build_map(root.codec_map)
  BY DEF Loadable
<1>. DEFINE d == root.codec_map  fd == Field(d, "can_fd", FALSE)  n == Len(d.messages)
            signals(k) == d.messages[k].signals
            T == UNION {{build_signal(signals(k)[j]) : j \in DOMAIN signals(k)} : k \in DOMAIN d.messages}
            ss == SignalLists(m)
<1>2. validate_map(d) /\ "codec_map" \in DOMAIN root
  BY <1>1 DEF map_load_checked, validate_root, TOP_KEYS
<1>3. "messages" \in DOMAIN d /\ \A k \in DOMAIN d.messages : parse_message(d.messages[k], fd)
  BY <1>2 DEF validate_map
<1>4. \A k \in DOMAIN d.messages :
        /\ "signals" \in DOMAIN d.messages[k]
        /\ \A j \in DOMAIN signals(k) : parse_signal(signals(k)[j], MaxBytes(fd) * ByteBits)
  BY <1>3 DEF parse_message
<1>5. /\ Listing(d.messages)
      /\ \A k \in DOMAIN d.messages : Listing(signals(k)) /\ \A j \in DOMAIN signals(k) : SignalTyped(signals(k)[j])
  <2>1. "codec_map" \in DOMAIN root /\ "messages" \in DOMAIN root.codec_map
    BY <1>2, <1>3
  <2>2. Listing(root.codec_map.messages) /\ \A k \in DOMAIN root.codec_map.messages :
          "signals" \in DOMAIN root.codec_map.messages[k] =>
            /\ Listing(root.codec_map.messages[k].signals)
            /\ \A j \in DOMAIN root.codec_map.messages[k].signals : SignalTyped(root.codec_map.messages[k].signals[j])
    BY <2>1, CodecAssumption, Zenon
  <2>. QED  BY <1>4, <2>2
<1>6. m.can_fd = fd
  BY <1>1 DEF build_map
<1>7. \A s \in T : Fitting(s, m.can_fd) /\ Sound(s)
  <2>. SUFFICES ASSUME NEW k \in DOMAIN d.messages, NEW j \in DOMAIN signals(k)
                PROVE  Fitting(build_signal(signals(k)[j]), fd) /\ Sound(build_signal(signals(k)[j]))
    BY <1>6
  <2>. HIDE DEF fd
  <2>1. parse_signal(signals(k)[j], MaxBytes(fd) * ByteBits) /\ SignalTyped(signals(k)[j])
    BY <1>4, <1>5
  <2>. HIDE DEF signals
  <2>2. MaxBytes(fd) * ByteBits \in Nat
    <3>1. MaxBytes(fd) \in Nat /\ ByteBits \in Nat
      BY MaxBytesIs, CodecConstants
    <3>. QED  BY <3>1
  <2>. QED  BY <2>1, <2>2, SignalFits, SignalSound
<1>8. /\ DOMAIN m.messages = DOMAIN d.messages
      /\ \A k \in DOMAIN d.messages : m.messages[k].signals = [j \in DOMAIN signals(k) |-> build_signal(signals(k)[j])]
  BY <1>1 DEF build_map
<1>9. ASSUME NEW k \in DOMAIN d.messages PROVE m.messages[k].signals \in Seq(T)
  <2>. DEFINE built == [j \in DOMAIN signals(k) |-> build_signal(signals(k)[j])]  l == Len(signals(k))
  <2>1. m.messages[k].signals = built
    BY <1>8
  <2>2. l \in Nat /\ DOMAIN signals(k) = 1 .. l
    BY <1>5 DEF Listing
  <2>3. built \in [1 .. l -> T]
    <3>1. \A j \in DOMAIN signals(k) : build_signal(signals(k)[j]) \in T
      OBVIOUS
    <3>. HIDE DEF T
    <3>. QED  BY <2>2, <3>1
  <2>. HIDE DEF built, l, T
  <2>. QED  BY <2>1, <2>2, <2>3, FunctionSequence
<1>10. ss \in Seq(Seq(T))
  <2>. HIDE DEF T
  <2>1. n \in Nat /\ DOMAIN d.messages = 1 .. n
    BY <1>5 DEF Listing
  <2>2. ss \in [1 .. n -> Seq(T)]
    BY <1>8, <1>9, <2>1 DEF SignalLists
  <2>. HIDE DEF ss, n
  <2>. QED  BY <2>1, <2>2, FunctionSequence
<1>11. \A i, j \in DOMAIN m.messages : m.messages[i].id = m.messages[j].id => i = j
  <2>1. DOMAIN m.messages \subseteq Nat /\ DOMAIN m.messages = DOMAIN d.messages
    BY <1>5, <1>8 DEF Listing
  <2>2. \A k \in DOMAIN m.messages : m.messages[k].id = d.messages[k]["id"]
    BY <1>1 DEF build_map
  <2>3. ASSUME NEW i \in DOMAIN m.messages, NEW j \in DOMAIN m.messages, i < j PROVE m.messages[i].id # m.messages[j].id
    <3>. SUFFICES ASSUME m.messages[i].id = m.messages[j].id PROVE FALSE
      OBVIOUS
    <3>1. <<i, j>> \in SameAs(d.messages, "id")
      BY <2>1, <2>2, <2>3 DEF SameAs
    <3>. QED  BY <1>2, <3>1 DEF validate_map
  <2>. QED  BY <2>1, <2>3
<1>. HIDE DEF T, ss
<1>. QED  BY <1>7, <1>10, <1>11 DEF ss

LEMMA LoadableSignals ==
  ASSUME NEW m \in Loadable
  PROVE  \E T : SignalsOf(m) \in Seq(T) /\ \A s \in T : Fitting(s, m.can_fd) /\ Sound(s)
<1>. DEFINE ss == SignalLists(m)
<1>1. PICK T : ss \in Seq(Seq(T)) /\ \A s \in T : Fitting(s, m.can_fd) /\ Sound(s)
  BY LoadableMessages
<1>2. SignalsOf(m) = Lists!FlattenSeq(ss)
  BY DEF SignalsOf, SignalLists
<1>. HIDE DEF ss
<1>3. PICK f \in [0 .. Len(ss) -> Seq(T)] : Lists!FlattenSeq(ss) = f[Len(ss)]
  BY <1>1, FlattenIs
<1>4. Len(ss) \in 0 .. Len(ss)
  BY <1>1
<1>. QED  BY <1>1, <1>2, <1>3, <1>4

(* The codec with both its parts.                                          *)
CodecSpec == CodecInit /\ [][NamespaceNext \/ FrameNext]_codec_vars

CodecInv == slots \in Seq(Loadable)

LEMMA CodecInitInv == CodecInit => CodecInv
  BY DEF CodecInit, CodecInv

LEMMA LoadMapInv ==
  ASSUME CodecInv, NEW documents \in SUBSET (Documents \cup Shapes), load_map(documents)
  PROVE  CodecInv'
<1>1. PICK root \in documents : map_load_checked(root) /\ slots' = Append(slots, build_map(root.codec_map))
  BY DEF load_map
<1>. DEFINE m == build_map(root.codec_map)
<1>2. m \in Loadable
  BY <1>1 DEF Loadable
<1>. HIDE DEF m
<1>. QED  BY <1>1, <1>2 DEF CodecInv, m

LEMMA CodecStepInv == CodecInv /\ [NamespaceNext \/ FrameNext]_codec_vars => CodecInv'
<1>. SUFFICES ASSUME CodecInv, [NamespaceNext \/ FrameNext]_codec_vars PROVE CodecInv'
  OBVIOUS
<1>1. CASE UNCHANGED slots
  BY <1>1 DEF CodecInv
<1>2. CASE load_map(Documents) \/ load_map(Documents \cup Shapes)
  <2>1. Documents \in SUBSET (Documents \cup Shapes) /\ Documents \cup Shapes \in SUBSET (Documents \cup Shapes)
    OBVIOUS
  <2>. QED  BY <1>2, <2>1, LoadMapInv
<1>3. \/ UNCHANGED slots
      \/ load_map(Documents) \/ load_map(Documents \cup Shapes)
  BY DEF NamespaceNext, FrameNext, codec_vars, resolve_name_once, new_frame, encode_signal
<1>. QED  BY <1>1, <1>2, <1>3

(* A signal the loader has accepted fits with every bit into the longest   *)
(* frame of its map, for all documents, byte and word sizes and frame      *)
(* lengths (codec_parse_signal, codec_be_idx).                             *)
THEOREM LoadedSignalsFitCorrect == CodecSpec => []LoadedSignalsFit
<1>1. CodecInv => LoadedSignalsFit
  <2>. SUFFICES ASSUME CodecInv, NEW k \in DOMAIN slots, NEW n \in DOMAIN SignalsOf(slots[k])
                PROVE  Fitting(SignalsOf(slots[k])[n], slots[k].can_fd)
    BY DEF LoadedSignalsFit, Fitting
  <2>. DEFINE m == slots[k]
  <2>1. m \in Loadable
    BY DEF CodecInv
  <2>. HIDE DEF m
  <2>2. PICK T : SignalsOf(m) \in Seq(T) /\ \A s \in T : Fitting(s, m.can_fd)
    BY <2>1, LoadableSignals
  <2>3. \A j \in DOMAIN SignalsOf(m) : SignalsOf(m)[j] \in T
    BY <2>2
  <2>. QED  BY <2>2, <2>3 DEF m
<1>. QED  BY <1>1, CodecInitInv, CodecStepInv, PTL DEF CodecSpec


-----------------------------------------------------------------------------
(* The namespace as operators of the registered maps.                      *)
IdIn(x, k, n) ==
  LET before[j \in 0 .. Len(x)] == IF j = 0 THEN 0 ELSE before[j - 1] + signal_count(x[j])
  IN  before[k - 1] + n

NamesIn(x) ==
  [k \in DOMAIN x |-> [n \in DOMAIN SignalsOf(x[k]) |-> <<x[k].name, SignalsOf(x[k])[n].name>>]]

AtIn(x, id) ==
  LET all == Lists!FlattenSeq(NamesIn(x)) IN IF id \in DOMAIN all THEN all[id] ELSE <<>>

MatchesIn(x, name) ==
  UNION {{<<k, n>> : n \in {n \in DOMAIN SignalsOf(x[k]) : SignalsOf(x[k])[n].name = name[Len(name)]}} :
           k \in {k \in DOMAIN x : Len(name) = 2 => x[k].name = name[1]}}

ResolveIn(x, name) ==
  IF Cardinality(MatchesIn(x, name)) # 1 THEN 0
  ELSE LET at == CHOOSE at \in MatchesIn(x, name) : TRUE IN IdIn(x, at[1], at[2])

LEMMA NamespaceIs ==
  /\ \A k, n : id_of(k, n) = IdIn(slots, k, n)
  /\ \A id : signal_at(id) = AtIn(slots, id)
  /\ \A name : namespace_resolve(name) = ResolveIn(slots, name)
<1>1. \A k, n : id_of(k, n) = IdIn(slots, k, n)
  BY Zenon DEF id_of, IdIn
<1>2. \A id : signal_at(id) = AtIn(slots, id)
  BY Zenon DEF signal_at, AtIn, NamesIn
<1>3. \A name : namespace_resolve(name) = ResolveIn(slots, name)
  BY Zenon DEF namespace_resolve, ResolveIn, Matches, MatchesIn, id_of, IdIn
<1>. QED  BY <1>1, <1>2, <1>3, Zenon

LEMMA SignalsListed ==
  ASSUME NEW m \in Loadable
  PROVE  Listing(SignalsOf(m))
<1>1. PICK T : SignalsOf(m) \in Seq(T)
  BY LoadableSignals
<1>. QED  BY <1>1 DEF Listing

(* The signals before the maps.                                            *)
CountedBefore(x, b) ==
  b[0] = 0 /\ \A k \in 1 .. Len(x) : b[k] = b[k - 1] + Len(SignalsOf(x[k]))

LEMMA IdIs ==
  ASSUME NEW x \in Seq(Loadable)
  PROVE  \E b \in [0 .. Len(x) -> Nat] : CountedBefore(x, b) /\ \A k, n : IdIn(x, k, n) = b[k - 1] + n
<1>. DEFINE N == Len(x)
            G == [k \in 1 .. N |-> [v \in Nat |-> v + signal_count(x[k])]]
            Def(f) == f = [k \in 0 .. N |-> IF k = 0 THEN 0 ELSE f[k - 1] + signal_count(x[k])]
<1>0. N \in Nat /\ 0 \in Nat /\ \A k \in 1 .. N : signal_count(x[k]) \in Nat
  <2>1. \A k \in 1 .. N : x[k] \in Loadable
    OBVIOUS
  <2>2. \A k \in 1 .. N : signal_count(x[k]) \in Nat
    BY <2>1, SignalsListed DEF Listing, signal_count
  <2>. QED  BY <2>2
<1>1. G \in [1 .. N -> [Nat -> Nat]] /\ \A k \in 1 .. N : \A v \in Nat : G[k][v] = v + signal_count(x[k])
  BY <1>0
<1>. HIDE DEF G, N
<1>2. PICK f \in [0 .. N -> Nat] : Recursion(G, 0, N, f)
  BY <1>0, <1>1, RecursiveFunction
<1>3. Def(f)
  <2>1. \A k \in 1 .. N : f[k - 1] \in Nat
    BY <1>0
  <2>2. \A k \in 1 .. N : G[k][f[k - 1]] = f[k - 1] + signal_count(x[k])
    BY <1>1, <2>1
  <2>3. \A k \in 0 .. N : (IF k = 0 THEN 0 ELSE G[k][f[k - 1]]) = IF k = 0 THEN 0 ELSE f[k - 1] + signal_count(x[k])
    <3>1. \A k \in 0 .. N : k = 0 \/ k \in 1 .. N
      BY <1>0
    <3>. QED  BY <2>2, <3>1, Zenon
  <2>. QED  BY <1>2, <2>3 DEF Recursion
<1>. DEFINE b == CHOOSE g : Def(g)
<1>4. \A k, n : IdIn(x, k, n) = b[k - 1] + n
  BY DEF IdIn, N
<1>5. Def(b)
  BY <1>3
<1>. HIDE DEF b
<1>6. \A k \in 0 .. N : b[k] = IF k = 0 THEN 0 ELSE b[k - 1] + signal_count(x[k])
  BY <1>5
<1>7. b = [k \in 0 .. N |-> b[k]]
  BY <1>5
<1>. HIDE DEF Def
<1>. DEFINE P == {k \in 0 .. N : b[k] \in Nat}
<1>8. 0 \in P
  <2>1. 0 \in 0 .. N
    BY <1>0
  <2>2. b[0] = 0
    BY <1>6, <2>1
  <2>. QED  BY <2>1, <2>2
<1>9. ASSUME NEW k \in 1 .. N, k - 1 \in P PROVE k \in P
  <2>1. k \in 0 .. N /\ k # 0 /\ b[k - 1] \in Nat /\ signal_count(x[k]) \in Nat
    BY <1>0, <1>9
  <2>2. b[k] = b[k - 1] + signal_count(x[k])
    BY <1>6, <2>1
  <2>. QED  BY <2>1, <2>2
<1>10. \A k \in 0 .. N : b[k] \in Nat
  <2>1. \A k \in 0 .. N : k \in P
    <3>. HIDE DEF P
    <3>. QED  BY <1>0, <1>8, <1>9, CountedUp
  <2>. QED  BY <2>1
<1>11. b \in [0 .. N -> Nat]
  BY <1>7, <1>10
<1>12. CountedBefore(x, b)
  <2>1. 0 \in 0 .. N /\ \A k \in 1 .. N : k # 0 /\ k \in 0 .. N
    BY <1>0
  <2>2. b[0] = 0 /\ \A k \in 1 .. N : b[k] = b[k - 1] + signal_count(x[k])
    BY <1>6, <2>1
  <2>. QED  BY <2>2 DEF CountedBefore, signal_count, N
<1>. QED  BY <1>4, <1>11, <1>12 DEF N

(* Ids do not change when a map is added.                                  *)
LEMMA IdKept ==
  ASSUME NEW x \in Seq(Loadable), NEW m \in Loadable
  PROVE  \A k \in 1 .. Len(x) : \A n : IdIn(Append(x, m), k, n) = IdIn(x, k, n)
<1>. DEFINE y == Append(x, m)  N == Len(x)
<1>1. y \in Seq(Loadable) /\ Len(y) = N + 1 /\ N \in Nat /\ \A k \in 1 .. N : y[k] = x[k]
  OBVIOUS
<1>2. PICK b \in [0 .. N -> Nat] : CountedBefore(x, b) /\ \A k, n : IdIn(x, k, n) = b[k - 1] + n
  BY IdIs
<1>. HIDE DEF y
<1>3. PICK c \in [0 .. Len(y) -> Nat] : CountedBefore(y, c) /\ \A k, n : IdIn(y, k, n) = c[k - 1] + n
  BY <1>1, IdIs
<1>4. b[0] = 0 /\ \A k \in 1 .. N : b[k] = b[k - 1] + Len(SignalsOf(x[k]))
  BY <1>2 DEF CountedBefore
<1>. HIDE DEF N
<1>5. c[0] = 0 /\ \A k \in 1 .. N : c[k] = c[k - 1] + Len(SignalsOf(x[k]))
  <2>1. \A k \in 1 .. N : k \in 1 .. Len(y)
    BY <1>1
  <2>. QED  BY <1>1, <1>3, <2>1 DEF CountedBefore
<1>. DEFINE P == {k \in 0 .. N : b[k] = c[k]}
<1>6. 0 \in P
  BY <1>1, <1>4, <1>5
<1>7. ASSUME NEW k \in 1 .. N, k - 1 \in P PROVE k \in P
  <2>1. k \in 0 .. N
    BY <1>1
  <2>2. b[k - 1] = c[k - 1]
    BY <1>7
  <2>3. b[k] = c[k]
    BY <1>4, <1>5, <2>2
  <2>. QED  BY <2>1, <2>3
<1>8. \A k \in 0 .. N : b[k] = c[k]
  <2>1. \A k \in 0 .. N : k \in P
    <3>. HIDE DEF P
    <3>. QED  BY <1>1, <1>6, <1>7, CountedUp
  <2>. QED  BY <2>1
<1>9. \A k \in 1 .. N : k - 1 \in 0 .. N
  BY <1>1
<1>. QED  BY <1>2, <1>3, <1>8, <1>9 DEF N, y


LEMMA Concatenated ==
  ASSUME NEW T, NEW u \in Seq(T), NEW v \in Seq(T)
  PROVE  /\ u \o v \in Seq(T) /\ Len(u \o v) = Len(u) + Len(v)
         /\ \A p \in 1 .. Len(u) : p \in 1 .. Len(u \o v) /\ (u \o v)[p] = u[p]
         /\ \A p \in 1 .. Len(v) : Len(u) + p \in 1 .. Len(u \o v) /\ (u \o v)[Len(u) + p] = v[p]
  OBVIOUS

(* The id of a signal is its place among all signals.                      *)
Offsets(ss, b) ==
  b \in [0 .. Len(ss) -> Nat] /\ b[0] = 0 /\ \A k \in 1 .. Len(ss) : b[k] = b[k - 1] + Len(ss[k])

Placed(T, ss, b, k, i) ==
  /\ Lists!FlattenSeq(ss) \in Seq(T) /\ b[k - 1] + i \in 1 .. Len(Lists!FlattenSeq(ss))
  /\ Lists!FlattenSeq(ss)[b[k - 1] + i] = ss[k][i]

LEMMA Places ==
  ASSUME NEW T, NEW ss \in Seq(Seq(T)), NEW b, Offsets(ss, b),
         NEW k \in 1 .. Len(ss), NEW i \in 1 .. Len(ss[k])
  PROVE  Placed(T, ss, b, k, i)
<1>. DEFINE N == Len(ss)  p == b[k - 1] + i
<1>0. N \in Nat /\ <<>> \in Seq(T) /\ \A j \in 1 .. N : ss[j] \in Seq(T)
  BY SequenceFunction
<1>1. PICK f \in [0 .. N -> Seq(T)] : Chained(ss, f) /\ Lists!FlattenSeq(ss) = f[N]
  BY FlattenIs
<1>2. f[0] = <<>> /\ \A j \in 1 .. N : f[j] = f[j - 1] \o ss[j]
  BY <1>1 DEF Chained
<1>3. b \in [0 .. N -> Nat] /\ b[0] = 0 /\ \A j \in 1 .. N : b[j] = b[j - 1] + Len(ss[j])
  BY DEF Offsets
<1>. HIDE DEF N
<1>4. \A j \in 1 .. N : j \in 0 .. N /\ j - 1 \in 0 .. N
  BY <1>0
<1>5. \A j \in 1 .. N : f[j] \in Seq(T) /\ f[j - 1] \in Seq(T) /\ b[j - 1] \in Nat
  BY <1>3, <1>4
<1>. DEFINE Q == {j \in 0 .. N : Len(f[j]) = b[j]}
<1>6. 0 \in Q
  <2>1. Len(f[0]) = 0 /\ b[0] = 0
    BY <1>2, <1>3
  <2>2. 0 \in 0 .. N /\ Len(f[0]) = b[0]
    BY <1>0, <2>1
  <2>. QED  BY <2>2, Zenon
<1>7. ASSUME NEW j \in 1 .. N, j - 1 \in Q PROVE j \in Q
  <2>1. Len(f[j - 1]) = b[j - 1] /\ ss[j] \in Seq(T) /\ f[j - 1] \in Seq(T)
    BY <1>0, <1>5, <1>7
  <2>2. f[j] = f[j - 1] \o ss[j] /\ b[j] = b[j - 1] + Len(ss[j])
    BY <1>2, <1>3
  <2>3. Len(f[j - 1] \o ss[j]) = Len(f[j - 1]) + Len(ss[j])
    <3>. DEFINE u == f[j - 1]  v == ss[j]
    <3>1. u \in Seq(T) /\ v \in Seq(T)
      BY <2>1
    <3>. HIDE DEF u, v, p, Q
    <3>2. Len(u \o v) = Len(u) + Len(v)
      BY <3>1
    <3>. QED  BY <3>2 DEF u, v
  <2>4. Len(f[j]) = b[j]
    BY <2>1, <2>2, <2>3
  <2>. QED  BY <1>4, <2>4
<1>8. \A j \in 0 .. N : Len(f[j]) = b[j]
  <2>1. \A j \in 0 .. N : j \in Q
    <3>. HIDE DEF Q
    <3>. QED  BY <1>0, <1>6, <1>7, CountedUp
  <2>. QED  BY <2>1
<1>. HIDE DEF Q
<1>9. k \in 1 .. N /\ k \in Nat /\ ss[k] \in Seq(T) /\ i \in 1 .. Len(ss[k])
  BY <1>0 DEF N
<1>10. f[k] = f[k - 1] \o ss[k] /\ Len(f[k - 1]) = b[k - 1] /\ f[k - 1] \in Seq(T) /\ b[k - 1] \in Nat
  BY <1>2, <1>4, <1>5, <1>8, <1>9
<1>11. p \in 1 .. Len(f[k]) /\ f[k][p] = ss[k][i]
  <2>. DEFINE u == f[k - 1]  v == ss[k]
  <2>1. u \in Seq(T) /\ v \in Seq(T) /\ i \in 1 .. Len(v)
    BY <1>9, <1>10
  <2>. HIDE DEF u, v, p
  <2>2. Len(u) + i \in 1 .. Len(u \o v) /\ (u \o v)[Len(u) + i] = v[i]
    <3>1. \A j \in 1 .. Len(v) : Len(u) + j \in 1 .. Len(u \o v) /\ (u \o v)[Len(u) + j] = v[j]
      BY <2>1, Concatenated
    <3>. QED  BY <2>1, <3>1, Zenon
  <2>3. Len(u) = b[k - 1] /\ f[k] = u \o v
    BY <1>10 DEF u, v
  <2>4. p = Len(u) + i
    BY <2>3 DEF p
  <2>. QED  BY <2>2, <2>3, <2>4 DEF v
<1>. HIDE DEF p
<1>. DEFINE m == N - k
            P == {d \in 0 .. m : p \in 1 .. Len(f[k + d]) /\ f[k + d][p] = ss[k][i]}
<1>12. m \in Nat /\ k + m = N
  BY <1>0, <1>9
<1>13. 0 \in P
  <2>1. k + 0 = k /\ 0 \in 0 .. m
    BY <1>9, <1>12
  <2>. HIDE DEF m
  <2>. QED  BY <1>11, <2>1
<1>14. ASSUME NEW d \in 1 .. m, d - 1 \in P PROVE d \in P
  <2>. DEFINE j == k + d
  <2>1. j \in 1 .. N /\ k + (d - 1) = j - 1 /\ d \in 0 .. m
    BY <1>0, <1>9, <1>12
  <2>2. p \in 1 .. Len(f[j - 1]) /\ f[j - 1][p] = ss[k][i]
    BY <1>14, <2>1
  <2>. HIDE DEF j
  <2>3. f[j] = f[j - 1] \o ss[j] /\ f[j - 1] \in Seq(T) /\ ss[j] \in Seq(T)
    BY <1>0, <1>2, <1>5, <2>1
  <2>. DEFINE u == f[j - 1]  v == ss[j]
  <2>. HIDE DEF u, v
  <2>4. u \in Seq(T) /\ v \in Seq(T) /\ p \in 1 .. Len(u)
    BY <2>2, <2>3 DEF u, v
  <2>5. p \in 1 .. Len(u \o v) /\ (u \o v)[p] = u[p]
    <3>1. \A l \in 1 .. Len(u) : l \in 1 .. Len(u \o v) /\ (u \o v)[l] = u[l]
      BY <2>4, Concatenated
    <3>. QED  BY <2>4, <3>1, Zenon
  <2>6. p \in 1 .. Len(f[j]) /\ f[j][p] = ss[k][i]
    BY <2>2, <2>3, <2>5 DEF u, v
  <2>7. p \in 1 .. Len(f[k + d]) /\ f[k + d][p] = ss[k][i]
    BY <2>6 DEF j
  <2>. HIDE DEF m
  <2>. QED  BY <2>1, <2>7, Zenon
<1>15. m \in P
  <2>. HIDE DEF P, m
  <2>1. \A d \in 0 .. m : d \in P
    BY <1>12, <1>13, <1>14, CountedUp
  <2>. QED  BY <1>12, <2>1
<1>16. p \in 1 .. Len(f[N]) /\ f[N][p] = ss[k][i]
  BY <1>12, <1>15
<1>17. f[N] \in Seq(T)
  BY <1>0
<1>. QED  BY <1>1, <1>16, <1>17 DEF p, Placed


LEMMA SignalFound ==
  ASSUME NEW x \in Seq(Loadable), NEW k \in DOMAIN x, NEW n \in DOMAIN SignalsOf(x[k])
  PROVE  /\ IdIn(x, k, n) \in Nat /\ n \in Nat /\ 1 <= n /\ n <= IdIn(x, k, n)
         /\ IdIn(x, k, n) <= Len(Lists!FlattenSeq(NamesIn(x))) /\ Len(Lists!FlattenSeq(NamesIn(x))) \in Nat
         /\ AtIn(x, IdIn(x, k, n)) = <<x[k].name, SignalsOf(x[k])[n].name>>
<1>. DEFINE N == Len(x)  ss == NamesIn(x)  all == Lists!FlattenSeq(ss)
            T == UNION {{<<x[j].name, SignalsOf(x[j])[i].name>> : i \in DOMAIN SignalsOf(x[j])} : j \in DOMAIN x}
<1>0. N \in Nat /\ DOMAIN x = 1 .. N /\ \A j \in 1 .. N : x[j] \in Loadable
  OBVIOUS
<1>1. \A j \in 1 .. N : Len(SignalsOf(x[j])) \in Nat /\ DOMAIN SignalsOf(x[j]) = 1 .. Len(SignalsOf(x[j]))
  BY <1>0, SignalsListed DEF Listing
<1>2. PICK b \in [0 .. N -> Nat] : CountedBefore(x, b) /\ \A j, i : IdIn(x, j, i) = b[j - 1] + i
  BY IdIs
<1>. HIDE DEF N
<1>3. \A j \in 1 .. N : ss[j] = [i \in 1 .. Len(SignalsOf(x[j])) |-> <<x[j].name, SignalsOf(x[j])[i].name>>]
  BY <1>0, <1>1 DEF NamesIn
<1>4. ASSUME NEW j \in 1 .. N PROVE ss[j] \in Seq(T) /\ Len(ss[j]) = Len(SignalsOf(x[j]))
  <2>. DEFINE l == Len(SignalsOf(x[j]))
  <2>1. l \in Nat
    BY <1>1
  <2>2. \A i \in 1 .. l : <<x[j].name, SignalsOf(x[j])[i].name>> \in T
    <3>1. j \in DOMAIN x /\ DOMAIN SignalsOf(x[j]) = 1 .. l
      BY <1>0, <1>1
    <3>2. \A i \in DOMAIN SignalsOf(x[j]) : <<x[j].name, SignalsOf(x[j])[i].name>> \in T
      BY <3>1, SMTT(30)
    <3>. QED  BY <3>1, <3>2
  <2>. HIDE DEF T
  <2>3. ss[j] \in [1 .. l -> T]
    BY <1>3, <2>2
  <2>. HIDE DEF l, ss
  <2>4. ss[j] \in Seq(T) /\ Len(ss[j]) = l
    BY <2>1, <2>3, FunctionSequence
  <2>. QED  BY <2>4 DEF l
<1>. HIDE DEF T
<1>5. ss \in Seq(Seq(T)) /\ Len(ss) = N
  <2>1. DOMAIN ss = 1 .. N /\ ss = [j \in 1 .. N |-> ss[j]]
    BY <1>0 DEF NamesIn
  <2>. HIDE DEF ss
  <2>2. ss \in [1 .. N -> Seq(T)]
    BY <1>4, <2>1
  <2>. QED  BY <1>0, <2>2, FunctionSequence
<1>6. b[0] = 0 /\ \A j \in 1 .. N : b[j] = b[j - 1] + Len(ss[j])
  <2>1. b[0] = 0 /\ \A j \in 1 .. N : b[j] = b[j - 1] + Len(SignalsOf(x[j]))
    BY <1>2 DEF CountedBefore, N
  <2>. HIDE DEF ss
  <2>. QED  BY <1>4, <2>1
<1>7. k \in 1 .. N /\ n \in 1 .. Len(SignalsOf(x[k])) /\ Len(SignalsOf(x[k])) \in Nat
  BY <1>0, <1>1
<1>. HIDE DEF ss
<1>8. ss \in Seq(Seq(T)) /\ Offsets(ss, b) /\ k \in 1 .. Len(ss) /\ n \in 1 .. Len(ss[k])
  BY <1>4, <1>5, <1>6, <1>7 DEF Offsets
<1>9. all \in Seq(T) /\ b[k - 1] + n \in 1 .. Len(all) /\ all[b[k - 1] + n] = ss[k][n]
  <2>1. Placed(T, ss, b, k, n)
    BY <1>8, Places, Zenon
  <2>. QED  BY <2>1, Zenon DEF Placed
<1>10. ss[k][n] = <<x[k].name, SignalsOf(x[k])[n].name>>
  BY <1>3, <1>7
<1>11. b[k - 1] \in Nat /\ n \in Nat /\ 1 <= n
  <2>1. k - 1 \in 0 .. N
    BY <1>0, <1>7
  <2>. QED  BY <1>7, <2>1
<1>12. IdIn(x, k, n) = b[k - 1] + n
  BY <1>2
<1>. HIDE DEF all
<1>13. Len(all) \in Nat /\ DOMAIN all = 1 .. Len(all)
  BY <1>9
<1>14. AtIn(x, IdIn(x, k, n)) = <<x[k].name, SignalsOf(x[k])[n].name>>
  <2>. DEFINE id == IdIn(x, k, n)
  <2>1. id \in DOMAIN all /\ all[id] = <<x[k].name, SignalsOf(x[k])[n].name>>
    BY <1>9, <1>10, <1>12, <1>13
  <2>. HIDE DEF id
  <2>2. AtIn(x, id) = all[id]
    BY <2>1 DEF AtIn, all, ss
  <2>. QED  BY <2>1, <2>2 DEF id
<1>15. IdIn(x, k, n) \in Nat /\ n <= IdIn(x, k, n) /\ IdIn(x, k, n) <= Len(all)
  BY <1>9, <1>11, <1>12, <1>13
<1>. QED  BY <1>11, <1>13, <1>14, <1>15 DEF all, ss

(* A name of a signal resolves to its id or is ambiguous.                  *)
Unique(x) ==
  /\ \A i, j \in DOMAIN x : x[i].name = x[j].name => i = j
  /\ \A k \in DOMAIN x : \A i, j \in DOMAIN SignalsOf(x[k]) :
       SignalsOf(x[k])[i].name = SignalsOf(x[k])[j].name => i = j

Carries(x, name, k, n) ==
  SignalsOf(x[k])[n].name = name[Len(name)] /\ (Len(name) = 2 => x[k].name = name[1])

LEMMA MatchesAre ==
  ASSUME NEW x, NEW name, NEW e
  PROVE  e \in MatchesIn(x, name) <=>
           \E k \in DOMAIN x : \E n \in DOMAIN SignalsOf(x[k]) : e = <<k, n>> /\ Carries(x, name, k, n)
  BY DEF MatchesIn, Carries

LEMMA NameResolves ==
  ASSUME NEW x \in Seq(Loadable), NEW k \in DOMAIN x, NEW n \in DOMAIN SignalsOf(x[k]), NEW name,
         name \in {<<x[k].name, SignalsOf(x[k])[n].name>>, <<SignalsOf(x[k])[n].name>>}
  PROVE  /\ ResolveIn(x, name) \in {0, IdIn(x, k, n)}
         /\ Unique(x) /\ Len(name) = 2 => ResolveIn(x, name) = IdIn(x, k, n)
<1>. DEFINE M == MatchesIn(x, name)  signal == SignalsOf(x[k])[n].name
            total == Len(Lists!FlattenSeq(NamesIn(x)))
<1>1. name[Len(name)] = signal /\ (Len(name) = 2 => x[k].name = name[1])
  <2>1. CASE name = <<x[k].name, signal>>
    BY <2>1
  <2>2. CASE name = <<signal>>
    BY <2>2
  <2>. QED  BY <2>1, <2>2
<1>2. <<k, n>> \in M
  <2>1. Carries(x, name, k, n)
    BY <1>1 DEF Carries
  <2>. QED  BY <2>1, MatchesAre, Zenon
<1>3. IsFiniteSet(M)
  <2>. DEFINE L == Len(x)
  <2>1. total \in Nat /\ L \in Nat /\ DOMAIN x = 1 .. L
    BY SignalFound
  <2>. HIDE DEF total, L
  <2>2. \A j \in DOMAIN x : \A i \in DOMAIN SignalsOf(x[j]) : j \in 1 .. L /\ i \in 1 .. total
    <3>. SUFFICES ASSUME NEW j \in DOMAIN x, NEW i \in DOMAIN SignalsOf(x[j]) PROVE j \in 1 .. L /\ i \in 1 .. total
      OBVIOUS
    <3>1. IdIn(x, j, i) \in Nat /\ i \in Nat /\ 1 <= i /\ i <= IdIn(x, j, i) /\ IdIn(x, j, i) <= total
      BY SignalFound DEF total
    <3>. QED  BY <2>1, <3>1
  <2>3. M \subseteq (1 .. L) \X (1 .. total)
    <3>. SUFFICES ASSUME NEW e \in M PROVE e \in (1 .. L) \X (1 .. total)
      OBVIOUS
    <3>0. e \in MatchesIn(x, name)
      OBVIOUS
    <3>1. PICK j \in DOMAIN x : \E i \in DOMAIN SignalsOf(x[j]) : e = <<j, i>> /\ Carries(x, name, j, i)
      BY <3>0, MatchesAre, Zenon
    <3>. QED  BY <2>2, <3>1
  <2>4. IsFiniteSet(1 .. L) /\ IsFiniteSet(1 .. total)
    <3>1. L \in Int /\ total \in Int /\ 1 \in Int
      BY <2>1
    <3>. QED  BY <3>1, FS_Interval
  <2>5. IsFiniteSet((1 .. L) \X (1 .. total))
    BY <2>4, FS_Product
  <2>. HIDE DEF M
  <2>. QED  BY <2>3, <2>5, FS_Subset
<1>. HIDE DEF M
<1>4. CASE Cardinality(M) = 1
  <2>1. PICK e : M = {e}
    BY <1>3, <1>4, FS_Singleton
  <2>2. M = {<<k, n>>}
    BY <1>2, <2>1
  <2>3. (CHOOSE at \in M : TRUE) = <<k, n>>
    BY <2>2
  <2>. DEFINE c == CHOOSE at \in M : TRUE
  <2>4. ResolveIn(x, name) = IdIn(x, c[1], c[2])
    BY <1>4 DEF ResolveIn, M
  <2>5. c[1] = k /\ c[2] = n
    <3>1. c = <<k, n>>
      BY <2>3
    <3>. HIDE DEF c
    <3>. QED  BY <3>1
  <2>. HIDE DEF c
  <2>. QED  BY <2>4, <2>5
<1>5. CASE Cardinality(M) # 1
  <2>1. ResolveIn(x, name) = 0
    BY <1>5 DEF ResolveIn, M
  <2>2. ~(Unique(x) /\ Len(name) = 2)
    <3>. SUFFICES ASSUME Unique(x), Len(name) = 2 PROVE FALSE
      OBVIOUS
    <3>1. ASSUME NEW e \in M PROVE e = <<k, n>>
      <4>1. e \in MatchesIn(x, name)
        BY DEF M
      <4>2. PICK j \in DOMAIN x : \E i \in DOMAIN SignalsOf(x[j]) : e = <<j, i>> /\ Carries(x, name, j, i)
        BY <4>1, MatchesAre, Zenon
      <4>3. PICK i \in DOMAIN SignalsOf(x[j]) : e = <<j, i>> /\ Carries(x, name, j, i)
        BY <4>2, Zenon
      <4>4. j = k
        BY <1>1, <4>3 DEF Unique, Carries
      <4>5. i = n
        BY <1>1, <4>3, <4>4 DEF Unique, Carries
      <4>. QED  BY <4>3, <4>4, <4>5
    <3>2. M = {<<k, n>>}
      BY <1>2, <3>1
    <3>. QED  BY <1>5, <3>2, FS_Singleton
  <2>. QED  BY <2>1, <2>2
<1>. QED  BY <1>4, <1>5


(* What an answer was about.                                               *)
Means(x, name, k, n, h) ==
  LET signal == SignalsOf(x[k])[n].name
  IN  /\ name \in {<<x[k].name, signal>>, <<signal>>}
      /\ h = <<IdIn(x, k, n), <<x[k].name, signal>>>>

Known(x, name, h) ==
  \E k \in DOMAIN x : \E n \in DOMAIN SignalsOf(x[k]) : Means(x, name, k, n, h)

NamesInv ==
  /\ CodecInv /\ Unique(slots)
  /\ \A name \in DOMAIN handed : Known(slots, name, handed[name])

LEMMA KnownMeans ==
  ASSUME NEW x \in Seq(Loadable), Unique(x), NEW name, NEW h, Known(x, name, h)
  PROVE  /\ AtIn(x, h[1]) = h[2] /\ h[2][2] = name[Len(name)]
         /\ ResolveIn(x, name) \in {h[1]} \cup (IF Len(name) = 1 THEN {0} ELSE {})
<1>1. PICK k \in DOMAIN x : \E n \in DOMAIN SignalsOf(x[k]) : Means(x, name, k, n, h)
  BY Zenon DEF Known
<1>2. PICK n \in DOMAIN SignalsOf(x[k]) : Means(x, name, k, n, h)
  BY <1>1, Zenon
<1>. DEFINE signal == SignalsOf(x[k])[n].name  id == IdIn(x, k, n)
<1>3. name \in {<<x[k].name, signal>>, <<signal>>} /\ h = <<id, <<x[k].name, signal>>>>
  BY <1>2 DEF Means
<1>4. AtIn(x, id) = <<x[k].name, signal>>
  BY SignalFound
<1>5. ResolveIn(x, name) \in {0, id} /\ (Len(name) = 2 => ResolveIn(x, name) = id)
  BY <1>3, NameResolves
<1>. HIDE DEF signal, id
<1>6. h[1] = id /\ h[2] = <<x[k].name, signal>> /\ h[2][2] = signal
  BY <1>3
<1>7. name[Len(name)] = signal /\ Len(name) \in {1, 2}
  <2>1. CASE name = <<x[k].name, signal>>
    BY <2>1
  <2>2. CASE name = <<signal>>
    BY <2>2
  <2>. QED  BY <1>3, <2>1, <2>2
<1>. QED  BY <1>4, <1>5, <1>6, <1>7

LEMMA KnownKept ==
  ASSUME NEW x \in Seq(Loadable), NEW m \in Loadable, NEW name, NEW h, Known(x, name, h)
  PROVE  Known(Append(x, m), name, h)
<1>. DEFINE y == Append(x, m)
<1>1. PICK k \in DOMAIN x : \E n \in DOMAIN SignalsOf(x[k]) : Means(x, name, k, n, h)
  BY Zenon DEF Known
<1>2. PICK n \in DOMAIN SignalsOf(x[k]) : Means(x, name, k, n, h)
  BY <1>1, Zenon
<1>3. k \in 1 .. Len(x) /\ k \in DOMAIN y /\ y[k] = x[k]
  OBVIOUS
<1>4. IdIn(y, k, n) = IdIn(x, k, n)
  BY <1>3, IdKept
<1>. HIDE DEF y
<1>5. Means(y, name, k, n, h)
  BY <1>2, <1>3, <1>4 DEF Means
<1>6. n \in DOMAIN SignalsOf(y[k])
  BY <1>3
<1>7. Known(y, name, h)
  BY <1>3, <1>5, <1>6, Zenon DEF Known
<1>. QED  BY <1>7 DEF y

LEMMA UniqueKept ==
  ASSUME NEW x \in Seq(Loadable), Unique(x), NEW m \in Loadable,
         \A k \in DOMAIN x : x[k].name # m.name, SameAs(SignalsOf(m), "name") = {}
  PROVE  Unique(Append(x, m))
<1>. DEFINE y == Append(x, m)  N == Len(x)  s == SignalsOf(m)
<1>1. /\ N \in Nat /\ DOMAIN x = 1 .. N /\ DOMAIN y = 1 .. N + 1 /\ y[N + 1] = m
      /\ \A k \in 1 .. N : y[k] = x[k]
  OBVIOUS
<1>2. \A k \in DOMAIN y : (k \in DOMAIN x /\ y[k] = x[k]) \/ (k = N + 1 /\ y[k] = m)
  BY <1>1
<1>. HIDE DEF y, N
<1>3. \A i, j \in DOMAIN s : s[i].name = s[j].name => i = j
  <2>1. DOMAIN s \subseteq Nat
    BY SignalsListed DEF Listing
  <2>. HIDE DEF s
  <2>2. \A i, j \in DOMAIN s : i < j => s[i].name # s[j].name
    <3>. SUFFICES ASSUME NEW i \in DOMAIN s, NEW j \in DOMAIN s, i < j, s[i].name = s[j].name PROVE FALSE
      OBVIOUS
    <3>1. <<i, j>> \in SameAs(s, "name")
      BY DEF SameAs
    <3>. QED  BY <3>1 DEF s
  <2>. QED  BY <2>1, <2>2
<1>. HIDE DEF s
<1>4. \A i, j \in DOMAIN y : y[i].name = y[j].name => i = j
  BY <1>2 DEF Unique
<1>5. ASSUME NEW k \in DOMAIN y
      PROVE  \A i, j \in DOMAIN SignalsOf(y[k]) : SignalsOf(y[k])[i].name = SignalsOf(y[k])[j].name => i = j
  <2>1. CASE k \in DOMAIN x /\ y[k] = x[k]
    BY <2>1 DEF Unique
  <2>2. CASE k = N + 1 /\ y[k] = m
    BY <1>3, <2>2 DEF s
  <2>. QED  BY <1>2, <2>1, <2>2
<1>. QED  BY <1>4, <1>5 DEF Unique, y

LEMMA NamesInitInv == CodecInit => NamesInv
<1>. SUFFICES ASSUME CodecInit PROVE NamesInv
  OBVIOUS
<1>1. slots = <<>> /\ DOMAIN slots = {} /\ DOMAIN handed = {}
  BY DEF CodecInit
<1>. QED  BY <1>1, CodecInitInv DEF NamesInv, Unique

LEMMA LoadMapNames ==
  ASSUME NamesInv, NEW documents \in SUBSET (Documents \cup Shapes), load_map(documents)
  PROVE  NamesInv'
<1>1. PICK root \in documents :
        /\ map_load_checked(root) /\ namespace_register(build_map(root.codec_map))
        /\ slots' = Append(slots, build_map(root.codec_map))
  BY DEF load_map
<1>. DEFINE m == build_map(root.codec_map)
<1>2. m \in Loadable
  BY <1>1 DEF Loadable
<1>3. slots \in Seq(Loadable) /\ Unique(slots) /\ slots' = Append(slots, m) /\ handed' = handed
  BY <1>1 DEF NamesInv, CodecInv, load_map
<1>4. (\A k \in DOMAIN slots : slots[k].name # m.name) /\ SameAs(SignalsOf(m), "name") = {}
  BY <1>1 DEF namespace_register
<1>. HIDE DEF m
<1>5. Unique(slots')
  BY <1>2, <1>3, <1>4, UniqueKept
<1>6. ASSUME NEW name \in DOMAIN handed' PROVE Known(slots', name, handed'[name])
  <2>1. Known(slots, name, handed[name])
    BY <1>3 DEF NamesInv
  <2>2. Known(Append(slots, m), name, handed[name])
    BY <1>2, <1>3, <2>1, KnownKept
  <2>. QED  BY <1>3, <2>2
<1>7. CodecInv'
  BY LoadMapInv DEF NamesInv
<1>8. Unique(slots)' /\ \A name \in DOMAIN handed' : Known(slots, name, handed[name])'
  BY <1>5, <1>6 DEF Unique, Known
<1>. QED  BY <1>7, <1>8 DEF NamesInv

LEMMA ResolveNames ==
  ASSUME NamesInv, resolve_name_once
  PROVE  NamesInv'
<1>1. slots \in Seq(Loadable) /\ Unique(slots) /\ slots' = slots
  BY DEF NamesInv, CodecInv, resolve_name_once
<1>2. PICK k \in DOMAIN slots : \E n \in DOMAIN SignalsOf(slots[k]), long \in BOOLEAN :
        LET signal == SignalsOf(slots[k])[n].name
            name == IF long THEN <<slots[k].name, signal>> ELSE <<signal>>
        IN  /\ namespace_resolve(name) # 0
            /\ handed' = [x \in DOMAIN handed \cup {name} |->
                            IF x = name THEN <<namespace_resolve(name), signal_at(namespace_resolve(name))>> ELSE handed[x]]
  BY SMTT(30) DEF resolve_name_once
<1>3. PICK n \in DOMAIN SignalsOf(slots[k]), long \in BOOLEAN :
        LET signal == SignalsOf(slots[k])[n].name
            name == IF long THEN <<slots[k].name, signal>> ELSE <<signal>>
        IN  /\ namespace_resolve(name) # 0
            /\ handed' = [x \in DOMAIN handed \cup {name} |->
                            IF x = name THEN <<namespace_resolve(name), signal_at(namespace_resolve(name))>> ELSE handed[x]]
  BY <1>2
<1>. DEFINE signal == SignalsOf(slots[k])[n].name
            name == IF long THEN <<slots[k].name, signal>> ELSE <<signal>>
            id == namespace_resolve(name)
            h == <<id, signal_at(id)>>
<1>4. id # 0 /\ handed' = [x \in DOMAIN handed \cup {name} |-> IF x = name THEN h ELSE handed[x]]
  BY <1>3
<1>5. name \in {<<slots[k].name, signal>>, <<signal>>}
  OBVIOUS
<1>. HIDE DEF name
<1>6. ResolveIn(slots, name) \in {0, IdIn(slots, k, n)}
  BY <1>1, <1>5, NameResolves
<1>7. id = IdIn(slots, k, n)
  <2>1. id = ResolveIn(slots, name)
    BY NamespaceIs, Zenon
  <2>. QED  BY <1>4, <1>6, <2>1
<1>. HIDE DEF id
<1>8. signal_at(id) = <<slots[k].name, signal>>
  <2>1. AtIn(slots, IdIn(slots, k, n)) = <<slots[k].name, signal>>
    BY <1>1, SignalFound
  <2>2. signal_at(id) = AtIn(slots, id)
    BY NamespaceIs, Zenon
  <2>. QED  BY <1>7, <2>1, <2>2
<1>9. Known(slots, name, h)
  <2>1. Means(slots, name, k, n, h)
    BY <1>5, <1>7, <1>8 DEF Means
  <2>. QED  BY <2>1, Zenon DEF Known
<1>. HIDE DEF h
<1>10. ASSUME NEW x \in DOMAIN handed' PROVE Known(slots, x, handed'[x])
  <2>1. CASE x = name
    <3>1. handed'[x] = h
      BY <1>4, <2>1
    <3>. QED  BY <1>9, <2>1, <3>1
  <2>2. CASE x # name
    <3>1. x \in DOMAIN handed /\ handed'[x] = handed[x]
      BY <1>4, <2>2
    <3>. QED  BY <3>1 DEF NamesInv
  <2>. QED  BY <2>1, <2>2
<1>11. CodecInv' /\ Unique(slots)'
  BY <1>1 DEF NamesInv, CodecInv, Unique
<1>12. \A x \in DOMAIN handed' : Known(slots', x, handed'[x])
  BY <1>1, <1>10
<1>. QED  BY <1>11, <1>12 DEF NamesInv, Known

LEMMA NamesStepInv == NamesInv /\ [NamespaceNext \/ FrameNext]_codec_vars => NamesInv'
<1>. SUFFICES ASSUME NamesInv, [NamespaceNext \/ FrameNext]_codec_vars PROVE NamesInv'
  OBVIOUS
<1>1. CASE UNCHANGED <<slots, handed>>
  BY <1>1 DEF NamesInv, CodecInv, Unique, Known
<1>2. CASE load_map(Documents) \/ load_map(Documents \cup Shapes)
  <2>1. Documents \in SUBSET (Documents \cup Shapes) /\ Documents \cup Shapes \in SUBSET (Documents \cup Shapes)
    OBVIOUS
  <2>. QED  BY <1>2, <2>1, LoadMapNames
<1>3. CASE resolve_name_once
  BY <1>3, ResolveNames
<1>4. \/ UNCHANGED <<slots, handed>>
      \/ load_map(Documents) \/ load_map(Documents \cup Shapes)
      \/ resolve_name_once
  BY DEF NamespaceNext, FrameNext, codec_vars, new_frame, encode_signal
<1>. QED  BY <1>1, <1>2, <1>3, <1>4

(* An id names the same signal for ever, and a name never comes to mean    *)
(* another signal, for all documents, whatever maps are registered later   *)
(* (cancestry_codec_namespace_resolve, _resolve_id).                       *)
THEOREM NamesKeepTheirMeaningCorrect == CodecSpec => []NamesKeepTheirMeaning
<1>1. NamesInv => NamesKeepTheirMeaning
  <2>. SUFFICES ASSUME NamesInv, NEW name \in DOMAIN handed
                PROVE  /\ signal_at(handed[name][1]) = handed[name][2]
                       /\ handed[name][2][2] = name[Len(name)]
                       /\ namespace_resolve(name) \in {handed[name][1]} \cup (IF Len(name) = 1 THEN {0} ELSE {})
    BY DEF NamesKeepTheirMeaning
  <2>. DEFINE h == handed[name]
  <2>1. slots \in Seq(Loadable) /\ Unique(slots) /\ Known(slots, name, h)
    BY DEF NamesInv, CodecInv
  <2>. HIDE DEF h
  <2>2. /\ AtIn(slots, h[1]) = h[2] /\ h[2][2] = name[Len(name)]
        /\ ResolveIn(slots, name) \in {h[1]} \cup (IF Len(name) = 1 THEN {0} ELSE {})
    BY <2>1, KnownMeans
  <2>3. signal_at(h[1]) = AtIn(slots, h[1]) /\ namespace_resolve(name) = ResolveIn(slots, name)
    BY NamespaceIs, Zenon
  <2>. QED  BY <2>2, <2>3 DEF h
<1>. QED  BY <1>1, NamesInitInv, NamesStepInv, PTL DEF CodecSpec

-----------------------------------------------------------------------------
(* Reading signals back.  First, numbers and their bits.                   *)
LEMMA PowersAre ==
  /\ \A k \in 0 .. WordBits : pow2[k] \in Nat /\ pow2[k] > 0
  /\ pow2[0] = 1
  /\ \A k \in 1 .. WordBits : pow2[k] = 2 * pow2[k - 1]
<1>. DEFINE n == WordBits
            S == Nat \ {0}
            G == [k \in 1 .. n |-> [v \in S |-> 2 * v]]
            Def(f) == f = [k \in 0 .. n |-> IF k = 0 THEN 1 ELSE 2 * f[k - 1]]
<1>0. n \in Nat /\ 1 \in S
  BY CodecConstants
<1>1. \A v \in S : 2 * v \in S
  BY <1>0
<1>2. G \in [1 .. n -> [S -> S]] /\ \A k \in 1 .. n : \A v \in S : G[k][v] = 2 * v
  BY <1>1
<1>. HIDE DEF S, G, n
<1>3. PICK f \in [0 .. n -> S] : Recursion(G, 1, n, f)
  BY <1>0, <1>2, RecursiveFunction, Zenon
<1>4. Def(f)
  <2>1. \A k \in 1 .. n : G[k][f[k - 1]] = 2 * f[k - 1]
    <3>1. \A k \in 1 .. n : k - 1 \in 0 .. n
      BY <1>0
    <3>. QED  BY <1>2, <3>1
  <2>2. [k \in 0 .. n |-> IF k = 0 THEN 1 ELSE G[k][f[k - 1]]] = [k \in 0 .. n |-> IF k = 0 THEN 1 ELSE 2 * f[k - 1]]
    BY <1>0, <2>1
  <2>. QED  BY <1>3, <2>2 DEF Recursion
<1>5. pow2 = CHOOSE g : Def(g)
  BY DEF pow2, n
<1>6. Def(pow2)
  BY <1>4, <1>5
<1>7. pow2[0] = 1 /\ \A k \in 1 .. n : pow2[k] = 2 * pow2[k - 1]
  BY <1>0, <1>6
<1>. DEFINE P == {k \in 0 .. n : pow2[k] \in S}
<1>8. 0 \in P
  BY <1>0, <1>7
<1>9. ASSUME NEW k \in 1 .. n, k - 1 \in P PROVE k \in P
  BY <1>0, <1>1, <1>7, <1>9
<1>. HIDE DEF P
<1>10. \A k \in 0 .. n : k \in P
  BY <1>0, <1>8, <1>9, CountedUp
<1>. QED  BY <1>7, <1>10 DEF P, S, n

(* Powers of two: the smaller one divides the greater one.                 *)
LEMMA PowersGrow ==
  ASSUME NEW i \in 0 .. WordBits, NEW j \in i .. WordBits
  PROVE  \E c \in Nat \ {0} : pow2[j] = pow2[i] * c
<1>. DEFINE n == WordBits
            P == {k \in 0 .. n : i <= k => \E c \in Nat \ {0} : pow2[k] = pow2[i] * c}
<1>0. n \in Nat /\ \A k \in 0 .. n : pow2[k] \in Nat \ {0}
  BY CodecConstants, PowersAre
<1>1. 0 \in P
  <2>1. i <= 0 => pow2[0] = pow2[i] * 1
    BY <1>0
  <2>. QED  BY <1>0, <2>1
<1>2. ASSUME NEW k \in 1 .. n, k - 1 \in P PROVE k \in P
  <2>1. CASE i <= k - 1
    <3>1. PICK c \in Nat \ {0} : pow2[k - 1] = pow2[i] * c
      BY <1>2, <2>1
    <3>2. pow2[k] = 2 * pow2[k - 1] /\ pow2[i] \in Nat
      BY <1>0, PowersAre
    <3>3. pow2[k] = pow2[i] * (2 * c) /\ 2 * c \in Nat \ {0}
      BY <3>1, <3>2
    <3>. QED  BY <1>0, <3>3
  <2>2. CASE i = k
    <3>1. pow2[k] = pow2[i] * 1
      BY <1>0, <2>2
    <3>. QED  BY <1>0, <3>1
  <2>3. CASE i > k
    BY <1>0, <2>3
  <2>. QED  BY <1>0, <2>1, <2>2, <2>3
<1>3. \A k \in 0 .. n : k \in P
  <2>. HIDE DEF P
  <2>. QED  BY <1>0, <1>1, <1>2, CountedUp
<1>. QED  BY <1>0, <1>3

Powers == {pow2[k] : k \in 0 .. WordBits}

LEMMA PowersDivide ==
  ASSUME NEW u \in Powers, NEW v \in Powers, u <= v
  PROVE  u \in Nat \ {0} /\ \E c \in Nat \ {0} : v = u * c
<1>1. PICK i \in 0 .. WordBits, j \in 0 .. WordBits : u = pow2[i] /\ v = pow2[j]
  BY Zenon DEF Powers
<1>2. WordBits \in Nat /\ u \in Nat \ {0} /\ v \in Nat \ {0}
  BY <1>1, CodecConstants, PowersAre
<1>3. CASE i <= j
  BY <1>1, <1>2, <1>3, PowersGrow
<1>4. CASE j < i
  <2>1. i \in j .. WordBits
    BY <1>2, <1>4
  <2>2. PICK c \in Nat \ {0} : u = v * c
    BY <1>1, <2>1, PowersGrow
  <2>3. v = u * 1
    BY <1>2, <2>2
  <2>. QED  BY <1>2, <2>3
<1>. QED  BY <1>2, <1>3, <1>4

LEMMA DoubleMaxIs ==
  DoubleMax \in Powers /\ DoubleMax \in Nat \ {0}
<1>1. PICK k \in 0 .. WordBits : DoubleMax = pow2[k]
  BY CodecAssumption, Zenon
<1>. QED  BY <1>1, PowersAre DEF Powers

(* A number from its bits, the lowest first.                               *)
Summed(w, count, low) ==
  low[0] = 0 /\ \A n \in 1 .. count : low[n] = low[n - 1] + w[n - 1] * pow2[n - 1]

LEMMA WordIs ==
  ASSUME NEW count \in 0 .. WordBits, NEW w \in [0 .. count - 1 -> Nat]
  PROVE  \E low : Summed(w, count, low) /\ Word(w, count) = low[count]
<1>. DEFINE G == [k \in 1 .. count |-> [v \in Nat |-> v + w[k - 1] * pow2[k - 1]]]
            Def(f) == f = [n \in 0 .. count |-> IF n = 0 THEN 0 ELSE f[n - 1] + w[n - 1] * pow2[n - 1]]
<1>0. count \in Nat /\ 0 \in Nat
  BY CodecConstants
<1>1. ASSUME NEW k \in 1 .. count PROVE w[k - 1] * pow2[k - 1] \in Nat
  <2>1. k - 1 \in 0 .. count - 1 /\ k - 1 \in 0 .. WordBits
    BY <1>0, CodecConstants
  <2>2. w[k - 1] \in Nat /\ pow2[k - 1] \in Nat
    BY <2>1, PowersAre
  <2>. QED  BY <2>2
<1>2. G \in [1 .. count -> [Nat -> Nat]] /\ \A k \in 1 .. count : \A v \in Nat : G[k][v] = v + w[k - 1] * pow2[k - 1]
  BY <1>1
<1>. HIDE DEF G
<1>3. PICK f \in [0 .. count -> Nat] : Recursion(G, 0, count, f)
  BY <1>0, <1>2, RecursiveFunction
<1>4. Def(f)
  <2>1. \A k \in 1 .. count : f[k - 1] \in Nat
    BY <1>0
  <2>2. \A k \in 1 .. count : G[k][f[k - 1]] = f[k - 1] + w[k - 1] * pow2[k - 1]
    BY <1>2, <2>1
  <2>3. \A k \in 0 .. count : (IF k = 0 THEN 0 ELSE G[k][f[k - 1]]) = IF k = 0 THEN 0 ELSE f[k - 1] + w[k - 1] * pow2[k - 1]
    <3>1. \A k \in 0 .. count : k = 0 \/ k \in 1 .. count
      BY <1>0
    <3>. QED  BY <2>2, <3>1, Zenon
  <2>. QED  BY <1>3, <2>3 DEF Recursion
<1>. DEFINE low == CHOOSE g : Def(g)
<1>5. Word(w, count) = low[count]
  BY DEF Word
<1>6. Def(low)
  BY <1>4
<1>. HIDE DEF low
<1>7. \A n \in 0 .. count : low[n] = IF n = 0 THEN 0 ELSE low[n - 1] + w[n - 1] * pow2[n - 1]
  BY <1>6
<1>8. 0 \in 0 .. count /\ \A n \in 1 .. count : n # 0 /\ n \in 0 .. count
  BY <1>0
<1>9. Summed(w, count, low)
  BY <1>7, <1>8 DEF Summed
<1>. QED  BY <1>5, <1>9

(* One more bit of a remainder.                                            *)
LEMMA NextBit ==
  ASSUME NEW x \in Nat, NEW m \in Nat \ {0}
  PROVE  x % (2 * m) = (x % m) + ((x \div m) % 2) * m
<1>. DEFINE q == x \div m  r == x % m
<1>1. q \in Nat /\ r \in Nat /\ r < m /\ x = r + m * q
  OBVIOUS
<1>. HIDE DEF q, r
<1>. DEFINE h == q \div 2  b == q % 2
<1>2. h \in Nat /\ b \in {0, 1} /\ q = 2 * h + b
  BY <1>1
<1>. HIDE DEF h, b
<1>. DEFINE rest == r + b * m
<1>3. rest \in Nat /\ rest < 2 * m /\ 2 * m \in Nat \ {0}
  BY <1>1, <1>2
<1>4. x = rest + (2 * m) * h
  <2>1. m * q = (2 * m) * h + b * m
    <3>1. m * (2 * h) = (2 * m) * h
      BY <1>1, <1>2
    <3>2. m * (2 * h + b) = m * (2 * h) + m * b /\ m * b = b * m
      BY <1>1, <1>2
    <3>. QED  BY <1>2, <3>1, <3>2
  <2>2. (2 * m) * h \in Nat /\ b * m \in Nat
    BY <1>1, <1>2
  <2>. QED  BY <1>1, <2>1, <2>2
<1>. DEFINE mm == 2 * m
<1>. HIDE DEF rest, mm
<1>5. x % mm = rest
  BY <1>2, <1>3, <1>4, Quotient DEF mm
<1>. QED  BY <1>5 DEF mm, rest, q, r, b

LEMMA WordOfBits ==
  ASSUME NEW count \in 0 .. WordBits, NEW raw \in Nat, raw < pow2[count]
  PROVE  Word([i \in 0 .. count - 1 |-> Bit(raw, i)], count) = raw
<1>. DEFINE w == [i \in 0 .. count - 1 |-> Bit(raw, i)]
<1>0. count \in Nat /\ \A k \in 0 .. count : pow2[k] \in Nat \ {0}
  BY CodecConstants, PowersAre
<1>1. \A i \in 0 .. count - 1 : Bit(raw, i) \in Nat
  <2>. SUFFICES ASSUME NEW i \in 0 .. count - 1 PROVE Bit(raw, i) \in Nat
    OBVIOUS
  <2>1. pow2[i] \in Nat \ {0}
    BY <1>0
  <2>. DEFINE m == pow2[i]
  <2>. HIDE DEF m
  <2>2. (raw \div m) \in Nat
    BY <2>1 DEF m
  <2>3. (raw \div m) % 2 \in Nat
    BY <2>2
  <2>. QED  BY <2>3 DEF Bit, m
<1>2. w \in [0 .. count - 1 -> Nat] /\ \A i \in 0 .. count - 1 : w[i] = (raw \div pow2[i]) % 2
  BY <1>1 DEF Bit
<1>. HIDE DEF w
<1>3. PICK low : Summed(w, count, low) /\ Word(w, count) = low[count]
  BY <1>2, WordIs
<1>. DEFINE P == {k \in 0 .. count : low[k] = raw % pow2[k]}
<1>4. 0 \in P
  <2>1. pow2[0] = 1 /\ low[0] = 0 /\ raw % 1 = 0 /\ 0 \in 0 .. count
    BY <1>0, <1>3, PowersAre DEF Summed
  <2>. QED  BY <2>1
<1>5. ASSUME NEW k \in 1 .. count, k - 1 \in P PROVE k \in P
  <2>. DEFINE m == pow2[k - 1]
  <2>1. k - 1 \in 0 .. count /\ k - 1 \in 0 .. count - 1 /\ k \in 1 .. WordBits /\ k \in 0 .. count
    BY <1>0, CodecConstants
  <2>2. m \in Nat \ {0} /\ pow2[k] = 2 * m
    BY <1>0, <2>1, PowersAre
  <2>3. low[k] = low[k - 1] + w[k - 1] * m /\ w[k - 1] = (raw \div m) % 2
    BY <1>2, <1>3, <2>1 DEF Summed
  <2>4. low[k - 1] = raw % m
    BY <1>5
  <2>. HIDE DEF m
  <2>5. raw % (2 * m) = (raw % m) + ((raw \div m) % 2) * m
    BY <2>2, NextBit
  <2>6. low[k] = raw % pow2[k]
    BY <2>2, <2>3, <2>4, <2>5
  <2>. QED  BY <2>1, <2>6
<1>6. count \in P
  <2>. HIDE DEF P
  <2>1. \A k \in 0 .. count : k \in P
    BY <1>0, <1>4, <1>5, CountedUp
  <2>. QED  BY <1>0, <2>1
<1>7. low[count] = raw % pow2[count] /\ pow2[count] \in Nat \ {0}
  BY <1>0, <1>6
<1>8. raw % pow2[count] = raw
  <2>. DEFINE m == pow2[count]
  <2>1. m \in Nat \ {0} /\ raw < m
    BY <1>7
  <2>. HIDE DEF m
  <2>2. raw % m = raw
    BY <2>1
  <2>. QED  BY <2>2 DEF m
<1>. QED  BY <1>3, <1>7, <1>8 DEF w

-----------------------------------------------------------------------------
(* Every signal of a message is a signal of the map.                       *)
LEMMA Flattened ==
  ASSUME NEW T, NEW ss \in Seq(Seq(T)), NEW k \in 1 .. Len(ss), NEW i \in 1 .. Len(ss[k])
  PROVE  \E j \in DOMAIN Lists!FlattenSeq(ss) : Lists!FlattenSeq(ss)[j] = ss[k][i]
<1>. DEFINE n == Len(ss)
            G == [l \in 1 .. n |-> [v \in Nat |-> v + Len(ss[l])]]
<1>0. n \in Nat /\ 0 \in Nat /\ \A l \in 1 .. n : Len(ss[l]) \in Nat
  <2>1. n \in Nat /\ \A l \in 1 .. n : ss[l] \in Seq(T)
    BY SequenceFunction
  <2>. QED  BY <2>1
<1>1. G \in [1 .. n -> [Nat -> Nat]] /\ \A l \in 1 .. n : \A v \in Nat : G[l][v] = v + Len(ss[l])
  BY <1>0
<1>. HIDE DEF G, n
<1>2. PICK b \in [0 .. n -> Nat] : Recursion(G, 0, n, b)
  BY <1>0, <1>1, RecursiveFunction
<1>3. \A l \in 0 .. n : b[l] = IF l = 0 THEN 0 ELSE G[l][b[l - 1]]
  BY <1>2 DEF Recursion
<1>4. 0 \in 0 .. n /\ \A l \in 1 .. n : l # 0 /\ l \in 0 .. n /\ b[l - 1] \in Nat
  BY <1>0
<1>5. b[0] = 0 /\ \A l \in 1 .. n : b[l] = b[l - 1] + Len(ss[l])
  BY <1>1, <1>3, <1>4
<1>6. Offsets(ss, b)
  BY <1>5 DEF Offsets, n
<1>7. Placed(T, ss, b, k, i)
  BY <1>6, Places
<1>. DEFINE all == Lists!FlattenSeq(ss)  p == b[k - 1] + i
<1>8. all \in Seq(T) /\ p \in 1 .. Len(all) /\ all[p] = ss[k][i]
  BY <1>7 DEF Placed
<1>. HIDE DEF all, p
<1>9. p \in DOMAIN all
  BY <1>8
<1>. QED  BY <1>8, <1>9 DEF all

LEMMA MessageSignal ==
  ASSUME NEW m \in Loadable, NEW k \in DOMAIN m.messages, NEW n \in DOMAIN m.messages[k].signals
  PROVE  \E j \in DOMAIN SignalsOf(m) : SignalsOf(m)[j] = m.messages[k].signals[n]
<1>. DEFINE ss == SignalLists(m)
<1>1. PICK T : ss \in Seq(Seq(T))
  BY LoadableMessages
<1>2. SignalsOf(m) = Lists!FlattenSeq(ss) /\ k \in DOMAIN ss /\ ss[k] = m.messages[k].signals
  BY DEF SignalsOf, SignalLists
<1>. HIDE DEF ss
<1>3. k \in 1 .. Len(ss) /\ ss[k] \in Seq(T)
  BY <1>1, <1>2
<1>4. n \in 1 .. Len(ss[k])
  BY <1>2, <1>3
<1>. QED  BY <1>1, <1>2, <1>3, <1>4, Flattened

-----------------------------------------------------------------------------
(* Where bit i of a signal is.                                             *)
At(s, i) ==
  IF s.layout = "sawtooth" THEN SawBit(s.start_bit, s.bit_length - 1 - i) ELSE s.first_bit + i

Payload(length) == 0 .. length * ByteBits - 1

LEMMA SawIs ==
  ASSUME NEW b \in Nat, NEW k \in Nat
  PROVE  SawBit(b, k) \in Nat /\ be_idx(SawBit(b, k)) = be_idx(b) + k
<1>1. be_idx(b) \in Nat
  BY Mirrored
<1>2. be_idx(b) + k \in Nat
  BY <1>1
<1>. DEFINE x == be_idx(b) + k
<1>. HIDE DEF x
<1>3. be_idx(x) \in Nat /\ be_idx(be_idx(x)) = x
  BY <1>2, Mirrored DEF x
<1>. QED  BY <1>3 DEF SawBit, x

LEMMA AtIs ==
  ASSUME NEW s, Sound(s), NEW length \in Nat, Fits(s, length), NEW i \in 0 .. s.bit_length - 1
  PROVE  At(s, i) \in Bits(s) /\ At(s, i) \in Payload(length)
<1>. DEFINE l == s.bit_length  all == length * ByteBits
<1>1. l \in Nat /\ l > 0 /\ s.start_bit \in Nat /\ all \in Nat
  BY CodecConstants DEF Sound
<1>2. CASE s.layout = "sawtooth"
  <2>. DEFINE k == l - 1 - i
  <2>1. k \in 0 .. l - 1 /\ k \in Nat
    BY <1>1
  <2>2. At(s, i) = SawBit(s.start_bit, k) /\ Bits(s) = {SawBit(s.start_bit, j) : j \in 0 .. l - 1}
    BY <1>2 DEF At, Bits
  <2>3. \A j \in 0 .. l - 1 : SawBit(s.start_bit, j) < all
    BY <1>2 DEF Fits, codec_bits_saw_fits
  <2>. HIDE DEF k, l, all
  <2>4. SawBit(s.start_bit, k) \in Nat /\ SawBit(s.start_bit, k) < all
    BY <1>1, <2>1, <2>3, SawIs
  <2>5. At(s, i) \in 0 .. all - 1
    BY <1>1, <2>2, <2>4
  <2>. QED  BY <2>1, <2>2, <2>5 DEF Payload, all
<1>3. CASE s.layout # "sawtooth"
  <2>1. At(s, i) = s.first_bit + i /\ Bits(s) = s.first_bit .. s.last_bit /\ s.last_bit < all
    BY <1>3 DEF At, Bits, Fits
  <2>2. s.first_bit \in Nat /\ s.last_bit = s.first_bit + l - 1
    BY <1>3 DEF Sound
  <2>3. i \in Nat /\ i <= l - 1
    BY <1>1
  <2>. HIDE DEF l, all
  <2>. QED  BY <1>1, <2>1, <2>2, <2>3 DEF Payload, all
<1>. QED  BY <1>2, <1>3

(* A signal is read from where its bits are.                               *)
LEMMA LoadIs ==
  ASSUME NEW s, NEW bits
  PROVE  load(s, bits) = Word([i \in 0 .. s.bit_length - 1 |-> bits[At(s, i)]], s.bit_length)
<1>1. CASE s.layout = "sawtooth"
  BY <1>1 DEF load, At, codec_bits_load_saw
<1>2. CASE s.layout # "sawtooth"
  BY <1>2 DEF load, At, codec_bits_load
<1>. QED  BY <1>1, <1>2

(* It is written there, and nowhere else.                                  *)
LEMMA PutIs ==
  ASSUME NEW s, Sound(s), NEW length \in Nat, Fits(s, length),
         NEW bits, DOMAIN bits = Payload(length), NEW raw
  PROVE  /\ DOMAIN put_raw(s, bits, raw) = Payload(length)
         /\ \A i \in 0 .. s.bit_length - 1 : put_raw(s, bits, raw)[At(s, i)] = Bit(raw, i)
         /\ \A p \in Payload(length) : p \notin Bits(s) => put_raw(s, bits, raw)[p] = bits[p]
<1>. DEFINE l == s.bit_length  b == s.start_bit  new == put_raw(s, bits, raw)
<1>1. l \in Nat /\ l > 0 /\ b \in Nat /\ Payload(length) \subseteq Nat
  <2>1. length * ByteBits \in Nat
    BY CodecConstants
  <2>. QED  BY <2>1, CodecConstants DEF Sound, Payload
<1>2. \A i \in 0 .. l - 1 : At(s, i) \in Payload(length)
  BY AtIs
<1>3. CASE s.layout = "sawtooth"
  <2>. DEFINE Element(p) == be_idx(p) - be_idx(b)
  <2>1. new = [p \in Payload(length) |-> IF Element(p) \in 0 .. l - 1 THEN Bit(raw, l - 1 - Element(p)) ELSE bits[p]]
    BY <1>3 DEF put_raw, codec_bits_store_saw
  <2>2. be_idx(b) \in Nat
    BY <1>1, Mirrored
  <2>. HIDE DEF new, l, b
  <2>3. ASSUME NEW i \in 0 .. l - 1 PROVE new[At(s, i)] = Bit(raw, i)
    <3>. DEFINE k == l - 1 - i
    <3>1. k \in Nat /\ k \in 0 .. l - 1 /\ l - 1 - k = i
      BY <1>1
    <3>2. At(s, i) = SawBit(b, k)
      BY <1>3 DEF At, l, b
    <3>. HIDE DEF k
    <3>3. be_idx(At(s, i)) = be_idx(b) + k
      BY <1>1, <3>1, <3>2, SawIs
    <3>4. Element(At(s, i)) = k
      BY <2>2, <3>1, <3>3
    <3>. HIDE DEF Element
    <3>. QED  BY <1>2, <2>1, <3>1, <3>4
  <2>4. ASSUME NEW p \in Payload(length), p \notin Bits(s) PROVE new[p] = bits[p]
    <3>1. p \in Nat /\ be_idx(p) \in Nat /\ be_idx(be_idx(p)) = p
      BY <1>1, Mirrored
    <3>2. Element(p) \notin 0 .. l - 1
      <4>. SUFFICES ASSUME Element(p) \in 0 .. l - 1 PROVE FALSE
        OBVIOUS
      <4>1. be_idx(b) + Element(p) = be_idx(p)
        BY <2>2, <3>1
      <4>2. SawBit(b, Element(p)) = p
        BY <3>1, <4>1 DEF SawBit
      <4>3. Bits(s) = {SawBit(b, k) : k \in 0 .. l - 1}
        BY <1>3 DEF Bits, b, l
      <4>. HIDE DEF Element
      <4>. QED  BY <2>4, <4>2, <4>3
    <3>. HIDE DEF Element
    <3>. QED  BY <2>1, <3>2
  <2>. QED  BY <2>1, <2>3, <2>4 DEF new, l
<1>4. CASE s.layout # "sawtooth"
  <2>. DEFINE first == s.first_bit
  <2>1. new = [p \in Payload(length) |-> IF p \in first .. first + l - 1 THEN Bit(raw, p - first) ELSE bits[p]]
    BY <1>4 DEF put_raw, codec_bits_store
  <2>2. first \in Nat /\ Bits(s) = first .. first + l - 1
    BY <1>4 DEF Sound, Bits
  <2>3. \A i \in 0 .. l - 1 : At(s, i) = first + i
    BY <1>4 DEF At
  <2>. HIDE DEF new, l, first
  <2>4. ASSUME NEW i \in 0 .. l - 1 PROVE new[At(s, i)] = Bit(raw, i)
    <3>. DEFINE p == At(s, i)
    <3>1. p = first + i /\ p \in Payload(length)
      BY <1>2, <2>3
    <3>. HIDE DEF p
    <3>2. p \in first .. first + l - 1 /\ p - first = i
      BY <1>1, <2>2, <3>1
    <3>3. new[p] = Bit(raw, p - first)
      BY <2>1, <3>1, <3>2
    <3>. QED  BY <3>2, <3>3 DEF p
  <2>5. ASSUME NEW p \in Payload(length), p \notin Bits(s) PROVE new[p] = bits[p]
    BY <2>1, <2>2, <2>5
  <2>. QED  BY <2>1, <2>4, <2>5 DEF new, l
<1>. QED  BY <1>3, <1>4

LEMMA PutLoads ==
  ASSUME NEW s, Sound(s), NEW length \in Nat, Fits(s, length),
         NEW bits, DOMAIN bits = Payload(length), NEW raw \in Nat, raw < pow2[s.bit_length]
  PROVE  load(s, put_raw(s, bits, raw)) = raw
<1>. DEFINE l == s.bit_length  new == put_raw(s, bits, raw)
<1>1. l \in 0 .. WordBits
  BY CodecConstants DEF Sound
<1>2. \A i \in 0 .. l - 1 : new[At(s, i)] = Bit(raw, i)
  BY PutIs
<1>3. load(s, new) = Word([i \in 0 .. l - 1 |-> new[At(s, i)]], l)
  BY LoadIs
<1>4. raw < pow2[l]
  OBVIOUS
<1>. HIDE DEF l, new
<1>5. [i \in 0 .. l - 1 |-> new[At(s, i)]] = [i \in 0 .. l - 1 |-> Bit(raw, i)]
  BY <1>2
<1>6. Word([i \in 0 .. l - 1 |-> Bit(raw, i)], l) = raw
  BY <1>1, <1>4, WordOfBits
<1>. QED  BY <1>3, <1>5, <1>6 DEF new

LEMMA PutKeeps ==
  ASSUME NEW s, Sound(s), NEW o, Sound(o), NEW length \in Nat, Fits(s, length), Fits(o, length),
         Bits(o) \cap Bits(s) = {}, NEW bits, DOMAIN bits = Payload(length), NEW raw
  PROVE  load(o, put_raw(s, bits, raw)) = load(o, bits)
<1>. DEFINE l == o.bit_length  new == put_raw(s, bits, raw)
<1>1. \A p \in Payload(length) : p \notin Bits(s) => new[p] = bits[p]
  BY PutIs
<1>2. \A i \in 0 .. l - 1 : At(o, i) \in Bits(o) /\ At(o, i) \in Payload(length)
  BY AtIs
<1>3. /\ load(o, new) = Word([i \in 0 .. l - 1 |-> new[At(o, i)]], l)
      /\ load(o, bits) = Word([i \in 0 .. l - 1 |-> bits[At(o, i)]], l)
  BY LoadIs
<1>. HIDE DEF l, new
<1>4. \A i \in 0 .. l - 1 : new[At(o, i)] = bits[At(o, i)]
  BY <1>1, <1>2
<1>5. [i \in 0 .. l - 1 |-> new[At(o, i)]] = [i \in 0 .. l - 1 |-> bits[At(o, i)]]
  BY <1>4
<1>. QED  BY <1>3, <1>5 DEF new


-----------------------------------------------------------------------------
(* What a number becomes: it is limited, rounded and cut to a word.        *)
LEMMA Divided ==
  ASSUME NEW a \in Nat, NEW b \in Nat \ {0}
  PROVE  a \div b \in Nat /\ b * (a \div b) <= a /\ a < b * (a \div b) + b
<1>. DEFINE q == a \div b  r == a % b
<1>1. q \in Nat /\ r \in Nat /\ r < b /\ a = r + b * q
  OBVIOUS
<1>. HIDE DEF q, r
<1>2. b * q \in Nat
  BY <1>1
<1>. QED  BY <1>1, <1>2 DEF q

LEMMA HalfStep ==
  ASSUME NEW n \in Nat, NEW d \in Nat \ {0}
  PROVE  LET k == (2 * n + d) \div (2 * d)
         IN  k \in Nat /\ 2 * (d * k) - 2 * n <= d /\ 2 * n - 2 * (d * k) <= d
<1>. DEFINE a == 2 * n + d  b == 2 * d  k == a \div b
<1>1. a \in Nat /\ b \in Nat \ {0}
  OBVIOUS
<1>2. k \in Nat /\ b * k <= a /\ a < b * k + b
  <2>. HIDE DEF a, b
  <2>. QED  BY <1>1, Divided
<1>. HIDE DEF k
<1>3. b * k = 2 * (d * k) /\ d * k \in Nat
  BY <1>2
<1>4. k \in Nat /\ 2 * (d * k) - 2 * n <= d /\ 2 * n - 2 * (d * k) <= d
  BY <1>2, <1>3
<1>. QED  BY <1>4 DEF k, a, b

(* The nearest natural is no further than half a step away, and stays on   *)
(* the side of every natural that the quotient is on.                      *)
LEMMA HalfEvenIs ==
  ASSUME NEW n \in Nat, NEW b \in Nat \ {0}
  PROVE  LET h == HalfEven(n, b)
         IN  /\ h \in Nat /\ 2 * n <= 2 * (b * h) + b /\ 2 * (b * h) <= 2 * n + b
             /\ \A z \in Int : /\ b * z <= n => z <= h
                               /\ n <= b * z => h <= z
                               /\ 2 * n + b < 2 * (b * z) => h < z
<1>. DEFINE k == n \div b  rest == n % b  h == HalfEven(n, b)
<1>1. k \in Nat /\ rest \in Nat /\ rest < b /\ n = rest + b * k
  OBVIOUS
<1>2. h = IF 2 * rest > b \/ (2 * rest = b /\ k % 2 = 1) THEN k + 1 ELSE k
  BY DEF HalfEven
<1>3. (h = k /\ 2 * rest <= b) \/ (h = k + 1 /\ 2 * rest >= b)
  <2>. DEFINE up == 2 * rest > b \/ (2 * rest = b /\ k % 2 = 1)
  <2>1. up => 2 * rest >= b
    BY <1>1
  <2>2. ~up => 2 * rest <= b
    BY <1>1
  <2>3. h = IF up THEN k + 1 ELSE k
    BY <1>2
  <2>. HIDE DEF up, k, rest, h
  <2>4. CASE up
    <3>1. h = k + 1 /\ 2 * rest >= b
      BY <2>1, <2>3, <2>4, Zenon
    <3>. QED  BY <3>1
  <2>5. CASE ~up
    <3>1. h = k /\ 2 * rest <= b
      BY <2>2, <2>3, <2>5, Zenon
    <3>. QED  BY <3>1
  <2>. QED  BY <2>4, <2>5
<1>. HIDE DEF k, rest, h
<1>4. b * k \in Nat /\ b * (k + 1) = b * k + b
  BY <1>1
<1>5. h \in Nat /\ 2 * n <= 2 * (b * h) + b /\ 2 * (b * h) <= 2 * n + b
  BY <1>1, <1>3, <1>4
<1>6. ASSUME NEW z \in Int
      PROVE  (b * z <= n => z <= h) /\ (n <= b * z => h <= z) /\ (2 * n + b < 2 * (b * z) => h < z)
  <2>1. b * h \in Int /\ b * z \in Int
    BY <1>5
  <2>2. z >= h + 1 => b * z >= b * h + b
    <3>1. z >= h + 1 => b * z >= b * (h + 1)
      BY <1>5
    <3>. QED  BY <1>5, <3>1
  <2>3. z <= h - 1 => b * z <= b * h - b
    <3>1. z <= h - 1 => b * z <= b * (h - 1)
      BY <1>5
    <3>. QED  BY <1>5, <3>1
  <2>4. z <= h => b * z <= b * h
    BY <1>5
  <2>. QED  BY <1>5, <2>1, <2>2, <2>3, <2>4
<1>. QED  BY <1>5, <1>6 DEF h

(* The unit of the double nearest to a / d.                                *)
IsUnit(a, d, u) ==
  /\ u \in Nat \ {0}
  /\ u = 1 \/ \E v \in Nat : u = 2 * v /\ a > DoubleMax * d * v
  /\ u >= 2 * DoubleMax \/ (u \in Powers /\ u <= DoubleMax /\ a <= DoubleMax * d * u)

LEMMA UnitIs ==
  ASSUME NEW a \in Nat, NEW d \in Nat \ {0}
  PROVE  \E u : IsUnit(a, d, u) /\ DoubleRatio(a, d) = u * HalfEven(a, d * u)
<1>. DEFINE n == 2 * WordBits
            S == Nat \ {0}
            Unit(v) == IF a <= DoubleMax * d * v THEN v ELSE 2 * v
            G == [k \in 1 .. n |-> [v \in S |-> Unit(v)]]
            Def(f) == f = [k \in 0 .. n |-> IF k = 0 THEN 1 ELSE Unit(f[k - 1])]
            unit == CHOOSE g : Def(g)
<1>0. n \in Nat /\ 1 \in S /\ DoubleMax \in S /\ WordBits \in S
  BY CodecConstants, DoubleMaxIs
<1>1. \A v \in S : Unit(v) \in S
  BY <1>0
<1>2. DoubleRatio(a, d) = unit[n] * HalfEven(a, d * unit[n])
  BY DEF DoubleRatio
<1>. HIDE DEF Unit
<1>3. G \in [1 .. n -> [S -> S]] /\ \A k \in 1 .. n : \A v \in S : G[k][v] = Unit(v)
  BY <1>1
<1>. HIDE DEF S, G, n
<1>4. PICK f \in [0 .. n -> S] : Recursion(G, 1, n, f)
  BY <1>0, <1>3, RecursiveFunction, Zenon
<1>5. Def(f)
  <2>1. \A k \in 1 .. n : G[k][f[k - 1]] = Unit(f[k - 1])
    <3>1. \A k \in 1 .. n : k - 1 \in 0 .. n
      BY <1>0
    <3>. QED  BY <1>3, <3>1
  <2>2. [k \in 0 .. n |-> IF k = 0 THEN 1 ELSE G[k][f[k - 1]]] = [k \in 0 .. n |-> IF k = 0 THEN 1 ELSE Unit(f[k - 1])]
    BY <1>0, <2>1
  <2>. QED  BY <1>4, <2>2 DEF Recursion
<1>6. Def(unit)
  BY <1>5
<1>. HIDE DEF unit
<1>7. unit[0] = 1 /\ \A k \in 1 .. n : unit[k] = Unit(unit[k - 1])
  BY <1>0, <1>6
<1>8. PICK e \in 0 .. WordBits : DoubleMax = pow2[e]
  BY DoubleMaxIs DEF Powers
<1>. DEFINE Small(k, u) == \E i \in 0 .. e : u = pow2[i] /\ (a <= DoubleMax * d * u \/ i = k)
            Held(k, u) == /\ u \in S
                          /\ u = 1 \/ \E v \in Nat : u = 2 * v /\ a > DoubleMax * d * v
                          /\ u >= 2 * DoubleMax \/ Small(k, u)
            P == {k \in 0 .. n : Held(k, unit[k])}
<1>9. 0 \in P
  <2>1. 0 \in 0 .. e /\ pow2[0] = 1
    BY <1>0, PowersAre DEF S
  <2>. QED  BY <1>0, <1>7, <2>1
<1>10. ASSUME NEW k \in 1 .. n, k - 1 \in P PROVE k \in P
  <2>. DEFINE v == unit[k - 1]
  <2>1. unit[k] = Unit(v) /\ Held(k - 1, v)
    BY <1>7, <1>10
  <2>. HIDE DEF v
  <2>2. CASE a <= DoubleMax * d * v
    <3>1. unit[k] = v
      BY <2>1, <2>2 DEF Unit
    <3>2. Small(k - 1, v) => Small(k, v)
      BY <2>2
    <3>. HIDE DEF Small
    <3>. QED  BY <2>1, <3>1, <3>2
  <2>3. CASE ~(a <= DoubleMax * d * v)
    <3>1. unit[k] = 2 * v
      BY <2>1, <2>3 DEF Unit
    <3>2. v \in Nat /\ DoubleMax * d * v \in Nat /\ a > DoubleMax * d * v
      <4>1. v \in Nat \ {0} /\ DoubleMax \in Nat
        BY <1>0, <2>1 DEF S
      <4>2. DoubleMax * d \in Nat
        BY <4>1
      <4>3. DoubleMax * d * v \in Nat
        BY <4>1, <4>2
      <4>. QED  BY <2>3, <4>1, <4>3
    <3>3. 2 * v \in S
      BY <2>1 DEF S
    <3>4. 2 * v >= 2 * DoubleMax \/ Small(k, 2 * v)
      <4>1. CASE v >= 2 * DoubleMax
        BY <1>0, <3>2, <4>1 DEF S
      <4>2. CASE Small(k - 1, v)
        <5>1. PICK i \in 0 .. e : v = pow2[i] /\ i = k - 1
          BY <2>3, <4>2
        <5>2. CASE i = e
          BY <1>0, <1>8, <5>1, <5>2 DEF S
        <5>3. CASE i # e
          <6>1. i + 1 \in 1 .. WordBits /\ i + 1 \in 0 .. e /\ i + 1 = k /\ (i + 1) - 1 = i
            BY <1>0, <5>1, <5>3 DEF S
          <6>2. pow2[i + 1] = 2 * v
            BY <5>1, <6>1, PowersAre
          <6>. QED  BY <6>1, <6>2
        <5>. QED  BY <5>2, <5>3
      <4>. QED  BY <2>1, <4>1, <4>2
    <3>. HIDE DEF Small
    <3>. QED  BY <3>1, <3>2, <3>3, <3>4
  <2>. QED  BY <2>2, <2>3
<1>11. \A k \in 0 .. n : k \in P
  <2>. HIDE DEF P
  <2>. QED  BY <1>0, <1>9, <1>10, CountedUp
<1>. DEFINE u == unit[n]
<1>12. Held(n, u)
  BY <1>0, <1>11
<1>. HIDE DEF u
<1>13. Small(n, u) => u \in Powers /\ u <= DoubleMax /\ a <= DoubleMax * d * u
  <2>. SUFFICES ASSUME Small(n, u) PROVE u \in Powers /\ u <= DoubleMax /\ a <= DoubleMax * d * u
    OBVIOUS
  <2>1. PICK i \in 0 .. e : u = pow2[i] /\ (a <= DoubleMax * d * u \/ i = n)
    OBVIOUS
  <2>2. i \in 0 .. WordBits /\ e \in i .. WordBits /\ i # n
    BY <1>0 DEF n, S
  <2>3. PICK c \in Nat \ {0} : DoubleMax = u * c
    BY <1>8, <2>1, <2>2, PowersGrow
  <2>4. u \in Nat
    BY <1>12 DEF S
  <2>5. u <= DoubleMax
    BY <2>3, <2>4
  <2>6. u \in Powers
    BY <2>1, <2>2 DEF Powers
  <2>. QED  BY <2>1, <2>2, <2>5, <2>6
<1>14. IsUnit(a, d, u)
  <2>. HIDE DEF Small
  <2>. QED  BY <1>12, <1>13 DEF IsUnit, S
<1>. QED  BY <1>2, <1>14 DEF u

(* Doubles are numbers, and the small ones are exact.                      *)
LEMMA DoubleRatioIs ==
  ASSUME NEW a \in Nat, NEW d \in Nat \ {0}
  PROVE  DoubleRatio(a, d) \in Nat
<1>1. PICK u : IsUnit(a, d, u) /\ DoubleRatio(a, d) = u * HalfEven(a, d * u)
  BY UnitIs
<1>2. u \in Nat \ {0}
  BY <1>1 DEF IsUnit
<1>. DEFINE b == d * u  h == HalfEven(a, b)
<1>3. b \in Nat \ {0}
  BY <1>2
<1>4. h \in Nat
  <2>. HIDE DEF b
  <2>. QED  BY <1>3, HalfEvenIs
<1>. HIDE DEF h
<1>5. u * h \in Nat
  BY <1>2, <1>4
<1>. QED  BY <1>1, <1>5 DEF h, b

LEMMA DoubleIs ==
  ASSUME NEW v \in Int
  PROVE  Double(v) \in Int /\ (Distance(v, 0) <= DoubleMax => Double(v) = v)
<1>1. CASE Distance(v, 0) <= DoubleMax
  BY <1>1 DEF Double
<1>2. CASE ~(Distance(v, 0) <= DoubleMax) /\ v < 0
  <2>1. Double(v) = - DoubleRatio(- v, 1) /\ - v \in Nat
    BY <1>2 DEF Double
  <2>2. DoubleRatio(- v, 1) \in Nat
    BY <2>1, DoubleRatioIs
  <2>. QED  BY <1>2, <2>1, <2>2
<1>3. CASE ~(Distance(v, 0) <= DoubleMax) /\ ~(v < 0)
  <2>1. Double(v) = DoubleRatio(v, 1) /\ v \in Nat
    BY <1>3 DEF Double
  <2>2. DoubleRatio(v, 1) \in Nat
    BY <2>1, DoubleRatioIs
  <2>. QED  BY <1>3, <2>1, <2>2
<1>. QED  BY <1>1, <1>2, <1>3

(* The two roundings together find the nearest natural: the quotient stays *)
(* a unit away from the next tie, and its sum with a half has at most      *)
(* twice that unit.                                                        *)
LEMMA QuotientRounds ==
  ASSUME NEW A \in Nat, NEW B \in Nat \ {0}, 2 * A + B <= DoubleMax
  PROVE  DoubleRatio(DoubleRatio(A * 2 * DoubleMax, B) + DoubleMax, 1) \div (2 * DoubleMax) = (2 * A + B) \div (2 * B)
<1>. DEFINE D == DoubleMax
            w == 2 * D
            n == A * 2 * D
            R == (2 * A + B) \div (2 * B)
            q == DoubleRatio(n, B)
            t == DoubleRatio(q + D, 1)
<1>1. D \in Nat \ {0} /\ D \in Powers
  BY DoubleMaxIs
<1>2. R \in Nat /\ B * R \in Nat /\ 2 * (B * R) <= 2 * A + B /\ 2 * A + B < 2 * (B * R) + 2 * B
  <2>. DEFINE a == 2 * A + B  b == 2 * B  r == a \div b
  <2>1. a \in Nat /\ b \in Nat \ {0}
    OBVIOUS
  <2>2. r \in Nat /\ b * r <= a /\ a < b * r + b
    <3>. HIDE DEF a, b
    <3>. QED  BY <2>1, Divided
  <2>. HIDE DEF r
  <2>3. b * r = 2 * (B * r) /\ B * r \in Nat
    BY <2>2
  <2>4. r \in Nat /\ B * r \in Nat /\ 2 * (B * r) <= 2 * A + B /\ 2 * A + B < 2 * (B * r) + 2 * B
    BY <2>2, <2>3
  <2>. QED  BY <2>4 DEF r
<1>3. 2 * A + B <= D
  OBVIOUS
<1>4. D = DoubleMax /\ t \div w = DoubleRatio(DoubleRatio(A * 2 * DoubleMax, B) + DoubleMax, 1) \div (2 * DoubleMax)
  OBVIOUS
<1>5. SUFFICES t \div w = R
  BY <1>4
<1>. HIDE DEF D, R
<1>6. n \in Nat /\ n = D * (2 * A)
  BY <1>1
<1>7. PICK u : IsUnit(n, B, u) /\ q = u * HalfEven(n, B * u)
  <2>. HIDE DEF n
  <2>. QED  BY <1>6, UnitIs
<1>. HIDE DEF n, q, t
<1>8. u \in Nat \ {0} /\ (u = 1 \/ \E v \in Nat : u = 2 * v) /\ B * u < 2 * D /\ u \in Powers /\ u <= D /\ n <= D * B * u
  <2>1. u \in Nat \ {0} /\ (u = 1 \/ \E v \in Nat : u = 2 * v /\ n > D * B * v)
    BY <1>7 DEF IsUnit, D
  <2>2. B * u < 2 * D
    <3>1. CASE u = 1
      BY <1>1, <1>3, <3>1
    <3>2. CASE u # 1
      <4>1. PICK v \in Nat : u = 2 * v /\ n > D * B * v
        BY <2>1, <3>2
      <4>2. B * v \in Nat /\ D * B * v = D * (B * v) /\ B * u = 2 * (B * v)
        BY <1>1, <4>1
      <4>3. B * v < 2 * A
        <5>. DEFINE x == B * v  y == 2 * A
        <5>1. x \in Nat /\ y \in Nat /\ D * y > D * x
          BY <1>6, <4>1, <4>2
        <5>. HIDE DEF x, y
        <5>2. x < y
          BY <1>1, <5>1
        <5>. QED  BY <5>2 DEF x, y
      <4>. QED  BY <1>1, <1>3, <4>2, <4>3
    <3>. QED  BY <3>1, <3>2
  <2>3. u <= B * u
    BY <2>1
  <2>4. ~(u >= 2 * D)
    BY <1>1, <2>1, <2>2, <2>3
  <2>. QED  BY <1>7, <2>1, <2>2, <2>4 DEF IsUnit, D
<1>9. PICK c \in Nat \ {0} : D = u * c
  BY <1>1, <1>8, PowersDivide
<1>. DEFINE b == B * u  h == HalfEven(n, b)
<1>10. b \in Nat \ {0}
  BY <1>8
<1>11. /\ h \in Nat /\ 2 * n <= 2 * (b * h) + b /\ 2 * (b * h) <= 2 * n + b
       /\ \A z \in Int : /\ b * z <= n => z <= h
                         /\ n <= b * z => h <= z
                         /\ 2 * n + b < 2 * (b * z) => h < z
  <2>. HIDE DEF b
  <2>. QED  BY <1>6, <1>10, HalfEvenIs
<1>12. q = u * h
  BY <1>7
<1>. HIDE DEF h
<1>13. \A k \in Int : b * (c * k) = D * (B * k) /\ u * (c * k) = D * k
  BY <1>8, <1>9
<1>14. h >= c * (2 * R - 1)
  <2>1. B * (2 * R - 1) = 2 * (B * R) - B
    BY <1>2
  <2>2. B * (2 * R - 1) <= 2 * A /\ B * (2 * R - 1) \in Int
    BY <1>2, <2>1
  <2>3. D * (B * (2 * R - 1)) <= D * (2 * A)
    <3>. DEFINE x == B * (2 * R - 1)
    <3>. HIDE DEF x
    <3>1. D * x <= D * (2 * A)
      BY <1>1, <2>2 DEF x
    <3>. QED  BY <3>1 DEF x
  <2>4. b * (c * (2 * R - 1)) <= n
    <3>1. 2 * R - 1 \in Int
      BY <1>2
    <3>. QED  BY <1>6, <1>13, <2>3, <3>1
  <2>5. c * (2 * R - 1) \in Int
    BY <1>2
  <2>. HIDE DEF b
  <2>. QED  BY <1>11, <2>4, <2>5
<1>15. h < c * (2 * R + 1)
  <2>. DEFINE y == B * (2 * R + 1)
  <2>1. y = 2 * (B * R) + B
    BY <1>2
  <2>2. 2 * A + 1 <= y /\ y \in Int
    BY <1>2, <2>1
  <2>. HIDE DEF y
  <2>3. D * (2 * A) + D <= D * y
    <3>1. D * (2 * A + 1) <= D * y
      BY <1>1, <2>2
    <3>. QED  BY <1>1, <3>1
  <2>4. b * (c * (2 * R + 1)) = D * y /\ D * y \in Int
    <3>1. 2 * R + 1 \in Int
      BY <1>2
    <3>2. b * (c * (2 * R + 1)) = D * (B * (2 * R + 1))
      BY <1>13, <3>1
    <3>3. D * y \in Int
      BY <1>1, <2>2
    <3>. QED  BY <3>2, <3>3 DEF y
  <2>5. c * (2 * R + 1) \in Int
    BY <1>2
  <2>6. 2 * n + b < 2 * (D * y)
    BY <1>1, <1>6, <1>8, <1>10, <2>3, <2>4
  <2>. HIDE DEF b
  <2>. QED  BY <1>11, <2>4, <2>5, <2>6
<1>16. q \in Nat /\ q + D >= w * R
  <2>1. 2 * R - 1 \in Int /\ c * (2 * R - 1) \in Int
    BY <1>2
  <2>2. u * h >= u * (c * (2 * R - 1))
    <3>. DEFINE x == c * (2 * R - 1)
    <3>. HIDE DEF x
    <3>1. u * h >= u * x
      BY <1>8, <1>11, <1>14, <2>1 DEF x
    <3>. QED  BY <3>1 DEF x
  <2>3. u * (c * (2 * R - 1)) = D * (2 * R - 1)
    BY <1>13, <2>1
  <2>4. D * (2 * R - 1) = w * R - D
    BY <1>1, <1>2
  <2>5. q \in Nat /\ w * R \in Nat
    BY <1>1, <1>2, <1>8, <1>11, <1>12
  <2>. QED  BY <1>1, <1>12, <2>2, <2>3, <2>4, <2>5
<1>17. q + D <= w * (R + 1) - u
  <2>1. 2 * R + 1 \in Int /\ c * (2 * R + 1) \in Int
    BY <1>2
  <2>2. u * h <= u * (c * (2 * R + 1)) - u
    <3>. DEFINE x == c * (2 * R + 1)
    <3>1. x \in Int /\ h <= x - 1
      BY <1>11, <1>15, <2>1
    <3>. HIDE DEF x
    <3>2. u * h <= u * (x - 1)
      BY <1>8, <1>11, <3>1
    <3>3. u * (x - 1) = u * x - u
      BY <1>8, <3>1
    <3>4. u * h <= u * x - u
      BY <3>2, <3>3
    <3>. QED  BY <3>4 DEF x
  <2>3. u * (c * (2 * R + 1)) = D * (2 * R + 1)
    BY <1>13, <2>1
  <2>4. D * (2 * R + 1) = w * (R + 1) - D /\ w * (R + 1) \in Int
    BY <1>1, <1>2
  <2>. QED  BY <1>1, <1>8, <1>12, <1>16, <2>2, <2>3, <2>4
<1>18. q <= D * u
  <2>1. n <= b * D
    BY <1>1, <1>8
  <2>2. h <= D
    <3>. HIDE DEF b
    <3>. QED  BY <1>1, <1>11, <2>1
  <2>3. u * h <= u * D /\ u * D = D * u
    BY <1>1, <1>8, <1>11, <2>2
  <2>. QED  BY <1>12, <2>3
<1>19. PICK e : IsUnit(q + D, 1, e) /\ t = e * HalfEven(q + D, 1 * e)
  <2>1. q + D \in Nat
    BY <1>1, <1>16
  <2>. QED  BY <2>1, UnitIs DEF t
<1>20. e \in Nat \ {0} /\ (e = 1 \/ \E v \in Nat : e = 2 * v /\ v <= u /\ q + D > D * v)
  <2>1. e \in Nat \ {0} /\ (e = 1 \/ \E v \in Nat : e = 2 * v /\ q + D > D * 1 * v)
    BY <1>19 DEF IsUnit, D
  <2>2. ASSUME NEW v \in Nat, q + D > D * 1 * v PROVE v <= u /\ q + D > D * v
    <3>1. D * 1 * v = D * v /\ D * v \in Nat /\ D * (u + 1) = D * u + D /\ D * u \in Nat
      BY <1>1, <1>8
    <3>2. D * v < D * (u + 1)
      BY <1>1, <1>16, <1>18, <2>2, <3>1
    <3>3. v < u + 1
      BY <1>1, <1>8, <3>2
    <3>. QED  BY <1>8, <2>2, <3>1, <3>3
  <2>. QED  BY <2>1, <2>2
<1>21. e >= 2 * D \/ (e \in Powers /\ e <= D)
  BY <1>19 DEF IsUnit, D
<1>22. e = 2 * u \/ (e <= u /\ \E g \in Nat \ {0} : u = e * g)
  <2>1. e <= 2 * u
    BY <1>8, <1>20
  <2>2. CASE e >= 2 * D
    BY <1>1, <1>8, <1>20, <2>1, <2>2
  <2>3. CASE e \in Powers /\ e <= u
    BY <1>8, <2>3, PowersDivide
  <2>4. CASE e \in Powers /\ e > u
    <3>1. PICK g \in Nat \ {0} : e = u * g
      BY <1>8, <1>20, <2>4, PowersDivide
    <3>2. g # 1
      BY <1>8, <2>4, <3>1
    <3>3. g >= 3 => u * g >= u * 3
      BY <1>8
    <3>4. g = 2
      BY <1>8, <2>1, <3>1, <3>2, <3>3
    <3>. QED  BY <1>8, <3>1, <3>4
  <2>. QED  BY <1>8, <1>20, <1>21, <2>2, <2>3, <2>4
<1>23. PICK k \in Nat \ {0} : w = e * k
  <2>1. CASE e = 2 * u
    <3>1. w = e * c
      BY <1>8, <1>9, <2>1
    <3>. QED  BY <3>1
  <2>2. CASE e # 2 * u
    <3>1. PICK g \in Nat \ {0} : u = e * g
      BY <1>22, <2>2
    <3>2. w = e * (2 * (g * c)) /\ 2 * (g * c) \in Nat \ {0}
      BY <1>9, <1>20, <3>1
    <3>. QED  BY <3>2
  <2>. QED  BY <2>1, <2>2
<1>. DEFINE s == q + D  j == HalfEven(s, e)  Z == w * (R + 1)
<1>24. s \in Nat /\ w \in Nat \ {0} /\ Z \in Nat /\ Z = w * R + w /\ w * R \in Nat
  BY <1>1, <1>2, <1>16
<1>25. t = e * j /\ 1 * e = e
  BY <1>19, <1>20
<1>26. /\ j \in Nat
       /\ \A z \in Int : /\ e * z <= s => z <= j
                         /\ s <= e * z => j <= z
                         /\ 2 * s + e < 2 * (e * z) => j < z
  <2>. HIDE DEF s
  <2>. QED  BY <1>20, <1>24, HalfEvenIs
<1>27. \A i \in Int : e * (k * i) = w * i /\ k * i \in Int
  BY <1>20, <1>23
<1>. HIDE DEF s, j, Z, w
<1>28. t >= w * R
  <2>1. e * (k * R) <= s /\ k * R \in Int
    BY <1>2, <1>16, <1>27 DEF s, w
  <2>2. j >= k * R
    BY <1>26, <2>1
  <2>3. e * j >= e * (k * R)
    BY <1>20, <1>26, <2>1, <2>2
  <2>4. e * (k * R) = w * R
    BY <1>2, <1>27
  <2>. QED  BY <1>25, <2>3, <2>4
<1>29. t < Z
  <2>1. CASE e <= u /\ \E g \in Nat \ {0} : u = e * g
    <3>1. PICK g \in Nat \ {0} : u = e * g
      BY <2>1
    <3>. DEFINE z == g * (h + c)
    <3>2. z \in Nat /\ s = e * z
      <4>1. s = u * h + u * c
        BY <1>9, <1>12 DEF s
      <4>2. u * h + u * c = u * (h + c)
        BY <1>8, <1>11
      <4>3. (e * g) * (h + c) = e * (g * (h + c)) /\ g * (h + c) \in Nat
        BY <1>11, <1>20
      <4>. QED  BY <3>1, <4>1, <4>2, <4>3
    <3>. HIDE DEF z
    <3>3. j <= z
      BY <1>20, <1>24, <1>26, <3>2
    <3>4. e * j <= e * z /\ e * j \in Nat
      BY <1>20, <1>26, <3>2, <3>3
    <3>5. s <= Z - u
      BY <1>17 DEF s, Z, w
    <3>. QED  BY <1>8, <1>24, <1>25, <3>2, <3>4, <3>5
  <2>2. CASE e = 2 * u
    <3>1. D * u < s
      <4>1. e # 1
        BY <1>8, <2>2
      <4>2. PICK v \in Nat : e = 2 * v /\ q + D > D * v
        BY <1>20, <4>1
      <4>3. v = u
        BY <1>8, <2>2, <4>2
      <4>4. D * u \in Nat /\ q + D \in Nat
        BY <1>1, <1>8, <1>16
      <4>. QED  BY <4>2, <4>3, <4>4 DEF s
    <3>2. s # Z - u
      <4>. SUFFICES ASSUME s = Z - u PROVE FALSE
        OBVIOUS
      <4>1. D * (2 * R + 1) \in Nat /\ Z = D * (2 * R + 1) + D
        BY <1>1, <1>2 DEF Z, w
      <4>2. q = D * (2 * R + 1) - u
        BY <1>1, <1>8, <1>16, <4>1 DEF s
      <4>3. CASE u = D
        <5>1. B = 1
          <6>1. B >= 2 => B * u >= 2 * u
            BY <1>8
          <6>. QED  BY <1>1, <1>8, <4>3, <6>1
        <5>2. R = A
          BY <1>2, <5>1
        <5>3. D * D < D * (2 * A + 1)
          BY <1>1, <3>1, <4>1, <4>3, <5>2
        <5>4. D < 2 * A + 1
          BY <1>1, <5>3
        <5>. QED  BY <1>1, <1>3, <5>1, <5>4
      <4>4. CASE u # D
        <5>1. u < D
          BY <1>1, <1>8, <4>4
        <5>2. u >= 2 * R + 1
          <6>1. u <= 2 * R => D * u <= D * (2 * R)
            BY <1>1, <1>2, <1>8
          <6>2. D * (2 * R + 1) = D * (2 * R) + D /\ D * (2 * R) \in Nat /\ D * u \in Nat
            BY <1>1, <1>2, <1>8
          <6>. QED  BY <1>1, <1>2, <1>8, <1>18, <4>2, <5>1, <6>1, <6>2
        <5>3. u < 2 * R + 2
          <6>1. u >= 2 * R + 2 => D * u >= D * (2 * R + 2)
            BY <1>1, <1>2, <1>8
          <6>2. D * (2 * R + 2) = D * (2 * R + 1) + D /\ D * u \in Nat
            BY <1>1, <1>2, <1>8
          <6>. QED  BY <1>1, <1>2, <1>8, <3>1, <4>1, <6>1, <6>2
        <5>4. u = 1 /\ R = 0
          BY <1>2, <1>8, <5>2, <5>3
        <5>5. h = D - 1 /\ b = B
          <6>1. u * h = h /\ D * (2 * R + 1) = D
            BY <1>1, <1>11, <5>4
          <6>. QED  BY <1>1, <1>12, <4>2, <5>4, <6>1
        <5>. DEFINE x == B * D  y == A * D  p == D * D
        <5>6. x \in Nat /\ y \in Nat /\ p \in Nat
          BY <1>1
        <5>7. 2 * x <= 4 * y + 3 * B
          <6>1. b * h = x - B
            BY <1>1, <5>5
          <6>2. n = 2 * y
            BY <1>1, <1>6
          <6>3. 2 * (b * h) <= 2 * n + b
            BY <1>11
          <6>. HIDE DEF x, y, b
          <6>. QED  BY <5>5, <5>6, <6>1, <6>2, <6>3
        <5>8. 2 * A + 1 <= B
          BY <1>2, <5>4
        <5>9. 2 * y + D <= x
          <6>1. (2 * A + 1) * D <= B * D
            BY <1>1, <5>8
          <6>2. (2 * A + 1) * D = 2 * (A * D) + D
            BY <1>1
          <6>. QED  BY <6>1, <6>2
        <5>10. 2 * D <= 3 * B
          <6>. HIDE DEF x, y
          <6>. QED  BY <1>1, <5>6, <5>7, <5>9
        <5>11. 6 * A <= D
          BY <1>1, <1>3, <5>10
        <5>12. 6 * y <= p /\ 3 * x >= 2 * p
          <6>1. (6 * A) * D <= D * D /\ (3 * B) * D >= (2 * D) * D
            BY <1>1, <5>10, <5>11
          <6>2. (6 * A) * D = 6 * y /\ (3 * B) * D = 3 * x /\ (2 * D) * D = 2 * p
            BY <1>1
          <6>. HIDE DEF x, y, p
          <6>. QED  BY <6>1, <6>2 DEF p
        <5>13. 2 * p <= 9 * D
          <6>. HIDE DEF x, y, p
          <6>. QED  BY <1>1, <1>3, <5>6, <5>7, <5>12
        <5>14. D <= 4
          <6>1. D >= 5 => D * D >= 5 * D
            BY <1>1
          <6>. QED  BY <1>1, <5>13, <6>1
        <5>15. A = 0 /\ y = 0
          BY <1>1, <5>11, <5>14
        <5>16. 2 * x <= 3 * B
          <6>. HIDE DEF x, y
          <6>. QED  BY <5>6, <5>7, <5>15
        <5>17. x >= B * 2
          BY <1>1, <5>1, <5>4
        <5>. HIDE DEF x
        <5>. QED  BY <5>6, <5>16, <5>17
      <4>. QED  BY <4>3, <4>4
    <3>3. s < Z - u
      <4>1. s <= Z - u
        BY <1>17 DEF s, Z, w
      <4>. QED  BY <1>8, <1>24, <3>2, <4>1
    <3>4. e * (k * (R + 1)) = Z /\ k * (R + 1) \in Int
      <4>1. R + 1 \in Int
        BY <1>2
      <4>. QED  BY <1>27, <4>1 DEF Z
    <3>5. j < k * (R + 1)
      <4>1. 2 * s + e < 2 * Z
        BY <1>8, <1>24, <2>2, <3>3
      <4>. QED  BY <1>26, <3>4, <4>1
    <3>. DEFINE i == k * (R + 1)
    <3>6. e * j < e * i
      <4>. HIDE DEF i
      <4>1. i \in Int /\ j < i
        BY <3>4, <3>5 DEF i
      <4>. QED  BY <1>20, <1>26, <4>1
    <3>. QED  BY <1>25, <3>4, <3>6
  <2>. QED  BY <1>22, <2>1, <2>2
<1>30. t \in Nat
  BY <1>20, <1>25, <1>26
<1>. DEFINE d == t \div w
<1>31. d \in Nat /\ w * d <= t /\ t < w * d + w
  BY <1>24, <1>30, Divided
<1>. HIDE DEF d
<1>32. w * d < w * (R + 1) /\ w * R < w * (d + 1)
  <2>1. w * d \in Nat /\ w * (d + 1) = w * d + w
    BY <1>24, <1>31
  <2>. QED  BY <1>24, <1>28, <1>29, <1>30, <1>31, <2>1 DEF Z
<1>33. d < R + 1 /\ R < d + 1
  BY <1>2, <1>24, <1>31, <1>32
<1>34. d = R
  BY <1>2, <1>31, <1>33
<1>. QED  BY <1>34 DEF d

(* The nearest integer as the code computes it.                            *)
LEMMA RoundHalfAwayIs ==
  ASSUME NEW a \in Int, NEW b \in Int, b # 0
  PROVE  /\ codec_round_half_away(a, b) \in Int
         /\ 2 * Distance(a, 0) + Distance(b, 0) <= DoubleMax =>
              2 * Distance(codec_round_half_away(a, b) * b, a) <= Distance(b, 0)
<1>. DEFINE A == Distance(a, 0)  B == Distance(b, 0)
            m == A * 2 * DoubleMax
            q == DoubleRatio(m, B)
            w == 2 * DoubleMax
            raw == DoubleRatio(q + DoubleMax, 1) \div w
<1>1. A \in Nat /\ B \in Nat \ {0} /\ DoubleMax \in Nat \ {0} /\ w \in Nat \ {0}
  BY CodecConstants, DoubleMaxIs DEF Distance
<1>2. codec_round_half_away(a, b) = IF (a < 0) # (b < 0) THEN - raw ELSE raw
  BY DEF codec_round_half_away
<1>3. codec_round_half_away(a, b) \in Int
  <2>. HIDE DEF A, B, w
  <2>1. m \in Nat
    BY <1>1
  <2>. HIDE DEF m
  <2>2. q \in Nat
    BY <1>1, <2>1, DoubleRatioIs
  <2>. HIDE DEF q
  <2>3. q + DoubleMax \in Nat
    BY <1>1, <2>2
  <2>. DEFINE t == DoubleRatio(q + DoubleMax, 1)
  <2>4. t \in Nat
    BY <2>3, DoubleRatioIs
  <2>. HIDE DEF t
  <2>5. t \div w \in Nat
    BY <1>1, <2>4, Divided
  <2>6. raw \in Nat
    BY <2>5 DEF t
  <2>. HIDE DEF raw
  <2>. QED  BY <1>2, <2>6
<1>4. ASSUME 2 * A + B <= DoubleMax
      PROVE  2 * Distance(codec_round_half_away(a, b) * b, a) <= B
  <2>. DEFINE k == (2 * A + B) \div (2 * B)
  <2>1. k \in Nat /\ 2 * (B * k) - 2 * A <= B /\ 2 * A - 2 * (B * k) <= B
    <3>. HIDE DEF A, B
    <3>. QED  BY <1>1, HalfStep
  <2>2. raw = k
    <3>. HIDE DEF A, B
    <3>. QED  BY <1>4, <1>1, QuotientRounds
  <2>3. codec_round_half_away(a, b) = IF (a < 0) # (b < 0) THEN - k ELSE k
    BY <2>2 DEF codec_round_half_away
  <2>. HIDE DEF k
  <2>4. B * k \in Nat /\ b * k = IF b < 0 THEN - (B * k) ELSE B * k
    BY <1>1, <2>1 DEF Distance
  <2>5. codec_round_half_away(a, b) * b = IF a < 0 THEN - (B * k) ELSE B * k
    <3>1. (- k) * b = - (b * k) /\ k * b = b * k /\ b * k \in Int
      BY <2>1
    <3>. HIDE DEF B
    <3>. QED  BY <2>3, <2>4, <3>1
  <2>6. a = IF a < 0 THEN - A ELSE A
    BY DEF Distance
  <2>. HIDE DEF A, B
  <2>. QED  BY <1>1, <2>1, <2>4, <2>5, <2>6 DEF Distance
<1>. QED  BY <1>3, <1>4

LEMMA TruncatedIs ==
  ASSUME NEW q \in Int
  PROVE  /\ Truncated(q) \in Int /\ Distance(Truncated(q) * RealUnit, q) < RealUnit
         /\ Truncated(q) <= Distance(q, 0)
         /\ \A low \in Int : q >= low * RealUnit => Truncated(q) >= low
         /\ \A high \in Int : high >= 0 /\ q <= high * RealUnit => Truncated(q) <= high
  BY SMTT(30) DEF Truncated, Distance, RealUnit

LEMMA LimitsAre ==
  ASSUME NEW s, Sound(s), NEW physical \in Int
  PROVE  /\ apply_limits(s, physical).physical \in Int
         /\ \/ apply_limits(s, physical).status = "OK" /\ apply_limits(s, physical).physical = physical
            \/ apply_limits(s, physical).status = "RANGE"
            \/ apply_limits(s, physical).status = "CLAMPED"
<1>. DEFINE low == IF s.has_min /\ physical < s.min THEN s.min ELSE physical
            clamped == IF s.has_max /\ low > s.max THEN s.max ELSE low
            r == apply_limits(s, physical)
<1>1. s.min \in Int /\ s.max \in Int /\ s.strict \in BOOLEAN
  BY DEF Sound
<1>2. clamped \in Int
  BY <1>1
<1>3. r = CASE clamped = physical -> [status |-> "OK", physical |-> physical]
            [] clamped # physical /\ s.strict -> [status |-> "RANGE", physical |-> physical]
            [] clamped # physical /\ ~s.strict -> [status |-> "CLAMPED", physical |-> clamped]
  BY DEF apply_limits
<1>. HIDE DEF clamped, r
<1>4. CASE clamped = physical
  BY <1>3, <1>4 DEF r
<1>5. CASE clamped # physical /\ s.strict
  BY <1>3, <1>5 DEF r
<1>6. CASE clamped # physical /\ ~s.strict
  BY <1>2, <1>3, <1>6 DEF r
<1>. QED  BY <1>1, <1>4, <1>5, <1>6

(* How near n is to what was asked for, where the arithmetic is exact.     *)
Precise(s, status, x) == Scaled(s) \/ status = "CLAMPED" => WithinPrecision(s, x)

Near(s, status, x, n) ==
  /\ Scaled(s) => 2 * Distance(n * s.scale, Asked(s, x) - s.offset) <= Distance(s.scale, 0)
  /\ ~Scaled(s) /\ status = "CLAMPED" => Distance(n * RealUnit, Asked(s, x)) < RealUnit
  /\ ~Scaled(s) /\ status # "CLAMPED" => n = x.v

Found(s, x, e, low, high) ==
  e.raw \in Int /\ (Precise(s, e.status, x) => e.raw \in low .. high /\ Near(s, e.status, x, e.raw))

LEMMA AtMostIs ==
  ASSUME NEW s, NEW high \in Nat, NEW n \in Int, n <= DoubleMax, n <= AtMost(s, high)
  PROVE  n <= high
<1>1. DoubleMax \in Nat /\ (Distance(high, 0) <= DoubleMax => Double(high) = high)
  BY CodecConstants, DoubleMaxIs, DoubleIs
<1>. QED  BY <1>1 DEF AtMost, Distance

LEMMA UnscaledIs ==
  ASSUME NEW s, Sound(s), ~Scaled(s), NEW x, x.v \in Int, x.kind # "real", NEW low \in Int, NEW high \in Nat,
         Accepted(Unscaled(s, x.v, low, high))
  PROVE  Found(s, x, Unscaled(s, x.v, low, high), low, high)
<1>. DEFINE v == x.v
            w == v * RealUnit
            limited == apply_limits(s, Double(w))
            p == limited.physical
            e == Unscaled(s, v, low, high)
<1>1. w \in Int /\ Double(w) \in Int /\ (Distance(w, 0) <= DoubleMax => Double(w) = w)
  <2>1. w \in Int
    BY DEF RealUnit
  <2>. HIDE DEF w
  <2>. QED  BY <2>1, DoubleIs
<1>2. p \in Int /\ limited.status \in {"OK", "RANGE", "CLAMPED"}
  BY <1>1, LimitsAre
<1>3. ASSUME WithinPrecision(s, x) PROVE p = Asked(s, x) /\ Distance(p, 0) <= DoubleMax
  <2>1. Given(x) = w
    BY DEF Given
  <2>2. Distance(w, 0) <= DoubleMax /\ Distance(Asked(s, x), 0) + Distance(s.scale, 0) <= DoubleMax
    BY <1>3, <2>1 DEF WithinPrecision
  <2>3. p = Asked(s, x)
    BY <1>1, <2>1, <2>2 DEF Asked
  <2>4. s.scale \in Int /\ DoubleMax \in Nat
    BY CodecConstants, DoubleMaxIs DEF Sound
  <2>. HIDE DEF p, w
  <2>. QED  BY <1>2, <2>2, <2>3, <2>4 DEF Distance
<1>4. e = CASE limited.status = "RANGE" -> Refusal("RANGE")
            [] limited.status = "CLAMPED" ->
                 IF p < low * RealUnit \/ TooHigh(s, p, high) THEN Refusal("RANGE")
                 ELSE Encoded("CLAMPED", Truncated(p))
            [] limited.status = "OK" -> IF v \in low .. high THEN Encoded("OK", v) ELSE Refusal("RANGE")
  BY DEF Unscaled
<1>5. Accepted(e)
  OBVIOUS
<1>6. e # Refusal("RANGE")
  BY <1>5 DEF Accepted, Refusal, Encoded
<1>. HIDE DEF e, limited, p
<1>8. CASE limited.status = "RANGE"
  BY <1>4, <1>6, <1>8
<1>9. CASE limited.status = "CLAMPED"
  <2>. DEFINE n == Truncated(p)
  <2>1. e = Encoded("CLAMPED", n) /\ ~(p < low * RealUnit) /\ ~TooHigh(s, p, high)
    BY <1>4, <1>6, <1>9
  <2>2. e.raw = n /\ e.status = "CLAMPED"
    BY <2>1 DEF Encoded
  <2>3. /\ n \in Int /\ Distance(n * RealUnit, p) < RealUnit /\ n <= Distance(p, 0)
        /\ p >= low * RealUnit => n >= low
        /\ \A top \in Int : top >= 0 /\ p <= top * RealUnit => n <= top
    BY <1>2, TruncatedIs
  <2>4. ASSUME WithinPrecision(s, x) PROVE n \in low .. high
    <3>1. n >= low
      <4>1. low * RealUnit \in Int
        BY DEF RealUnit
      <4>. QED  BY <1>2, <2>1, <2>3, <4>1
    <3>2. n <= high
      <4>1. CASE s.type = "uint" /\ s.bit_length < WordBits
        <5>1. AtMost(s, high) = Double(high) /\ ~(p > AtMost(s, high) * RealUnit)
          BY <2>1, <4>1 DEF TooHigh, AtMost
        <5>2. CASE high <= DoubleMax
          <6>1. Double(high) = high
            BY <5>2, DoubleIs DEF Distance
          <6>2. p <= high * RealUnit
            <7>1. high * RealUnit \in Int
              BY DEF RealUnit
            <7>. QED  BY <1>2, <5>1, <6>1, <7>1
          <6>. HIDE DEF n
          <6>. QED  BY <2>3, <6>2
        <5>3. CASE ~(high <= DoubleMax)
          <6>. HIDE DEF n
          <6>1. Distance(p, 0) \in Int /\ DoubleMax \in Nat
            BY <1>2, CodecConstants, DoubleMaxIs DEF Distance
          <6>. QED  BY <1>3, <2>3, <2>4, <5>3, <6>1
        <5>. QED  BY <5>2, <5>3
      <4>2. CASE ~(s.type = "uint" /\ s.bit_length < WordBits)
        <5>1. ~(n > high)
          BY <2>1, <4>2 DEF TooHigh
        <5>. HIDE DEF n
        <5>. QED  BY <2>3, <5>1
      <4>. QED  BY <4>1, <4>2
    <3>. HIDE DEF n
    <3>. QED  BY <2>3, <3>1, <3>2
  <2>. HIDE DEF n
  <2>. QED  BY <1>3, <2>2, <2>3, <2>4 DEF Near, Found, Precise, e
<1>10. CASE limited.status = "OK"
  <2>1. e = Encoded("OK", v) /\ v \in low .. high
    BY <1>4, <1>6, <1>10
  <2>2. e.raw = v /\ e.status = "OK"
    BY <2>1 DEF Encoded
  <2>. QED  BY <2>1, <2>2 DEF Near, Found, e
<1>. QED  BY <1>2, <1>8, <1>9, <1>10

(* A raw value within precision, and what it stands for.                   *)
LEMMA NearFits ==
  ASSUME NEW c \in Int, c # 0, NEW o \in Int, NEW p \in Int, NEW n \in Int,
         2 * Distance(n * c, p - o) <= Distance(c, 0),
         Distance(p, 0) + Distance(c, 0) <= DoubleMax,
         2 * Distance(p, o) + Distance(c, 0) <= DoubleMax
  PROVE  /\ Distance(n, 0) <= DoubleMax /\ Distance(n * c, 0) <= DoubleMax
         /\ Distance(n * c + o, 0) <= DoubleMax
         /\ 2 * Distance(n * c + o, p) <= Distance(c, 0)
<1>. DEFINE y == n * c
<1>1. y \in Int /\ DoubleMax \in Nat
  BY CodecConstants, DoubleMaxIs
<1>2. Distance(n, 0) <= Distance(y, 0)
  <2>1. CASE n = 0
    BY <1>1, <2>1 DEF Distance
  <2>2. CASE n # 0
    <3>. DEFINE a == Distance(n, 0)  b == Distance(c, 0)
    <3>1. a \in Nat \ {0} /\ b \in Nat \ {0} /\ (n = a \/ n = - a) /\ (c = b \/ c = - b)
      BY <2>2 DEF Distance
    <3>. HIDE DEF a, b
    <3>2. a * b \in Nat /\ a <= a * b
      BY <3>1
    <3>3. y = a * b \/ y = - (a * b)
      BY <3>1
    <3>. HIDE DEF y
    <3>. QED  BY <1>1, <3>1, <3>2, <3>3 DEF Distance, a
  <2>. QED  BY <2>1, <2>2
<1>. HIDE DEF y
<1>3. 2 * Distance(y, p - o) <= Distance(c, 0)
  BY DEF y
<1>4. /\ Distance(y, 0) <= DoubleMax /\ Distance(y + o, 0) <= DoubleMax
      /\ 2 * Distance(y + o, p) <= Distance(c, 0)
  BY <1>1, <1>3 DEF Distance
<1>5. Distance(n, 0) \in Int /\ Distance(y, 0) \in Int
  BY <1>1 DEF Distance
<1>. QED  BY <1>1, <1>2, <1>4, <1>5 DEF y

LEMMA PhysicalIs ==
  ASSUME NEW s, Sound(s), s.scale # 0, Scaled(s), NEW x, x.v \in Int, NEW physical, physical = Double(Given(x)),
         NEW low \in Int, NEW high \in Nat, Accepted(Physical(s, physical, low, high))
  PROVE  Found(s, x, Physical(s, physical, low, high), low, high)
<1>. DEFINE limited == apply_limits(s, physical)
            p == limited.physical
            gap == p - s.offset
            raw == physical_to_raw(s, p)
            e == Physical(s, physical, low, high)
<1>0. Given(x) \in Int
  BY DEF Given, RealUnit
<1>1. physical \in Int /\ (Distance(Given(x), 0) <= DoubleMax => physical = Given(x))
  <2>. DEFINE w == Given(x)
  <2>1. w \in Int /\ physical = Double(w)
    BY <1>0
  <2>. HIDE DEF w
  <2>2. physical \in Int /\ (Distance(w, 0) <= DoubleMax => physical = w)
    BY <2>1, DoubleIs
  <2>. QED  BY <2>2 DEF w
<1>2. p \in Int /\ s.scale \in Int /\ s.offset \in Int /\ gap \in Int /\ DoubleMax \in Nat
  BY <1>1, LimitsAre, CodecConstants, DoubleMaxIs DEF Sound
<1>3. e = IF limited.status = "RANGE" \/ raw \notin low .. AtMost(s, high) THEN Refusal("RANGE")
          ELSE Encoded(limited.status, raw)
  BY DEF Physical
<1>4. Accepted(e)
  OBVIOUS
<1>5. e # Refusal("RANGE")
  BY <1>4 DEF Accepted, Refusal, Encoded
<1>6. raw = codec_round_half_away(Double(gap), s.scale)
  BY DEF physical_to_raw
<1>. HIDE DEF e, raw, limited, p, gap
<1>7. Double(gap) \in Int /\ (Distance(gap, 0) <= DoubleMax => Double(gap) = gap)
  BY <1>2, DoubleIs
<1>8. /\ raw \in Int
      /\ 2 * Distance(Double(gap), 0) + Distance(s.scale, 0) <= DoubleMax =>
           2 * Distance(raw * s.scale, Double(gap)) <= Distance(s.scale, 0)
  <2>. DEFINE a == Double(gap)
  <2>1. a \in Int
    BY <1>7
  <2>. HIDE DEF a
  <2>2. raw = codec_round_half_away(a, s.scale)
    BY <1>6 DEF a
  <2>3. raw \in Int /\ (2 * Distance(a, 0) + Distance(s.scale, 0) <= DoubleMax =>
                            2 * Distance(raw * s.scale, a) <= Distance(s.scale, 0))
    BY <1>2, <2>1, <2>2, RoundHalfAwayIs
  <2>. QED  BY <2>3 DEF a
<1>9. e.raw = raw /\ raw \in low .. AtMost(s, high)
  BY <1>3, <1>5 DEF Encoded
<1>10. ASSUME WithinPrecision(s, x) PROVE raw \in low .. high /\ Near(s, e.status, x, raw)
  <2>1. /\ Distance(Given(x), 0) <= DoubleMax
        /\ Distance(Asked(s, x), 0) + Distance(s.scale, 0) <= DoubleMax
        /\ 2 * Distance(Asked(s, x), s.offset) + Distance(s.scale, 0) <= DoubleMax
    BY <1>10 DEF WithinPrecision
  <2>2. p = Asked(s, x)
    BY <1>1, <2>1 DEF Asked, p, limited
  <2>3. Distance(gap, 0) = Distance(p, s.offset)
    BY <1>2 DEF gap, Distance
  <2>4. Distance(gap, 0) \in Nat /\ Distance(s.scale, 0) \in Nat
    BY <1>2 DEF Distance
  <2>5. Double(gap) = gap /\ 2 * Distance(gap, 0) + Distance(s.scale, 0) <= DoubleMax
    BY <1>2, <1>7, <2>1, <2>2, <2>3, <2>4
  <2>6. 2 * Distance(raw * s.scale, p - s.offset) <= Distance(s.scale, 0)
    BY <1>8, <2>5 DEF gap
  <2>7. Distance(raw, 0) <= DoubleMax
    BY <1>2, <1>8, <2>1, <2>2, <2>6, NearFits
  <2>8. raw <= DoubleMax /\ AtMost(s, high) \in Int
    <3>1. Double(high) \in Int
      BY DoubleIs
    <3>. QED  BY <1>2, <1>8, <2>7, <3>1 DEF Distance, AtMost
  <2>9. raw <= high
    BY <1>8, <1>9, <2>8, AtMostIs
  <2>10. raw \in low .. high
    BY <1>8, <1>9, <2>8, <2>9
  <2>. QED  BY <2>2, <2>6, <2>10 DEF Near
<1>. QED  BY <1>8, <1>9, <1>10 DEF Found, Precise, e

LEMMA NumberIs ==
  ASSUME NEW s, Sound(s), s.type \in {"uint", "int"}, NEW x, x.v \in Int, NEW kind \in {"uint", "int"},
         x.kind = "real" => Double(x.v) = x.v,
         NEW low \in Int, NEW high \in Nat, Accepted(Number(s, x, kind, low, high))
  PROVE  Found(s, x, Number(s, x, kind, low, high), low, high)
<1>. DEFINE e == Number(s, x, kind, low, high)
<1>1. s.scale # 0 /\ kind # "real"
  BY DEF Sound
<1>2. e = CASE x.kind = kind /\ ~Scaled(s) -> Unscaled(s, x.v, low, high)
            [] x.kind = kind /\ Scaled(s) -> Physical(s, Double(x.v * RealUnit), low, high)
            [] x.kind = "real" /\ Scaled(s) -> Physical(s, x.v, low, high)
            [] OTHER -> Refusal("ARGUMENT")
  BY DEF Number
<1>3. Accepted(e)
  OBVIOUS
<1>4. e # Refusal("ARGUMENT")
  BY <1>3 DEF Accepted, Refusal, Encoded
<1>. HIDE DEF e
<1>5. CASE x.kind = kind /\ ~Scaled(s)
  <2>1. e = Unscaled(s, x.v, low, high) /\ x.kind # "real"
    BY <1>1, <1>2, <1>5
  <2>2. Accepted(Unscaled(s, x.v, low, high))
    BY <1>3, <2>1
  <2>3. Found(s, x, e, low, high)
    BY <1>5, <2>1, <2>2, UnscaledIs
  <2>. QED  BY <2>3 DEF e
<1>6. CASE x.kind = kind /\ Scaled(s)
  <2>. DEFINE physical == Double(x.v * RealUnit)
  <2>1. e = Physical(s, physical, low, high)
    BY <1>1, <1>2, <1>6
  <2>2. physical = Double(Given(x))
    BY <1>1, <1>6 DEF Given
  <2>. HIDE DEF physical
  <2>3. Found(s, x, e, low, high)
    BY <1>1, <1>3, <1>6, <2>1, <2>2, PhysicalIs
  <2>. QED  BY <2>3 DEF e
<1>7. CASE x.kind = "real" /\ Scaled(s)
  <2>1. e = Physical(s, x.v, low, high)
    BY <1>1, <1>2, <1>7
  <2>2. x.v = Double(Given(x))
    BY <1>7 DEF Given
  <2>3. Found(s, x, e, low, high)
    BY <1>1, <1>3, <1>7, <2>1, <2>2, PhysicalIs
  <2>. QED  BY <2>3 DEF e
<1>8. CASE ~(x.kind = kind /\ ~Scaled(s)) /\ ~(x.kind = kind /\ Scaled(s)) /\ ~(x.kind = "real" /\ Scaled(s))
  BY <1>2, <1>4, <1>8
<1>. QED  BY <1>5, <1>6, <1>7, <1>8

LEMMA Wrapped ==
  ASSUME NEW h \in Nat \ {0}, NEW n \in Int, - h <= n, n < h
  PROVE  n % (2 * h) = IF n >= 0 THEN n ELSE n + 2 * h
<1>. DEFINE m == 2 * h
<1>1. m \in Nat \ {0} /\ n < m /\ - m < n
  OBVIOUS
<1>. HIDE DEF m
<1>2. n % m = IF n >= 0 THEN n ELSE n + m
  BY <1>1, SMTT(30)
<1>. QED  BY <1>2 DEF m

LEMMA Remainder ==
  ASSUME NEW n \in Int, NEW m \in Nat \ {0}
  PROVE  n % m \in Nat /\ n % m < m /\ (n \in 0 .. m - 1 => n % m = n)
  OBVIOUS

LEMMA SignIs ==
  ASSUME NEW l \in 1 .. WordBits, NEW n \in Int, - pow2[l - 1] <= n, n <= pow2[l - 1] - 1
  PROVE  LET raw == n % pow2[l]
         IN  raw \in Nat /\ raw < pow2[l] /\ sign_extend(raw, l) = n
<1>. DEFINE h == pow2[l - 1]  raw == n % pow2[l]
<1>1. l - 1 \in 0 .. WordBits
  BY CodecConstants, DoubleMaxIs
<1>2. h \in Nat \ {0} /\ pow2[l] = 2 * h
  BY <1>1, PowersAre
<1>3. - h <= n /\ n < h
  BY <1>2
<1>4. sign_extend(raw, l) = IF raw < h THEN raw ELSE raw - 2 * h
  BY <1>2 DEF sign_extend
<1>. HIDE DEF h
<1>5. raw = IF n >= 0 THEN n ELSE n + 2 * h
  BY <1>2, <1>3, Wrapped
<1>. HIDE DEF raw
<1>6. raw \in Nat /\ raw < pow2[l] /\ sign_extend(raw, l) = n
  BY <1>2, <1>3, <1>4, <1>5
<1>. QED  BY <1>6 DEF raw

(* What FrameKeepsSignals says of the value y read for x.                  *)
Reads(s, status, x, y) ==
  CASE Scaled(s) /\ s.type \in {"uint", "int"} ->
         WithinPrecision(s, x) => 2 * Distance(y.v, Asked(s, x)) <= Distance(s.scale, 0)
    [] ~Scaled(s) /\ status = "CLAMPED" ->
         WithinPrecision(s, x) => Distance(y.v * RealUnit, Asked(s, x)) < RealUnit
    [] s.type = "enum" -> y.v = sign_extend(x.v, WordBits)
    [] OTHER -> y.v = x.v

ReadsBack(s, x) ==
  LET e == Encode(s, x)
      y == decode_raw(s, e.raw)
  IN  e.raw \in Nat /\ e.raw < pow2[s.bit_length] /\ IsSet(y) /\ Reads(s, e.status, x, y)

(* A scaled value comes back without an error of its own.                  *)
LEMMA DecodedExactly ==
  ASSUME NEW s, Sound(s), s.scale # 0, NEW x, x.v \in Int, NEW n \in Int, Scaled(s), WithinPrecision(s, x),
         2 * Distance(n * s.scale, Asked(s, x) - s.offset) <= Distance(s.scale, 0)
  PROVE  2 * Distance(Double(Double(Double(n) * s.scale) + s.offset), Asked(s, x)) <= Distance(s.scale, 0)
<1>. DEFINE p == Asked(s, x)  c == s.scale  o == s.offset
<1>1. Given(x) \in Int
  BY DEF Given, RealUnit
<1>2. p \in Int /\ c \in Int /\ o \in Int
  BY <1>1, LimitsAre DEF Asked, Sound
<1>3. Distance(p, 0) + Distance(c, 0) <= DoubleMax /\ 2 * Distance(p, o) + Distance(c, 0) <= DoubleMax
  BY DEF WithinPrecision
<1>4. 2 * Distance(n * c, p - o) <= Distance(c, 0) /\ c # 0
  OBVIOUS
<1>. HIDE DEF p, c, o
<1>5. /\ Distance(n, 0) <= DoubleMax /\ Distance(n * c, 0) <= DoubleMax
      /\ Distance(n * c + o, 0) <= DoubleMax
      /\ 2 * Distance(n * c + o, p) <= Distance(c, 0)
  BY <1>2, <1>3, <1>4, NearFits
<1>6. Double(n) = n
  BY <1>5, DoubleIs
<1>. DEFINE y == n * c
<1>7. y \in Int /\ y + o \in Int
  BY <1>2
<1>8. Distance(y, 0) <= DoubleMax /\ Distance(y + o, 0) <= DoubleMax
  BY <1>5
<1>. HIDE DEF y
<1>9. Double(y) = y /\ Double(y + o) = y + o
  BY <1>7, <1>8, DoubleIs
<1>10. Double(Double(Double(n) * c) + o) = n * c + o
  BY <1>6, <1>9 DEF y
<1>. QED  BY <1>5, <1>10 DEF p, c, o

LEMMA NumberReads ==
  ASSUME NEW s, Sound(s), s.type \in {"uint", "int"}, NEW x, x.v \in Int, NEW status, NEW n,
         NEW raw, Precise(s, status, x) =>
           n \in Int /\ Near(s, status, x, n) /\ n = IF s.type = "int" THEN sign_extend(raw, s.bit_length) ELSE raw
  PROVE  LET y == decode_raw(s, raw) IN IsSet(y) /\ Reads(s, status, x, y)
<1>. DEFINE y == decode_raw(s, raw)
            w == IF s.type = "int" THEN sign_extend(raw, s.bit_length) ELSE raw
            z == Double(Double(Double(w) * s.scale) + s.offset)
<1>1. y = CASE s.type \in {"uint", "int"} /\ Scaled(s) -> RealV(z)
            [] s.type = "uint" /\ ~Scaled(s) -> UIntV(w)
            [] s.type = "int" /\ ~Scaled(s) -> IntV(w)
            [] s.type = "boolean" -> BoolV(w = 1)
            [] s.type = "enum" -> IntV(sign_extend(w, WordBits))
  BY DEF decode_raw
<1>. HIDE DEF y, w
<1>2. Precise(s, status, x) => n \in Int /\ Near(s, status, x, n) /\ n = w
  BY DEF w
<1>3. CASE Scaled(s)
  <2>. HIDE DEF z
  <2>1. y = RealV(z)
    BY <1>1, <1>3
  <2>2. IsSet(y) /\ y.v = z
    BY <2>1 DEF IsSet, RealV
  <2>3. ASSUME WithinPrecision(s, x) PROVE 2 * Distance(z, Asked(s, x)) <= Distance(s.scale, 0)
    <3>1. n \in Int /\ n = w /\ 2 * Distance(n * s.scale, Asked(s, x) - s.offset) <= Distance(s.scale, 0)
      BY <1>2, <1>3, <2>3 DEF Near, Precise
    <3>2. s.scale # 0
      BY DEF Sound
    <3>3. 2 * Distance(Double(Double(Double(n) * s.scale) + s.offset), Asked(s, x)) <= Distance(s.scale, 0)
      BY <1>3, <2>3, <3>1, <3>2, DecodedExactly
    <3>. QED  BY <3>1, <3>3 DEF z
  <2>. QED  BY <1>3, <2>2, <2>3 DEF Reads, y
<1>4. CASE ~Scaled(s)
  <2>1. y = UIntV(w) \/ y = IntV(w)
    BY <1>1, <1>4
  <2>2. IsSet(y) /\ y.v = w
    BY <2>1 DEF IsSet, UIntV, IntV
  <2>3. CASE status = "CLAMPED"
    BY <1>2, <1>4, <2>2, <2>3 DEF Reads, Near, Precise, y
  <2>4. CASE status # "CLAMPED"
    <3>1. w = x.v
      BY <1>2, <1>4, <2>4 DEF Near, Precise
    <3>. QED  BY <1>4, <2>2, <2>4, <3>1 DEF Reads, y
  <2>. QED  BY <2>3, <2>4
<1>. QED  BY <1>3, <1>4

LEMMA UIntReads ==
  ASSUME NEW s, Sound(s), s.type = "uint", NEW x, x.v \in Int, x.kind = "real" => Double(x.v) = x.v,
         Accepted(Encode(s, x))
  PROVE  ReadsBack(s, x)
<1>. DEFINE l == s.bit_length  f == Encode(s, x)  e == Number(s, x, "uint", 0, mask(l))  n == e.raw
<1>1. f = Encoded(e.status, n % pow2[l])
  BY DEF Encode, encode_uint
<1>2. f.status = e.status /\ f.raw = n % pow2[l]
  BY <1>1 DEF Encoded
<1>3. Accepted(e)
  BY <1>2 DEF Accepted
<1>4. mask(l) = pow2[l] - 1 /\ pow2[l] \in Nat \ {0}
  <2>1. l \in 0 .. WordBits
    BY CodecConstants, DoubleMaxIs DEF Sound
  <2>. QED  BY <2>1, PowersAre DEF mask
<1>5. Found(s, x, e, 0, mask(l))
  <2>1. 0 \in Int /\ mask(l) \in Nat
    BY <1>4
  <2>. QED  BY <1>3, <2>1, NumberIs
<1>6. /\ n \in Int
      /\ Precise(s, e.status, x) => n \in 0 .. mask(l) /\ Near(s, e.status, x, n)
  BY <1>5 DEF Found
<1>. HIDE DEF e, f, l, n
<1>7. f.raw \in Nat /\ f.raw < pow2[l] /\ (n \in 0 .. mask(l) => f.raw = n)
  BY <1>2, <1>4, <1>6, Remainder
<1>8. LET y == decode_raw(s, f.raw) IN IsSet(y) /\ Reads(s, e.status, x, y)
  BY <1>6, <1>7, NumberReads
<1>. QED  BY <1>2, <1>7, <1>8 DEF ReadsBack, f, l

LEMMA IntReads ==
  ASSUME NEW s, Sound(s), s.type = "int", NEW x, x.v \in Int, x.kind = "real" => Double(x.v) = x.v,
         Accepted(Encode(s, x))
  PROVE  ReadsBack(s, x)
<1>. DEFINE l == s.bit_length  half == pow2[l - 1]  f == Encode(s, x)
            e == Number(s, x, "int", - half, half - 1)  n == e.raw
<1>1. f = Encoded(e.status, n % pow2[l])
  BY DEF Encode, encode_int
<1>2. f.status = e.status /\ f.raw = n % pow2[l]
  BY <1>1 DEF Encoded
<1>3. Accepted(e)
  BY <1>2 DEF Accepted
<1>4. l \in 1 .. WordBits /\ half \in Nat \ {0} /\ pow2[l] \in Nat \ {0}
  <2>1. l \in 1 .. WordBits /\ l - 1 \in 0 .. WordBits /\ l \in 0 .. WordBits
    BY CodecConstants, DoubleMaxIs DEF Sound
  <2>. QED  BY <2>1, PowersAre
<1>5. Found(s, x, e, - half, half - 1)
  <2>1. - half \in Int /\ half - 1 \in Nat
    BY <1>4
  <2>. HIDE DEF half
  <2>. QED  BY <1>3, <2>1, NumberIs
<1>6. /\ n \in Int
      /\ Precise(s, e.status, x) => n \in - half .. half - 1 /\ Near(s, e.status, x, n)
  BY <1>5 DEF Found
<1>. HIDE DEF e, f, l, n
<1>7. f.raw \in Nat /\ f.raw < pow2[l]
  BY <1>2, <1>4, <1>6, Remainder
<1>8. ASSUME n \in - half .. half - 1 PROVE sign_extend(f.raw, l) = n
  <2>1. - pow2[l - 1] <= n /\ n <= pow2[l - 1] - 1
    BY <1>4, <1>6, <1>8
  <2>2. LET raw == n % pow2[l] IN raw \in Nat /\ raw < pow2[l] /\ sign_extend(raw, l) = n
    BY <1>4, <1>6, <2>1, SignIs
  <2>. QED  BY <1>2, <2>2
<1>. HIDE DEF half
<1>9. LET y == decode_raw(s, f.raw) IN IsSet(y) /\ Reads(s, e.status, x, y)
  BY <1>6, <1>8, NumberReads DEF l
<1>. QED  BY <1>2, <1>7, <1>9 DEF ReadsBack, f, l

LEMMA OtherReads ==
  ASSUME NEW s, Sound(s), s.type \in {"boolean", "enum"}, NEW x, x.v \in Int, Accepted(Encode(s, x))
  PROVE  ReadsBack(s, x)
<1>. DEFINE l == s.bit_length  f == Encode(s, x)
<1>0. l \in 0 .. WordBits /\ l \in 1 .. WordBits
  BY CodecConstants, DoubleMaxIs DEF Sound
<1>1. pow2[l] \in Nat /\ pow2[0] = 1 /\ pow2[l] = 2 * pow2[l - 1] /\ mask(l) = pow2[l] - 1
  BY <1>0, PowersAre DEF mask
<1>2. CASE s.type = "boolean"
  <2>1. f = encode_boolean(x)
    BY <1>2 DEF Encode
  <2>2. f = Encoded("OK", x.v) /\ x.v \in {0, 1}
    <3>1. Accepted(f) /\ ~Accepted(Refusal("ARGUMENT")) /\ ~Accepted(Refusal("RANGE"))
      BY DEF Accepted, Refusal, Encoded
    <3>. HIDE DEF f
    <3>. QED  BY <2>1, <3>1 DEF encode_boolean
  <2>3. f.raw = x.v /\ f.status = "OK"
    BY <2>2 DEF Encoded
  <2>4. pow2[l] = 2
    BY <1>1, <1>2 DEF Sound
  <2>5. decode_raw(s, f.raw) = BoolV(f.raw = 1)
    BY <1>2 DEF decode_raw
  <2>. DEFINE y == decode_raw(s, f.raw)
  <2>. HIDE DEF f, l
  <2>6. IsSet(y) /\ y.v = x.v
    BY <2>2, <2>3, <2>5 DEF IsSet, BoolV
  <2>. HIDE DEF y
  <2>7. Reads(s, f.status, x, y)
    BY <1>2, <2>3, <2>6 DEF Reads
  <2>. QED  BY <2>2, <2>3, <2>4, <2>6, <2>7 DEF ReadsBack, f, l, y
<1>3. CASE s.type = "enum"
  <2>1. f = encode_enum(s, x)
    BY <1>3 DEF Encode
  <2>2. f = Encoded("OK", x.v) /\ x.v \in 0 .. mask(l)
    <3>1. Accepted(f) /\ ~Accepted(Refusal("ARGUMENT")) /\ ~Accepted(Refusal("RANGE"))
      BY DEF Accepted, Refusal, Encoded
    <3>. HIDE DEF f
    <3>. QED  BY <2>1, <3>1 DEF encode_enum
  <2>3. f.raw = x.v /\ f.status = "OK"
    BY <2>2 DEF Encoded
  <2>4. decode_raw(s, f.raw) = IntV(sign_extend(f.raw, WordBits))
    BY <1>3 DEF decode_raw
  <2>. DEFINE y == decode_raw(s, f.raw)
  <2>. HIDE DEF f, l
  <2>5. IsSet(y) /\ y.v = sign_extend(x.v, WordBits)
    BY <2>3, <2>4 DEF IsSet, IntV
  <2>6. x.v \in Nat /\ x.v < pow2[l]
    BY <1>1, <2>2
  <2>. HIDE DEF y
  <2>7. Reads(s, f.status, x, y)
    BY <1>3, <2>3, <2>5 DEF Reads
  <2>. QED  BY <2>3, <2>5, <2>6, <2>7 DEF ReadsBack, f, l, y
<1>. QED  BY <1>2, <1>3

LEMMA EncodedReads ==
  ASSUME NEW s, Sound(s), NEW x, x.v \in Int, x.kind = "real" => Double(x.v) = x.v, Accepted(Encode(s, x))
  PROVE  ReadsBack(s, x)
<1>1. s.type \in {"uint", "int", "boolean", "enum"}
  BY DEF Sound
<1>. QED  BY <1>1, UIntReads, IntReads, OtherReads


-----------------------------------------------------------------------------
(* The frame under construction.  What was put in is still there: the      *)
(* signal reads the raw value it was encoded to.                           *)
StillThere(m, f, o, c) ==
  \E j \in DOMAIN SignalsOf(m) : \E x \in Inputs :
    LET s == SignalsOf(m)[j]
        e == Encode(s, x)
    IN  /\ s.name = o /\ c = <<e.status, x>>
        /\ Accepted(e) /\ Fits(s, f.length) /\ load(s, f.bits) = e.raw

FrameOK(f) ==
  /\ f = [length |-> f.length, bits |-> f.bits]
  /\ f.length \in Nat /\ frame_length_ok(f.length) /\ DOMAIN f.bits = Payload(f.length)

FrameInv ==
  /\ FrameOK(frame)
  /\ slots = <<>> => DOMAIN carried = {}
  /\ slots # <<>> => \A o \in DOMAIN carried : StillThere(slots[1], frame, o, carried[o])

LEMMA EmptyOK ==
  ASSUME NEW length \in 1 .. ClassicBytes \cup FdLengths
  PROVE  FrameOK(Empty(length))
<1>1. length \in Nat
  BY CodecConstants, DoubleMaxIs
<1>. QED  BY <1>1 DEF FrameOK, Empty, frame_length_ok, Payload

LEMMA FrameInitInv == CodecInit => FrameInv
<1>. SUFFICES ASSUME CodecInit PROVE FrameInv
  OBVIOUS
<1>1. slots = <<>> /\ frame = Empty(1) /\ DOMAIN carried = {}
  BY DEF CodecInit
<1>2. FrameOK(Empty(1))
  <2>1. 1 \in 1 .. ClassicBytes \cup FdLengths
    BY CodecConstants, DoubleMaxIs
  <2>. QED  BY <2>1, EmptyOK
<1>. QED  BY <1>1, <1>2 DEF FrameInv

LEMMA LoadMapFrame ==
  ASSUME NamesInv, FrameInv, NEW documents, load_map(documents)
  PROVE  FrameInv'
<1>1. PICK m : slots' = Append(slots, m)
  BY DEF load_map
<1>2. UNCHANGED <<frame, carried>> /\ slots \in Seq(Loadable)
  BY DEF load_map, NamesInv, CodecInv
<1>3. slots' # <<>> /\ (slots # <<>> => slots'[1] = slots[1])
  BY <1>1, <1>2
<1>4. FrameOK(frame') /\ \A o \in DOMAIN carried' : StillThere(slots'[1], frame', o, carried'[o])
  <2>1. CASE slots = <<>>
    BY <1>2, <2>1 DEF FrameInv
  <2>2. CASE slots # <<>>
    BY <1>2, <1>3, <2>2 DEF FrameInv
  <2>. QED  BY <2>1, <2>2
<1>. QED  BY <1>3, <1>4 DEF FrameInv, FrameOK, StillThere

LEMMA NewFrame ==
  ASSUME new_frame
  PROVE  FrameInv'
<1>1. PICK length \in 1 .. ClassicBytes \cup FdLengths : frame' = Empty(length)
  BY DEF new_frame
<1>2. FrameOK(frame') /\ DOMAIN carried' = {}
  BY <1>1, EmptyOK DEF new_frame
<1>. QED  BY <1>2 DEF FrameInv, FrameOK

LEMMA EncodeFrame ==
  ASSUME NamesInv, FrameInv, encode_signal
  PROVE  FrameInv'
<1>. DEFINE signals == SignalsOf(slots[1])
            others(s) == {o \in DOMAIN carried : \A j \in DOMAIN signals :
                            signals[j].name = o => Bits(signals[j]) \cap Bits(s) = {}}
<1>1. PICK n \in DOMAIN signals, x \in Inputs :
        LET s == signals[n]
            e == Encode(s, x)
        IN  /\ Fits(s, frame.length)
            /\ Accepted(e)
            /\ frame' = [frame EXCEPT !.bits = put_raw(s, @, e.raw)]
            /\ carried' = [o \in others(s) \cup {s.name} |-> IF o = s.name THEN <<e.status, x>> ELSE carried[o]]
  BY DEF encode_signal
<1>. DEFINE s == signals[n]  e == Encode(s, x)  length == frame.length  bits == frame.bits
            new == put_raw(s, bits, e.raw)
<1>2. /\ Fits(s, length) /\ Accepted(e)
      /\ frame' = [frame EXCEPT !.bits = new]
      /\ carried' = [o \in others(s) \cup {s.name} |-> IF o = s.name THEN <<e.status, x>> ELSE carried[o]]
  BY <1>1
<1>3. slots # <<>> /\ slots' = slots
  BY DEF encode_signal
<1>4. slots \in Seq(Loadable) /\ slots[1] \in Loadable
  BY <1>3 DEF NamesInv, CodecInv
<1>5. \A j \in DOMAIN signals : Sound(signals[j])
  <2>. HIDE DEF signals
  <2>1. PICK T : signals \in Seq(T) /\ \A t \in T : Sound(t)
    BY <1>4, LoadableSignals DEF signals
  <2>. QED  BY <2>1
<1>6. length \in Nat /\ DOMAIN bits = Payload(length) /\ frame_length_ok(length) /\ FrameOK(frame)
  BY DEF FrameInv, FrameOK
<1>7. Sound(s) /\ x.v \in Int /\ (x.kind = "real" => Double(x.v) = x.v)
  <2>1. \A z \in Inputs : z.v \in Int /\ (z.kind = "real" => Double(z.v) = z.v)
    BY InputsAssumption, Zenon
  <2>. QED  BY <1>5, <2>1
<1>8. frame'.length = length /\ frame'.bits = new /\ frame' = [length |-> length, bits |-> new]
  <2>1. frame = [length |-> length, bits |-> bits]
    BY <1>6 DEF FrameOK
  <2>. HIDE DEF length, bits, new
  <2>2. frame' = [length |-> length, bits |-> new]
    BY <1>2, <2>1
  <2>. QED  BY <2>2
<1>. HIDE DEF signals, e, s, length, bits
<1>9. DOMAIN new = Payload(length)
  BY <1>2, <1>6, <1>7, PutIs
<1>10. FrameOK(frame')
  BY <1>6, <1>8, <1>9 DEF FrameOK
<1>11. e.raw \in Nat /\ e.raw < pow2[s.bit_length]
  <2>1. ReadsBack(s, x)
    BY <1>2, <1>7, EncodedReads DEF e
  <2>. QED  BY <2>1 DEF ReadsBack, e
<1>12. load(s, new) = e.raw
  BY <1>2, <1>6, <1>7, <1>11, PutLoads
<1>. HIDE DEF new
<1>13. ASSUME NEW o \in DOMAIN carried' PROVE StillThere(slots[1], frame', o, carried'[o])
  <2>1. CASE o = s.name
    <3>1. carried'[o] = <<e.status, x>>
      BY <1>2, <2>1
    <3>2. /\ signals[n].name = o /\ carried'[o] = <<Encode(signals[n], x).status, x>>
          /\ Accepted(Encode(signals[n], x)) /\ Fits(signals[n], frame'.length)
          /\ load(signals[n], frame'.bits) = Encode(signals[n], x).raw
      BY <1>2, <1>8, <1>12, <2>1, <3>1 DEF s, e
    <3>. QED  BY <3>2 DEF StillThere, signals
  <2>2. CASE o # s.name
    <3>1. o \in DOMAIN carried /\ carried'[o] = carried[o]
          /\ \A j \in DOMAIN signals : signals[j].name = o => Bits(signals[j]) \cap Bits(s) = {}
      BY <1>2, <2>2
    <3>2. StillThere(slots[1], frame, o, carried[o])
      BY <1>3, <3>1 DEF FrameInv
    <3>3. PICK j \in DOMAIN signals, z \in Inputs :
            /\ signals[j].name = o /\ carried[o] = <<Encode(signals[j], z).status, z>>
            /\ Accepted(Encode(signals[j], z)) /\ Fits(signals[j], length)
            /\ load(signals[j], bits) = Encode(signals[j], z).raw
      BY <3>2 DEF StillThere, signals, length, bits
    <3>. DEFINE t == signals[j]
    <3>4. Sound(t) /\ Fits(t, length) /\ Bits(t) \cap Bits(s) = {}
      BY <1>5, <3>1, <3>3
    <3>. HIDE DEF t
    <3>5. load(t, new) = load(t, bits)
      BY <1>2, <1>6, <1>7, <3>4, PutKeeps DEF new
    <3>6. /\ signals[j].name = o /\ carried'[o] = <<Encode(signals[j], z).status, z>>
          /\ Accepted(Encode(signals[j], z)) /\ Fits(signals[j], frame'.length)
          /\ load(signals[j], frame'.bits) = Encode(signals[j], z).raw
      BY <1>8, <3>1, <3>3, <3>5 DEF t
    <3>. QED  BY <3>6 DEF StillThere, signals
  <2>. QED  BY <2>1, <2>2
<1>14. \A o \in DOMAIN carried' : StillThere(slots'[1], frame', o, carried'[o])
  BY <1>3, <1>13
<1>. QED  BY <1>3, <1>10, <1>14 DEF FrameInv, FrameOK, StillThere

LEMMA FrameStepInv == NamesInv /\ FrameInv /\ [NamespaceNext \/ FrameNext]_codec_vars => FrameInv'
<1>. SUFFICES ASSUME NamesInv, FrameInv, [NamespaceNext \/ FrameNext]_codec_vars PROVE FrameInv'
  OBVIOUS
<1>1. CASE UNCHANGED <<slots, frame, carried>>
  BY <1>1 DEF FrameInv, FrameOK, StillThere
<1>2. CASE load_map(Documents) \/ load_map(Documents \cup Shapes)
  BY <1>2, LoadMapFrame
<1>3. CASE new_frame
  BY <1>3, NewFrame
<1>4. CASE encode_signal
  BY <1>4, EncodeFrame
<1>5. \/ UNCHANGED <<slots, frame, carried>>
      \/ load_map(Documents) \/ load_map(Documents \cup Shapes)
      \/ new_frame \/ encode_signal
  BY DEF NamespaceNext, FrameNext, codec_vars, resolve_name_once
<1>. QED  BY <1>1, <1>2, <1>3, <1>4, <1>5

(* A message of the map is found by its id.                                *)
LEMMA MessageFound ==
  ASSUME NEW m \in Loadable, NEW k \in DOMAIN m.messages
  PROVE  find_message(m, m.messages[k].id) # {} /\ Lists!Min(find_message(m, m.messages[k].id)) = k
<1>1. \A i \in DOMAIN m.messages : m.messages[i].id = m.messages[k].id => i = k
  BY LoadableMessages
<1>2. find_message(m, m.messages[k].id) = {k}
  BY <1>1 DEF find_message
<1>3. k \in Nat
  <2>. DEFINE ss == SignalLists(m)
  <2>1. PICK T : ss \in Seq(Seq(T))
    BY LoadableMessages
  <2>2. k \in DOMAIN ss
    BY DEF SignalLists
  <2>. HIDE DEF ss
  <2>. QED  BY <2>1, <2>2
<1>4. Lists!Min({k}) = k
  BY <1>3 DEF Lists!Min
<1>. QED  BY <1>2, <1>4

(* What a signal was set to can be read back after any other signals that  *)
(* share no bit with it have been set, for all documents and inputs, byte  *)
(* and word sizes, frame lengths and precisions: exactly where it is not   *)
(* scaled, and within half a step where it is and stays within what        *)
(* doubles hold exactly (cancestry_codec_encode_signal,                    *)
(* cancestry_codec_decode_frame, codec_bits_store, codec_bits_load).       *)
THEOREM FrameKeepsSignalsCorrect == CodecSpec => []FrameKeepsSignals
<1>1. NamesInv /\ FrameInv => FrameKeepsSignals
  <2>. SUFFICES ASSUME NamesInv, FrameInv, slots # <<>>,
                       NEW k \in DOMAIN slots[1].messages, NEW n \in DOMAIN slots[1].messages[k].signals,
                       slots[1].messages[k].signals[n].name \in DOMAIN carried
                PROVE  LET s == slots[1].messages[k].signals[n]
                           x == carried[s.name][2]
                           y == decode_signal(s, frame)
                           all == decode_frame(slots[1], slots[1].messages[k].id, frame)
                       IN  IsSet(y) /\ (all # <<>> => all[n] = y) /\ Reads(s, carried[s.name][1], x, y)
    BY ZenonT(30) DEF FrameKeepsSignals, Reads
  <2>. DEFINE m == slots[1]  list == m.messages[k].signals  s == list[n]  signals == SignalsOf(m)
              y == decode_signal(s, frame)  all == decode_frame(m, m.messages[k].id, frame)
              c == carried[s.name]
  <2>1. m \in Loadable /\ \A i, j \in DOMAIN signals : signals[i].name = signals[j].name => i = j
    BY DEF NamesInv, CodecInv, Unique
  <2>2. StillThere(m, frame, s.name, c) /\ frame_length_ok(frame.length)
    BY DEF FrameInv, FrameOK
  <2>3. PICK i \in DOMAIN signals : signals[i] = s
    BY <2>1, MessageSignal
  <2>. HIDE DEF signals, s, c, m, list
  <2>4. PICK j \in DOMAIN signals, x \in Inputs :
          /\ signals[j].name = s.name /\ c = <<Encode(signals[j], x).status, x>>
          /\ Accepted(Encode(signals[j], x)) /\ Fits(signals[j], frame.length)
          /\ load(signals[j], frame.bits) = Encode(signals[j], x).raw
    BY <2>2 DEF StillThere, signals
  <2>5. j = i
    BY <2>1, <2>3, <2>4
  <2>. DEFINE e == Encode(s, x)
  <2>6. c = <<e.status, x>> /\ Accepted(e) /\ Fits(s, frame.length) /\ load(s, frame.bits) = e.raw
    BY <2>3, <2>4, <2>5
  <2>7. Sound(s) /\ x.v \in Int /\ (x.kind = "real" => Double(x.v) = x.v)
    <3>1. \A z \in Inputs : z.v \in Int /\ (z.kind = "real" => Double(z.v) = z.v)
      BY InputsAssumption, Zenon
    <3>2. PICK T : signals \in Seq(T) /\ \A t \in T : Sound(t)
      BY <2>1, LoadableSignals DEF signals
    <3>3. signals[i] \in T
      BY <3>2
    <3>. QED  BY <2>3, <3>1, <3>2, <3>3
  <2>8. ReadsBack(s, x)
    BY <2>6, <2>7, EncodedReads
  <2>9. y = decode_raw(s, e.raw)
    BY <2>2, <2>6 DEF decode_signal
  <2>10. IsSet(y) /\ Reads(s, e.status, x, y)
    BY <2>8, <2>9 DEF ReadsBack
  <2>11. c[1] = e.status /\ c[2] = x
    BY <2>6
  <2>12. ASSUME all # <<>> PROVE all[n] = y
    <3>1. k \in DOMAIN m.messages /\ n \in DOMAIN list
      BY DEF m, list
    <3>2. find_message(m, m.messages[k].id) # {} /\ Lists!Min(find_message(m, m.messages[k].id)) = k
      BY <2>1, <3>1, MessageFound
    <3>3. all = IF \E l \in DOMAIN list : ~Fits(list[l], frame.length) THEN <<>>
                ELSE [l \in DOMAIN list |-> decode_raw(list[l], load(list[l], frame.bits))]
      BY <2>2, <3>2 DEF decode_frame, list
    <3>. HIDE DEF all
    <3>4. all = [l \in DOMAIN list |-> decode_raw(list[l], load(list[l], frame.bits))]
      BY <2>12, <3>3
    <3>5. all[n] = decode_raw(s, load(s, frame.bits))
      BY <3>1, <3>4 DEF s
    <3>. QED  BY <2>6, <2>9, <3>5
  <2>. HIDE DEF y, all, e
  <2>13. IsSet(y) /\ (all # <<>> => all[n] = y) /\ Reads(s, c[1], c[2], y)
    BY <2>10, <2>11, <2>12
  <2>. QED  BY <2>13 DEF y, all, c, s, list, m
<1>. QED  BY <1>1, NamesInitInv, NamesStepInv, FrameInitInv, FrameStepInv, PTL DEF CodecSpec
=============================================================================
