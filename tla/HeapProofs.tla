----------------------------- MODULE HeapProofs -----------------------------
(***************************************************************************)
(* The queue over the heap array implements the queue over a set of        *)
(* events, for every capacity and every sequence of calls.                 *)
(***************************************************************************)
EXTENDS EventHeap, TLAPS, FiniteSetTheorems, WellFoundedInduction

-----------------------------------------------------------------------------
(* The selection order.                                                    *)
Records == [timestamp_us: Nat, priority_class: Nat, event_id: Nat, sequence: Nat, nth: Nat]

LEMMA Order ==
  ASSUME NEW a \in Records, NEW b \in Records, NEW c \in Records
  PROVE  /\ ~Precedes(a, a)
         /\ Precedes(a, b) => ~Precedes(b, a)
         /\ ~Precedes(b, a) /\ ~Precedes(c, b) => ~Precedes(c, a)
  BY DEF Records, Precedes

LEMMA Parent ==
  ASSUME NEW i \in Nat, i > 1
  PROVE  i \div 2 \in 1 .. i - 1
  OBVIOUS

LEMMA Children ==
  ASSUME NEW i \in Nat, NEW j \in Nat
  PROVE  (i \div 2 = j) <=> (i = 2 * j \/ i = 2 * j + 1)
  OBVIOUS

-----------------------------------------------------------------------------
(* Induction, for a set of numbers.                                        *)
LEMMA LeastOf ==
  ASSUME NEW P \in SUBSET Nat, P # {}
  PROVE  \E n \in P : \A m \in P : n <= m
<1>1. PICK n \in P : \A m \in P : ~(<<m, n>> \in OpToRel(<, Nat))
  BY NatLessThanWellFounded, WFMin, Zenon
<1>2. \A m \in P : ~(m < n)
  BY <1>1 DEF OpToRel
<1>. QED  BY <1>2

LEMMA UpTo ==
  ASSUME NEW n \in Nat, NEW P, 0 \in P, \A k \in 0 .. n - 1 : k \in P => k + 1 \in P
  PROVE  \A k \in 0 .. n : k \in P
<1>. SUFFICES ASSUME NEW k \in 0 .. n, k \notin P PROVE FALSE
  OBVIOUS
<1>1. PICK m \in {j \in 0 .. n : j \notin P} : \A j \in {j \in 0 .. n : j \notin P} : m <= j
  <2>1. {j \in 0 .. n : j \notin P} \in SUBSET Nat /\ {j \in 0 .. n : j \notin P} # {}
    OBVIOUS
  <2>. QED  BY <2>1, LeastOf
<1>2. m # 0 /\ m \in 1 .. n
  BY <1>1
<1>3. m - 1 \in P
  BY <1>1, <1>2
<1>. QED  BY <1>1, <1>2, <1>3

(* A function that iterates G exists.                                      *)
Iteration(G, x, n, f) == f = [k \in 0 .. n |-> IF k = 0 THEN x ELSE G[f[k - 1]]]

LEMMA Iterates ==
  ASSUME NEW S, NEW G \in [S -> S], NEW x \in S, NEW n \in Nat
  PROVE  \E f \in [0 .. n -> S] : Iteration(G, x, n, f)
<1>. DEFINE Iterated(f, m) == f = [k \in 0 .. m |-> IF k = 0 THEN x ELSE G[f[k - 1]]]
            P == {m \in 0 .. n : \E f \in [0 .. m -> S] : Iterated(f, m)}
<1>1. 0 \in P
  <2>. DEFINE f == [k \in 0 .. 0 |-> x]
  <2>1. f \in [0 .. 0 -> S] /\ \A k \in 0 .. 0 : f[k] = IF k = 0 THEN x ELSE G[f[k - 1]]
    OBVIOUS
  <2>. HIDE DEF f
  <2>2. Iterated(f, 0)
    BY <2>1
  <2>. QED  BY <2>1, <2>2
<1>2. ASSUME NEW m \in 0 .. n - 1, m \in P PROVE m + 1 \in P
  <2>1. PICK f \in [0 .. m -> S] : Iterated(f, m)
    BY <1>2
  <2>. DEFINE g == [k \in 0 .. m + 1 |-> IF k = m + 1 THEN G[f[m]] ELSE f[k]]
  <2>2. g \in [0 .. m + 1 -> S]
    OBVIOUS
  <2>3. \A k \in 0 .. m + 1 : g[k] = IF k = 0 THEN x ELSE G[g[k - 1]]
    BY <2>1
  <2>. HIDE DEF g
  <2>4. Iterated(g, m + 1)
    BY <2>2, <2>3
  <2>. HIDE DEF Iterated
  <2>. QED  BY <2>2, <2>4
<1>. HIDE DEF P
<1>3. n \in P
  BY <1>1, <1>2, UpTo
<1>. QED  BY <1>3 DEF P, Iteration

(* Iterating G comes to rest within n steps if each step that is not one   *)
(* of rest lowers the measure M, which is at most n at the start.          *)
Descending(S, G, M, n, f) ==
  /\ G \in [S -> S] /\ M \in [S -> Nat] /\ n \in Nat
  /\ \A h \in S : G[h] = h \/ M[G[h]] < M[h]
  /\ f[0] \in S /\ M[f[0]] <= n
  /\ \A k \in 0 .. n - 1 : f[k] \in S => f[k + 1] = G[f[k]]

LEMMA LoopEnds ==
  ASSUME NEW S, NEW G, NEW M, NEW n, NEW f, Descending(S, G, M, n, f)
  PROVE  f[n] \in S /\ G[f[n]] = f[n]
<1>. USE DEF Descending
<1>. DEFINE P == {k \in 0 .. n : f[k] \in S /\ (G[f[k]] = f[k] \/ M[f[k]] <= n - k)}
<1>1. 0 \in P
  OBVIOUS
<1>2. ASSUME NEW k \in 0 .. n - 1, k \in P PROVE k + 1 \in P
  <2>1. f[k] \in S /\ f[k + 1] = G[f[k]] /\ f[k + 1] \in S
    BY <1>2
  <2>2. CASE G[f[k]] = f[k]
    BY <2>1, <2>2
  <2>3. CASE G[f[k]] # f[k]
    <3>1. M[f[k]] <= n - k /\ M[f[k + 1]] < M[f[k]] /\ M[f[k]] \in Nat /\ M[f[k + 1]] \in Nat
      BY <1>2, <2>1, <2>3
    <3>2. M[f[k + 1]] <= n - (k + 1)
      BY <3>1
    <3>. QED  BY <2>1, <3>2
  <2>. QED  BY <2>2, <2>3
<1>3. n \in P
  <2>. HIDE DEF P
  <2>1. \A k \in 0 .. n - 1 : k \in P => k + 1 \in P
    BY <1>2
  <2>2. \A k \in 0 .. n : k \in P
    BY <1>1, <2>1, UpTo, Zenon
  <2>. QED  BY <2>2
<1>4. f[n] \in S /\ (G[f[n]] = f[n] \/ M[f[n]] <= 0)
  BY <1>3
<1>5. M[f[n]] \in Nat /\ M[G[f[n]]] \in Nat
  BY <1>4
<1>. QED  BY <1>4, <1>5

-----------------------------------------------------------------------------
(* Arrays.                                                                 *)
Arrays == Seq(Records)

(* The children of each index but none are not before it.                  *)
Ordered(s, j) == ~Precedes(s[j], s[j \div 2])
Heaped(s) == \A j \in 2 .. Len(s) : Ordered(s, j)

(* A heap but for the event at i, which may have to rise.                  *)
Rising(s, i) ==
  /\ \A j \in 2 .. Len(s) : j # i => Ordered(s, j)
  /\ \A j \in 2 .. Len(s) : j \div 2 = i /\ i > 1 => ~Precedes(s[j], s[i \div 2])

(* A heap but for the event at i, which has sunk from `from` to i; as long *)
(* as it is there, it may also have to rise.                               *)
Sinking(s, i, from) ==
  /\ \A j \in 2 .. Len(s) : j \div 2 # i /\ (j # i \/ i # from) => Ordered(s, j)
  /\ \A j \in 2 .. Len(s) : j \div 2 = i /\ i > 1 => ~Precedes(s[j], s[i \div 2])

Distinct(s) == \A i, j \in DOMAIN s : s[i] = s[j] => i = j

(* t holds what s holds.                                                   *)
Permuted(s, t) ==
  /\ t \in Arrays /\ Len(t) = Len(s) /\ Contents(t) = Contents(s)
  /\ Distinct(s) => Distinct(t)

LEMMA SwapIs ==
  ASSUME NEW s \in Arrays, NEW i \in 1 .. Len(s), NEW j \in 1 .. Len(s)
  PROVE  LET t == Swap(s, i, j)
         IN  /\ t \in Arrays /\ Len(t) = Len(s) /\ DOMAIN t = 1 .. Len(s)
             /\ t[i] = s[j] /\ t[j] = s[i]
             /\ \A k \in 1 .. Len(s) : k # i /\ k # j => t[k] = s[k]
  BY DEF Swap, Arrays

LEMMA SwapPermutes ==
  ASSUME NEW s \in Arrays, NEW i \in 1 .. Len(s), NEW j \in 1 .. Len(s)
  PROVE  Permuted(s, Swap(s, i, j))
<1>. DEFINE t == Swap(s, i, j)
<1>1. /\ t \in Arrays /\ Len(t) = Len(s) /\ DOMAIN t = 1 .. Len(s) /\ DOMAIN s = 1 .. Len(s)
      /\ t[i] = s[j] /\ t[j] = s[i]
      /\ \A k \in 1 .. Len(s) : k # i /\ k # j => t[k] = s[k]
  BY SwapIs DEF Arrays
<1>. HIDE DEF t
<1>2. Contents(t) = Contents(s)
  BY <1>1 DEF Contents
<1>3. Distinct(s) => Distinct(t)
  BY <1>1 DEF Distinct
<1>. QED  BY <1>1, <1>2, <1>3 DEF Permuted, t

LEMMA PermutedTransitive ==
  ASSUME NEW s, NEW t, NEW u, Permuted(s, t), Permuted(t, u)
  PROVE  Permuted(s, u)
  BY DEF Permuted

-----------------------------------------------------------------------------
(* sift_up.                                                                *)
LEMMA UpTurn ==
  ASSUME NEW s \in Arrays, NEW i \in 1 .. Len(s), Rising(s, i),
         i > 1, Precedes(s[i], s[i \div 2])
  PROVE  Rising(Swap(s, i, i \div 2), i \div 2)
<1>. DEFINE p == i \div 2  t == Swap(s, i, p)
<1>1. p \in 1 .. i - 1 /\ p \in 1 .. Len(s) /\ Len(s) \in Nat /\ i \in Nat /\ p \in Nat
  BY Parent DEF Arrays
<1>2. /\ t \in Arrays /\ Len(t) = Len(s) /\ t[i] = s[p] /\ t[p] = s[i]
      /\ \A k \in 1 .. Len(s) : k # i /\ k # p => t[k] = s[k]
  BY <1>1, SwapIs, ZenonT(30)
<1>3. \A k \in 1 .. Len(s) : s[k] \in Records /\ t[k] \in Records
  BY <1>2 DEF Arrays
<1>4. \A j \in 2 .. Len(s) : j \div 2 \in 1 .. j - 1 /\ j \div 2 \in 1 .. Len(s)
  BY <1>1, Parent
<1>. HIDE DEF t
<1>5. ~Precedes(s[p], s[i])
  BY <1>1, <1>3, Order DEF p
<1>. HIDE DEF p
<1>6. ASSUME NEW j \in 2 .. Len(s), j # p PROVE Ordered(t, j)
  <2>1. CASE j = i
    BY <1>2, <1>5, <2>1 DEF Ordered, p
  <2>2. CASE j # i /\ j \div 2 = i
    <3>1. ~Precedes(s[j], s[p])
      BY <2>2, <1>6 DEF Rising, p
    <3>. QED  BY <1>2, <1>6, <2>2, <3>1 DEF Ordered
  <2>3. CASE j # i /\ j \div 2 = p
    <3>1. ~Precedes(s[j], s[p])
      BY <1>6, <2>3 DEF Rising, Ordered
    <3>2. ~Precedes(s[j], s[i])
      BY <1>1, <1>3, <1>5, <3>1, Order
    <3>3. t[j] = s[j] /\ t[j \div 2] = s[i]
      BY <1>2, <1>6, <2>3
    <3>. QED  BY <3>2, <3>3 DEF Ordered
  <2>4. CASE j # i /\ j \div 2 # i /\ j \div 2 # p
    <3>1. t[j] = s[j] /\ t[j \div 2] = s[j \div 2]
      BY <1>2, <1>4, <1>6, <2>4
    <3>2. Ordered(s, j)
      BY <2>4 DEF Rising
    <3>. QED  BY <3>1, <3>2 DEF Ordered
  <2>. QED  BY <2>1, <2>2, <2>3, <2>4
<1>7. ASSUME NEW j \in 2 .. Len(s), j \div 2 = p, p > 1 PROVE ~Precedes(t[j], t[p \div 2])
  <2>1. p \in 2 .. Len(s) /\ p # i /\ p \div 2 # i /\ p \div 2 # p /\ p \div 2 \in 1 .. Len(s)
    BY <1>1, <1>4, <1>7
  <2>2. ~Precedes(s[p], s[p \div 2]) /\ t[p \div 2] = s[p \div 2]
    BY <1>2, <2>1 DEF Rising, Ordered
  <2>3. CASE j = i
    BY <1>2, <2>2, <2>3
  <2>4. CASE j # i
    <3>1. ~Precedes(s[j], s[p])
      BY <1>7, <2>4 DEF Rising, Ordered
    <3>2. ~Precedes(s[j], s[p \div 2])
      BY <1>1, <1>3, <2>1, <2>2, <3>1, Order
    <3>3. j # p /\ t[j] = s[j]
      BY <1>2, <1>4, <1>7, <2>4
    <3>. QED  BY <2>2, <3>2, <3>3
  <2>. QED  BY <2>3, <2>4
<1>. QED  BY <1>2, <1>6, <1>7 DEF Rising, t, p


(* The state of a loop, and when it has come to its end.                   *)
Loops(n) == [slots : {t \in Arrays : Len(t) = n}, i : 1 .. n]
Risen(h) == ~(h.i > 1 /\ Precedes(h.slots[h.i], h.slots[h.i \div 2]))

LEMMA LoopState ==
  ASSUME NEW n \in Nat, NEW t \in Arrays, Len(t) = n, NEW i \in 1 .. n
  PROVE  LET h == [slots |-> t, i |-> i] IN h \in Loops(n) /\ h.slots = t /\ h.i = i
  BY DEF Loops

LEMMA UpTurnKeeps ==
  ASSUME NEW s \in Arrays, NEW h \in Loops(Len(s)), Permuted(s, h.slots), Rising(h.slots, h.i)
  PROVE  LET g == sift_up_turn(h)
         IN  /\ g \in Loops(Len(s)) /\ Permuted(s, g.slots) /\ Rising(g.slots, g.i)
             /\ Risen(h) => g = h
             /\ ~Risen(h) => g.i < h.i
<1>. DEFINE p == h.i \div 2  t == Swap(h.slots, h.i, p)
<1>1. h.slots \in Arrays /\ Len(h.slots) = Len(s) /\ h.i \in 1 .. Len(s) /\ Len(s) \in Nat
  BY DEF Loops, Arrays
<1>2. CASE Risen(h)
  BY <1>2 DEF Risen, sift_up_turn
<1>3. CASE ~Risen(h)
  <2>1. h.i > 1 /\ Precedes(h.slots[h.i], h.slots[p])
    BY <1>3 DEF Risen
  <2>2. sift_up_turn(h) = [slots |-> t, i |-> p]
    BY <2>1 DEF sift_up_turn
  <2>3. p \in 1 .. h.i - 1 /\ p \in 1 .. Len(s)
    BY <1>1, <2>1, Parent
  <2>4. Rising(t, p)
    BY <1>1, <2>1, UpTurn
  <2>. HIDE DEF p
  <2>5. Permuted(h.slots, t)
    BY <1>1, <2>3, SwapPermutes
  <2>6. Permuted(s, t) /\ t \in Arrays /\ Len(t) = Len(s)
    BY <2>5, PermutedTransitive, <1>1 DEF Permuted
  <2>. HIDE DEF t
  <2>7. LET g == [slots |-> t, i |-> p] IN g \in Loops(Len(s)) /\ g.slots = t /\ g.i = p
    BY <1>1, <2>3, <2>6, LoopState
  <2>. QED  BY <1>1, <1>3, <2>2, <2>3, <2>4, <2>6, <2>7
<1>. QED  BY <1>2, <1>3

LEMMA SiftUp ==
  ASSUME NEW s \in Arrays, NEW i \in 1 .. Len(s), Rising(s, i)
  PROVE  Permuted(s, sift_up(s, i)) /\ Heaped(sift_up(s, i))
<1>. DEFINE N == Len(s)
            x == [slots |-> s, i |-> i]
            Turns(f) == f = [n \in 0 .. N |-> IF n = 0 THEN x ELSE sift_up_turn(f[n - 1])]
            S == {h \in Loops(N) : Permuted(s, h.slots) /\ Rising(h.slots, h.i)}
            G == [h \in S |-> sift_up_turn(h)]
            M == [h \in S |-> h.i]
<1>1. N \in Nat /\ i \in 1 .. N
  BY DEF Arrays
<1>2. x \in S /\ x.i = i
  BY <1>1, LoopState DEF Permuted
<1>3. \A h \in S : sift_up_turn(h) \in S
  BY UpTurnKeeps
<1>4. G \in [S -> S] /\ \A h \in S : G[h] = sift_up_turn(h)
  BY <1>3
<1>5. M \in [S -> Nat] /\ \A h \in S : M[h] = h.i
  BY DEF Loops
<1>6. \A h \in S : G[h] = h \/ M[G[h]] < M[h]
  <2>1. \A h \in S : M[h] = h.i /\ M[G[h]] = G[h].i /\ G[h] = sift_up_turn(h)
    BY <1>4, <1>5
  <2>2. \A h \in S : sift_up_turn(h) = h \/ sift_up_turn(h).i < h.i
    BY UpTurnKeeps
  <2>. QED  BY <2>1, <2>2
<1>. HIDE DEF G, M, S, x
<1>7. \E f : Turns(f)
  <2>1. PICK f \in [0 .. N -> S] : Iteration(G, x, N, f)
    BY <1>1, <1>2, <1>4, Iterates
  <2>2. \A k \in 0 .. N : k # 0 => f[k - 1] \in S
    BY <1>1
  <2>3. [k \in 0 .. N |-> IF k = 0 THEN x ELSE G[f[k - 1]]]
          = [k \in 0 .. N |-> IF k = 0 THEN x ELSE sift_up_turn(f[k - 1])]
    BY <1>4, <2>2
  <2>. QED  BY <2>1, <2>3 DEF Iteration
<1>. DEFINE g == CHOOSE f : Turns(f)
<1>8. sift_up(s, i) = g[N].slots
  BY DEF sift_up, x
<1>9. Turns(g)
  BY <1>7
<1>. HIDE DEF g
<1>10. g[0] = x /\ \A n \in 0 .. N - 1 : g[n + 1] = sift_up_turn(g[n])
  BY <1>1, <1>9
<1>11. g[N] \in S /\ G[g[N]] = g[N]
  <2>1. \A n \in 0 .. N - 1 : g[n] \in S => g[n + 1] = G[g[n]]
    BY <1>4, <1>10
  <2>2. M[x] <= N
    BY <1>1, <1>2, <1>5
  <2>3. Descending(S, G, M, N, g)
    BY <1>1, <1>2, <1>4, <1>5, <1>6, <1>10, <2>1, <2>2 DEF Descending
  <2>. QED  BY <2>3, LoopEnds
<1>. DEFINE h == g[N]
<1>12. h \in Loops(N) /\ Permuted(s, h.slots) /\ Rising(h.slots, h.i) /\ sift_up_turn(h) = h
  BY <1>4, <1>11 DEF S
<1>. HIDE DEF h
<1>13. Risen(h) /\ h.i \in Nat /\ Len(h.slots) \in Nat
  BY <1>12, UpTurnKeeps DEF Loops, Arrays
<1>14. \A j \in 2 .. Len(h.slots) : Ordered(h.slots, j)
  <2>. SUFFICES ASSUME NEW j \in 2 .. Len(h.slots) PROVE Ordered(h.slots, j)
    OBVIOUS
  <2>1. CASE j = h.i
    BY <1>13, <2>1 DEF Risen, Ordered
  <2>2. CASE j # h.i
    BY <1>12, <2>2 DEF Rising
  <2>. QED  BY <2>1, <2>2
<1>. QED  BY <1>8, <1>12, <1>14 DEF Heaped, h

-----------------------------------------------------------------------------
(* sift_down.                                                              *)
LEMMA SmallestIs ==
  ASSUME NEW s \in Arrays, NEW i \in 1 .. Len(s)
  PROVE  LET m == Smallest(s, i)
         IN  /\ m \in 1 .. Len(s)
             /\ \A j \in 2 .. Len(s) : j \div 2 = i => ~Precedes(s[j], s[m])
             /\ m # i => m \in 2 .. Len(s) /\ m \div 2 = i /\ i < m /\ Precedes(s[m], s[i])
<1>. DEFINE l == 2 * i  r == 2 * i + 1
            m == IF l <= Len(s) /\ Precedes(s[l], s[i]) THEN l ELSE i
            w == IF r <= Len(s) /\ Precedes(s[r], s[m]) THEN r ELSE m
<1>1. Len(s) \in Nat /\ i \in Nat /\ l \in Nat /\ r \in Nat /\ i < l /\ l < r /\ 1 <= i /\ i <= Len(s)
      /\ l >= 2 /\ r >= 2
  BY DEF Arrays
<1>2. \A k \in 1 .. Len(s) : s[k] \in Records
  BY DEF Arrays
<1>3. \A j \in 2 .. Len(s) : j \div 2 = i <=> j = l \/ j = r
  BY <1>1, Children
<1>4. Smallest(s, i) = w
  BY DEF Smallest
<1>. HIDE DEF l, r
<1>5. /\ m \in 1 .. Len(s) /\ (l <= Len(s) => ~Precedes(s[l], s[m]))
      /\ (m # i => m = l /\ l <= Len(s) /\ Precedes(s[l], s[i]))
  BY <1>1, <1>2, Order
<1>. HIDE DEF m
<1>6. CASE r <= Len(s) /\ Precedes(s[r], s[m])
  <2>1. w = r /\ r \in 1 .. Len(s) /\ l \in 1 .. Len(s)
    BY <1>1, <1>6
  <2>2. s[r] \in Records /\ s[l] \in Records /\ s[m] \in Records /\ s[i] \in Records
    BY <1>2, <1>5, <2>1
  <2>3. ~Precedes(s[m], s[r]) /\ ~Precedes(s[l], s[r]) /\ ~Precedes(s[r], s[r])
    BY <1>1, <1>5, <1>6, <2>1, <2>2, Order
  <2>4. Precedes(s[r], s[i])
    <3>1. CASE m = i
      BY <1>6, <3>1
    <3>2. CASE m # i
      <4>1. ~Precedes(s[i], s[m])
        BY <1>5, <2>2, <3>2, Order
      <4>2. ~Precedes(s[i], s[m]) /\ ~Precedes(s[r], s[i]) => ~Precedes(s[r], s[m])
        BY <2>2, Order
      <4>. QED  BY <1>6, <4>1, <4>2
    <3>. QED  BY <3>1, <3>2
  <2>5. r \in 2 .. Len(s) /\ r \div 2 = i
    BY <1>1, <1>3, <2>1
  <2>6. \A j \in 2 .. Len(s) : j \div 2 = i => ~Precedes(s[j], s[r])
    BY <1>3, <2>3
  <2>7. Smallest(s, i) = r /\ i < r
    BY <1>1, <1>4, <2>1
  <2>. QED  BY <2>1, <2>4, <2>5, <2>6, <2>7
<1>7. CASE ~(r <= Len(s) /\ Precedes(s[r], s[m]))
  <2>1. w = m
    BY <1>7
  <2>2. \A j \in 2 .. Len(s) : j \div 2 = i => ~Precedes(s[j], s[m])
    BY <1>3, <1>5, <1>7
  <2>3. m # i => m \in 2 .. Len(s) /\ m \div 2 = i /\ i < m /\ Precedes(s[m], s[i])
    BY <1>1, <1>3, <1>5
  <2>. QED  BY <1>4, <1>5, <2>1, <2>2, <2>3
<1>. QED  BY <1>6, <1>7

LEMMA DownTurn ==
  ASSUME NEW s \in Arrays, NEW i \in 1 .. Len(s), NEW from \in 1 .. i, Sinking(s, i, from),
         NEW m \in 2 .. Len(s), m \div 2 = i, i < m, Precedes(s[m], s[i]),
         \A j \in 2 .. Len(s) : j \div 2 = i => ~Precedes(s[j], s[m])
  PROVE  Sinking(Swap(s, i, m), m, from)
<1>. DEFINE t == Swap(s, i, m)
<1>1. Len(s) \in Nat /\ i \in Nat /\ from \in Nat /\ m \in Nat /\ m \in 1 .. Len(s) /\ m # from /\ m # i
  BY DEF Arrays
<1>2. /\ t \in Arrays /\ Len(t) = Len(s) /\ t[i] = s[m] /\ t[m] = s[i]
      /\ \A k \in 1 .. Len(s) : k # i /\ k # m => t[k] = s[k]
  BY <1>1, SwapIs, ZenonT(30)
<1>3. \A k \in 1 .. Len(s) : s[k] \in Records
  BY DEF Arrays
<1>4. \A j \in 2 .. Len(s) : j \div 2 \in 1 .. j - 1 /\ j \div 2 \in 1 .. Len(s)
  BY <1>1, Parent
<1>. HIDE DEF t
<1>5. ASSUME NEW j \in 2 .. Len(s), j \div 2 # m PROVE Ordered(t, j)
  <2>1. CASE j = m
    <3>1. ~Precedes(s[i], s[m])
      BY <1>1, <1>3, Order
    <3>. QED  BY <1>2, <2>1, <3>1 DEF Ordered
  <2>2. CASE j # m /\ j \div 2 = i
    <3>1. j # i /\ t[j] = s[j]
      BY <1>2, <1>4, <2>2
    <3>. QED  BY <1>2, <2>2, <3>1 DEF Ordered
  <2>3. CASE j = i
    <3>1. ~Precedes(s[m], s[i \div 2])
      BY <1>1, <2>3 DEF Sinking
    <3>2. t[i \div 2] = s[i \div 2]
      BY <1>2, <1>4, <1>5, <2>3
    <3>. QED  BY <1>2, <2>3, <3>1, <3>2 DEF Ordered
  <2>4. CASE j # m /\ j # i /\ j \div 2 # i
    <3>1. t[j] = s[j] /\ t[j \div 2] = s[j \div 2]
      BY <1>2, <1>4, <1>5, <2>4
    <3>2. Ordered(s, j)
      BY <2>4 DEF Sinking
    <3>. QED  BY <3>1, <3>2 DEF Ordered
  <2>. QED  BY <2>1, <2>2, <2>3, <2>4
<1>6. ASSUME NEW j \in 2 .. Len(s), j \div 2 = m PROVE ~Precedes(t[j], t[m \div 2])
  <2>1. j # i /\ j # m /\ j \div 2 # i
    BY <1>1, <1>4, <1>6
  <2>2. Ordered(s, j)
    BY <2>1 DEF Sinking
  <2>. QED  BY <1>2, <1>6, <2>1, <2>2 DEF Ordered
<1>. QED  BY <1>2, <1>5, <1>6 DEF Sinking, t

LEMMA DownEnd ==
  ASSUME NEW s \in Arrays, NEW i \in 1 .. Len(s), NEW from \in 1 .. i, Sinking(s, i, from),
         \A j \in 2 .. Len(s) : j \div 2 = i => ~Precedes(s[j], s[i])
  PROVE  Rising(s, from)
<1>1. Len(s) \in Nat /\ i \in Nat /\ from \in Nat
  BY DEF Arrays
<1>2. \A k \in 1 .. Len(s) : s[k] \in Records
  BY DEF Arrays
<1>3. \A j \in 2 .. Len(s) : j \div 2 \in 1 .. j - 1 /\ j \div 2 \in 1 .. Len(s)
  BY <1>1, Parent
<1>4. ASSUME NEW j \in 2 .. Len(s), j # from \/ i # from PROVE Ordered(s, j)
  <2>1. CASE j \div 2 = i
    BY <2>1 DEF Ordered
  <2>2. CASE j \div 2 # i
    BY <1>4, <2>2 DEF Sinking
  <2>. QED  BY <2>1, <2>2
<1>5. ASSUME NEW j \in 2 .. Len(s), j \div 2 = from, from > 1 PROVE ~Precedes(s[j], s[from \div 2])
  <2>1. CASE i = from
    BY <1>5, <2>1 DEF Sinking
  <2>2. CASE i # from
    <3>1. from \in 2 .. Len(s) /\ from \div 2 \in 1 .. Len(s) /\ from \in 1 .. Len(s) /\ j \in 1 .. Len(s)
      BY <1>1, <1>3, <1>5
    <3>2. ~Precedes(s[j], s[from]) /\ ~Precedes(s[from], s[from \div 2])
      BY <1>4, <1>5, <2>2, <3>1 DEF Ordered
    <3>. QED  BY <1>2, <3>1, <3>2, Order
  <2>. QED  BY <2>1, <2>2
<1>. QED  BY <1>4, <1>5 DEF Rising


Sunk(h) == Smallest(h.slots, h.i) = h.i

LEMMA DownTurnKeeps ==
  ASSUME NEW s \in Arrays, NEW from \in Nat, NEW h \in Loops(Len(s)),
         Permuted(s, h.slots), from \in 1 .. h.i, Sinking(h.slots, h.i, from)
  PROVE  LET g == sift_down_turn(h)
         IN  /\ g \in Loops(Len(s)) /\ Permuted(s, g.slots) /\ from \in 1 .. g.i /\ Sinking(g.slots, g.i, from)
             /\ Sunk(h) => g = h
             /\ ~Sunk(h) => h.i < g.i
<1>. DEFINE m == Smallest(h.slots, h.i)  t == Swap(h.slots, h.i, m)
<1>1. h.slots \in Arrays /\ Len(h.slots) = Len(s) /\ h.i \in 1 .. Len(s) /\ Len(s) \in Nat
  BY DEF Loops, Arrays
<1>2. CASE Sunk(h)
  BY <1>2 DEF Sunk, sift_down_turn
<1>3. CASE ~Sunk(h)
  <2>1. m # h.i
    BY <1>3 DEF Sunk
  <2>2. sift_down_turn(h) = [slots |-> t, i |-> m]
    BY <2>1 DEF sift_down_turn
  <2>3. /\ m \in 2 .. Len(s) /\ m \div 2 = h.i /\ h.i < m /\ Precedes(h.slots[m], h.slots[h.i])
        /\ \A j \in 2 .. Len(s) : j \div 2 = h.i => ~Precedes(h.slots[j], h.slots[m])
    BY <1>1, <2>1, SmallestIs
  <2>. HIDE DEF m
  <2>4. Sinking(t, m, from)
    BY <1>1, <2>3, DownTurn
  <2>5. Permuted(h.slots, t)
    BY <1>1, <2>3, SwapPermutes
  <2>6. Permuted(s, t) /\ t \in Arrays /\ Len(t) = Len(s)
    BY <2>5, PermutedTransitive, <1>1 DEF Permuted
  <2>. HIDE DEF t
  <2>7. LET g == [slots |-> t, i |-> m] IN g \in Loops(Len(s)) /\ g.slots = t /\ g.i = m
    BY <1>1, <2>3, <2>6, LoopState
  <2>. QED  BY <1>1, <1>3, <2>2, <2>3, <2>4, <2>6, <2>7
<1>. QED  BY <1>2, <1>3

LEMMA SiftDown ==
  ASSUME NEW s \in Arrays, NEW i \in 1 .. Len(s), Sinking(s, i, i)
  PROVE  Permuted(s, sift_down(s, i)) /\ Rising(sift_down(s, i), i)
<1>. DEFINE N == Len(s)
            x == [slots |-> s, i |-> i]
            Turns(f) == f = [n \in 0 .. N |-> IF n = 0 THEN x ELSE sift_down_turn(f[n - 1])]
            S == {h \in Loops(N) : Permuted(s, h.slots) /\ i \in 1 .. h.i /\ Sinking(h.slots, h.i, i)}
            G == [h \in S |-> sift_down_turn(h)]
            M == [h \in S |-> N - h.i]
<1>1. N \in Nat /\ i \in 1 .. N /\ i \in Nat
  BY DEF Arrays
<1>2. x \in S /\ x.i = i
  BY <1>1, LoopState DEF Permuted
<1>3. \A h \in S : sift_down_turn(h) \in S
  BY <1>1, DownTurnKeeps
<1>4. G \in [S -> S] /\ \A h \in S : G[h] = sift_down_turn(h)
  BY <1>3
<1>5. M \in [S -> Nat] /\ \A h \in S : M[h] = N - h.i
  BY <1>1 DEF Loops
<1>6. \A h \in S : G[h] = h \/ M[G[h]] < M[h]
  <2>. SUFFICES ASSUME NEW h \in S PROVE G[h] = h \/ M[G[h]] < M[h]
    OBVIOUS
  <2>1. M[h] = N - h.i /\ M[G[h]] = N - G[h].i /\ G[h] = sift_down_turn(h)
    BY <1>4, <1>5
  <2>2. h.i \in Nat /\ G[h].i \in Nat
    BY <1>1, <1>4 DEF Loops
  <2>3. sift_down_turn(h) = h \/ h.i < sift_down_turn(h).i
    BY <1>1, DownTurnKeeps
  <2>. QED  BY <1>1, <2>1, <2>2, <2>3
<1>. HIDE DEF G, M, S, x
<1>7. \E f : Turns(f)
  <2>1. PICK f \in [0 .. N -> S] : Iteration(G, x, N, f)
    BY <1>1, <1>2, <1>4, Iterates
  <2>2. \A k \in 0 .. N : k # 0 => f[k - 1] \in S
    BY <1>1
  <2>3. [k \in 0 .. N |-> IF k = 0 THEN x ELSE G[f[k - 1]]]
          = [k \in 0 .. N |-> IF k = 0 THEN x ELSE sift_down_turn(f[k - 1])]
    BY <1>4, <2>2
  <2>. QED  BY <2>1, <2>3 DEF Iteration
<1>. DEFINE g == CHOOSE f : Turns(f)
<1>8. sift_down(s, i) = g[N].slots
  BY DEF sift_down, x
<1>9. Turns(g)
  BY <1>7
<1>. HIDE DEF g
<1>10. g[0] = x /\ \A n \in 0 .. N - 1 : g[n + 1] = sift_down_turn(g[n])
  BY <1>1, <1>9
<1>11. g[N] \in S /\ G[g[N]] = g[N]
  <2>1. \A n \in 0 .. N - 1 : g[n] \in S => g[n + 1] = G[g[n]]
    BY <1>4, <1>10
  <2>2. M[x] <= N
    BY <1>1, <1>2, <1>5
  <2>3. Descending(S, G, M, N, g)
    BY <1>1, <1>2, <1>4, <1>5, <1>6, <1>10, <2>1, <2>2 DEF Descending
  <2>. QED  BY <2>3, LoopEnds
<1>. DEFINE h == g[N]
<1>12. /\ h \in Loops(N) /\ Permuted(s, h.slots) /\ i \in 1 .. h.i /\ Sinking(h.slots, h.i, i)
       /\ sift_down_turn(h) = h
  BY <1>4, <1>11 DEF S
<1>. HIDE DEF h
<1>13. Sunk(h) /\ h.slots \in Arrays /\ Len(h.slots) = N /\ h.i \in 1 .. N
  <2>1. h.i \in Nat /\ h.slots \in Arrays /\ Len(h.slots) = N /\ h.i \in 1 .. N
    BY <1>12 DEF Loops
  <2>. QED  BY <1>1, <1>12, <2>1, DownTurnKeeps
<1>14. \A j \in 2 .. Len(h.slots) : j \div 2 = h.i => ~Precedes(h.slots[j], h.slots[h.i])
  BY <1>13, SmallestIs DEF Sunk
<1>15. Rising(h.slots, i)
  BY <1>12, <1>13, <1>14, DownEnd
<1>. QED  BY <1>8, <1>12, <1>15 DEF h


-----------------------------------------------------------------------------
(* Insertion and removal.                                                  *)
LEMMA Inserted ==
  ASSUME NEW s \in Arrays, Heaped(s), NEW e \in Records
  PROVE  LET t == insert(s, e)
         IN  /\ t \in Arrays /\ Heaped(t) /\ Len(t) = Len(s) + 1
             /\ Contents(t) = Contents(s) \cup {e}
             /\ Distinct(s) /\ e \notin Contents(s) => Distinct(t)
<1>. DEFINE a == Append(s, e)  n == Len(s)
<1>1. /\ a \in Arrays /\ n \in Nat /\ Len(a) = n + 1 /\ DOMAIN a = 1 .. n + 1 /\ DOMAIN s = 1 .. n
      /\ a[n + 1] = e /\ \A k \in 1 .. n : a[k] = s[k]
  BY DEF Arrays
<1>. HIDE DEF a, n
<1>2. Contents(a) = Contents(s) \cup {e}
  BY <1>1 DEF Contents
<1>3. Distinct(s) /\ e \notin Contents(s) => Distinct(a)
  BY <1>1 DEF Distinct, Contents
<1>4. Rising(a, n + 1)
  <2>1. ASSUME NEW j \in 2 .. n + 1, j # n + 1 PROVE Ordered(a, j)
    <3>1. j \in 2 .. n /\ j \div 2 \in 1 .. n
      BY <1>1, <2>1, Parent
    <3>2. Ordered(s, j)
      BY <3>1 DEF Heaped, n
    <3>. QED  BY <1>1, <3>1, <3>2 DEF Ordered
  <2>2. \A j \in 2 .. n + 1 : j \div 2 # n + 1
    BY <1>1, Parent
  <2>. QED  BY <1>1, <2>1, <2>2 DEF Rising
<1>5. Permuted(a, sift_up(a, n + 1)) /\ Heaped(sift_up(a, n + 1))
  BY <1>1, <1>4, SiftUp
<1>6. insert(s, e) = sift_up(a, n + 1)
  BY DEF insert, a, n
<1>. QED  BY <1>1, <1>2, <1>3, <1>5, <1>6 DEF Permuted, n

LEMMA Removed ==
  ASSUME NEW s \in Arrays, Heaped(s), Distinct(s), NEW i \in 1 .. Len(s)
  PROVE  LET t == remove_at(s, i)
         IN  /\ t \in Arrays /\ Heaped(t) /\ Distinct(t) /\ Len(t) = Len(s) - 1
             /\ Contents(t) = Contents(s) \ {s[i]}
<1>. DEFINE n == Len(s)
            u == [s EXCEPT ![i] = s[n]]
            a == SubSeq(u, 1, n - 1)
<1>1. n \in Nat /\ n >= 1 /\ i \in 1 .. n /\ DOMAIN s = 1 .. n /\ \A k \in 1 .. n : s[k] \in Records
  BY DEF Arrays
<1>2. u \in Arrays /\ Len(u) = n /\ \A k \in 1 .. n : u[k] = IF k = i THEN s[n] ELSE s[k]
  BY <1>1 DEF Arrays
<1>. HIDE DEF u
<1>3. /\ a \in Arrays /\ Len(a) = n - 1 /\ DOMAIN a = 1 .. n - 1
      /\ \A k \in 1 .. n - 1 : a[k] = IF k = i THEN s[n] ELSE s[k]
  BY <1>1, <1>2 DEF Arrays
<1>4. remove_at(s, i) = IF i = n THEN a ELSE sift_up(sift_down(a, i), i)
  BY DEF remove_at, a, u, n
<1>. HIDE DEF a, n
<1>5. Contents(a) = Contents(s) \ {s[i]}
  <2>1. ASSUME NEW e \in Contents(a) PROVE e \in Contents(s) \ {s[i]}
    <3>1. PICK k \in 1 .. n - 1 : e = a[k]
      BY <1>3 DEF Contents
    <3>2. PICK l \in 1 .. n : e = s[l] /\ l # i
      BY <1>1, <1>3, <3>1
    <3>. QED  BY <1>1, <3>2 DEF Contents, Distinct
  <2>2. ASSUME NEW e \in Contents(s), e # s[i] PROVE e \in Contents(a)
    <3>1. PICK l \in 1 .. n : e = s[l] /\ l # i
      BY <1>1, <2>2 DEF Contents
    <3>2. CASE l = n
      <4>1. i \in 1 .. n - 1
        BY <1>1, <3>1, <3>2
      <4>2. a[i] = e
        BY <1>3, <3>1, <3>2, <4>1
      <4>. QED  BY <1>3, <4>1, <4>2 DEF Contents
    <3>3. CASE l # n
      <4>1. l \in 1 .. n - 1
        BY <1>1, <3>1, <3>3
      <4>2. a[l] = e
        BY <1>3, <3>1, <4>1
      <4>. QED  BY <1>3, <4>1, <4>2 DEF Contents
    <3>. QED  BY <3>2, <3>3
  <2>. QED  BY <2>1, <2>2
<1>6. Distinct(a)
  BY <1>1, <1>3 DEF Distinct
<1>7. \A j \in 2 .. n - 1 : j \div 2 \in 1 .. n - 1 /\ j \in 2 .. n
  BY <1>1, Parent
<1>8. \A j \in 2 .. n : Ordered(s, j)
  BY DEF Heaped, n
<1>9. CASE i = n
  <2>1. ASSUME NEW j \in 2 .. n - 1 PROVE Ordered(a, j)
    <3>1. j \in 1 .. n - 1 /\ j # i /\ j \div 2 # i
      BY <1>1, <1>7, <1>9
    <3>. QED  BY <1>3, <1>7, <1>8, <3>1 DEF Ordered
  <2>2. Heaped(a)
    BY <1>3, <2>1 DEF Heaped
  <2>. QED  BY <1>3, <1>4, <1>5, <1>6, <1>9, <2>2 DEF n
<1>10. CASE i # n
  <2>1. i \in 1 .. n - 1 /\ i \in 1 .. Len(a)
    BY <1>1, <1>3, <1>10
  <2>2. Sinking(a, i, i)
    <3>1. ASSUME NEW j \in 2 .. n - 1, j \div 2 # i, j # i PROVE Ordered(a, j)
      BY <1>3, <1>7, <1>8, <3>1 DEF Ordered
    <3>2. ASSUME NEW j \in 2 .. n - 1, j \div 2 = i, i > 1 PROVE ~Precedes(a[j], a[i \div 2])
      <4>1. i \in 2 .. n - 1 /\ i \div 2 \in 1 .. n - 1 /\ i \div 2 # i /\ j # i /\ i \div 2 \in 1 .. n /\ j \in 1 .. n
        BY <1>1, <1>7, <2>1, <3>2, Parent
      <4>2. ~Precedes(s[j], s[i]) /\ ~Precedes(s[i], s[i \div 2])
        BY <1>7, <1>8, <3>2, <4>1 DEF Ordered
      <4>3. ~Precedes(s[j], s[i \div 2])
        BY <1>1, <4>1, <4>2, Order
      <4>. QED  BY <1>3, <4>1, <4>3
    <3>. QED  BY <1>3, <3>1, <3>2 DEF Sinking
  <2>. DEFINE b == sift_down(a, i)  c == sift_up(b, i)
  <2>3. Permuted(a, b) /\ Rising(b, i)
    BY <1>3, <2>1, <2>2, SiftDown
  <2>4. b \in Arrays /\ i \in 1 .. Len(b)
    BY <2>1, <2>3 DEF Permuted
  <2>. HIDE DEF b
  <2>5. Permuted(b, c) /\ Heaped(c)
    BY <2>3, <2>4, SiftUp
  <2>6. remove_at(s, i) = c
    BY <1>4, <1>10 DEF b
  <2>. HIDE DEF c
  <2>. QED  BY <1>3, <1>5, <1>6, <2>3, <2>5, <2>6 DEF Permuted, n
<1>. QED  BY <1>9, <1>10

-----------------------------------------------------------------------------
(* What pop and the eviction select.                                       *)
LEMMA SameOrder ==
  ASSUME NEW a, NEW b, NEW S
  PROVE  /\ Q!Precedes(a, b) <=> Precedes(a, b)
         /\ Q!IsFault(a) <=> IsFault(a)
         /\ Q!event_is_valid(a) <=> event_is_valid(a)
         /\ Q!Ordinary(S) = Ordinary(S)
<1>1. Q!IsFault(a) <=> IsFault(a)
  BY DEF Q!IsFault, IsFault, Q!FAULT, FAULT
<1>2. Q!Precedes(a, b) <=> Precedes(a, b)
  BY DEF Q!Precedes, Precedes
<1>3. Q!event_is_valid(a) <=> event_is_valid(a)
  BY DEF Q!event_is_valid, event_is_valid, Q!PriorityClasses, PriorityClasses
<1>4. Q!Ordinary(S) = Ordinary(S)
  BY DEF Q!Ordinary, Ordinary, Q!IsFault, IsFault, Q!FAULT, FAULT
<1>. QED  BY <1>1, <1>2, <1>3, <1>4

LEMMA RootIsOldest ==
  ASSUME NEW s \in Arrays, Heaped(s), Len(s) # 0
  PROVE  s[1] \in Q!Oldest(Contents(s))
<1>1. Len(s) \in Nat /\ DOMAIN s = 1 .. Len(s) /\ \A k \in 1 .. Len(s) : s[k] \in Records
  BY DEF Arrays
<1>2. ASSUME NEW k \in 1 .. Len(s), Precedes(s[k], s[1]) PROVE FALSE
  <2>. DEFINE B == {j \in 1 .. Len(s) : Precedes(s[j], s[1])}
  <2>1. B \in SUBSET Nat /\ B # {}
    BY <1>2
  <2>2. PICK m \in B : \A j \in B : m <= j
    BY <2>1, LeastOf
  <2>3. m \in 1 .. Len(s) /\ Precedes(s[m], s[1]) /\ m # 1
    BY <1>1, <2>2, Order
  <2>4. m \in 2 .. Len(s) /\ m \div 2 \in 1 .. m - 1 /\ m \div 2 \in 1 .. Len(s)
    BY <1>1, <2>3, Parent
  <2>5. ~Precedes(s[m \div 2], s[1])
    BY <2>2, <2>4
  <2>6. ~Precedes(s[m], s[m \div 2])
    BY <2>4 DEF Heaped, Ordered
  <2>7. 1 \in 1 .. Len(s)
    BY <1>1
  <2>. QED  BY <1>1, <2>3, <2>4, <2>5, <2>6, <2>7, Order
<1>3. s[1] \in Contents(s) /\ \A e \in Contents(s) : \E k \in 1 .. Len(s) : e = s[k]
  BY <1>1 DEF Contents
<1>4. \A e \in Contents(s) : ~Precedes(e, s[1])
  BY <1>2, <1>3
<1>. QED  BY <1>3, <1>4, SameOrder DEF Q!Oldest

LEMMA NewestExists ==
  ASSUME NEW s \in Arrays, NEW C \in SUBSET (1 .. Len(s)), C # {}
  PROVE  \E i \in C : \A j \in C : ~Precedes(s[i], s[j])
<1>. DEFINE n == Len(s)
            Last(i, m) == i <= m /\ \A j \in C : j <= m => ~Precedes(s[i], s[j])
            Best(m) == (\A j \in C : j > m) \/ \E i \in C : Last(i, m)
            P == {m \in 0 .. n : Best(m)}
<1>1. n \in Nat /\ (\A k \in C : k \in 1 .. n /\ s[k] \in Records)
  BY DEF Arrays
<1>. HIDE DEF n
<1>2. 0 \in P
  BY <1>1
<1>3. ASSUME NEW m \in 0 .. n - 1, Best(m) PROVE Best(m + 1)
  <2>0. m \in Nat /\ \A j \in C : j <= m + 1 => j <= m \/ j = m + 1
    BY <1>1
  <2>1. CASE m + 1 \notin C
    <3>1. CASE \A j \in C : j > m
      BY <1>1, <2>0, <2>1, <3>1
    <3>2. CASE \E i \in C : Last(i, m)
      <4>1. PICK i \in C : Last(i, m)
        BY <3>2
      <4>2. Last(i, m + 1)
        BY <1>1, <2>0, <2>1, <4>1
      <4>. QED  BY <4>2
    <3>. QED  BY <1>3, <3>1, <3>2
  <2>2. CASE m + 1 \in C /\ \A j \in C : j > m
    <3>1. ~Precedes(s[m + 1], s[m + 1])
      BY <1>1, <2>2, Order
    <3>2. Last(m + 1, m + 1)
      BY <1>1, <2>0, <2>2, <3>1
    <3>. QED  BY <2>2, <3>2
  <2>3. CASE m + 1 \in C /\ \E i \in C : Last(i, m)
    <3>1. PICK i \in C : Last(i, m)
      BY <2>3
    <3>2. CASE ~Precedes(s[i], s[m + 1])
      <4>1. Last(i, m + 1)
        BY <1>1, <2>0, <3>1, <3>2
      <4>. QED  BY <4>1
    <3>3. CASE Precedes(s[i], s[m + 1])
      <4>1. ~Precedes(s[m + 1], s[i]) /\ ~Precedes(s[m + 1], s[m + 1])
        BY <1>1, <2>3, <3>3, Order
      <4>2. \A j \in C : j <= m => ~Precedes(s[m + 1], s[j])
        BY <1>1, <2>3, <3>1, <4>1, Order
      <4>3. Last(m + 1, m + 1)
        BY <1>1, <2>0, <4>1, <4>2
      <4>. QED  BY <2>3, <4>3
    <3>. QED  BY <3>2, <3>3
  <2>. QED  BY <1>3, <2>1, <2>2, <2>3
<1>4. ASSUME NEW m \in 0 .. n - 1, m \in P PROVE m + 1 \in P
  <2>1. m + 1 \in 0 .. n /\ Best(m)
    BY <1>1, <1>4
  <2>2. Best(m + 1)
    BY <1>3, <2>1
  <2>. HIDE DEF Best
  <2>. QED  BY <2>1, <2>2
<1>5. n \in P
  <2>. HIDE DEF P
  <2>1. \A m \in 0 .. n - 1 : m \in P => m + 1 \in P
    BY <1>4
  <2>2. \A m \in 0 .. n : m \in P
    BY <1>1, <1>2, <2>1, UpTo, Zenon
  <2>. QED  BY <1>1, <2>2
<1>6. ~(\A j \in C : j > n)
  <2>1. PICK j \in C : TRUE
    OBVIOUS
  <2>2. ~(j > n)
    BY <1>1
  <2>. QED  BY <2>2
<1>7. PICK i \in C : Last(i, n)
  <2>1. Best(n)
    BY <1>5
  <2>. HIDE DEF Last
  <2>. QED  BY <1>6, <2>1
<1>8. \A j \in C : j <= n
  BY <1>1
<1>. QED  BY <1>7, <1>8, Zenon

LEMMA NewestFound ==
  ASSUME NEW s \in Arrays
  PROVE  LET v == find_newest_non_fault(s)
         IN  /\ v = 0 => Q!Ordinary(Contents(s)) = {}
             /\ v # 0 => v \in 1 .. Len(s) /\ s[v] \in Q!Newest(Q!Ordinary(Contents(s)))
<1>. DEFINE C == {i \in DOMAIN s : ~IsFault(s[i])}
            B == {i \in C : \A j \in C : ~Precedes(s[i], s[j])}
            v == find_newest_non_fault(s)
<1>1. Len(s) \in Nat /\ DOMAIN s = 1 .. Len(s)
  BY DEF Arrays
<1>2. v = IF C = {} THEN 0 ELSE Min(B)
  BY DEF find_newest_non_fault
<1>3. \A e : e \in Ordinary(Contents(s)) <=> \E i \in C : e = s[i]
  BY DEF Ordinary, Contents
<1>4. C \in SUBSET (1 .. Len(s))
  BY <1>1
<1>. HIDE DEF C, v
<1>5. CASE C = {}
  <2>1. v = 0 /\ Ordinary(Contents(s)) = {}
    BY <1>2, <1>3, <1>5
  <2>. QED  BY <2>1, SameOrder DEF v
<1>6. CASE C # {}
  <2>0. \E i \in C : \A j \in C : ~Precedes(s[i], s[j])
    BY <1>4, <1>6, NewestExists
  <2>1. B # {} /\ B \in SUBSET Nat
    <3>1. B # {}
      BY <2>0
    <3>2. \A i \in C : i \in Nat
      BY <1>1, <1>4
    <3>. QED  BY <3>1, <3>2
  <2>2. Min(B) \in B
    <3>1. \E x \in B : \A y \in B : x <= y
      BY <2>1, LeastOf
    <3>. QED  BY <3>1 DEF Min
  <2>3. v \in C /\ \A j \in C : ~Precedes(s[v], s[j])
    BY <1>2, <1>6, <2>2
  <2>4. v \in 1 .. Len(s) /\ v # 0
    BY <1>1, <1>4, <2>3
  <2>5. s[v] \in Ordinary(Contents(s)) /\ \A e \in Ordinary(Contents(s)) : ~Precedes(s[v], e)
    BY <1>3, <2>3
  <2>6. s[v] \in Q!Newest(Q!Ordinary(Contents(s)))
    BY <2>5, SameOrder DEF Q!Newest
  <2>. QED  BY <2>4, <2>6 DEF v
<1>. QED  BY <1>5, <1>6 DEF v

LEMMA SameSize ==
  ASSUME NEW S
  PROVE  Q!Cardinality(S) = Cardinality(S)
  BY Zenon DEF Q!Cardinality, Cardinality, Q!IsFiniteSet, IsFiniteSet

LEMMA SizeOfContents ==
  ASSUME NEW s \in Arrays, Distinct(s)
  PROVE  Cardinality(Contents(s)) = Len(s) /\ Len(s) \in Nat
<1>1. Len(s) \in Nat /\ DOMAIN s = 1 .. Len(s) /\ s \in [1 .. Len(s) -> Contents(s)]
  BY DEF Arrays, Contents
<1>2. s \in Bijection(1 .. Len(s), Contents(s))
  BY <1>1 DEF Bijection, Injection, Surjection, IsInjective, Distinct, Contents
<1>. QED  BY <1>1, <1>2, FS_CountingElements DEF ExistsBijection

LEMMA LargerOfTwo ==
  ASSUME NEW a \in Nat, NEW b \in Nat
  PROVE  Max({a, b}) = (IF b > a THEN b ELSE a)
  BY DEF Max

-----------------------------------------------------------------------------
(* The inductive invariant.  An admitted event differs from those stored   *)
(* because its number nth is new, so the array never holds one twice.      *)
HeapInv ==
  /\ slots \in Arrays /\ Heaped(slots) /\ Distinct(slots)
  /\ \A e \in Contents(slots) : e.nth <= counters.pushed
  /\ counters \in Q!Counters
  /\ next_sequence \in Nat /\ next_event_id \in Nat /\ engine_event_id \in Nat
  /\ delivered \subseteq Records

LEMMA HeapInit == Init => HeapInv /\ Q!Init
<1>. SUFFICES ASSUME Init PROVE HeapInv /\ Q!Init
  OBVIOUS
<1>1. slots = <<>> /\ Q!Init
  BY DEF Init
<1>2. slots \in Arrays /\ Len(slots) = 0 /\ DOMAIN slots = {}
  BY <1>1 DEF Arrays
<1>3. Heaped(slots) /\ Distinct(slots) /\ Contents(slots) = {}
  BY <1>2, SMTT(30) DEF Heaped, Distinct, Contents
<1>. QED  BY <1>1, <1>2, <1>3 DEF Q!Init, HeapInv, Q!Counters

LEMMA NextId ==
  ASSUME NEW n \in Nat
  PROVE  Q!next_id(n) \in Nat
  BY HeapAssumption DEF Q!next_id

OfferTyped(o) ==
  /\ o.timestamp_us \in Nat /\ o.priority_class \in Nat /\ o.event_id \in Nat

LEMMA StoredTyped ==
  ASSUME HeapInv, NEW o, OfferTyped(o)
  PROVE  /\ Q!Stored(o) \in Records /\ Q!Stored(o) \notin Contents(slots)
         /\ Q!Stored(o).nth = counters.pushed + 1
<1>1. counters.pushed \in Nat /\ Q!next_id(next_sequence) \in Nat /\ Q!next_id(next_event_id) \in Nat
  BY NextId DEF HeapInv, Q!Counters
<1>2. Q!Stored(o) \in Records /\ Q!Stored(o).nth = counters.pushed + 1
  BY <1>1 DEF Q!Stored, Records, OfferTyped
<1>. QED  BY <1>1, <1>2 DEF HeapInv

(* The counters after an enqueue, which started from c.                    *)
LEMMA EnqueueSimulates ==
  ASSUME HeapInv, NEW o, OfferTyped(o), NEW s \in Arrays, Heaped(s), Distinct(s),
         Contents(s) \subseteq Contents(slots),
         NEW c \in Q!Counters, c.pushed = counters.pushed, enqueue(o, s, c),
         delivered' = delivered, engine_event_id' \in Nat
  PROVE  Q!enqueue(o, Contents(s), c) /\ HeapInv'
<1>1. Q!Stored(o) \in Records /\ Q!Stored(o) \notin Contents(s) /\ Q!Stored(o).nth = counters.pushed + 1
  BY StoredTyped
<1>2. slots' = insert(s, Q!Stored(o))
  BY DEF enqueue
<1>3. /\ slots' \in Arrays /\ Heaped(slots') /\ Distinct(slots')
      /\ Contents(slots') = Contents(s) \cup {Q!Stored(o)}
  BY <1>1, <1>2, Inserted
<1>4. Cardinality(Contents(s)) = Len(s) /\ Len(s) \in Nat
  BY SizeOfContents
<1>5. c.high_water \in Nat /\ c.pushed \in Nat
  BY DEF Q!Counters
<1>. DEFINE top == IF Len(s) + 1 > c.high_water THEN Len(s) + 1 ELSE c.high_water
<1>6. counters' = [c EXCEPT !.pushed = c.pushed + 1, !.high_water = top]
  <2>1. Max({c.high_water, Len(s) + 1}) = top
    BY <1>4, <1>5, LargerOfTwo
  <2>2. counters' = [c EXCEPT !.pushed = c.pushed + 1, !.high_water = Max({c.high_water, Len(s) + 1})]
    BY DEF enqueue
  <2>. QED  BY <2>1, <2>2
<1>7. counters' \in Q!Counters /\ counters'.pushed = counters.pushed + 1
  <2>1. top \in Nat /\ c.pushed + 1 \in Nat
    BY <1>4, <1>5
  <2>. HIDE DEF top
  <2>. QED  BY <1>6, <2>1 DEF Q!Counters
<1>8. \A e \in Contents(slots') : e.nth <= counters'.pushed
  <2>1. ASSUME NEW e \in Contents(s) PROVE e.nth <= counters.pushed /\ e.nth \in Nat
    <3>1. e \in Contents(slots)
      OBVIOUS
    <3>2. e \in Records
      BY <3>1 DEF HeapInv, Contents, Arrays
    <3>. QED  BY <3>1, <3>2 DEF HeapInv, Records
  <2>. QED  BY <1>1, <1>3, <1>5, <1>7, <2>1
<1>9. next_sequence' \in Nat /\ next_event_id' \in Nat
  BY NextId DEF enqueue, HeapInv
<1>10. HeapInv'
  BY <1>3, <1>7, <1>8, <1>9 DEF HeapInv
<1>11. Q!enqueue(o, Contents(s), c)
  <2>1. Contents(slots)' = Contents(s) \cup {Q!Stored(o)}
    BY <1>3
  <2>2. counters' = [c EXCEPT !.pushed = c.pushed + 1,
                              !.high_water = IF Q!Cardinality(Contents(s)) + 1 > c.high_water
                                             THEN Q!Cardinality(Contents(s)) + 1 ELSE c.high_water]
    BY <1>4, <1>6, SameSize
  <2>3. fault_count' = fault_count + (IF Q!IsFault(o) THEN 1 ELSE 0)
    BY SameOrder DEF enqueue
  <2>. QED  BY <2>1, <2>2, <2>3 DEF enqueue, Q!enqueue
<1>. QED  BY <1>10, <1>11

LEMMA RefuseSimulates ==
  ASSUME HeapInv, NEW c \in Q!Counters, c.pushed = counters.pushed, refuse(c),
         delivered' = delivered, engine_event_id' \in Nat
  PROVE  Q!refuse(c) /\ HeapInv'
<1>1. slots' = slots /\ counters' = c /\ next_sequence' = next_sequence /\ next_event_id' = next_event_id
  BY DEF refuse
<1>2. HeapInv'
  BY <1>1 DEF HeapInv
<1>. QED  BY <1>1, <1>2 DEF refuse, Q!refuse

LEMMA CountersTyped ==
  ASSUME HeapInv
  PROVE  /\ Q!Overflowed(counters) \in Q!Counters /\ Q!Overflowed(counters).pushed = counters.pushed
         /\ LET c == [Q!Overflowed(counters) EXCEPT !.hard_fault_escalations = @ + 1]
            IN  c \in Q!Counters /\ c.pushed = counters.pushed
         /\ LET c == [counters EXCEPT !.rejected = @ + 1]
            IN  c \in Q!Counters /\ c.pushed = counters.pushed
         /\ LET c == [counters EXCEPT !.consecutive_overflows = 0]
            IN  c \in Q!Counters /\ c.pushed = counters.pushed
<1>1. counters \in Q!Counters
  BY DEF HeapInv
<1>2. Q!Overflowed(counters) \in Q!Counters /\ Q!Overflowed(counters).pushed = counters.pushed
  <2>1. /\ counters.dropped + 1 \in Nat /\ counters.consecutive_overflows + 1 \in Nat
        /\ counters.overflow_events + 1 \in Nat
    BY <1>1 DEF Q!Counters
  <2>2. Q!Overflowed(counters)
          = [counters EXCEPT !.overflow_events = counters.overflow_events + 1,
               !.consecutive_overflows = counters.consecutive_overflows + 1,
               !.dropped = counters.dropped + 1]
    BY <1>1 DEF Q!Overflowed, Q!Counters
  <2>. QED  BY <1>1, <2>1, <2>2, ZenonT(30) DEF Q!Counters
<1>3. ASSUME NEW c \in Q!Counters
      PROVE  LET d == [c EXCEPT !.hard_fault_escalations = @ + 1]
             IN  d \in Q!Counters /\ d.pushed = c.pushed
  BY DEF Q!Counters
<1>4. LET c == [counters EXCEPT !.rejected = @ + 1]
      IN  c \in Q!Counters /\ c.pushed = counters.pushed
  BY <1>1 DEF Q!Counters
<1>5. LET c == [counters EXCEPT !.consecutive_overflows = 0]
      IN  c \in Q!Counters /\ c.pushed = counters.pushed
  BY <1>1 DEF Q!Counters
<1>6. LET c == [Q!Overflowed(counters) EXCEPT !.hard_fault_escalations = @ + 1]
      IN  c \in Q!Counters /\ c.pushed = counters.pushed
  BY <1>2, <1>3
<1>. QED  BY <1>2, <1>4, <1>5, <1>6, Zenon

LEMMA SameShare ==
  ASSUME HeapInv
  PROVE  /\ Q!size = size /\ size \in Nat
         /\ Q!ordinary_share_used <=> ordinary_share_used
<1>1. Q!size = size /\ size \in Nat
  BY SizeOfContents, SameSize DEF HeapInv, Q!size, size
<1>. QED  BY <1>1 DEF Q!ordinary_share_used, ordinary_share_used

LEMMA OverflowSimulates ==
  ASSUME HeapInv, NEW o, OfferTyped(o), push_overflow(o),
         ~hard_fault_terminal, event_is_valid(o), IsFault(o) \/ ~ordinary_share_used, size >= Capacity,
         delivered' = delivered, engine_event_id' \in Nat
  PROVE  (Q!push_full(o) \/ Q!push_evict(o) \/ Q!push_escalate(o)) /\ HeapInv'
<1>. DEFINE v == find_newest_non_fault(slots)
<1>1. Q!Accepted(o) /\ Q!size >= Capacity
  BY SameOrder, SameShare DEF Q!Accepted
<1>2. slots \in Arrays /\ Heaped(slots) /\ Distinct(slots)
  BY DEF HeapInv
<1>3. CASE ~IsFault(o) /\ refuse(Q!Overflowed(counters)) /\ UNCHANGED hard_fault_terminal
  <2>1. Q!refuse(Q!Overflowed(counters)) /\ HeapInv'
    BY <1>3, CountersTyped, RefuseSimulates
  <2>2. ~Q!IsFault(o) /\ ~Q!ordinary_share_used
    BY <1>3, SameOrder, SameShare
  <2>3. Q!push_full(o)
    BY <1>1, <1>3, <2>1, <2>2 DEF Q!push_full
  <2>. QED  BY <2>1, <2>3
<1>4. CASE /\ IsFault(o) /\ v = 0 /\ hard_fault_terminal' = TRUE
           /\ refuse([Q!Overflowed(counters) EXCEPT !.hard_fault_escalations = @ + 1])
  <2>1. Q!refuse([Q!Overflowed(counters) EXCEPT !.hard_fault_escalations = @ + 1]) /\ HeapInv'
    BY <1>4, CountersTyped, RefuseSimulates
  <2>2. Q!IsFault(o) /\ Q!Ordinary(Contents(slots)) = {}
    BY <1>2, <1>4, SameOrder, NewestFound
  <2>3. Q!push_escalate(o)
    BY <1>1, <1>4, <2>1, <2>2 DEF Q!push_escalate
  <2>. QED  BY <2>1, <2>3
<1>5. CASE /\ IsFault(o) /\ v # 0
           /\ enqueue(o, remove_at(slots, v), Q!Overflowed(counters))
           /\ evicted' = evicted \cup {slots[v]} /\ UNCHANGED hard_fault_terminal
  <2>. DEFINE room == remove_at(slots, v)
  <2>1. v \in 1 .. Len(slots) /\ slots[v] \in Q!Newest(Q!Ordinary(Contents(slots)))
    BY <1>2, <1>5, NewestFound
  <2>2. /\ room \in Arrays /\ Heaped(room) /\ Distinct(room)
        /\ Contents(room) = Contents(slots) \ {slots[v]}
    BY <1>2, <2>1, Removed
  <2>3. Contents(room) \subseteq Contents(slots)
    BY <2>2
  <2>4. Q!enqueue(o, Contents(room), Q!Overflowed(counters)) /\ HeapInv'
    <3>. HIDE DEF room
    <3>1. enqueue(o, room, Q!Overflowed(counters))
      BY <1>5 DEF room
    <3>. QED  BY <2>2, <2>3, <3>1, CountersTyped, EnqueueSimulates
  <2>5. Q!IsFault(o)
    BY <1>5, SameOrder
  <2>6. Q!push_evict(o)
    <3>. HIDE DEF v
    <3>1. Q!enqueue(o, Contents(slots) \ {slots[v]}, Q!Overflowed(counters))
      BY <2>2, <2>4
    <3>. QED  BY <1>1, <1>5, <2>1, <2>5, <3>1 DEF Q!push_evict
  <2>. QED  BY <2>4, <2>6
<1>. QED  BY <1>3, <1>4, <1>5 DEF push_overflow

LEMMA PushSimulates ==
  ASSUME HeapInv, NEW o, OfferTyped(o), push(o), engine_event_id' \in Nat
  PROVE  Q!push(o) /\ HeapInv'
<1>1. delivered' = delivered /\ now_us' = now_us /\ cleared' = cleared
  BY DEF push
<1>. DEFINE Refused == hard_fault_terminal \/ (event_is_valid(o) /\ ~IsFault(o) /\ ordinary_share_used)
<1>2. CASE Refused
  <2>1. refuse(Q!Overflowed(counters)) /\ UNCHANGED hard_fault_terminal
    BY <1>2 DEF push
  <2>2. Q!refuse(Q!Overflowed(counters)) /\ HeapInv'
    BY <1>1, <2>1, CountersTyped, RefuseSimulates
  <2>3. CASE hard_fault_terminal
    <3>1. Q!push_terminal
      BY <2>1, <2>2, <2>3 DEF Q!push_terminal
    <3>. QED  BY <1>1, <2>2, <3>1 DEF Q!push
  <2>4. CASE ~hard_fault_terminal
    <3>1. event_is_valid(o) /\ ~IsFault(o) /\ ordinary_share_used
      BY <1>2, <2>4
    <3>2. Q!event_is_valid(o) /\ ~Q!IsFault(o) /\ Q!ordinary_share_used
      BY <3>1, SameOrder, SameShare
    <3>3. Q!push_reserved(o)
      BY <2>1, <2>2, <2>4, <3>2 DEF Q!push_reserved, Q!Accepted
    <3>. QED  BY <1>1, <2>2, <3>3 DEF Q!push
  <2>. QED  BY <2>3, <2>4
<1>3. CASE ~Refused /\ ~event_is_valid(o)
  <2>1. refuse([counters EXCEPT !.rejected = @ + 1]) /\ UNCHANGED hard_fault_terminal
    BY <1>3 DEF push
  <2>2. Q!refuse([counters EXCEPT !.rejected = @ + 1]) /\ HeapInv'
    BY <1>1, <2>1, CountersTyped, RefuseSimulates
  <2>3. ~hard_fault_terminal /\ ~Q!event_is_valid(o)
    BY <1>3, SameOrder
  <2>4. Q!push_invalid(o)
    BY <2>1, <2>2, <2>3 DEF Q!push_invalid
  <2>. QED  BY <1>1, <2>2, <2>4 DEF Q!push
<1>4. CASE ~Refused /\ event_is_valid(o)
  <2>1. ~hard_fault_terminal /\ Q!Accepted(o) /\ (IsFault(o) \/ ~ordinary_share_used)
    BY <1>4, SameOrder DEF Q!Accepted
  <2>2. Q!IsFault(o) \/ ~Q!ordinary_share_used
    BY <2>1, SameOrder, SameShare
  <2>3. CASE size < Capacity
    <3>1. /\ enqueue(o, slots, [counters EXCEPT !.consecutive_overflows = 0])
          /\ UNCHANGED <<evicted, hard_fault_terminal>>
      BY <1>4, <2>3 DEF push
    <3>2. Q!enqueue(o, Contents(slots), [counters EXCEPT !.consecutive_overflows = 0]) /\ HeapInv'
      <4>1. slots \in Arrays /\ Heaped(slots) /\ Distinct(slots)
        BY DEF HeapInv
      <4>. QED  BY <1>1, <3>1, <4>1, CountersTyped, EnqueueSimulates
    <3>3. Q!size < Capacity
      BY <2>3, SameShare
    <3>4. Q!push_room(o)
      BY <2>1, <2>2, <3>1, <3>2, <3>3 DEF Q!push_room
    <3>. QED  BY <1>1, <3>2, <3>4 DEF Q!push
  <2>4. CASE ~(size < Capacity)
    <3>1. push_overflow(o)
      BY <1>4, <2>4, SMTT(30) DEF push
    <3>2. size >= Capacity
      BY <2>4, SameShare, HeapAssumption, SMTT(30)
    <3>3. (Q!push_full(o) \/ Q!push_evict(o) \/ Q!push_escalate(o)) /\ HeapInv'
      BY <1>1, <1>4, <2>1, <3>1, <3>2, OverflowSimulates
    <3>. QED  BY <1>1, <3>3 DEF Q!push
  <2>. QED  BY <2>3, <2>4
<1>. QED  BY <1>2, <1>3, <1>4

LEMMA PopSimulates ==
  ASSUME HeapInv, pop
  PROVE  Q!pop /\ HeapInv'
<1>1. /\ slots \in Arrays /\ Heaped(slots) /\ Distinct(slots) /\ size \in Nat /\ size = Len(slots)
      /\ counters \in Q!Counters
  BY SameShare DEF HeapInv, size
<1>2. CASE size = 0
  <2>1. UNCHANGED <<slots, fault_count, counters, delivered>>
    BY <1>2 DEF pop
  <2>2. Contents(slots) = {}
    <3>1. Len(slots) = 0
      BY <1>1, <1>2
    <3>2. DOMAIN slots = 1 .. Len(slots)
      BY <1>1 DEF Arrays
    <3>. QED  BY <3>1, <3>2 DEF Contents
  <2>3. HeapInv'
    BY <2>1 DEF HeapInv, pop
  <2>4. Q!pop_empty
    BY <2>1, <2>2 DEF Q!pop_empty
  <2>. QED  BY <2>3, <2>4 DEF pop, Q!pop
<1>3. CASE size # 0
  <2>1. /\ delivered' = delivered \cup {slots[1]}
        /\ fault_count' = fault_count - (IF IsFault(slots[1]) THEN 1 ELSE 0)
        /\ slots' = remove_at(slots, 1)
        /\ counters' = [counters EXCEPT !.popped = @ + 1]
    BY <1>3 DEF pop
  <2>2. slots[1] \in Q!Oldest(Contents(slots)) /\ 1 \in 1 .. Len(slots)
    BY <1>1, <1>3, RootIsOldest
  <2>3. /\ slots' \in Arrays /\ Heaped(slots') /\ Distinct(slots')
        /\ Contents(slots') = Contents(slots) \ {slots[1]}
    BY <1>1, <2>1, <2>2, Removed
  <2>4. counters' \in Q!Counters /\ counters'.pushed = counters.pushed
    BY <1>1, <2>1, SMTT(30) DEF Q!Counters
  <2>5. slots[1] \in Records
    BY <1>1, <2>2 DEF Arrays
  <2>6. \A e \in Contents(slots') : e.nth <= counters'.pushed
    BY <2>3, <2>4 DEF HeapInv
  <2>7. HeapInv'
    BY <2>1, <2>3, <2>4, <2>5, <2>6 DEF HeapInv, pop
  <2>8. Contents(slots)' = Contents(slots) \ {slots[1]}
    BY <2>3
  <2>9. fault_count' = fault_count - (IF Q!IsFault(slots[1]) THEN 1 ELSE 0)
    BY <2>1, SameOrder
  <2>10. Q!pop_oldest
    BY <2>1, <2>2, <2>8, <2>9 DEF Q!pop_oldest
  <2>. QED  BY <2>7, <2>10 DEF pop, Q!pop
<1>. QED  BY <1>2, <1>3

LEMMA ClearSimulates ==
  ASSUME HeapInv, clear
  PROVE  Q!clear /\ HeapInv'
<1>1. slots' = <<>> /\ counters' = counters /\ delivered' = delivered
      /\ UNCHANGED <<next_sequence, next_event_id, engine_event_id>>
  BY DEF clear
<1>2. slots' \in Arrays /\ Len(slots') = 0 /\ DOMAIN slots' = {}
  BY <1>1 DEF Arrays
<1>3. Heaped(slots') /\ Distinct(slots') /\ Contents(slots') = {}
  BY <1>2 DEF Heaped, Distinct, Contents
<1>4. HeapInv'
  BY <1>1, <1>2, <1>3 DEF HeapInv
<1>5. Contents(slots)' = {}
  BY <1>3
<1>. QED  BY <1>4, <1>5 DEF clear, Q!clear

(* Every step of the heap queue is a step of the abstract queue.           *)
LEMMA StepSimulates ==
  ASSUME HeapInv, [Next]_vars
  PROVE  [Q!Next]_(Q!vars) /\ HeapInv'
<1>1. CASE push_stamped
  <2>1. PICK t \in Q!Timestamps, c \in OfferedClasses : push(Q!Offer(t, c, 0))
    BY <1>1, SMTT(30) DEF push_stamped
  <2>2. OfferTyped(Q!Offer(t, c, 0))
    BY HeapAssumption, SMTT(30) DEF Q!Timestamps, Q!Offer, OfferTyped
  <2>3. engine_event_id' \in Nat
    BY <1>1 DEF push_stamped, HeapInv
  <2>4. Q!push(Q!Offer(t, c, 0)) /\ HeapInv'
    BY <2>1, <2>2, <2>3, PushSimulates
  <2>5. Q!push_stamped
    BY <1>1, <2>4 DEF push_stamped, Q!push_stamped
  <2>. QED  BY <2>4, <2>5 DEF Q!Next
<1>2. CASE fsm_publish
  <2>1. PICK cause \in delivered, c \in {FAULT, GENERATED} :
          push(Q!Offer(cause.timestamp_us, c, engine_event_id))
    BY <1>2 DEF fsm_publish
  <2>2. OfferTyped(Q!Offer(cause.timestamp_us, c, engine_event_id))
    BY DEF HeapInv, Records, Q!Offer, OfferTyped, FAULT, GENERATED
  <2>3. engine_event_id' \in Nat
    BY <1>2, NextId DEF fsm_publish, HeapInv
  <2>4. Q!push(Q!Offer(cause.timestamp_us, c, engine_event_id)) /\ HeapInv'
    BY <2>1, <2>2, <2>3, PushSimulates
  <2>5. c \in {Q!FAULT, Q!GENERATED}
    BY DEF FAULT, GENERATED, Q!FAULT, Q!GENERATED
  <2>6. Q!fsm_publish
    BY <1>2, <2>4, <2>5 DEF fsm_publish, Q!fsm_publish
  <2>. QED  BY <2>4, <2>6 DEF Q!Next
<1>3. CASE pop
  BY <1>3, PopSimulates DEF Q!Next
<1>4. CASE clear
  BY <1>4, ClearSimulates DEF Q!Next
<1>5. CASE UNCHANGED vars
  BY <1>5 DEF vars, Q!vars, HeapInv
<1>. QED  BY <1>1, <1>2, <1>3, <1>4, <1>5 DEF Next

(* The array is a heap after every call and holds no event twice (queue.c, *)
(* heap_sift_up and heap_sift_down).                                       *)
THEOREM AlwaysHeap == Spec => []HeapInv
<1>1. Init => HeapInv
  BY HeapInit
<1>2. HeapInv /\ [Next]_vars => HeapInv'
  BY StepSimulates
<1>. QED  BY <1>1, <1>2, PTL DEF Spec

(* For every capacity, reserve and sequence of pushes, pops and clears:    *)
(* the heap array of queue.c behaves as the set of events its callers see, *)
(* pop returns the event the selection order puts first and an overflow    *)
(* evicts the ordinary event it puts last.                                 *)
THEOREM HeapImplementsQueue == Spec => ImplementsEventQueue
<1>1. Init => Q!Init
  BY HeapInit
<1>2. HeapInv /\ [Next]_vars => [Q!Next]_(Q!vars)
  BY StepSimulates
<1>. QED  BY <1>1, <1>2, AlwaysHeap, PTL DEF Spec, Q!Spec, ImplementsEventQueue

=============================================================================
