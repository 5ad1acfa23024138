--------------------------- MODULE GatewayProofs ----------------------------
(***************************************************************************)
(* Proofs about the state machine engine under the calls of its host,      *)
(* module Gateway, for any machines, instances, queue sizes and budgets.   *)
(*                                                                         *)
(* The argument is about the call stack: what is pending on it accounts    *)
(* for everything an instance has left undone.  A request for a transition *)
(* has a "chain" step, an event in a queue a "drain" step, a timer that    *)
(* was not looked at a "timer" step, and the processing flag is set        *)
(* exactly while a drain of the instance is in the middle of its events.   *)
(***************************************************************************)
EXTENDS Gateway, TLAPS, SequenceTheorems, WellFoundedInduction

-----------------------------------------------------------------------------
(* Steps and calls.                                                        *)

ActivationOps == {"select", "actions", "exited", "commit", "entered", "chain",
                  "finish", "sink", "changed", "contain"}
CallOps == {"drain", "timers", "timer"}

(* Steps in which a machine may ask for a transition.                      *)
Asking(s) == s.op \in {"actions", "commit", "entered"}

WorkStep(i, s) ==
  /\ s.op \in ActivationOps
  /\ s.op = "actions" => SoundActions(i, s.list) /\ s.list # <<>>
  /\ s.op = "commit" => s.target \in States(i)
  /\ s.op = "entered" => s.state \in States(i)

HasChain(todo) == \E m \in DOMAIN todo : todo[m].op = "chain"

(* The steps of an activation: whoever may ask has a chain step after it.  *)
WorkTodo(i, todo) ==
  /\ IsSequence(todo)
  /\ \A m \in DOMAIN todo :
       /\ WorkStep(i, todo[m])
       /\ Asking(todo[m]) => \E n \in DOMAIN todo : n > m /\ todo[n].op = "chain"

DrainFields == {"op", "i", "processed", "entered"}

CallStep(s) ==
  /\ s.op \in CallOps
  /\ s.i \in Instances
  /\ s.op = "timer" => s.timer \in Timers(s.i)
  /\ s.op = "drain" => DOMAIN s = DrainFields /\ s.entered \in BOOLEAN

IsDrain(s, i) == s.op = "drain" /\ s.i = i
Resumed(s) == s.op = "drain" /\ s.entered

(* The steps of a call: only the first drain can have begun, timers come   *)
(* first, and after them the drain of their instance.                      *)
CallTodo(todo) ==
  /\ IsSequence(todo)
  /\ \A m \in DOMAIN todo :
       /\ CallStep(todo[m])
       /\ Resumed(todo[m]) => m = 1
       /\ todo[m].op = "timer" =>
            /\ \E n \in DOMAIN todo : n > m /\ IsDrain(todo[n], todo[m].i)
            /\ \A n \in DOMAIN todo : n < m => todo[n].op = "timer"

CallFields == {"todo", "activation"}
ActivationFields == {"todo", "activation", "i", "event", "budget", "suspend"}

Frame(f) ==
  /\ f.todo # <<>>
  /\ \/ /\ f.activation = TRUE
        /\ DOMAIN f = ActivationFields
        /\ f.i \in Instances
        /\ f.suspend \in BOOLEAN
        /\ WorkTodo(f.i, f.todo)
     \/ /\ f.activation = FALSE
        /\ DOMAIN f = CallFields
        /\ CallTodo(f.todo)

(* An activation of i runs on top of a drain of i, for an event one that   *)
(* has begun; a call waits below others at a sink or at a drain; no two    *)
(* drains of an instance have begun.                                       *)
Base(f, g) ==
  f.activation => IsDrain(g.todo[1], f.i) /\ (f.event # None => g.todo[1].entered)

StackOK(st) ==
  /\ IsSequence(st)
  /\ \A k \in DOMAIN st :
       /\ Frame(st[k])
       /\ st[k].activation => k < Len(st)
       /\ k < Len(st) => Base(st[k], st[k + 1])
       /\ k > 1 => st[k].todo[1].op \in {"sink", "drain"}
  /\ \A k, l \in DOMAIN st :
       Resumed(st[k].todo[1]) /\ Resumed(st[l].todo[1]) /\ st[k].todo[1].i = st[l].todo[1].i => k = l

-----------------------------------------------------------------------------
(* What the stack holds for an instance.                                   *)

Working(st, i) == \E k \in DOMAIN st : Resumed(st[k].todo[1]) /\ st[k].todo[1].i = i
Settling(st, i) == \E k \in DOMAIN st : st[k].activation /\ st[k].i = i /\ HasChain(st[k].todo)
Draining(st, i) ==
  \E k \in DOMAIN st : \E m \in DOMAIN st[k].todo : IsDrain(st[k].todo[m], i)
Ticking(st, i, t) ==
  \E k \in DOMAIN st : \E m \in DOMAIN st[k].todo :
    st[k].todo[m].op = "timer" /\ st[k].todo[m].i = i /\ st[k].todo[m].timer = t

-----------------------------------------------------------------------------
(* Instance tables.                                                        *)

InstanceFields ==
  {"lifecycle", "state", "deferred", "queue", "variables", "timers", "processing",
   "exhausted", "evaluated"}

SlotFields == {"running", "deadline_us", "duration", "repeat", "origin", "ticks", "lapped"}

(* The deadline is one period after the last one reported, or where time   *)
(* ends if that is earlier.                                                *)
OnGrid(slot) ==
  LET next == slot.origin + (slot.ticks + 1) * slot.duration
  IN  slot.deadline_us = next \/ (slot.deadline_us = TimeTop /\ next >= TimeTop)

(* A slot: the deadline of a running timer is on its grid, and the last    *)
(* period reported is not in the future, as long as numbers suffice.       *)
SlotOK(slot, time) ==
  /\ DOMAIN slot = SlotFields
  /\ slot.running \in BOOLEAN
  /\ slot.duration \in Nat \ {0}
  /\ slot.origin \in Nat /\ slot.ticks \in Nat /\ slot.deadline_us \in Nat
  /\ slot.running /\ ~slot.lapped /\ time < TimeTop =>
       OnGrid(slot) /\ slot.origin + slot.ticks * slot.duration <= time

InstanceOK(i, x, time) ==
  /\ DOMAIN x = InstanceFields
  /\ x.state \in States(i) \cup {None}
  /\ x.deferred \in States(i) \cup {None}
  /\ "slots" \in DOMAIN x.queue
  /\ x.processing \in BOOLEAN
  /\ x.exhausted \in BOOLEAN
  /\ x.evaluated \in Nat /\ x.evaluated <= time
  /\ DOMAIN x.timers = Timers(i)
  /\ \A t \in Timers(i) : SlotOK(x.timers[t], time)
Reported(x, t) ==
  LET slot == x.timers[t]
  IN  slot.running /\ ~slot.lapped /\ x.evaluated \in slot.origin .. TimeTop - 1 =>
        slot.ticks = (x.evaluated - slot.origin) \div slot.duration

(* Nothing is left undone but what is pending.                             *)
Accounted(i, x, st, time) ==
  /\ x.processing <=> Working(st, i)
  /\ x.deferred # None => Settling(st, i)
  /\ is_active(x) /\ ~is_empty(x.queue) /\ ~x.exhausted => Draining(st, i)
  /\ \A t \in Timers(i) : Reported(x, t) \/ Ticking(st, i, t)
  /\ \A t \in Timers(i) : Ticking(st, i, t) => x.evaluated = time

TypeOK ==
  /\ now \in Nat /\ clock \in Nat /\ now <= clock /\ clock <= TimeMax
  /\ DOMAIN inst = Instances
  /\ \A i \in Instances : InstanceOK(i, inst[i], now)

EngineInv ==
  /\ TypeOK
  /\ StackOK(stack)
  /\ \A i \in Instances : Accounted(i, inst[i], stack, now)

-----------------------------------------------------------------------------
(* Sequences.                                                              *)

(* Every sequence is one of its own elements.                              *)
LEMMA SeqIs ==
  ASSUME NEW T, NEW s \in Seq(T)
  PROVE  IsSequence(s)
<1> DEFINE R == {s[k] : k \in DOMAIN s}
<1>1. \A k \in 1 .. Len(s) : s[k] \in R
  OBVIOUS
<1>2. s \in Seq(R)
  BY <1>1
<1> QED
  BY <1>2 DEF IsSequence

(* The length and the domain of a sequence.                                *)
LEMMA SeqFacts ==
  ASSUME NEW s, IsSequence(s)
  PROVE  /\ Len(s) \in Nat /\ DOMAIN s = 1 .. Len(s)
         /\ s # <<>> <=> Len(s) >= 1
         /\ s # <<>> => Head(s) = s[1]
  BY DEF IsSequence

(* A sequence with the domain 1 .. n has the length n.                     *)
LEMMA SeqLength ==
  ASSUME NEW s, IsSequence(s), NEW n \in Nat, DOMAIN s = 1 .. n
  PROVE  Len(s) = n
<1>1. Len(s) \in Nat /\ 1 .. Len(s) = 1 .. n
  BY SeqFacts
<1>2. CASE Len(s) < n
  <2>1. n \in 1 .. n /\ n \notin 1 .. Len(s)
    BY <1>1, <1>2
  <2> QED
    BY <2>1, <1>1
<1>3. CASE Len(s) > n
  <2>1. Len(s) \in 1 .. Len(s) /\ Len(s) \notin 1 .. n
    BY <1>1, <1>3
  <2> QED
    BY <2>1, <1>1
<1> QED
  BY <1>1, <1>2, <1>3

(* Concatenation, element by element.                                      *)
LEMMA ConcatIs ==
  ASSUME NEW s, NEW t, IsSequence(s), IsSequence(t)
  PROVE  /\ IsSequence(s \o t)
         /\ Len(s \o t) = Len(s) + Len(t)
         /\ \A m \in 1 .. Len(s) : (s \o t)[m] = s[m]
         /\ \A m \in 1 .. Len(t) : (s \o t)[Len(s) + m] = t[m]
         /\ \A m \in 1 .. Len(s) + Len(t) : m > Len(s) => (s \o t)[m] = t[m - Len(s)]
<1> DEFINE R == {s[k] : k \in DOMAIN s} \cup {t[k] : k \in DOMAIN t}
<1>1. s \in Seq(R) /\ t \in Seq(R)
  BY DEF IsSequence
<1>2. s \o t \in Seq(R)
  BY <1>1
<1>3. IsSequence(s \o t)
  BY <1>2, SeqIs
<1> HIDE DEF R
<1> QED
  BY <1>1, <1>3

(* The rest of a sequence, element by element.                             *)
LEMMA TailIs ==
  ASSUME NEW s, IsSequence(s), s # <<>>
  PROVE  /\ IsSequence(Tail(s))
         /\ Len(Tail(s)) = Len(s) - 1
         /\ \A m \in 1 .. Len(s) - 1 : Tail(s)[m] = s[m + 1]
<1> DEFINE R == {s[k] : k \in DOMAIN s}
<1>1. s \in Seq(R)
  BY DEF IsSequence
<1>2. Tail(s) \in Seq(R)
  BY <1>1
<1>3. IsSequence(Tail(s))
  BY <1>2, SeqIs
<1> HIDE DEF R
<1> QED
  BY <1>1, <1>3

(* One element in front.                                                   *)
LEMMA FrontIs ==
  ASSUME NEW x, NEW t, IsSequence(t)
  PROVE  /\ IsSequence(<<x>>) /\ Len(<<x>>) = 1 /\ <<x>>[1] = x
         /\ IsSequence(<<x>> \o t) /\ Len(<<x>> \o t) = Len(t) + 1
         /\ (<<x>> \o t)[1] = x
         /\ \A m \in 2 .. Len(t) + 1 : (<<x>> \o t)[m] = t[m - 1]
<1>1. <<x>> \in Seq({x})
  OBVIOUS
<1>2. IsSequence(<<x>>)
  BY <1>1, SeqIs
<1>3. Len(<<x>>) = 1 /\ <<x>>[1] = x
  OBVIOUS
<1>4. Len(t) \in Nat
  BY SeqFacts
<1> QED
  BY <1>2, <1>3, <1>4, ConcatIs


-----------------------------------------------------------------------------
(* Stacks: the innermost call and the calls below it.                      *)

(* What a stack holds, it holds in its innermost call or below.            *)
LEMMA StackSplits ==
  ASSUME NEW st, IsSequence(st), st # <<>>
  PROVE  /\ \A i : Working(st, i) <=> \/ Resumed(st[1].todo[1]) /\ st[1].todo[1].i = i
                                      \/ Working(Tail(st), i)
         /\ \A i : Settling(st, i) <=> \/ st[1].activation /\ st[1].i = i /\ HasChain(st[1].todo)
                                       \/ Settling(Tail(st), i)
         /\ \A i : Draining(st, i) <=> \/ \E m \in DOMAIN st[1].todo : IsDrain(st[1].todo[m], i)
                                       \/ Draining(Tail(st), i)
         /\ \A i, t : Ticking(st, i, t) <=>
              \/ \E m \in DOMAIN st[1].todo : /\ st[1].todo[m].op = "timer"
                                              /\ st[1].todo[m].i = i /\ st[1].todo[m].timer = t
              \/ Ticking(Tail(st), i, t)
<1> DEFINE tl == Tail(st)
<1>1. /\ IsSequence(tl) /\ Len(tl) = Len(st) - 1 /\ Len(st) \in Nat \ {0}
      /\ DOMAIN st = 1 .. Len(st) /\ DOMAIN tl = 1 .. Len(st) - 1
      /\ \A k \in 1 .. Len(st) - 1 : tl[k] = st[k + 1]
  BY TailIs, SeqFacts
<1> HIDE DEF tl
<1>2. \A k \in DOMAIN st : k = 1 \/ (k - 1 \in DOMAIN tl /\ tl[k - 1] = st[k])
  BY <1>1
<1>3. 1 \in DOMAIN st /\ \A k \in DOMAIN tl : k + 1 \in DOMAIN st /\ tl[k] = st[k + 1]
  BY <1>1
<1>4. \A i : Working(st, i) <=> \/ Resumed(st[1].todo[1]) /\ st[1].todo[1].i = i
                                \/ Working(tl, i)
  BY <1>2, <1>3 DEF Working
<1>5. \A i : Settling(st, i) <=> \/ st[1].activation /\ st[1].i = i /\ HasChain(st[1].todo)
                                 \/ Settling(tl, i)
  BY <1>2, <1>3, ZenonT(30) DEF Settling
<1>6. \A i : Draining(st, i) <=> \/ \E m \in DOMAIN st[1].todo : IsDrain(st[1].todo[m], i)
                                 \/ Draining(tl, i)
  BY <1>2, <1>3, Zenon DEF Draining
<1>7. \A i, t : Ticking(st, i, t) <=>
              \/ \E m \in DOMAIN st[1].todo : /\ st[1].todo[m].op = "timer"
                                              /\ st[1].todo[m].i = i /\ st[1].todo[m].timer = t
              \/ Ticking(tl, i, t)
  BY <1>2, <1>3 DEF Ticking
<1> QED
  BY <1>4, <1>5, <1>6, <1>7, Zenon DEF tl

(* The calls below the innermost one are a stack.                          *)
LEMMA StackPopped ==
  ASSUME NEW st, StackOK(st), st # <<>>
  PROVE  /\ StackOK(Tail(st))
         /\ Frame(st[1])
         /\ st[1].activation => Tail(st) # <<>>
         /\ Tail(st) # <<>> => Base(st[1], Tail(st)[1]) /\ Tail(st)[1].todo[1].op \in {"sink", "drain"}
         /\ Resumed(st[1].todo[1]) => ~Working(Tail(st), st[1].todo[1].i)
<1> DEFINE tl == Tail(st)
<1>1. /\ IsSequence(tl) /\ Len(tl) = Len(st) - 1 /\ Len(st) \in Nat \ {0}
      /\ DOMAIN st = 1 .. Len(st) /\ DOMAIN tl = 1 .. Len(st) - 1
      /\ \A k \in 1 .. Len(st) - 1 : tl[k] = st[k + 1]
      /\ tl # <<>> <=> Len(st) > 1
  BY TailIs, SeqFacts DEF StackOK
<1> HIDE DEF tl
<1>2. \A k \in DOMAIN tl : k + 1 \in DOMAIN st /\ tl[k] = st[k + 1] /\ k + 1 > 1
                           /\ (k < Len(tl) => k + 1 < Len(st) /\ tl[k + 1] = st[(k + 1) + 1])
                           /\ (k + 1 < Len(st) => k < Len(tl))
  BY <1>1
<1>3. \A k \in DOMAIN tl : /\ Frame(tl[k])
                           /\ tl[k].activation => k < Len(tl)
                           /\ k < Len(tl) => Base(tl[k], tl[k + 1])
                           /\ tl[k].todo[1].op \in {"sink", "drain"}
  BY <1>2 DEF StackOK
<1>4. \A k, l \in DOMAIN tl : k + 1 = l + 1 => k = l
  BY <1>1
<1>5. \A k, l \in DOMAIN tl :
        Resumed(tl[k].todo[1]) /\ Resumed(tl[l].todo[1]) /\ tl[k].todo[1].i = tl[l].todo[1].i => k = l
  BY <1>2, <1>4 DEF StackOK
<1>6. StackOK(tl)
  BY <1>1, <1>3, <1>5 DEF StackOK
<1>7. 1 \in DOMAIN st /\ (tl # <<>> => 1 < Len(st) /\ tl[1] = st[1 + 1] /\ 1 \in DOMAIN tl)
      /\ (1 < Len(st) => tl # <<>>)
  BY <1>1
<1>8. /\ Frame(st[1])
      /\ st[1].activation => tl # <<>>
      /\ tl # <<>> => Base(st[1], tl[1]) /\ tl[1].todo[1].op \in {"sink", "drain"}
  BY <1>7, <1>3 DEF StackOK
<1>9. \A k \in DOMAIN tl : k + 1 # 1
  BY <1>1
<1>10. Resumed(st[1].todo[1]) => ~Working(tl, st[1].todo[1].i)
  BY <1>2, <1>7, <1>9 DEF StackOK, Working
<1> QED
  BY <1>6, <1>8, <1>10, Zenon DEF tl

(* A call on top of a stack that waits for it is a stack.                  *)
LEMMA StackPushed ==
  ASSUME NEW st, StackOK(st), NEW f, Frame(f),
         f.activation => st # <<>>,
         st # <<>> => Base(f, st[1]) /\ st[1].todo[1].op \in {"sink", "drain"},
         Resumed(f.todo[1]) => ~Working(st, f.todo[1].i)
  PROVE  /\ StackOK(<<f>> \o st)
         /\ <<f>> \o st # <<>> /\ Tail(<<f>> \o st) = st /\ (<<f>> \o st)[1] = f
<1> DEFINE up == <<f>> \o st
<1>0. IsSequence(st)
  BY DEF StackOK
<1>1. /\ IsSequence(up) /\ Len(up) = Len(st) + 1 /\ Len(st) \in Nat
      /\ DOMAIN up = 1 .. Len(st) + 1 /\ DOMAIN st = 1 .. Len(st)
      /\ up[1] = f /\ \A k \in 2 .. Len(st) + 1 : up[k] = st[k - 1]
      /\ st # <<>> <=> Len(st) >= 1
      /\ up # <<>>
  BY <1>0, FrontIs, SeqFacts
<1>2. Tail(up) = st
  <2>1. st \in Seq({st[k] : k \in DOMAIN st} \cup {f})
    BY <1>0 DEF IsSequence
  <2> QED
    BY <2>1
<1> HIDE DEF up
<1>3. \A k \in DOMAIN up :
        k = 1 \/ /\ k - 1 \in DOMAIN st /\ up[k] = st[k - 1] /\ k > 1
                 /\ (k < Len(up) => k - 1 < Len(st) /\ up[k + 1] = st[(k - 1) + 1])
                 /\ (k - 1 < Len(st) => k < Len(up))
                 /\ (k - 1 > 1 \/ k - 1 = 1)
  BY <1>1
<1>4. 1 \in DOMAIN up /\ up[1] = f /\ (st # <<>> => 1 < Len(up) /\ up[1 + 1] = st[1]) /\ ~(1 > 1)
      /\ (1 < Len(up) => st # <<>>)
  BY <1>1
<1>5. \A k \in DOMAIN up : /\ Frame(up[k])
                           /\ up[k].activation => k < Len(up)
                           /\ k < Len(up) => Base(up[k], up[k + 1])
                           /\ k > 1 => up[k].todo[1].op \in {"sink", "drain"}
  <2> SUFFICES ASSUME NEW k \in DOMAIN up
               PROVE  /\ Frame(up[k])
                      /\ up[k].activation => k < Len(up)
                      /\ k < Len(up) => Base(up[k], up[k + 1])
                      /\ k > 1 => up[k].todo[1].op \in {"sink", "drain"}
    OBVIOUS
  <2>1. CASE k = 1
    BY <2>1, <1>4
  <2>2. CASE k # 1
    <3>1. st # <<>>
      BY <2>2, <1>1
    <3>2. k - 1 \in DOMAIN st /\ up[k] = st[k - 1] /\ (k - 1 > 1 \/ k - 1 = 1)
      BY <2>2, <1>3
    <3>3. up[k].todo[1].op \in {"sink", "drain"}
      BY <3>1, <3>2 DEF StackOK
    <3>4. Frame(up[k])
      BY <3>2 DEF StackOK
    <3>5. up[k].activation => k < Len(up)
      BY <2>2, <1>3, <3>2 DEF StackOK
    <3>6. k < Len(up) => Base(up[k], up[k + 1])
      BY <2>2, <1>3, <3>2 DEF StackOK
    <3> QED
      BY <3>3, <3>4, <3>5, <3>6
  <2> QED
    BY <2>1, <2>2
<1>6. \A k, l \in DOMAIN up :
        Resumed(up[k].todo[1]) /\ Resumed(up[l].todo[1]) /\ up[k].todo[1].i = up[l].todo[1].i => k = l
  <2> SUFFICES ASSUME NEW k \in DOMAIN up, NEW l \in DOMAIN up,
                      Resumed(up[k].todo[1]), Resumed(up[l].todo[1]),
                      up[k].todo[1].i = up[l].todo[1].i
               PROVE  k = l
    OBVIOUS
  <2>1. CASE k = 1 /\ l = 1
    BY <2>1
  <2>2. CASE k = 1 /\ l # 1
    BY <2>2, <1>3, <1>4, ZenonT(30) DEF Working
  <2>3. CASE k # 1 /\ l = 1
    BY <2>3, <1>3, <1>4, ZenonT(30) DEF Working
  <2>4. CASE k # 1 /\ l # 1
    <3>1. k - 1 = l - 1
      BY <2>4, <1>3, ZenonT(30) DEF StackOK
    <3> QED
      BY <3>1, <1>1
  <2> QED
    BY <2>1, <2>2, <2>3, <2>4
<1> QED
  BY <1>1, <1>2, <1>5, <1>6 DEF StackOK, up


-----------------------------------------------------------------------------
(* The steps of an activation.                                             *)

(* Steps that may come before the steps r: a request they may lead to is   *)
(* looked at by their own last step or by one of r.                        *)
WorkBlock(i, b, r) ==
  /\ IsSequence(b)
  /\ \A m \in DOMAIN b : WorkStep(i, b[m])
  /\ (\E m \in DOMAIN b : Asking(b[m])) =>
       HasChain(r) \/ (b # <<>> /\ b[Len(b)].op = "chain")

(* Steps put before the steps of an activation.                            *)
LEMMA WorkConcat ==
  ASSUME NEW i, NEW b, NEW r, WorkTodo(i, r), WorkBlock(i, b, r)
  PROVE  WorkTodo(i, b \o r) /\ (HasChain(r) => HasChain(b \o r))
<1> DEFINE c == b \o r
<1>1. /\ IsSequence(c) /\ Len(c) = Len(b) + Len(r) /\ Len(b) \in Nat /\ Len(r) \in Nat
      /\ DOMAIN c = 1 .. Len(b) + Len(r) /\ DOMAIN b = 1 .. Len(b) /\ DOMAIN r = 1 .. Len(r)
      /\ \A m \in 1 .. Len(b) : c[m] = b[m]
      /\ \A m \in 1 .. Len(r) : c[Len(b) + m] = r[m]
      /\ \A m \in 1 .. Len(b) + Len(r) : m > Len(b) => c[m] = r[m - Len(b)]
      /\ b # <<>> <=> Len(b) >= 1
  BY ConcatIs, SeqFacts DEF WorkTodo, WorkBlock
<1> HIDE DEF c
<1>2. ASSUME HasChain(r)
      PROVE  \E n \in DOMAIN c : n > Len(b) /\ c[n].op = "chain"
  <2>1. PICK n \in DOMAIN r : r[n].op = "chain"
    BY <1>2 DEF HasChain
  <2>2. Len(b) + n \in DOMAIN c /\ Len(b) + n > Len(b) /\ c[Len(b) + n] = r[n]
    BY <1>1
  <2> QED
    BY <2>1, <2>2
<1>3. ASSUME NEW m \in DOMAIN c
      PROVE  /\ WorkStep(i, c[m])
             /\ Asking(c[m]) => \E n \in DOMAIN c : n > m /\ c[n].op = "chain"
  <2>1. CASE m <= Len(b)
    <3>1. m \in DOMAIN b /\ c[m] = b[m]
      BY <2>1, <1>1
    <3>2. WorkStep(i, c[m])
      BY <3>1 DEF WorkBlock
    <3>3. ASSUME Asking(c[m])
          PROVE  \E n \in DOMAIN c : n > m /\ c[n].op = "chain"
      <4>1. CASE HasChain(r)
        <5>1. PICK n \in DOMAIN c : n > Len(b) /\ c[n].op = "chain"
          BY <4>1, <1>2
        <5>2. n > m
          BY <5>1, <2>1, <1>1
        <5> QED
          BY <5>1, <5>2
      <4>2. CASE b # <<>> /\ b[Len(b)].op = "chain"
        <5>1. Len(b) \in DOMAIN c /\ c[Len(b)] = b[Len(b)]
          BY <4>2, <1>1
        <5>2. ~Asking(b[Len(b)])
          BY <4>2 DEF Asking
        <5>3. m # Len(b)
          BY <5>1, <5>2, <3>3
        <5>4. Len(b) > m
          BY <5>3, <2>1, <1>1
        <5> QED
          BY <5>1, <5>4, <4>2
      <4> QED
        BY <4>1, <4>2, <3>1, <3>3 DEF WorkBlock
    <3> QED
      BY <3>2, <3>3
  <2>2. CASE m > Len(b)
    <3>1. m - Len(b) \in DOMAIN r /\ c[m] = r[m - Len(b)]
      BY <2>2, <1>1
    <3>2. WorkStep(i, c[m])
      BY <3>1 DEF WorkTodo
    <3>3. ASSUME Asking(c[m])
          PROVE  \E n \in DOMAIN c : n > m /\ c[n].op = "chain"
      <4>1. PICK n \in DOMAIN r : n > m - Len(b) /\ r[n].op = "chain"
        BY <3>1, <3>3 DEF WorkTodo
      <4>2. Len(b) + n \in DOMAIN c /\ Len(b) + n > m /\ c[Len(b) + n] = r[n]
        BY <4>1, <2>2, <1>1
      <4> QED
        BY <4>1, <4>2
    <3> QED
      BY <3>2, <3>3
  <2> QED
    BY <2>1, <2>2, <1>1
<1>4. HasChain(r) => HasChain(c)
  BY <1>2 DEF HasChain
<1> QED
  BY <1>1, <1>3, <1>4 DEF WorkTodo, c

(* The steps of an activation after the first.                             *)
LEMMA WorkRest ==
  ASSUME NEW i, NEW todo, WorkTodo(i, todo), todo # <<>>
  PROVE  /\ WorkTodo(i, Tail(todo))
         /\ WorkStep(i, todo[1])
         /\ Asking(todo[1]) => HasChain(Tail(todo))
         /\ HasChain(todo) /\ todo[1].op # "chain" => HasChain(Tail(todo))
         /\ \A m \in DOMAIN todo : todo[m].op \notin CallOps
<1> DEFINE tl == Tail(todo)
<1>1. /\ IsSequence(tl) /\ Len(tl) = Len(todo) - 1 /\ Len(todo) \in Nat \ {0}
      /\ DOMAIN todo = 1 .. Len(todo) /\ DOMAIN tl = 1 .. Len(todo) - 1
      /\ \A k \in 1 .. Len(todo) - 1 : tl[k] = todo[k + 1]
  BY TailIs, SeqFacts DEF WorkTodo
<1> HIDE DEF tl
<1>2. ASSUME NEW m \in DOMAIN todo, m > 1
      PROVE  m - 1 \in DOMAIN tl /\ tl[m - 1] = todo[m]
  BY <1>1, <1>2
<1>3. ASSUME NEW m \in DOMAIN tl
      PROVE  /\ WorkStep(i, tl[m])
             /\ Asking(tl[m]) => \E n \in DOMAIN tl : n > m /\ tl[n].op = "chain"
  <2>1. m + 1 \in DOMAIN todo /\ tl[m] = todo[m + 1]
    BY <1>1
  <2>2. ASSUME Asking(tl[m])
        PROVE  \E n \in DOMAIN tl : n > m /\ tl[n].op = "chain"
    <3>1. PICK n \in DOMAIN todo : n > m + 1 /\ todo[n].op = "chain"
      BY <2>1, <2>2 DEF WorkTodo
    <3>2. n - 1 \in DOMAIN tl /\ n - 1 > m /\ tl[n - 1] = todo[n]
      BY <3>1, <1>1
    <3> QED
      BY <3>1, <3>2
  <2> QED
    BY <2>1, <2>2 DEF WorkTodo
<1>4. 1 \in DOMAIN todo
  BY <1>1
<1>5. Asking(todo[1]) => HasChain(tl)
  BY <1>2, <1>4 DEF WorkTodo, HasChain
<1>6. HasChain(todo) /\ todo[1].op # "chain" => HasChain(tl)
  <2> SUFFICES ASSUME NEW m \in DOMAIN todo, todo[m].op = "chain", todo[1].op # "chain"
               PROVE  HasChain(tl)
    BY DEF HasChain
  <2>1. m # 1
    OBVIOUS
  <2>2. m > 1
    BY <2>1, <1>1
  <2> QED
    BY <2>2, <1>2 DEF HasChain
<1>7. \A m \in DOMAIN todo : todo[m].op \notin CallOps
  BY DEF WorkTodo, WorkStep, ActivationOps, CallOps
<1> QED
  BY <1>1, <1>3, <1>4, <1>5, <1>6, <1>7 DEF WorkTodo, tl

(* An activation record f that differs from g in budget and request only.  *)
SameWork(f, g) ==
  /\ DOMAIN f = ActivationFields
  /\ f.activation = TRUE /\ f.i = g.i /\ f.event = g.event /\ f.todo = g.todo
  /\ f.suspend \in BOOLEAN

(* The stack after Continued(f, b).                                        *)
Onward(st, f, b) ==
  IF b \o Tail(f.todo) = <<>> THEN Tail(st)
  ELSE <<[f EXCEPT !.todo = b \o Tail(f.todo)]>> \o Tail(st)

(* An activation that goes on with b before the rest of its steps.  Only a *)
(* chain step loses something, the request of its own instance.            *)
LEMMA WorkGoesOn ==
  ASSUME NEW st, StackOK(st), st # <<>>, st[1].activation = TRUE,
         NEW f, SameWork(f, st[1]),
         NEW b, WorkBlock(st[1].i, b, Tail(st[1].todo))
  PROVE  /\ StackOK(Onward(st, f, b))
         /\ \A i : Working(Onward(st, f, b), i) <=> Working(st, i)
         /\ \A i : Draining(st, i) => Draining(Onward(st, f, b), i)
         /\ \A i, t : Ticking(Onward(st, f, b), i, t) <=> Ticking(st, i, t)
         /\ \A i : Settling(st, i) /\ ~(i = st[1].i /\ st[1].todo[1].op = "chain") =>
              Settling(Onward(st, f, b), i)
         /\ Asking(st[1].todo[1]) => Settling(Onward(st, f, b), st[1].i)
         /\ Draining(Onward(st, f, b), st[1].i)
<1> DEFINE tl == Tail(st)
           r == Tail(st[1].todo)
           c == b \o r
           g == [f EXCEPT !.todo = c]
           on == Onward(st, f, b)
<1>1. Frame(st[1]) /\ StackOK(tl) /\ tl # <<>> /\ Base(st[1], tl[1])
      /\ tl[1].todo[1].op \in {"sink", "drain"}
  BY StackPopped
<1>2. st[1].todo # <<>> /\ st[1].i \in Instances /\ WorkTodo(st[1].i, st[1].todo)
  BY <1>1 DEF Frame
<1>3. /\ WorkTodo(st[1].i, r) /\ WorkStep(st[1].i, st[1].todo[1])
      /\ Asking(st[1].todo[1]) => HasChain(r)
      /\ HasChain(st[1].todo) /\ st[1].todo[1].op # "chain" => HasChain(r)
      /\ \A m \in DOMAIN st[1].todo : st[1].todo[m].op \notin CallOps
  BY <1>2, WorkRest
<1>4. WorkTodo(st[1].i, c) /\ (HasChain(r) => HasChain(c))
  BY <1>3, WorkConcat
<1>5. on = IF c = <<>> THEN tl ELSE <<g>> \o tl
  BY DEF Onward, SameWork
<1>6. g.todo = c /\ g.activation = TRUE /\ g.i = st[1].i /\ g.event = st[1].event
      /\ g.suspend \in BOOLEAN /\ DOMAIN g = ActivationFields
  BY DEF SameWork, ActivationFields
<1>7. st[1].todo[1].op \notin CallOps
  BY <1>3 DEF WorkStep, ActivationOps, CallOps
<1>8. ~Resumed(st[1].todo[1])
  BY <1>7 DEF Resumed, CallOps
<1>9. /\ \A i : Working(st, i) <=> Working(tl, i)
      /\ \A i : Draining(st, i) <=> Draining(tl, i)
      /\ \A i, t : Ticking(st, i, t) <=> Ticking(tl, i, t)
      /\ \A i : Settling(st, i) <=> (st[1].i = i /\ HasChain(st[1].todo)) \/ Settling(tl, i)
  <2>1. IsSequence(st)
    BY DEF StackOK
  <2>2. \A m \in DOMAIN st[1].todo : st[1].todo[m].op # "drain" /\ st[1].todo[m].op # "timer"
    BY <1>3 DEF CallOps
  <2>3. \A i : Working(st, i) <=> Working(tl, i)
    BY <2>1, <1>8, StackSplits
  <2>4. \A i : Draining(st, i) <=> Draining(tl, i)
    BY <2>1, <2>2, StackSplits DEF IsDrain
  <2>5. \A i, t : Ticking(st, i, t) <=> Ticking(tl, i, t)
    BY <2>1, <2>2, StackSplits
  <2>6. \A i : Settling(st, i) <=> (st[1].i = i /\ HasChain(st[1].todo)) \/ Settling(tl, i)
    BY <2>1, StackSplits
  <2> QED
    BY <2>3, <2>4, <2>5, <2>6
<1>10. Draining(tl, st[1].i)
  <2>1. 1 \in DOMAIN tl /\ Frame(tl[1])
    BY <1>1, SeqFacts DEF StackOK
  <2>2. 1 \in DOMAIN tl[1].todo
    BY <2>1, SeqFacts DEF Frame, WorkTodo, CallTodo
  <2>3. IsDrain(tl[1].todo[1], st[1].i)
    BY <1>1 DEF Base
  <2> QED
    BY <2>1, <2>2, <2>3 DEF Draining
<1> HIDE DEF tl, r, c, g, on
<1>11. CASE c = <<>>
  <2>1. on = tl
    BY <1>5, <1>11
  <2>2. ~HasChain(c)
    BY <1>11 DEF HasChain
  <2> QED
    BY <2>1, <2>2, <1>1, <1>3, <1>4, <1>9, <1>10 DEF on
<1>12. CASE c # <<>>
  <2>1. on = <<g>> \o tl
    BY <1>5, <1>12
  <2>2. Frame(g)
    BY <1>2, <1>4, <1>6, <1>12 DEF Frame
  <2>3. Base(g, tl[1])
    BY <1>1, <1>6 DEF Base
  <2>4. \A m \in DOMAIN c : c[m].op \notin CallOps
    BY <1>4 DEF WorkTodo, WorkStep, ActivationOps, CallOps
  <2>5. 1 \in DOMAIN c
    BY <1>4, <1>12, SeqFacts DEF WorkTodo
  <2>6. ~Resumed(g.todo[1])
    BY <2>4, <2>5, <1>6 DEF Resumed, CallOps
  <2>7. StackOK(on) /\ on # <<>> /\ Tail(on) = tl /\ on[1] = g
    BY <2>1, <2>2, <2>3, <2>6, <1>1, StackPushed
  <2>8. IsSequence(on)
    BY <2>7 DEF StackOK
  <2>9. \A m \in DOMAIN g.todo : g.todo[m].op # "drain" /\ g.todo[m].op # "timer"
    BY <2>4, <1>6 DEF CallOps
  <2>10. \A i : Working(on, i) <=> Working(tl, i)
    BY <2>6, <2>7, <2>8, StackSplits
  <2>11. \A i : Draining(on, i) <=> Draining(tl, i)
    BY <2>7, <2>8, <2>9, StackSplits DEF IsDrain
  <2>12. \A i, t : Ticking(on, i, t) <=> Ticking(tl, i, t)
    BY <2>7, <2>8, <2>9, StackSplits
  <2>13. \A i : Settling(on, i) <=> (st[1].i = i /\ HasChain(c)) \/ Settling(tl, i)
    BY <2>7, <2>8, <1>6, StackSplits
  <2>14. \A i : Settling(st, i) /\ ~(i = st[1].i /\ st[1].todo[1].op = "chain") => Settling(on, i)
    BY <2>13, <1>3, <1>4, <1>9
  <2>15. Asking(st[1].todo[1]) => Settling(on, st[1].i)
    BY <2>13, <1>3, <1>4
  <2> QED
    BY <2>7, <2>10, <2>11, <2>12, <2>14, <2>15, <1>9, <1>10, Zenon DEF on
<1> QED
  BY <1>11, <1>12


-----------------------------------------------------------------------------
(* The steps of a call.                                                    *)

Fresh(todo) == CallTodo(todo) /\ \A m \in DOMAIN todo : ~Resumed(todo[m])
HasDrain(todo, i) == \E m \in DOMAIN todo : IsDrain(todo[m], i)
HasTimer(todo, i, t) ==
  \E m \in DOMAIN todo : todo[m].op = "timer" /\ todo[m].i = i /\ todo[m].timer = t

(* The steps of a call after the first.                                    *)
LEMMA CallRest ==
  ASSUME NEW todo, CallTodo(todo), todo # <<>>
  PROVE  /\ Fresh(Tail(todo))
         /\ CallStep(todo[1])
         /\ todo[1].op = "timer" => HasDrain(Tail(todo), todo[1].i)
         /\ todo[1].op # "timer" => \A m \in DOMAIN todo : todo[m].op # "timer"
         /\ todo[1].op # "timer" => \A m \in DOMAIN Tail(todo) : Tail(todo)[m].op # "timer"
         /\ \A i : HasDrain(todo, i) <=> IsDrain(todo[1], i) \/ HasDrain(Tail(todo), i)
         /\ \A i, t : HasTimer(todo, i, t) <=>
              \/ todo[1].op = "timer" /\ todo[1].i = i /\ todo[1].timer = t
              \/ HasTimer(Tail(todo), i, t)
<1> DEFINE tl == Tail(todo)
<1>1. /\ IsSequence(tl) /\ Len(tl) = Len(todo) - 1 /\ Len(todo) \in Nat \ {0}
      /\ DOMAIN todo = 1 .. Len(todo) /\ DOMAIN tl = 1 .. Len(todo) - 1
      /\ \A k \in 1 .. Len(todo) - 1 : tl[k] = todo[k + 1]
  BY TailIs, SeqFacts DEF CallTodo
<1> HIDE DEF tl
<1>2. \A m \in DOMAIN todo : m = 1 \/ (m > 1 /\ m - 1 \in DOMAIN tl /\ tl[m - 1] = todo[m])
  BY <1>1
<1>3. 1 \in DOMAIN todo /\ \A m \in DOMAIN tl : m + 1 \in DOMAIN todo /\ tl[m] = todo[m + 1]
  BY <1>1
<1>4. ASSUME NEW m \in DOMAIN tl
      PROVE  /\ CallStep(tl[m])
             /\ ~Resumed(tl[m])
             /\ tl[m].op = "timer" =>
                  /\ \E n \in DOMAIN tl : n > m /\ IsDrain(tl[n], tl[m].i)
                  /\ \A n \in DOMAIN tl : n < m => tl[n].op = "timer"
  <2>1. m + 1 \in DOMAIN todo /\ tl[m] = todo[m + 1] /\ m + 1 # 1
    BY <1>1
  <2>2. CallStep(tl[m]) /\ ~Resumed(tl[m])
    BY <2>1 DEF CallTodo
  <2>3. ASSUME tl[m].op = "timer"
        PROVE  /\ \E n \in DOMAIN tl : n > m /\ IsDrain(tl[n], tl[m].i)
               /\ \A n \in DOMAIN tl : n < m => tl[n].op = "timer"
    <3>1. PICK n \in DOMAIN todo : n > m + 1 /\ IsDrain(todo[n], todo[m + 1].i)
      BY <2>1, <2>3 DEF CallTodo
    <3>2. n - 1 \in DOMAIN tl /\ n - 1 > m /\ tl[n - 1] = todo[n]
      BY <3>1, <1>1
    <3>3. \A j \in DOMAIN tl : j < m => j + 1 \in DOMAIN todo /\ j + 1 < m + 1 /\ tl[j] = todo[j + 1]
      BY <1>1
    <3>4. \A j \in DOMAIN tl : j < m => tl[j].op = "timer"
      BY <3>3, <2>1, <2>3 DEF CallTodo
    <3> QED
      BY <3>1, <3>2, <3>4, <2>1
  <2> QED
    BY <2>2, <2>3
<1>5. Fresh(tl)
  BY <1>1, <1>4 DEF Fresh, CallTodo
<1>6. CallStep(todo[1])
  BY <1>3 DEF CallTodo
<1>7. \A i : HasDrain(todo, i) <=> IsDrain(todo[1], i) \/ HasDrain(tl, i)
  BY <1>2, <1>3 DEF HasDrain
<1>8. \A i, t : HasTimer(todo, i, t) <=>
              \/ todo[1].op = "timer" /\ todo[1].i = i /\ todo[1].timer = t
              \/ HasTimer(tl, i, t)
  BY <1>2, <1>3 DEF HasTimer
<1>9. todo[1].op = "timer" => HasDrain(tl, todo[1].i)
  BY <1>2, <1>3 DEF CallTodo, HasDrain
<1>10. todo[1].op # "timer" => \A m \in DOMAIN todo : todo[m].op # "timer"
  <2> SUFFICES ASSUME todo[1].op # "timer", NEW m \in DOMAIN todo, todo[m].op = "timer"
               PROVE  FALSE
    OBVIOUS
  <2>1. m # 1
    OBVIOUS
  <2>2. 1 < m
    BY <2>1, <1>1
  <2> QED
    BY <2>2, <1>3 DEF CallTodo
<1>11. todo[1].op # "timer" => \A m \in DOMAIN tl : tl[m].op # "timer"
  BY <1>3, <1>10
<1> QED
  BY <1>5, <1>6, <1>7, <1>8, <1>9, <1>10, <1>11 DEF tl

(* The stack when the call in progress goes on with the steps c.           *)
CallOn(st, c) ==
  IF c = <<>> THEN Tail(st) ELSE <<[st[1] EXCEPT !.todo = c]>> \o Tail(st)

(* A call that goes on with steps none of which resumes a drain: what its  *)
(* first step stood for is gone.                                           *)
LEMMA CallGoesOn ==
  ASSUME NEW st, StackOK(st), st # <<>>, st[1].activation = FALSE,
         NEW c, Fresh(c)
  PROVE  /\ StackOK(CallOn(st, c))
         /\ \A i : Working(CallOn(st, c), i) <=>
              Working(st, i) /\ ~(Resumed(st[1].todo[1]) /\ st[1].todo[1].i = i)
         /\ \A i : Settling(CallOn(st, c), i) <=> Settling(st, i)
         /\ \A i : Draining(CallOn(st, c), i) <=> HasDrain(c, i) \/ Draining(Tail(st), i)
         /\ \A i : Draining(st, i) <=> HasDrain(st[1].todo, i) \/ Draining(Tail(st), i)
         /\ \A i, t : Ticking(CallOn(st, c), i, t) <=> HasTimer(c, i, t) \/ Ticking(Tail(st), i, t)
         /\ \A i, t : Ticking(st, i, t) <=> HasTimer(st[1].todo, i, t) \/ Ticking(Tail(st), i, t)
<1> DEFINE tl == Tail(st)
           g == [st[1] EXCEPT !.todo = c]
           on == CallOn(st, c)
<1>1. /\ Frame(st[1]) /\ StackOK(tl)
      /\ tl # <<>> => tl[1].todo[1].op \in {"sink", "drain"}
      /\ Resumed(st[1].todo[1]) => ~Working(tl, st[1].todo[1].i)
  BY StackPopped
<1>2. /\ IsSequence(st) /\ IsSequence(c)
      /\ DOMAIN st[1] = CallFields
  BY <1>1 DEF StackOK, Fresh, CallTodo, Frame
<1>3. on = IF c = <<>> THEN tl ELSE <<g>> \o tl
  BY DEF CallOn
<1>4. g.todo = c /\ g.activation = FALSE /\ DOMAIN g = CallFields
  BY <1>2 DEF CallFields
<1>5. /\ \A i : Working(st, i) <=> (Resumed(st[1].todo[1]) /\ st[1].todo[1].i = i) \/ Working(tl, i)
      /\ \A i : Settling(st, i) <=> Settling(tl, i)
      /\ \A i : Draining(st, i) <=> HasDrain(st[1].todo, i) \/ Draining(tl, i)
      /\ \A i, t : Ticking(st, i, t) <=> HasTimer(st[1].todo, i, t) \/ Ticking(tl, i, t)
  <2>1. \A i : Working(st, i) <=> (Resumed(st[1].todo[1]) /\ st[1].todo[1].i = i) \/ Working(tl, i)
    BY <1>2, StackSplits
  <2>2. \A i : Settling(st, i) <=> Settling(tl, i)
    BY <1>2, StackSplits
  <2>3. \A i : Draining(st, i) <=> HasDrain(st[1].todo, i) \/ Draining(tl, i)
    BY <1>2, StackSplits DEF HasDrain
  <2>4. \A i, t : Ticking(st, i, t) <=> HasTimer(st[1].todo, i, t) \/ Ticking(tl, i, t)
    BY <1>2, StackSplits DEF HasTimer
  <2> QED
    BY <2>1, <2>2, <2>3, <2>4
<1> HIDE DEF tl, g, on
<1>6. CASE c = <<>>
  <2>1. on = tl
    BY <1>3, <1>6
  <2>2. \A i : ~HasDrain(c, i)
    BY <1>6 DEF HasDrain
  <2>3. \A i, t : ~HasTimer(c, i, t)
    BY <1>6 DEF HasTimer
  <2> QED
    BY <2>1, <2>2, <2>3, <1>1, <1>5, Zenon DEF on, tl
<1>7. CASE c # <<>>
  <2>1. on = <<g>> \o tl
    BY <1>3, <1>7
  <2>2. Frame(g)
    BY <1>4, <1>7 DEF Frame, Fresh
  <2>3. tl # <<>> => Base(g, tl[1])
    BY <1>4 DEF Base
  <2>4. 1 \in DOMAIN c
    BY <1>2, <1>7, SeqFacts
  <2>5. ~Resumed(g.todo[1])
    BY <2>4, <1>4 DEF Fresh
  <2>6. StackOK(on) /\ on # <<>> /\ Tail(on) = tl /\ on[1] = g
    BY <2>1, <2>2, <2>3, <2>5, <1>1, <1>4, StackPushed
  <2>7. IsSequence(on)
    BY <2>6 DEF StackOK
  <2>8. \A i : Working(on, i) <=> Working(tl, i)
    BY <2>5, <2>6, <2>7, StackSplits
  <2>9. \A i : Settling(on, i) <=> Settling(tl, i)
    BY <2>6, <2>7, <1>4, StackSplits
  <2>10. \A i : Draining(on, i) <=> HasDrain(c, i) \/ Draining(tl, i)
    BY <2>6, <2>7, <1>4, StackSplits DEF HasDrain
  <2>11. \A i, t : Ticking(on, i, t) <=> HasTimer(c, i, t) \/ Ticking(tl, i, t)
    BY <2>6, <2>7, <1>4, StackSplits DEF HasTimer
  <2> QED
    BY <2>6, <2>8, <2>9, <2>10, <2>11, <1>1, <1>5, Zenon DEF on, tl
<1> QED
  BY <1>6, <1>7

(* A new call, of the host or of a sink.                                   *)
LEMMA CallBegins ==
  ASSUME NEW st, StackOK(st), st # <<>> => st[1].todo[1].op = "sink",
         NEW c, Fresh(c), c # <<>>
  PROVE  /\ StackOK(<<Call(c)>> \o st)
         /\ \A i : Working(<<Call(c)>> \o st, i) <=> Working(st, i)
         /\ \A i : Settling(<<Call(c)>> \o st, i) <=> Settling(st, i)
         /\ \A i : Draining(<<Call(c)>> \o st, i) <=> HasDrain(c, i) \/ Draining(st, i)
         /\ \A i, t : Ticking(<<Call(c)>> \o st, i, t) <=> HasTimer(c, i, t) \/ Ticking(st, i, t)
<1> DEFINE f == Call(c)
           up == <<f>> \o st
<1>1. f.todo = c /\ f.activation = FALSE /\ DOMAIN f = CallFields
  BY DEF Call, CallFields
<1>2. 1 \in DOMAIN c
  BY SeqFacts DEF Fresh, CallTodo
<1> HIDE DEF f
<1>3. Frame(f) /\ ~Resumed(f.todo[1])
  BY <1>1, <1>2 DEF Frame, Fresh
<1>4. st # <<>> => Base(f, st[1])
  BY <1>1 DEF Base
<1>5. StackOK(up) /\ up # <<>> /\ Tail(up) = st /\ up[1] = f
  BY <1>1, <1>3, <1>4, StackPushed
<1>6. IsSequence(up)
  BY <1>5 DEF StackOK
<1> HIDE DEF up
<1>7. \A i : Working(up, i) <=> Working(st, i)
  BY <1>3, <1>5, <1>6, StackSplits
<1>8. \A i : Settling(up, i) <=> Settling(st, i)
  BY <1>1, <1>5, <1>6, StackSplits
<1>9. \A i : Draining(up, i) <=> HasDrain(c, i) \/ Draining(st, i)
  BY <1>1, <1>5, <1>6, StackSplits DEF HasDrain
<1>10. \A i, t : Ticking(up, i, t) <=> HasTimer(c, i, t) \/ Ticking(st, i, t)
  BY <1>1, <1>5, <1>6, StackSplits DEF HasTimer
<1> QED
  BY <1>5, <1>7, <1>8, <1>9, <1>10, Zenon DEF up, f


(* One drain.                                                              *)
LEMMA OneDrain ==
  ASSUME NEW i \in Instances
  PROVE  /\ Fresh(<<Drain(i)>>) /\ <<Drain(i)>> # <<>>
         /\ \A j : HasDrain(<<Drain(i)>>, j) <=> j = i
         /\ \A j, t : ~HasTimer(<<Drain(i)>>, j, t)
<1> DEFINE s == Drain(i)
<1>1. s.op = "drain" /\ s.i = i /\ s.entered = FALSE /\ DOMAIN s = DrainFields
  BY DEF Drain, DrainFields
<1> HIDE DEF s
<1>2. IsSequence(<<s>>)
  <2>1. <<s>> \in Seq({s})
    OBVIOUS
  <2> QED
    BY <2>1, SeqIs
<1>3. DOMAIN <<s>> = {1} /\ <<s>>[1] = s /\ <<s>> # <<>>
  OBVIOUS
<1>4. CallStep(s) /\ ~Resumed(s)
  BY <1>1 DEF CallStep, CallOps, Resumed
<1>5. Fresh(<<s>>)
  BY <1>1, <1>2, <1>3, <1>4 DEF Fresh, CallTodo
<1>6. \A j : HasDrain(<<s>>, j) <=> j = i
  BY <1>1, <1>3 DEF HasDrain, IsDrain
<1>7. \A j, t : ~HasTimer(<<s>>, j, t)
  BY <1>1, <1>3 DEF HasTimer
<1> QED
  BY <1>3, <1>5, <1>6, <1>7 DEF s

(* The drains after an event reach every instance.                         *)
LEMMA AllDrains ==
  ASSUME NEW e
  PROVE  /\ Fresh(DrainSteps(e))
         /\ \A i \in Instances : HasDrain(DrainSteps(e), i)
         /\ \A j, t : ~HasTimer(DrainSteps(e), j, t)
         /\ Instances # {} => DrainSteps(e) # <<>>
<1> DEFINE d == DrainSteps(e)
<1>1. Len(Order) \in Nat /\ DOMAIN Order = 1 .. Len(Order)
  BY EngineAssumption, SeqFacts
<1>2. DOMAIN d = DOMAIN Order /\ \A k \in DOMAIN Order : d[k] = Drain(Order[k])
  BY DEF DrainSteps
<1>3. d \in Seq({Drain(Order[k]) : k \in DOMAIN Order})
  BY <1>1 DEF DrainSteps
<1>4. IsSequence(d)
  BY <1>3, SeqIs
<1> HIDE DEF d
<1>5. \A k \in DOMAIN d : /\ d[k].op = "drain" /\ d[k].i = Order[k] /\ d[k].entered = FALSE
                          /\ DOMAIN d[k] = DrainFields /\ Order[k] \in Instances
  BY <1>2 DEF Drain, DrainFields, Instances
<1>6. \A k \in DOMAIN d : CallStep(d[k]) /\ ~Resumed(d[k]) /\ d[k].op # "timer"
  BY <1>5 DEF CallStep, CallOps, Resumed
<1>7. Fresh(d)
  BY <1>4, <1>6 DEF Fresh, CallTodo
<1>8. \A i \in Instances : HasDrain(d, i)
  BY <1>2, <1>5 DEF HasDrain, IsDrain, Instances
<1>9. \A j, t : ~HasTimer(d, j, t)
  BY <1>6 DEF HasTimer
<1>10. Instances # {} => d # <<>>
  BY <1>8 DEF HasDrain
<1> QED
  BY <1>7, <1>8, <1>9, <1>10 DEF d

(* The steps of a tick, before the first instance.                         *)
LEMMA AllTimers ==
  /\ Fresh(TimerSteps)
  /\ \A j : ~HasDrain(TimerSteps, j)
  /\ \A j, t : ~HasTimer(TimerSteps, j, t)
<1> DEFINE d == TimerSteps
<1>1. Len(Order) \in Nat /\ DOMAIN Order = 1 .. Len(Order)
  BY EngineAssumption, SeqFacts
<1>2. DOMAIN d = DOMAIN Order /\ \A k \in DOMAIN Order : d[k] = [op |-> "timers", i |-> Order[k]]
  BY DEF TimerSteps
<1>3. d \in Seq({[op |-> "timers", i |-> Order[k]] : k \in DOMAIN Order})
  BY <1>1 DEF TimerSteps
<1>4. IsSequence(d)
  BY <1>3, SeqIs
<1> HIDE DEF d
<1>5. \A k \in DOMAIN d : d[k].op = "timers" /\ d[k].i = Order[k] /\ Order[k] \in Instances
  BY <1>2 DEF Instances
<1>6. \A k \in DOMAIN d : CallStep(d[k]) /\ ~Resumed(d[k]) /\ d[k].op # "timer" /\ d[k].op # "drain"
  BY <1>5 DEF CallStep, CallOps, Resumed
<1>7. Fresh(d)
  BY <1>4, <1>6 DEF Fresh, CallTodo
<1>8. \A j : ~HasDrain(d, j)
  BY <1>6 DEF HasDrain, IsDrain
<1>9. \A j, t : ~HasTimer(d, j, t)
  BY <1>6 DEF HasTimer
<1> QED
  BY <1>7, <1>8, <1>9 DEF d

(* The timers of an instance and its drain, before the rest of the tick.   *)
LEMMA LoopConcat ==
  ASSUME NEW i \in Instances, NEW r, Fresh(r), \A m \in DOMAIN r : r[m].op # "timer"
  PROVE  /\ Fresh(TimerLoop(i) \o r)
         /\ HasDrain(TimerLoop(i) \o r, i)
         /\ \A j : HasDrain(r, j) => HasDrain(TimerLoop(i) \o r, j)
         /\ \A j, t : HasTimer(TimerLoop(i) \o r, j, t) <=> j = i /\ t \in Timers(i)
<1> DEFINE a == [t \in Timers(i) |-> [op |-> "timer", i |-> i, timer |-> t]]
           n == Len(Machine[i].timers)
           b == TimerLoop(i)
           c == b \o r
<1>1. n \in Nat /\ Timers(i) = 1 .. n
  BY EngineAssumption, SeqFacts DEF SoundMachine, Timers
<1>2. a \in Seq({[op |-> "timer", i |-> i, timer |-> t] : t \in Timers(i)})
  BY <1>1
<1>3. IsSequence(a) /\ Len(a) = n
  <2>1. IsSequence(a)
    BY <1>2, SeqIs
  <2>2. DOMAIN a = 1 .. n
    BY <1>1
  <2> QED
    BY <2>1, <2>2, <1>1, SeqLength
<1>4. \A t \in 1 .. n : a[t] = [op |-> "timer", i |-> i, timer |-> t]
  BY <1>1
<1> HIDE DEF a, n
<1>5. IsSequence(<<Drain(i)>>) /\ Len(<<Drain(i)>>) = 1 /\ <<Drain(i)>>[1] = Drain(i)
  BY OneDrain DEF Fresh, CallTodo
<1>6. b = a \o <<Drain(i)>>
  BY DEF TimerLoop, a
<1>7. /\ IsSequence(b) /\ Len(b) = n + 1
      /\ \A m \in 1 .. n : b[m] = [op |-> "timer", i |-> i, timer |-> m]
      /\ b[n + 1] = Drain(i)
  <2>1. IsSequence(b) /\ Len(b) = n + 1 /\ \A m \in 1 .. n : b[m] = a[m]
    BY <1>1, <1>3, <1>5, <1>6, ConcatIs
  <2>2. b[n + 1] = Drain(i)
    BY <1>1, <1>3, <1>5, <1>6, ConcatIs
  <2> QED
    BY <2>1, <2>2, <1>4
<1> HIDE DEF b
<1>8. IsSequence(r) /\ Len(r) \in Nat /\ DOMAIN r = 1 .. Len(r)
  BY SeqFacts DEF Fresh, CallTodo
<1>9. /\ IsSequence(c) /\ Len(c) = n + 1 + Len(r) /\ DOMAIN c = 1 .. n + 1 + Len(r)
      /\ \A m \in 1 .. n + 1 : c[m] = b[m]
      /\ \A m \in 1 .. Len(r) : c[n + 1 + m] = r[m]
      /\ \A m \in 1 .. n + 1 + Len(r) : m > n + 1 => c[m] = r[m - (n + 1)]
  <2>1. /\ IsSequence(c) /\ Len(c) = n + 1 + Len(r)
        /\ \A m \in 1 .. n + 1 : c[m] = b[m]
        /\ \A m \in 1 .. Len(r) : c[n + 1 + m] = r[m]
        /\ \A m \in 1 .. n + 1 + Len(r) : m > n + 1 => c[m] = r[m - (n + 1)]
    BY <1>7, <1>8, ConcatIs
  <2>2. DOMAIN c = 1 .. n + 1 + Len(r)
    BY <2>1, SeqFacts
  <2> QED
    BY <2>1, <2>2
<1> HIDE DEF c
<1>10. n + 1 \in DOMAIN c /\ c[n + 1] = Drain(i)
  BY <1>1, <1>7, <1>8, <1>9
<1>11. \A m \in DOMAIN c : \/ m \in 1 .. n
                           \/ m = n + 1
                           \/ m > n + 1 /\ m - (n + 1) \in DOMAIN r /\ c[m] = r[m - (n + 1)]
  BY <1>1, <1>8, <1>9
<1>12. \A m \in 1 .. n : m \in DOMAIN c /\ c[m].op = "timer" /\ c[m].i = i /\ c[m].timer = m
  <2> SUFFICES ASSUME NEW m \in 1 .. n
               PROVE  m \in DOMAIN c /\ c[m].op = "timer" /\ c[m].i = i /\ c[m].timer = m
    OBVIOUS
  <2>1. m \in DOMAIN c /\ c[m] = b[m]
    BY <1>1, <1>8, <1>9
  <2>2. c[m] = [op |-> "timer", i |-> i, timer |-> m]
    BY <2>1, <1>7
  <2> QED
    BY <2>1, <2>2
<1>13. /\ Drain(i).op = "drain" /\ Drain(i).i = i /\ Drain(i).entered = FALSE
       /\ DOMAIN Drain(i) = DrainFields
  BY DEF Drain, DrainFields
<1>14. ASSUME NEW m \in DOMAIN c
       PROVE  /\ CallStep(c[m]) /\ ~Resumed(c[m])
              /\ c[m].op = "timer" =>
                   /\ \E k \in DOMAIN c : k > m /\ IsDrain(c[k], c[m].i)
                   /\ \A k \in DOMAIN c : k < m => c[k].op = "timer"
  <2>1. CASE m \in 1 .. n
    <3>1. CallStep(c[m]) /\ ~Resumed(c[m]) /\ c[m].i = i
      BY <2>1, <1>1, <1>12 DEF CallStep, CallOps, Resumed
    <3>2. n + 1 > m
      BY <2>1, <1>1
    <3>3. \E k \in DOMAIN c : k > m /\ IsDrain(c[k], c[m].i)
      BY <3>1, <3>2, <1>10, <1>13 DEF IsDrain
    <3>4. \A k \in DOMAIN c : k < m => k \in 1 .. n
      BY <2>1, <1>1, <1>9
    <3>5. \A k \in DOMAIN c : k < m => c[k].op = "timer"
      BY <3>4, <1>12
    <3> QED
      BY <3>1, <3>3, <3>5
  <2>2. CASE m = n + 1
    BY <2>2, <1>10, <1>13 DEF CallStep, CallOps, Resumed
  <2>3. CASE m > n + 1 /\ m - (n + 1) \in DOMAIN r /\ c[m] = r[m - (n + 1)]
    BY <2>3 DEF Fresh, CallTodo
  <2> QED
    BY <2>1, <2>2, <2>3, <1>11
<1>15. Fresh(c)
  BY <1>9, <1>14 DEF Fresh, CallTodo
<1>16. HasDrain(c, i)
  BY <1>10, <1>13 DEF HasDrain, IsDrain
<1>17. \A j : HasDrain(r, j) => HasDrain(c, j)
  <2>1. \A m \in DOMAIN r : n + 1 + m \in DOMAIN c /\ c[n + 1 + m] = r[m]
    BY <1>1, <1>8, <1>9
  <2> QED
    BY <2>1 DEF HasDrain
<1>18. \A j, t : HasTimer(c, j, t) <=> j = i /\ t \in Timers(i)
  <2>1. ASSUME NEW j, NEW t, HasTimer(c, j, t)
        PROVE  j = i /\ t \in Timers(i)
    <3>1. PICK m \in DOMAIN c : c[m].op = "timer" /\ c[m].i = j /\ c[m].timer = t
      BY <2>1 DEF HasTimer
    <3>2. m # n + 1
      BY <3>1, <1>10, <1>13
    <3>3. m \in 1 .. n
      BY <3>1, <3>2, <1>11
    <3> QED
      BY <3>1, <3>3, <1>1, <1>12
  <2>2. ASSUME NEW t \in Timers(i)
        PROVE  HasTimer(c, i, t)
    BY <1>1, <1>12 DEF HasTimer
  <2> QED
    BY <2>1, <2>2
<1> QED
  BY <1>15, <1>16, <1>17, <1>18 DEF c, b


-----------------------------------------------------------------------------
(* New activations.                                                        *)

LEMMA TwoFronts ==
  ASSUME NEW x, NEW y, NEW t, IsSequence(t)
  PROVE  <<x, y>> \o t = <<x>> \o (<<y>> \o t)
<1> DEFINE R == {t[k] : k \in DOMAIN t} \cup {x, y}
<1>1. t \in Seq(R) /\ <<x, y>> \in Seq(R) /\ <<x>> \in Seq(R) /\ <<y>> \in Seq(R)
  BY DEF IsSequence
<1> HIDE DEF R
<1>2. <<x, y>> = <<x>> \o <<y>>
  <2>1. <<x>> \o <<y>> \in Seq(R)
    BY <1>1
  <2>2. Len(<<x, y>>) = 2 /\ Len(<<x>> \o <<y>>) = 2
    OBVIOUS
  <2>3. /\ <<x, y>>[1] = x /\ <<x, y>>[2] = y
        /\ (<<x>> \o <<y>>)[1] = x /\ (<<x>> \o <<y>>)[2] = y
    OBVIOUS
  <2>4. \A k \in 1 .. Len(<<x, y>>) : <<x, y>>[k] = (<<x>> \o <<y>>)[k]
    BY <2>2, <2>3
  <2> QED
    BY <1>1, <2>1, <2>2, <2>4, SeqEqual
<1> QED
  BY <1>1, <1>2, ConcatAssociative

(* An activation on top of the drain that runs it.                         *)
LEMMA WorkBegins ==
  ASSUME NEW st, StackOK(st), st # <<>>, NEW i \in Instances, NEW e,
         IsDrain(st[1].todo[1], i), e # None => st[1].todo[1].entered,
         NEW todo, WorkTodo(i, todo), todo # <<>>
  PROVE  /\ StackOK(<<Activation(i, e, todo)>> \o st)
         /\ \A j : Working(<<Activation(i, e, todo)>> \o st, j) <=> Working(st, j)
         /\ \A j : Settling(st, j) => Settling(<<Activation(i, e, todo)>> \o st, j)
         /\ \A j : Draining(<<Activation(i, e, todo)>> \o st, j) <=> Draining(st, j)
         /\ \A j, t : Ticking(<<Activation(i, e, todo)>> \o st, j, t) <=> Ticking(st, j, t)
<1> DEFINE f == Activation(i, e, todo)
           up == <<f>> \o st
<1>1. /\ f.todo = todo /\ f.activation = TRUE /\ f.i = i /\ f.event = e /\ f.suspend = FALSE
      /\ DOMAIN f = ActivationFields
  BY DEF Activation, ActivationFields
<1> HIDE DEF f
<1>2. Frame(f)
  BY <1>1 DEF Frame
<1>3. \A m \in DOMAIN f.todo : f.todo[m].op \notin CallOps
  BY <1>1, WorkRest
<1>4. 1 \in DOMAIN f.todo
  BY <1>1, SeqFacts DEF WorkTodo
<1>5. ~Resumed(f.todo[1])
  BY <1>3, <1>4 DEF Resumed, CallOps
<1>6. Base(f, st[1]) /\ st[1].todo[1].op \in {"sink", "drain"}
  BY <1>1 DEF Base, IsDrain
<1>7. StackOK(up) /\ up # <<>> /\ Tail(up) = st /\ up[1] = f
  BY <1>2, <1>5, <1>6, StackPushed
<1>8. IsSequence(up)
  BY <1>7 DEF StackOK
<1> HIDE DEF up
<1>9. \A j : Working(up, j) <=> Working(st, j)
  BY <1>5, <1>7, <1>8, StackSplits
<1>10. \A j : Settling(st, j) => Settling(up, j)
  BY <1>7, <1>8, StackSplits
<1>11. \A j : Draining(up, j) <=> Draining(st, j)
  BY <1>3, <1>7, <1>8, StackSplits DEF IsDrain, CallOps
<1>12. \A j, t : Ticking(up, j, t) <=> Ticking(st, j, t)
  BY <1>3, <1>7, <1>8, StackSplits DEF CallOps
<1> QED
  BY <1>7, <1>9, <1>10, <1>11, <1>12, Zenon DEF up, f

(* The steps of an event, and of a start.                                  *)
LEMMA WorkOfEvent ==
  ASSUME NEW i
  PROVE  WorkTodo(i, <<[op |-> "select"], Finish>>) /\ <<[op |-> "select"], Finish>> # <<>>
<1> DEFINE a == [op |-> "select"]
           todo == <<a, Finish>>
<1>1. a.op = "select" /\ Finish.op = "finish"
  BY DEF Finish
<1> HIDE DEF a
<1>2. todo \in Seq({a, Finish}) /\ DOMAIN todo = {1, 2} /\ todo[1] = a /\ todo[2] = Finish
  OBVIOUS
<1>3. IsSequence(todo) /\ todo # <<>>
  BY <1>2, SeqIs
<1> HIDE DEF todo
<1>4. WorkStep(i, a) /\ WorkStep(i, Finish) /\ ~Asking(a) /\ ~Asking(Finish)
  BY <1>1 DEF WorkStep, ActivationOps, Asking
<1>5. WorkTodo(i, todo)
  BY <1>2, <1>3, <1>4 DEF WorkTodo
<1> QED
  BY <1>3, <1>5 DEF todo, a

LEMMA WorkOfStart ==
  ASSUME NEW i, NEW s \in States(i)
  PROVE  /\ WorkTodo(i, <<[op |-> "commit", target |-> s], Chain(1), Finish>>)
         /\ <<[op |-> "commit", target |-> s], Chain(1), Finish>> # <<>>
<1> DEFINE a == [op |-> "commit", target |-> s]
           b == Chain(1)
           todo == <<a, b, Finish>>
<1>1. a.op = "commit" /\ a.target = s /\ b.op = "chain" /\ Finish.op = "finish"
  BY DEF Finish, Chain
<1> HIDE DEF a, b
<1>2. /\ todo \in Seq({a, b, Finish}) /\ DOMAIN todo = {1, 2, 3}
      /\ todo[1] = a /\ todo[2] = b /\ todo[3] = Finish
  OBVIOUS
<1>3. IsSequence(todo) /\ todo # <<>>
  BY <1>2, SeqIs
<1> HIDE DEF todo
<1>4. /\ WorkStep(i, a) /\ WorkStep(i, b) /\ WorkStep(i, Finish)
      /\ ~Asking(b) /\ ~Asking(Finish)
  BY <1>1 DEF WorkStep, ActivationOps, Asking
<1>5. \E n \in DOMAIN todo : n > 1 /\ todo[n].op = "chain"
  BY <1>1, <1>2
<1>6. WorkTodo(i, todo)
  BY <1>2, <1>3, <1>4, <1>5 DEF WorkTodo
<1> QED
  BY <1>3, <1>6 DEF todo, a, b

(* A drain that takes an event: it has begun, and the activation is on     *)
(* top.                                                                    *)
Begun(st, e) ==
  <<Activation(st[1].todo[1].i, e, <<[op |-> "select"], Finish>>),
    [st[1] EXCEPT !.todo = <<Again(st[1].todo[1])>> \o Tail(@)]>> \o Tail(st)

LEMMA EventBegins ==
  ASSUME NEW st, StackOK(st), st # <<>>, st[1].activation = FALSE,
         NEW e, st[1].todo[1].op = "drain",
         st[1].todo[1].entered \/ ~Working(st, st[1].todo[1].i),
         NEW new, new = Begun(st, e)
  PROVE  /\ StackOK(new)
         /\ \A j : Working(new, j) <=> Working(st, j) \/ j = st[1].todo[1].i
         /\ \A j : Settling(st, j) => Settling(new, j)
         /\ \A j : Draining(st, j) => Draining(new, j)
         /\ \A j, t : Ticking(new, j, t) <=> Ticking(st, j, t)
<1> DEFINE s == st[1].todo[1]
           i == s.i
           tl == Tail(st)
           r == Tail(st[1].todo)
           s2 == Again(s)
           todo == <<s2>> \o r
           g == [st[1] EXCEPT !.todo = todo]
           mid == <<g>> \o tl
<1>1. /\ Frame(st[1]) /\ StackOK(tl)
      /\ tl # <<>> => tl[1].todo[1].op \in {"sink", "drain"}
      /\ Resumed(s) => ~Working(tl, i)
  BY StackPopped
<1>2. DOMAIN st[1] = CallFields /\ CallTodo(st[1].todo) /\ st[1].todo # <<>>
  BY <1>1 DEF Frame
<1>3. /\ Fresh(r) /\ CallStep(s)
      /\ \A m \in DOMAIN st[1].todo : st[1].todo[m].op # "timer"
      /\ \A m \in DOMAIN r : r[m].op # "timer"
      /\ \A j : HasDrain(st[1].todo, j) <=> IsDrain(s, j) \/ HasDrain(r, j)
      /\ \A j, t : HasTimer(st[1].todo, j, t) <=> HasTimer(r, j, t)
  BY <1>2, CallRest
<1>4. i \in Instances /\ DOMAIN s = DrainFields
  BY <1>3 DEF CallStep
<1>5. s2.op = "drain" /\ s2.i = i /\ s2.entered = TRUE /\ DOMAIN s2 = DrainFields
  BY <1>4 DEF Again, DrainFields
<1>6. /\ \A j : Working(st, j) <=> (Resumed(s) /\ i = j) \/ Working(tl, j)
      /\ \A j : Settling(st, j) <=> Settling(tl, j)
      /\ \A j : Draining(st, j) <=> HasDrain(st[1].todo, j) \/ Draining(tl, j)
      /\ \A j, t : Ticking(st, j, t) <=> HasTimer(st[1].todo, j, t) \/ Ticking(tl, j, t)
  <2>1. IsSequence(st)
    BY DEF StackOK
  <2>2. \A j : Working(st, j) <=> (Resumed(s) /\ i = j) \/ Working(tl, j)
    BY <2>1, StackSplits
  <2>3. \A j : Settling(st, j) <=> Settling(tl, j)
    BY <2>1, StackSplits
  <2>4. \A j : Draining(st, j) <=> HasDrain(st[1].todo, j) \/ Draining(tl, j)
    BY <2>1, StackSplits DEF HasDrain
  <2>5. \A j, t : Ticking(st, j, t) <=> HasTimer(st[1].todo, j, t) \/ Ticking(tl, j, t)
    BY <2>1, StackSplits DEF HasTimer
  <2> QED
    BY <2>2, <2>3, <2>4, <2>5
<1> HIDE DEF s2
<1>7. /\ IsSequence(todo) /\ Len(todo) = Len(r) + 1 /\ Len(r) \in Nat /\ DOMAIN r = 1 .. Len(r)
      /\ DOMAIN todo = 1 .. Len(r) + 1 /\ todo[1] = s2
      /\ \A m \in 2 .. Len(r) + 1 : todo[m] = r[m - 1]
      /\ todo # <<>>
  <2>1. IsSequence(r)
    BY <1>3 DEF Fresh, CallTodo
  <2>2. /\ IsSequence(todo) /\ Len(todo) = Len(r) + 1 /\ todo[1] = s2
        /\ \A m \in 2 .. Len(r) + 1 : todo[m] = r[m - 1]
    BY <2>1, FrontIs
  <2> HIDE DEF todo, r
  <2>3. Len(r) \in Nat /\ DOMAIN r = 1 .. Len(r)
    BY <2>1, SeqFacts
  <2>4. DOMAIN todo = 1 .. Len(todo) /\ (todo # <<>> <=> Len(todo) >= 1)
    BY <2>2, SeqFacts
  <2> QED
    BY <2>1, <2>2, <2>3, <2>4
<1>8. g.todo = todo /\ g.activation = FALSE /\ DOMAIN g = CallFields
  BY <1>2 DEF CallFields
<1>9. new = <<Activation(i, e, <<[op |-> "select"], Finish>>)>> \o mid
  <2>1. [st[1] EXCEPT !.todo = <<Again(st[1].todo[1])>> \o Tail(@)] = g
    BY DEF s2
  <2>2. IsSequence(tl)
    BY <1>1 DEF StackOK
  <2> DEFINE a == Activation(i, e, <<[op |-> "select"], Finish>>)
  <2>3. new = <<a, g>> \o tl
    BY <2>1 DEF Begun
  <2> HIDE DEF a, g, tl
  <2>4. <<a, g>> \o tl = <<a>> \o (<<g>> \o tl)
    BY <2>2, TwoFronts
  <2> QED
    BY <2>3, <2>4 DEF a
<1> HIDE DEF s, tl, r, todo, g, mid
<1>10. \A m \in DOMAIN todo : m = 1 \/ (m # 1 /\ m - 1 \in DOMAIN r /\ todo[m] = r[m - 1])
  BY <1>7
<1>11. \A m \in DOMAIN r : m + 1 \in DOMAIN todo /\ todo[m + 1] = r[m]
  BY <1>7
<1>12. CallStep(s2) /\ Resumed(s2)
  BY <1>4, <1>5 DEF CallStep, CallOps, Resumed
<1>13. \A m \in DOMAIN todo : /\ CallStep(todo[m]) /\ todo[m].op # "timer"
                              /\ Resumed(todo[m]) => m = 1
  BY <1>3, <1>5, <1>7, <1>10, <1>12 DEF Fresh, CallTodo
<1>14. Frame(g)
  BY <1>7, <1>8, <1>13 DEF Frame, CallTodo
<1>15. /\ \A j : HasDrain(r, j) => HasDrain(todo, j)
       /\ HasDrain(todo, i)
       /\ \A j, t : ~HasTimer(todo, j, t) /\ ~HasTimer(r, j, t)
  <2>1. \A j : HasDrain(r, j) => HasDrain(todo, j)
    BY <1>11 DEF HasDrain
  <2>2. 1 \in DOMAIN todo
    BY <1>7
  <2>3. HasDrain(todo, i)
    BY <2>2, <1>5, <1>7 DEF HasDrain, IsDrain
  <2>4. \A j, t : ~HasTimer(todo, j, t) /\ ~HasTimer(r, j, t)
    BY <1>3, <1>13 DEF HasTimer
  <2> QED
    BY <2>1, <2>3, <2>4
<1>16. ~Working(tl, i)
  BY <1>1, <1>6 DEF Resumed, s
<1>17. tl # <<>> => Base(g, tl[1])
  BY <1>8 DEF Base
<1>18. StackOK(mid) /\ mid # <<>> /\ Tail(mid) = tl /\ mid[1] = g
  <2>1. g.activation => tl # <<>>
    BY <1>8
  <2>2. ~Working(tl, g.todo[1].i)
    BY <1>5, <1>7, <1>8, <1>16
  <2> QED
    BY <2>1, <2>2, <1>1, <1>14, <1>17, StackPushed DEF mid
<1>19. /\ \A j : Working(mid, j) <=> j = i \/ Working(tl, j)
       /\ \A j : Settling(mid, j) <=> Settling(tl, j)
       /\ \A j : Draining(mid, j) <=> HasDrain(todo, j) \/ Draining(tl, j)
       /\ \A j, t : Ticking(mid, j, t) <=> HasTimer(todo, j, t) \/ Ticking(tl, j, t)
  <2>1. IsSequence(mid)
    BY <1>18 DEF StackOK
  <2>2. \A j : Working(mid, j) <=> j = i \/ Working(tl, j)
    BY <2>1, <1>5, <1>7, <1>8, <1>12, <1>18, StackSplits, ZenonT(30)
  <2>3. \A j : Settling(mid, j) <=> Settling(tl, j)
    BY <2>1, <1>8, <1>18, StackSplits
  <2>4. \A j : Draining(mid, j) <=> HasDrain(todo, j) \/ Draining(tl, j)
    BY <2>1, <1>8, <1>18, StackSplits DEF HasDrain
  <2>5. \A j, t : Ticking(mid, j, t) <=> HasTimer(todo, j, t) \/ Ticking(tl, j, t)
    BY <2>1, <1>8, <1>18, StackSplits DEF HasTimer
  <2> QED
    BY <2>2, <2>3, <2>4, <2>5
<1>20. IsDrain(mid[1].todo[1], i) /\ mid[1].todo[1].entered
  BY <1>5, <1>7, <1>8, <1>18 DEF IsDrain
<1>21. /\ StackOK(new)
       /\ \A j : Working(new, j) <=> Working(mid, j)
       /\ \A j : Settling(mid, j) => Settling(new, j)
       /\ \A j : Draining(new, j) <=> Draining(mid, j)
       /\ \A j, t : Ticking(new, j, t) <=> Ticking(mid, j, t)
  <2> DEFINE w == <<[op |-> "select"], Finish>>
  <2>1. WorkTodo(i, w) /\ w # <<>>
    BY WorkOfEvent
  <2>2. new = <<Activation(i, e, w)>> \o mid
    BY <1>9
  <2> HIDE DEF w
  <2>3. /\ StackOK(<<Activation(i, e, w)>> \o mid)
        /\ \A j : Working(<<Activation(i, e, w)>> \o mid, j) <=> Working(mid, j)
        /\ \A j : Settling(mid, j) => Settling(<<Activation(i, e, w)>> \o mid, j)
        /\ \A j : Draining(<<Activation(i, e, w)>> \o mid, j) <=> Draining(mid, j)
        /\ \A j, t : Ticking(<<Activation(i, e, w)>> \o mid, j, t) <=> Ticking(mid, j, t)
    BY <2>1, <1>4, <1>18, <1>20, WorkBegins
  <2> QED
    BY <2>2, <2>3
<1>22. \A j : Working(new, j) <=> Working(st, j) \/ j = i
  BY <1>6, <1>19, <1>21
<1>23. \A j : Draining(st, j) => Draining(new, j)
  BY <1>3, <1>6, <1>15, <1>19, <1>21 DEF IsDrain
<1>24. \A j, t : Ticking(new, j, t) <=> Ticking(st, j, t)
  BY <1>3, <1>6, <1>15, <1>19, <1>21
<1>25. \A j : Settling(st, j) => Settling(new, j)
  BY <1>6, <1>19, <1>21
<1> QED
  BY <1>21, <1>22, <1>23, <1>24, <1>25, Zenon DEF s


-----------------------------------------------------------------------------
(* Instance tables: what the operations on one keep.                       *)

Kept(i, x, y, time) ==
  /\ InstanceOK(i, y, time)
  /\ y.processing = x.processing
  /\ y.evaluated = x.evaluated
  /\ \A t \in Timers(i) : Reported(x, t) => Reported(y, t)

(* A slot is left alone, stopped, or counts from now on.                   *)
SlotKept(old, new, time) ==
  /\ SlotOK(new, time)
  /\ new = old \/ ~new.running \/ (new.origin = time /\ new.ticks = 0)

LEMMA ZeroPeriods ==
  ASSUME NEW d \in Nat \ {0}
  PROVE  0 \div d = 0
  OBVIOUS

(* The fields that matter for Kept.                                        *)
LEMMA KeptBy ==
  ASSUME NEW i, NEW time \in Nat, NEW x, InstanceOK(i, x, time), NEW y,
         DOMAIN y = InstanceFields,
         y.state \in States(i) \cup {None}, y.deferred \in States(i) \cup {None},
         "slots" \in DOMAIN y.queue,
         y.processing = x.processing, y.evaluated = x.evaluated,
         y.exhausted \in BOOLEAN,
         DOMAIN y.timers = Timers(i),
         \A t \in Timers(i) : SlotKept(x.timers[t], y.timers[t], time)
  PROVE  Kept(i, x, y, time)
<1>1. x.processing \in BOOLEAN /\ x.evaluated \in Nat /\ x.evaluated <= time
  BY DEF InstanceOK
<1>2. InstanceOK(i, y, time)
  BY <1>1 DEF InstanceOK, SlotKept
<1>3. ASSUME NEW t \in Timers(i), Reported(x, t)
      PROVE  Reported(y, t)
  <2> DEFINE n == y.timers[t]
  <2>1. SlotKept(x.timers[t], n, time)
    OBVIOUS
  <2>2. CASE n = x.timers[t]
    BY <2>2, <1>3 DEF Reported
  <2>3. CASE ~n.running
    BY <2>3 DEF Reported
  <2>4. CASE n.origin = time /\ n.ticks = 0
    <3>1. n.duration \in Nat \ {0}
      BY <2>1 DEF SlotKept, SlotOK
    <3>2. y.evaluated \in n.origin .. TimeTop - 1 => y.evaluated - n.origin = 0
      BY <1>1, <2>4, EngineAssumption
    <3>3. 0 \div n.duration = 0
      BY <3>1, ZeroPeriods
    <3> QED
      BY <3>2, <3>3, <2>4 DEF Reported
  <2> QED
    BY <2>1, <2>2, <2>3, <2>4 DEF SlotKept
<1> QED
  BY <1>2, <1>3 DEF Kept

(* A table whose timers are left alone.                                    *)
LEMMA KeptTimers ==
  ASSUME NEW i, NEW time, NEW x, InstanceOK(i, x, time)
  PROVE  /\ DOMAIN x = InstanceFields /\ DOMAIN x.timers = Timers(i)
         /\ \A t \in Timers(i) : SlotKept(x.timers[t], x.timers[t], time)
  BY DEF InstanceOK, SlotKept

(* What push leaves of a queue: refused, the events are those before.      *)
LEMMA PushKeeps ==
  ASSUME NEW q, NEW e, "slots" \in DOMAIN q
  PROVE  /\ "slots" \in DOMAIN push(q, e).queue
         /\ push(q, e).ok \in BOOLEAN
         /\ ~push(q, e).ok => push(q, e).queue.slots = q.slots
<1>1. /\ Refused(q).queue = q /\ Refused(q).ok = FALSE
  BY DEF Refused
<1>2. \A s : /\ Admitted(q, s).ok = TRUE /\ "slots" \in DOMAIN Admitted(q, s).queue
  BY DEF Admitted
<1> DEFINE u == [q EXCEPT !.hard_fault_terminal = TRUE]
<1>3. "slots" \in DOMAIN u /\ u.slots = q.slots
  OBVIOUS
<1>4. Refused(u).queue = u /\ Refused(u).ok = FALSE
  BY DEF Refused
<1> HIDE DEF u
<1>5. \/ push(q, e) = Refused(q)
      \/ push(q, e) = Refused(u)
      \/ \E s : push(q, e) = Admitted(q, s)
  BY DEF push, u
<1> QED
  BY <1>1, <1>2, <1>3, <1>4, <1>5

(* A push into the queue of an instance.                                   *)
LEMMA QueuedKept ==
  ASSUME NEW i, NEW time \in Nat, NEW x, InstanceOK(i, x, time),
         NEW e
  PROVE  /\ Kept(i, x, queued(x, e), time)
         /\ queued(x, e).lifecycle = x.lifecycle
         /\ queued(x, e).deferred = x.deferred
         /\ queued(x, e).exhausted = x.exhausted
         /\ ~push(x.queue, e).ok => queued(x, e).queue.slots = x.queue.slots
<1> DEFINE y == queued(x, e)
<1>1. DOMAIN x = InstanceFields /\ "slots" \in DOMAIN x.queue
  BY DEF InstanceOK
<1>2. /\ DOMAIN y = InstanceFields
      /\ y.lifecycle = x.lifecycle /\ y.state = x.state /\ y.deferred = x.deferred
      /\ y.timers = x.timers /\ y.processing = x.processing
      /\ y.exhausted = x.exhausted /\ y.evaluated = x.evaluated
      /\ y.queue = push(x.queue, e).queue
  BY <1>1 DEF queued, InstanceFields
<1>4. /\ "slots" \in DOMAIN y.queue
      /\ ~push(x.queue, e).ok => y.queue.slots = x.queue.slots
  BY <1>1, <1>2, PushKeeps
<1> HIDE DEF y
<1>6. x.state \in States(i) \cup {None} /\ x.deferred \in States(i) \cup {None} /\ x.exhausted \in BOOLEAN
  BY DEF InstanceOK
<1>7. Kept(i, x, y, time)
  BY <1>2, <1>4, <1>6, KeptBy, KeptTimers
<1> QED
  BY <1>2, <1>4, <1>7 DEF y

(* Changes of one field.                                                   *)
LEMMA FieldKept ==
  ASSUME NEW i, NEW time \in Nat, NEW x, InstanceOK(i, x, time)
  PROVE  /\ Kept(i, x, x, time)
         /\ \A s \in States(i) : Kept(i, x, [x EXCEPT !.state = s], time)
         /\ \A s \in States(i) \cup {None} : Kept(i, x, [x EXCEPT !.deferred = s], time)
         /\ \A v : Kept(i, x, [x EXCEPT !.variables = v], time)
         /\ \A s : [x EXCEPT !.state = s].deferred = x.deferred
         /\ \A s : [x EXCEPT !.deferred = s].deferred = s
         /\ \A v : [x EXCEPT !.variables = v].deferred = x.deferred
<1>1. /\ DOMAIN x = InstanceFields /\ "slots" \in DOMAIN x.queue
      /\ x.state \in States(i) \cup {None} /\ x.deferred \in States(i) \cup {None}
      /\ x.exhausted \in BOOLEAN
  BY DEF InstanceOK
<1>2. Kept(i, x, x, time)
  BY <1>1, KeptBy, KeptTimers
<1>3. ASSUME NEW s
      PROVE  /\ DOMAIN [x EXCEPT !.state = s] = InstanceFields
             /\ [x EXCEPT !.state = s].state = s
             /\ [x EXCEPT !.state = s].deferred = x.deferred
             /\ [x EXCEPT !.state = s].queue = x.queue
             /\ [x EXCEPT !.state = s].timers = x.timers
             /\ [x EXCEPT !.state = s].processing = x.processing
             /\ [x EXCEPT !.state = s].exhausted = x.exhausted
             /\ [x EXCEPT !.state = s].evaluated = x.evaluated
  BY <1>1 DEF InstanceFields
<1>4. ASSUME NEW s \in States(i)
      PROVE  Kept(i, x, [x EXCEPT !.state = s], time)
  <2> DEFINE y == [x EXCEPT !.state = s]
  <2>1. /\ DOMAIN y = InstanceFields /\ y.state = s /\ y.deferred = x.deferred
        /\ y.queue = x.queue /\ y.timers = x.timers /\ y.processing = x.processing
        /\ y.exhausted = x.exhausted /\ y.evaluated = x.evaluated
    BY <1>3
  <2> HIDE DEF y
  <2>2. Kept(i, x, y, time)
    BY <2>1, <1>1, KeptBy, KeptTimers
  <2> QED
    BY <2>2 DEF y
<1>5. ASSUME NEW s \in States(i) \cup {None}
      PROVE  Kept(i, x, [x EXCEPT !.deferred = s], time)
  <2> DEFINE y == [x EXCEPT !.deferred = s]
  <2>1. /\ DOMAIN y = InstanceFields /\ y.state = x.state /\ y.deferred = s
        /\ y.queue = x.queue /\ y.timers = x.timers /\ y.processing = x.processing
        /\ y.exhausted = x.exhausted /\ y.evaluated = x.evaluated
    BY <1>1 DEF InstanceFields
  <2> HIDE DEF y
  <2>2. Kept(i, x, y, time)
    BY <2>1, <1>1, KeptBy, KeptTimers
  <2> QED
    BY <2>2 DEF y
<1>6. ASSUME NEW v
      PROVE  Kept(i, x, [x EXCEPT !.variables = v], time)
  <2> DEFINE y == [x EXCEPT !.variables = v]
  <2>1. /\ DOMAIN y = InstanceFields /\ y.state = x.state /\ y.deferred = x.deferred
        /\ y.queue = x.queue /\ y.timers = x.timers /\ y.processing = x.processing
        /\ y.exhausted = x.exhausted /\ y.evaluated = x.evaluated
    BY <1>1 DEF InstanceFields
  <2> HIDE DEF y
  <2>2. Kept(i, x, y, time)
    BY <2>1, <1>1, KeptBy, KeptTimers
  <2> QED
    BY <2>2 DEF y
<1>7. /\ \A s : [x EXCEPT !.deferred = s].deferred = s
      /\ \A v : [x EXCEPT !.variables = v].deferred = x.deferred
  BY <1>1 DEF InstanceFields
<1> QED
  BY <1>2, <1>3, <1>4, <1>5, <1>6, <1>7


(* Every timer stopped.                                                    *)
LEMMA StoppedSlots ==
  ASSUME NEW i, NEW time, NEW x, InstanceOK(i, x, time), NEW u, u.timers = x.timers,
         DOMAIN u = InstanceFields
  PROVE  /\ DOMAIN Stopped(u) = InstanceFields
         /\ \A f \in InstanceFields \ {"timers"} : Stopped(u)[f] = u[f]
         /\ DOMAIN Stopped(u).timers = Timers(i)
         /\ \A t \in Timers(i) : SlotKept(x.timers[t], Stopped(u).timers[t], time)
<1> DEFINE y == Stopped(u)
<1>1. DOMAIN u.timers = Timers(i) /\ \A t \in Timers(i) : SlotOK(u.timers[t], time)
  BY DEF InstanceOK
<1>2. DOMAIN y = InstanceFields /\ \A f \in InstanceFields \ {"timers"} : y[f] = u[f]
  BY DEF Stopped, InstanceFields
<1>3. y.timers = [t \in Timers(i) |-> [u.timers[t] EXCEPT !.running = FALSE]]
  BY <1>1 DEF Stopped, InstanceFields
<1> HIDE DEF y
<1>4. ASSUME NEW t \in Timers(i)
      PROVE  SlotKept(x.timers[t], y.timers[t], time)
  <2> DEFINE o == u.timers[t]
             n == [o EXCEPT !.running = FALSE]
  <2>1. SlotOK(o, time)
    BY <1>1
  <2>2. /\ DOMAIN n = SlotFields /\ n.running = FALSE /\ n.duration = o.duration
        /\ n.origin = o.origin /\ n.ticks = o.ticks /\ n.deadline_us = o.deadline_us
    BY <2>1 DEF SlotOK, SlotFields
  <2>3. y.timers[t] = n
    BY <1>3
  <2> HIDE DEF n
  <2>4. SlotOK(n, time)
    BY <2>1, <2>2 DEF SlotOK
  <2> QED
    BY <2>2, <2>3, <2>4 DEF SlotKept
<1> QED
  BY <1>2, <1>3, <1>4 DEF y

(* suspend, fault and disable: a pending request is dropped, and a table   *)
(* that changes is no longer active.                                       *)
LEMMA LifecycleKept ==
  ASSUME NEW i, NEW time \in Nat, NEW x, InstanceOK(i, x, time)
  PROVE  /\ Kept(i, x, suspended(x), time)
         /\ suspended(x) = x \/ (suspended(x).deferred = None /\ ~is_active(suspended(x)))
         /\ Kept(i, x, faulted(x), time)
         /\ faulted(x) = x \/ (faulted(x).deferred = None /\ ~is_active(faulted(x)))
         /\ Kept(i, x, disabled(x), time)
         /\ disabled(x).deferred = None /\ ~is_active(disabled(x))
<1>1. /\ DOMAIN x = InstanceFields /\ "slots" \in DOMAIN x.queue
      /\ x.state \in States(i) \cup {None} /\ None \in States(i) \cup {None}
      /\ x.exhausted \in BOOLEAN
  BY DEF InstanceOK
<1>2. Kept(i, x, x, time)
  BY FieldKept
<1>3. /\ Kept(i, x, suspended(x), time)
      /\ suspended(x) = x \/ (suspended(x).deferred = None /\ ~is_active(suspended(x)))
  <2> DEFINE y == [x EXCEPT !.lifecycle = "SUSPENDED", !.deferred = None]
  <2>1. /\ DOMAIN y = InstanceFields /\ y.lifecycle = "SUSPENDED" /\ y.deferred = None
        /\ y.state = x.state /\ y.queue = x.queue /\ y.timers = x.timers
        /\ y.processing = x.processing /\ y.exhausted = x.exhausted
        /\ y.evaluated = x.evaluated
    BY <1>1 DEF InstanceFields
  <2>2. suspended(x) = x \/ suspended(x) = y
    BY DEF suspended
  <2> HIDE DEF y
  <2>3. Kept(i, x, y, time)
    BY <2>1, <1>1, KeptBy, KeptTimers
  <2> QED
    BY <2>1, <2>2, <2>3, <1>2 DEF is_active
<1>4. /\ Kept(i, x, faulted(x), time)
      /\ faulted(x) = x \/ (faulted(x).deferred = None /\ ~is_active(faulted(x)))
  <2> DEFINE u == [x EXCEPT !.lifecycle = "FAULT", !.deferred = None]
             y == Stopped(u)
  <2>1. /\ DOMAIN u = InstanceFields /\ u.lifecycle = "FAULT" /\ u.deferred = None
        /\ u.state = x.state /\ u.queue = x.queue /\ u.timers = x.timers
        /\ u.processing = x.processing /\ u.exhausted = x.exhausted
        /\ u.evaluated = x.evaluated
    BY <1>1 DEF InstanceFields
  <2>2. faulted(x) = x \/ faulted(x) = y
    BY DEF faulted
  <2> HIDE DEF u
  <2>3. /\ DOMAIN y = InstanceFields
        /\ \A f \in InstanceFields \ {"timers"} : y[f] = u[f]
        /\ DOMAIN y.timers = Timers(i)
        /\ \A t \in Timers(i) : SlotKept(x.timers[t], y.timers[t], time)
    BY <2>1, StoppedSlots
  <2> HIDE DEF y
  <2>4. /\ y.lifecycle = u.lifecycle /\ y.deferred = u.deferred /\ y.state = u.state
        /\ y.queue = u.queue /\ y.processing = u.processing /\ y.exhausted = u.exhausted
        /\ y.evaluated = u.evaluated
    BY <2>3 DEF InstanceFields
  <2>5. Kept(i, x, y, time)
    BY <2>1, <2>3, <2>4, <1>1, KeptBy
  <2> QED
    BY <2>1, <2>2, <2>4, <2>5, <1>2 DEF is_active
<1>5. /\ Kept(i, x, disabled(x), time)
      /\ disabled(x).deferred = None /\ ~is_active(disabled(x))
  <2> DEFINE u == [x EXCEPT !.lifecycle = "DISABLED", !.deferred = None, !.queue = clear(@)]
             y == Stopped(u)
  <2>1. /\ DOMAIN u = InstanceFields /\ u.lifecycle = "DISABLED" /\ u.deferred = None
        /\ u.state = x.state /\ u.queue = clear(x.queue) /\ u.timers = x.timers
        /\ u.processing = x.processing /\ u.exhausted = x.exhausted
        /\ u.evaluated = x.evaluated
    BY <1>1 DEF InstanceFields
  <2>2. disabled(x) = y
    BY DEF disabled
  <2>3. "slots" \in DOMAIN clear(x.queue)
    BY <1>1 DEF clear
  <2> HIDE DEF u
  <2>4. /\ DOMAIN y = InstanceFields
        /\ \A f \in InstanceFields \ {"timers"} : y[f] = u[f]
        /\ DOMAIN y.timers = Timers(i)
        /\ \A t \in Timers(i) : SlotKept(x.timers[t], y.timers[t], time)
    BY <2>1, StoppedSlots
  <2> HIDE DEF y
  <2>5. /\ y.lifecycle = u.lifecycle /\ y.deferred = u.deferred /\ y.state = u.state
        /\ y.queue = u.queue /\ y.processing = u.processing /\ y.exhausted = u.exhausted
        /\ y.evaluated = u.evaluated
    BY <2>4 DEF InstanceFields
  <2>6. Kept(i, x, y, time)
    BY <2>1, <2>3, <2>4, <2>5, <1>1, KeptBy
  <2> QED
    BY <2>1, <2>2, <2>5, <2>6 DEF is_active
<1> QED
  BY <1>3, <1>4, <1>5

(* A table set up from its declaration: no timer runs.                     *)
LEMMA InitializedSlots ==
  ASSUME NEW i \in Instances, NEW time \in Nat, NEW x, DOMAIN x = InstanceFields
  PROVE  /\ DOMAIN initialized(i, x) = InstanceFields
         /\ initialized(i, x).state = None /\ initialized(i, x).deferred = None
         /\ initialized(i, x).queue = clear(x.queue)
         /\ initialized(i, x).lifecycle = x.lifecycle
         /\ initialized(i, x).processing = x.processing
         /\ initialized(i, x).exhausted = x.exhausted
         /\ initialized(i, x).evaluated = x.evaluated
         /\ DOMAIN initialized(i, x).timers = Timers(i)
         /\ \A t \in Timers(i) : /\ SlotOK(initialized(i, x).timers[t], time)
                                 /\ ~initialized(i, x).timers[t].running
<1> DEFINE y == initialized(i, x)
<1>1. /\ DOMAIN y = InstanceFields /\ y.state = None /\ y.deferred = None
      /\ y.queue = clear(x.queue) /\ y.lifecycle = x.lifecycle
      /\ y.processing = x.processing /\ y.exhausted = x.exhausted
      /\ y.evaluated = x.evaluated
  BY DEF initialized, InstanceFields
<1>2. y.timers = [t \in Timers(i) |->
              [running |-> FALSE, deadline_us |-> 0, duration |-> Machine[i].timers[t].duration,
               repeat |-> Machine[i].timers[t].repeat, origin |-> 0, ticks |-> 0,
               lapped |-> FALSE]]
  BY DEF initialized, InstanceFields
<1> HIDE DEF y
<1>3. ASSUME NEW t \in Timers(i)
      PROVE  SlotOK(y.timers[t], time) /\ ~y.timers[t].running
  <2>1. Machine[i].timers[t].duration \in Nat \ {0}
    BY EngineAssumption DEF SoundMachine, SoundDuration
  <2> DEFINE n == [running |-> FALSE, deadline_us |-> 0, duration |-> Machine[i].timers[t].duration,
                   repeat |-> Machine[i].timers[t].repeat, origin |-> 0, ticks |-> 0,
                   lapped |-> FALSE]
  <2>2. y.timers[t] = n
    BY <1>2
  <2>3. /\ DOMAIN n = SlotFields /\ n.running = FALSE /\ n.deadline_us = 0
        /\ n.duration = Machine[i].timers[t].duration /\ n.origin = 0 /\ n.ticks = 0
    BY DEF SlotFields
  <2> HIDE DEF n
  <2>4. n.duration \in Nat \ {0} /\ 0 \in Nat /\ FALSE \in BOOLEAN
    BY <2>1, <2>3
  <2>5. SlotOK(n, time)
    BY <2>3, <2>4 DEF SlotOK
  <2> QED
    BY <2>2, <2>3, <2>5
<1> QED
  BY <1>1, <1>2, <1>3 DEF y

(* enable and reset.                                                       *)
LEMMA InitializedKept ==
  ASSUME NEW i \in Instances, NEW time \in Nat, NEW x, InstanceOK(i, x, time)
  PROVE  /\ Kept(i, x, [initialized(i, x) EXCEPT !.lifecycle = "READY"], time)
         /\ [initialized(i, x) EXCEPT !.lifecycle = "READY"].deferred = None
         /\ ~is_active([initialized(i, x) EXCEPT !.lifecycle = "READY"])
<1> DEFINE u == initialized(i, x)
           y == [u EXCEPT !.lifecycle = "READY"]
<1>1. /\ DOMAIN x = InstanceFields /\ "slots" \in DOMAIN x.queue
      /\ x.exhausted \in BOOLEAN
  BY DEF InstanceOK
<1>2. "slots" \in DOMAIN clear(x.queue)
  BY <1>1 DEF clear
<1>3. /\ DOMAIN u = InstanceFields /\ u.state = None /\ u.deferred = None
      /\ u.queue = clear(x.queue) /\ u.processing = x.processing /\ u.exhausted = x.exhausted
      /\ u.evaluated = x.evaluated /\ DOMAIN u.timers = Timers(i)
      /\ \A t \in Timers(i) : SlotOK(u.timers[t], time) /\ ~u.timers[t].running
  BY <1>1, InitializedSlots
<1> HIDE DEF u
<1>4. /\ DOMAIN y = InstanceFields /\ y.lifecycle = "READY"
      /\ y.state = u.state /\ y.deferred = u.deferred
      /\ y.queue = u.queue /\ y.processing = u.processing /\ y.exhausted = u.exhausted
      /\ y.evaluated = u.evaluated /\ y.timers = u.timers
  BY <1>3 DEF InstanceFields
<1> HIDE DEF y
<1>5. \A t \in Timers(i) : SlotKept(x.timers[t], y.timers[t], time)
  BY <1>3, <1>4 DEF SlotKept
<1>6. Kept(i, x, y, time)
  BY <1>1, <1>2, <1>3, <1>4, <1>5, KeptBy
<1> QED
  BY <1>3, <1>4, <1>6 DEF y, u, is_active

(* A countdown that starts now.                                            *)
LEMMA ArmedKept ==
  ASSUME now \in Nat, NEW old, NEW d \in Nat \ {0}, NEW r
  PROVE  /\ SlotKept(old, armed(d, r), now)
         /\ \A b \in BOOLEAN : SlotKept(old, [armed(d, r) EXCEPT !.running = b], now)
<1> DEFINE n == armed(d, r)
           end == sat_add(now, d, TimeTop)
<1>1. /\ DOMAIN n = SlotFields /\ n.running = TRUE /\ n.deadline_us = end /\ n.duration = d
      /\ n.origin = now /\ n.ticks = 0
  BY DEF armed, SlotFields
<1> HIDE DEF n
<1>2. (0 + 1) * d = d /\ 0 * d = 0
  OBVIOUS
<1>3. end \in Nat /\ (end = now + d \/ (end = TimeTop /\ now + d >= TimeTop))
  BY EngineAssumption DEF sat_add
<1> HIDE DEF end
<1>4. ASSUME NEW k, DOMAIN k = SlotFields, k.running \in BOOLEAN, k.deadline_us = end,
             k.duration = d, k.origin = now, k.ticks = 0
      PROVE  SlotKept(old, k, now)
  <2>1. OnGrid(k)
    BY <1>2, <1>3, <1>4 DEF OnGrid
  <2>2. k.origin + k.ticks * k.duration <= now
    BY <1>2, <1>4
  <2>3. k.duration \in Nat \ {0} /\ k.origin \in Nat /\ k.ticks \in Nat /\ k.deadline_us \in Nat
    BY <1>3, <1>4
  <2>4. SlotOK(k, now)
    BY <1>4, <2>1, <2>2, <2>3 DEF SlotOK
  <2> QED
    BY <1>4, <2>4 DEF SlotKept
<1>5. ASSUME NEW b \in BOOLEAN
      PROVE  SlotKept(old, [n EXCEPT !.running = b], now)
  <2> DEFINE k == [n EXCEPT !.running = b]
  <2>1. /\ DOMAIN k = SlotFields /\ k.running = b /\ k.deadline_us = end /\ k.duration = d
        /\ k.origin = now /\ k.ticks = 0
    BY <1>1 DEF SlotFields
  <2> HIDE DEF k
  <2>2. SlotKept(old, k, now)
    BY <2>1, <1>4
  <2> QED
    BY <2>2 DEF k
<1>6. SlotKept(old, n, now)
  BY <1>1, <1>4
<1> QED
  BY <1>5, <1>6 DEF n

(* A change of one slot.                                                   *)
SlotSet(i, x, y, t, slot) ==
  /\ DOMAIN y = InstanceFields
  /\ \A f \in InstanceFields \ {"timers"} : y[f] = x[f]
  /\ DOMAIN y.timers = Timers(i)
  /\ \A k \in Timers(i) : y.timers[k] = IF k = t THEN slot ELSE x.timers[k]

LEMMA SlotChanged ==
  ASSUME NEW i, NEW time \in Nat, NEW x, InstanceOK(i, x, time), NEW t, NEW slot,
         t \in Timers(i) => SlotOK(slot, time), NEW y, SlotSet(i, x, y, t, slot)
  PROVE  /\ InstanceOK(i, y, time)
         /\ y.lifecycle = x.lifecycle /\ y.state = x.state /\ y.deferred = x.deferred
         /\ y.queue = x.queue /\ y.processing = x.processing /\ y.exhausted = x.exhausted
         /\ y.evaluated = x.evaluated
<1>1. \A k \in Timers(i) : SlotOK(y.timers[k], time)
  BY DEF InstanceOK, SlotSet
<1>2. /\ y.lifecycle = x.lifecycle /\ y.state = x.state /\ y.deferred = x.deferred
      /\ y.queue = x.queue /\ y.processing = x.processing /\ y.exhausted = x.exhausted
      /\ y.evaluated = x.evaluated
  BY DEF SlotSet, InstanceFields
<1>3. InstanceOK(i, y, time)
  BY <1>1, <1>2 DEF InstanceOK, SlotSet
<1> QED
  BY <1>2, <1>3

-----------------------------------------------------------------------------
(* Steps of the engine.                                                    *)

(* The current step is the first one of the innermost call.                *)
LEMMA AtTop ==
  ASSUME EngineInv, NEW op, At(op)
  PROVE  /\ stack # <<>> /\ Top = stack[1] /\ Step = stack[1].todo[1] /\ stack[1].todo[1].op = op
         /\ Frame(stack[1]) /\ stack[1].todo # <<>> /\ IsSequence(stack[1].todo)
         /\ op \in ActivationOps => /\ stack[1].activation = TRUE
                                    /\ stack[1].i \in Instances
                                    /\ DOMAIN stack[1] = ActivationFields
                                    /\ stack[1].suspend \in BOOLEAN
                                    /\ WorkStep(stack[1].i, stack[1].todo[1])
                                    /\ WorkTodo(stack[1].i, stack[1].todo)
         /\ op \in CallOps => /\ stack[1].activation = FALSE
                              /\ DOMAIN stack[1] = CallFields
                              /\ CallTodo(stack[1].todo)
                              /\ CallStep(stack[1].todo[1])
<1>1. stack # <<>> /\ Step.op = op
  BY DEF At
<1>2. StackOK(stack) /\ IsSequence(stack)
  BY DEF EngineInv, StackOK
<1>3. Top = stack[1]
  BY <1>1, <1>2, SeqFacts DEF Top
<1>4. Frame(stack[1])
  BY <1>1, <1>2, StackPopped
<1>5. stack[1].todo # <<>> /\ IsSequence(stack[1].todo)
  BY <1>4 DEF Frame, WorkTodo, CallTodo
<1>6. Step = stack[1].todo[1] /\ 1 \in DOMAIN stack[1].todo
  BY <1>3, <1>5, SeqFacts DEF Step
<1>7. CASE stack[1].activation = TRUE
  <2>1. /\ stack[1].i \in Instances /\ DOMAIN stack[1] = ActivationFields
        /\ stack[1].suspend \in BOOLEAN /\ WorkTodo(stack[1].i, stack[1].todo)
    BY <1>4, <1>7 DEF Frame
  <2>2. WorkStep(stack[1].i, stack[1].todo[1])
    BY <2>1, <1>6 DEF WorkTodo
  <2>3. op \notin CallOps
    BY <2>2, <1>1, <1>6 DEF WorkStep, ActivationOps, CallOps
  <2> QED
    BY <2>1, <2>2, <2>3, <1>1, <1>3, <1>4, <1>5, <1>6, <1>7
<1>8. CASE stack[1].activation = FALSE
  <2>1. DOMAIN stack[1] = CallFields /\ CallTodo(stack[1].todo)
    BY <1>4, <1>8 DEF Frame
  <2>2. CallStep(stack[1].todo[1])
    BY <2>1, <1>6 DEF CallTodo
  <2>3. op \notin ActivationOps
    BY <2>2, <1>1, <1>6 DEF CallStep, ActivationOps, CallOps
  <2> QED
    BY <2>1, <2>2, <2>3, <1>1, <1>3, <1>4, <1>5, <1>6, <1>8
<1> QED
  BY <1>4, <1>7, <1>8 DEF Frame

(* Only the table of i changes, to y.                                      *)
InstIs(i, y) ==
  /\ DOMAIN inst' = Instances
  /\ inst'[i] = y
  /\ \A j \in Instances \ {i} : inst'[j] = inst[j]

LEMMA InstExcept ==
  ASSUME EngineInv, NEW i \in Instances, NEW y
  PROVE  /\ inst' = [inst EXCEPT ![i] = y] => InstIs(i, y)
         /\ UNCHANGED inst => InstIs(i, inst[i])
<1>1. DOMAIN inst = Instances
  BY DEF EngineInv, TypeOK
<1> QED
  BY <1>1 DEF InstIs

(* Types when one table is kept and time stands still.                     *)
LEMMA TypesKept ==
  ASSUME EngineInv, NEW i \in Instances, NEW y, Kept(i, inst[i], y, now), InstIs(i, y),
         UNCHANGED <<now, clock>>
  PROVE  TypeOK'
<1>1. \A j \in Instances : InstanceOK(j, inst'[j], now)
  BY DEF InstIs, Kept, EngineInv, TypeOK
<1> QED
  BY <1>1 DEF EngineInv, TypeOK, InstIs

(* A step of an activation: its instance keeps what it has, and asks for   *)
(* a transition only where the request is looked at later.                 *)
LEMMA ActivationStep ==
  ASSUME EngineInv, stack # <<>>, stack[1].activation = TRUE, stack[1].i \in Instances,
         NEW f, SameWork(f, stack[1]),
         NEW b, WorkBlock(stack[1].i, b, Tail(stack[1].todo)),
         stack' = Onward(stack, f, b),
         NEW y, Kept(stack[1].i, inst[stack[1].i], y, now),
         y.deferred # None => /\ stack[1].todo[1].op # "chain"
                              /\ inst[stack[1].i].deferred # None \/ Asking(stack[1].todo[1]),
         InstIs(stack[1].i, y),
         UNCHANGED <<now, clock>>
  PROVE  EngineInv'
<1> DEFINE i == stack[1].i
<1>1. StackOK(stack) /\ \A j \in Instances : Accounted(j, inst[j], stack, now)
  BY DEF EngineInv
<1>2. /\ StackOK(stack')
      /\ \A j : Working(stack', j) <=> Working(stack, j)
      /\ \A j : Draining(stack, j) => Draining(stack', j)
      /\ \A j, t : Ticking(stack', j, t) <=> Ticking(stack, j, t)
      /\ \A j : Settling(stack, j) /\ ~(j = i /\ stack[1].todo[1].op = "chain") => Settling(stack', j)
      /\ Asking(stack[1].todo[1]) => Settling(stack', i)
      /\ Draining(stack', i)
  BY <1>1, WorkGoesOn
<1>3. TypeOK'
  BY TypesKept
<1>4. ASSUME NEW j \in Instances, j # i
      PROVE  Accounted(j, inst'[j], stack', now')
  <2>1. Accounted(j, inst[j], stack, now)
    BY <1>1
  <2>2. inst'[j] = inst[j] /\ now' = now
    BY <1>4 DEF InstIs
  <2>3. Accounted(j, inst[j], stack', now)
    BY <1>2, <1>4, <2>1 DEF Accounted
  <2> QED
    BY <2>2, <2>3
<1>5. Accounted(i, inst'[i], stack', now')
  <2>1. Accounted(i, inst[i], stack, now)
    BY <1>1
  <2>2. inst'[i] = y /\ now' = now
    BY DEF InstIs
  <2>3. y.processing <=> Working(stack', i)
    BY <1>2, <2>1 DEF Accounted, Kept
  <2>4. y.deferred # None => Settling(stack', i)
    BY <1>2, <2>1 DEF Accounted
  <2>5. \A t \in Timers(i) : Reported(y, t) \/ Ticking(stack', i, t)
    BY <1>2, <2>1 DEF Accounted, Kept
  <2>6. \A t \in Timers(i) : Ticking(stack', i, t) => y.evaluated = now
    BY <1>2, <2>1 DEF Accounted, Kept
  <2>7. Accounted(i, y, stack', now)
    BY <1>2, <2>3, <2>4, <2>5, <2>6 DEF Accounted
  <2> QED
    BY <2>2, <2>7
<1>6. \A j \in Instances : Accounted(j, inst'[j], stack', now')
  BY <1>4, <1>5
<1> QED
  BY <1>2, <1>3, <1>6 DEF EngineInv

(* A call of the host, or of a sink, that concerns one instance.           *)
LEMMA HostStep ==
  ASSUME EngineInv, stack # <<>> => stack[1].todo[1].op = "sink",
         NEW i \in Instances, NEW y, Kept(i, inst[i], y, now), InstIs(i, y),
         y.deferred = None \/ y.deferred = inst[i].deferred,
         NEW c, Fresh(c), \A j, t : ~HasTimer(c, j, t), Enters(c),
         is_active(y) /\ ~is_empty(y.queue) /\ ~y.exhausted => Draining(stack, i) \/ HasDrain(c, i),
         UNCHANGED <<now, clock>>
  PROVE  EngineInv'
<1>1. StackOK(stack) /\ \A j \in Instances : Accounted(j, inst[j], stack, now)
  BY DEF EngineInv
<1>2. /\ StackOK(stack')
      /\ \A j : Working(stack', j) <=> Working(stack, j)
      /\ \A j : Settling(stack', j) <=> Settling(stack, j)
      /\ \A j : Draining(stack', j) <=> HasDrain(c, j) \/ Draining(stack, j)
      /\ \A j, t : Ticking(stack', j, t) <=> Ticking(stack, j, t)
  <2>1. CASE c = <<>>
    <3>1. stack' = stack
      BY <2>1 DEF Enters
    <3>2. \A j : ~HasDrain(c, j)
      BY <2>1 DEF HasDrain
    <3> QED
      BY <3>1, <3>2, <1>1
  <2>2. CASE c # <<>>
    <3>1. stack' = <<Call(c)>> \o stack
      BY <2>2 DEF Enters, Entered
    <3>2. /\ StackOK(<<Call(c)>> \o stack)
          /\ \A j : Working(<<Call(c)>> \o stack, j) <=> Working(stack, j)
          /\ \A j : Settling(<<Call(c)>> \o stack, j) <=> Settling(stack, j)
          /\ \A j : Draining(<<Call(c)>> \o stack, j) <=> HasDrain(c, j) \/ Draining(stack, j)
          /\ \A j, t : Ticking(<<Call(c)>> \o stack, j, t) <=> HasTimer(c, j, t) \/ Ticking(stack, j, t)
      BY <2>2, <1>1, CallBegins
    <3> QED
      BY <3>1, <3>2
  <2> QED
    BY <2>1, <2>2
<1>3. TypeOK'
  BY TypesKept
<1>4. ASSUME NEW j \in Instances, j # i
      PROVE  Accounted(j, inst'[j], stack', now')
  <2>1. Accounted(j, inst[j], stack, now)
    BY <1>1
  <2>2. inst'[j] = inst[j] /\ now' = now
    BY <1>4 DEF InstIs
  <2>3. Accounted(j, inst[j], stack', now)
    BY <1>2, <2>1 DEF Accounted
  <2> QED
    BY <2>2, <2>3
<1>5. Accounted(i, inst'[i], stack', now')
  <2>1. Accounted(i, inst[i], stack, now)
    BY <1>1
  <2>2. inst'[i] = y /\ now' = now
    BY DEF InstIs
  <2>3. y.processing <=> Working(stack', i)
    BY <1>2, <2>1 DEF Accounted, Kept
  <2>4. y.deferred # None => Settling(stack', i)
    BY <1>2, <2>1 DEF Accounted
  <2>5. \A t \in Timers(i) : Reported(y, t) \/ Ticking(stack', i, t)
    BY <1>2, <2>1 DEF Accounted, Kept
  <2>6. \A t \in Timers(i) : Ticking(stack', i, t) => y.evaluated = now
    BY <1>2, <2>1 DEF Accounted, Kept
  <2>7. is_active(y) /\ ~is_empty(y.queue) /\ ~y.exhausted => Draining(stack', i)
    BY <1>2
  <2>8. Accounted(i, y, stack', now)
    BY <2>3, <2>4, <2>5, <2>6, <2>7 DEF Accounted
  <2> QED
    BY <2>2, <2>8
<1>6. \A j \in Instances : Accounted(j, inst'[j], stack', now')
  BY <1>4, <1>5
<1> QED
  BY <1>2, <1>3, <1>6 DEF EngineInv


-----------------------------------------------------------------------------
(* The steps an activation adds.                                           *)

Works(i, b) == IsSequence(b) /\ \A m \in DOMAIN b : WorkStep(i, b[m])

(* Steps added one after the other.                                        *)
LEMMA WorksConcat ==
  ASSUME NEW i, NEW a, NEW b, Works(i, a), Works(i, b)
  PROVE  Works(i, a \o b)
<1>1. /\ IsSequence(a \o b) /\ Len(a) \in Nat /\ Len(b) \in Nat
      /\ DOMAIN a = 1 .. Len(a) /\ DOMAIN b = 1 .. Len(b)
      /\ DOMAIN (a \o b) = 1 .. Len(a) + Len(b)
      /\ \A m \in 1 .. Len(a) : (a \o b)[m] = a[m]
      /\ \A m \in 1 .. Len(a) + Len(b) : m > Len(a) => (a \o b)[m] = b[m - Len(a)]
  <2>1. Len(a \o b) = Len(a) + Len(b) /\ IsSequence(a \o b)
    BY ConcatIs DEF Works
  <2>2. DOMAIN (a \o b) = 1 .. Len(a) + Len(b)
    BY <2>1, SeqFacts
  <2> QED
    BY <2>1, <2>2, ConcatIs, SeqFacts DEF Works
<1> DEFINE c == a \o b
<1> HIDE DEF c
<1>2. \A m \in DOMAIN c : \/ m \in DOMAIN a /\ c[m] = a[m]
                          \/ m - Len(a) \in DOMAIN b /\ c[m] = b[m - Len(a)]
  <2> SUFFICES ASSUME NEW m \in DOMAIN c
               PROVE  \/ m \in DOMAIN a /\ c[m] = a[m]
                      \/ m - Len(a) \in DOMAIN b /\ c[m] = b[m - Len(a)]
    OBVIOUS
  <2>1. m \in 1 .. Len(a) + Len(b)
    BY <1>1 DEF c
  <2>2. CASE m <= Len(a)
    BY <2>1, <2>2, <1>1 DEF c
  <2>3. CASE m > Len(a)
    BY <2>1, <2>3, <1>1 DEF c
  <2> QED
    BY <2>1, <2>2, <2>3, <1>1
<1>3. \A m \in DOMAIN c : WorkStep(i, c[m])
  BY <1>2 DEF Works
<1> QED
  BY <1>1, <1>3 DEF Works, c

(* A single step.                                                          *)
LEMMA WorksOne ==
  ASSUME NEW i, NEW s, WorkStep(i, s)
  PROVE  Works(i, <<s>>) /\ Works(i, <<>>)
<1>1. <<s>> \in Seq({s}) /\ <<>> \in Seq({s})
  OBVIOUS
<1>2. IsSequence(<<s>>) /\ IsSequence(<<>>)
  BY <1>1, SeqIs
<1>3. DOMAIN <<s>> = {1} /\ <<s>>[1] = s
  OBVIOUS
<1> QED
  BY <1>2, <1>3 DEF Works

(* The steps the engine knows.                                             *)
LEMMA KnownSteps ==
  ASSUME NEW i
  PROVE  /\ WorkStep(i, Sink) /\ ~Asking(Sink)
         /\ \A d : WorkStep(i, Chain(d)) /\ ~Asking(Chain(d)) /\ Chain(d).op = "chain"
         /\ \A s : WorkStep(i, [op |-> "changed", signal |-> s])
         /\ WorkStep(i, [op |-> "contain"])
         /\ \A s : WorkStep(i, [op |-> "exited", state |-> s])
         /\ \A s \in States(i) : WorkStep(i, [op |-> "commit", target |-> s])
         /\ \A s \in States(i) : WorkStep(i, [op |-> "entered", state |-> s])
  BY DEF WorkStep, ActivationOps, Asking, Sink, Chain

(* An action list is at most one step.                                     *)
LEMMA WorksActs ==
  ASSUME NEW i, NEW list, SoundActions(i, list)
  PROVE  Works(i, Acts(list))
<1> DEFINE s == [op |-> "actions", list |-> list]
<1>1. CASE list = <<>>
  <2>1. Acts(list) = <<>>
    BY <1>1 DEF Acts
  <2> QED
    BY <2>1, KnownSteps, WorksOne
<1>2. CASE list # <<>>
  <2>1. Acts(list) = <<s>>
    BY <1>2 DEF Acts
  <2>2. WorkStep(i, s)
    BY <1>2 DEF WorkStep, ActivationOps
  <2> HIDE DEF s
  <2> QED
    BY <2>1, <2>2, WorksOne
<1> QED
  BY <1>1, <1>2

(* The rest of an action list.                                             *)
LEMMA SoundRest ==
  ASSUME NEW i, NEW list, SoundActions(i, list), list # <<>>
  PROVE  /\ SoundActions(i, Tail(list))
         /\ Head(list).kind = "transition" => Head(list).target \in States(i)
         /\ Head(list).kind = "start_timer" /\ Head(list).duration # None =>
              SoundDuration(Head(list).duration)
<1>1. IsSequence(list)
  BY DEF SoundActions
<1>2. /\ IsSequence(Tail(list)) /\ Len(Tail(list)) = Len(list) - 1 /\ Len(list) \in Nat \ {0}
      /\ DOMAIN list = 1 .. Len(list) /\ Head(list) = list[1]
      /\ \A m \in 1 .. Len(list) - 1 : Tail(list)[m] = list[m + 1]
  BY <1>1, TailIs, SeqFacts
<1>3. DOMAIN Tail(list) = 1 .. Len(list) - 1
  BY <1>2, SeqFacts
<1>4. \A m \in DOMAIN Tail(list) : m + 1 \in DOMAIN list /\ Tail(list)[m] = list[m + 1]
  BY <1>2, <1>3
<1>5. 1 \in DOMAIN list
  BY <1>2
<1>6. SoundActions(i, Tail(list))
  BY <1>2, <1>4 DEF SoundActions
<1> QED
  BY <1>2, <1>5, <1>6 DEF SoundActions

(* Steps before the rest of an activation, where the rest looks at a       *)
(* request, where they ask for nothing, and where they look at it          *)
(* themselves.                                                             *)
LEMMA Blocks ==
  ASSUME NEW i, NEW b, NEW r, Works(i, b)
  PROVE  /\ HasChain(r) => WorkBlock(i, b, r)
         /\ (\A m \in DOMAIN b : ~Asking(b[m])) => WorkBlock(i, b, r)
         /\ \A d : WorkBlock(i, b \o <<Chain(d)>>, r)
<1>1. HasChain(r) => WorkBlock(i, b, r)
  BY DEF Works, WorkBlock
<1>2. (\A m \in DOMAIN b : ~Asking(b[m])) => WorkBlock(i, b, r)
  BY DEF Works, WorkBlock
<1>3. ASSUME NEW d
      PROVE  WorkBlock(i, b \o <<Chain(d)>>, r)
  <2> DEFINE s == Chain(d)
             c == b \o <<s>>
  <2>1. WorkStep(i, s) /\ s.op = "chain"
    BY KnownSteps
  <2> HIDE DEF s
  <2>2. Works(i, <<s>>)
    BY <2>1, WorksOne
  <2>3. Works(i, c)
    BY <2>2, WorksConcat
  <2>4. Len(<<s>>) = 1 /\ <<s>>[1] = s
    OBVIOUS
  <2>5. IsSequence(b) /\ IsSequence(<<s>>) /\ Len(b) \in Nat
    BY <2>2, SeqFacts DEF Works
  <2>6. Len(c) = Len(b) + 1 /\ c[Len(b) + 1] = s
    BY <2>4, <2>5, ConcatIs
  <2> HIDE DEF c
  <2>7. c # <<>>
    BY <2>3, <2>5, <2>6, SeqFacts DEF Works
  <2>8. WorkBlock(i, c, r)
    BY <2>1, <2>3, <2>6, <2>7 DEF Works, WorkBlock
  <2> QED
    BY <2>8 DEF c, s
<1> QED
  BY <1>1, <1>2, <1>3

(* The steps of a transition.                                              *)
LEMMA WorksTransition ==
  ASSUME NEW i \in Instances, inst[i].state \in States(i) \cup {None},
         NEW target \in States(i), NEW actions, SoundActions(i, actions)
  PROVE  Works(i, TransitionSteps(i, target, actions))
<1> DEFINE from == inst[i].state
           x == [op |-> "exited", state |-> from]
           left == IF from = None THEN <<>> ELSE Acts(Machine[i].states[from].exit) \o <<x>>
           c == [op |-> "commit", target |-> target]
<1>1. Works(i, <<c>>)
  BY KnownSteps, WorksOne
<1>2. Works(i, left)
  <2>1. CASE from = None
    BY <2>1, KnownSteps, WorksOne
  <2>2. CASE from # None
    <3>1. from \in States(i)
      BY <2>2
    <3>2. SoundActions(i, Machine[i].states[from].exit)
      BY <3>1, EngineAssumption DEF SoundMachine
    <3>3. Works(i, Acts(Machine[i].states[from].exit))
      BY <3>2, WorksActs
    <3>4. Works(i, <<x>>)
      BY KnownSteps, WorksOne
    <3>5. Works(i, Acts(Machine[i].states[from].exit) \o <<x>>)
      BY <3>3, <3>4, WorksConcat
    <3> QED
      BY <3>5, <2>2
  <2> QED
    BY <2>1, <2>2
<1>3. Works(i, Acts(actions))
  BY WorksActs
<1>4. TransitionSteps(i, target, actions) = left \o Acts(actions) \o <<c>>
  BY DEF TransitionSteps
<1> HIDE DEF left, c
<1>5. Works(i, left \o Acts(actions))
  BY <1>2, <1>3, WorksConcat
<1>6. Works(i, left \o Acts(actions) \o <<c>>)
  BY <1>1, <1>5, WorksConcat
<1> QED
  BY <1>4, <1>6

(* What is added before the rest of an activation that looks at a request. *)
LEMMA AddedBlocks ==
  ASSUME NEW i, NEW r
  PROVE  /\ WorkBlock(i, <<>>, r)
         /\ WorkBlock(i, <<Sink>>, r)
         /\ \A d : WorkBlock(i, <<Chain(d)>>, r)
<1>1. Works(i, <<>>) /\ Works(i, <<Sink>>)
  BY KnownSteps, WorksOne
<1>2. WorkBlock(i, <<>>, r)
  BY <1>1, Blocks
<1>3. DOMAIN <<Sink>> = {1} /\ <<Sink>>[1] = Sink
  OBVIOUS
<1>4. WorkBlock(i, <<Sink>>, r)
  BY <1>1, <1>3, KnownSteps, Blocks
<1>5. ASSUME NEW d
      PROVE  WorkBlock(i, <<Chain(d)>>, r)
  <2> DEFINE s == Chain(d)
  <2>1. WorkStep(i, s) /\ ~Asking(s)
    BY KnownSteps
  <2> HIDE DEF s
  <2>2. Works(i, <<s>>) /\ DOMAIN <<s>> = {1} /\ <<s>>[1] = s
    BY <2>1, WorksOne
  <2>3. WorkBlock(i, <<s>>, r)
    BY <2>1, <2>2, Blocks
  <2> QED
    BY <2>3 DEF s
<1> QED
  BY <1>2, <1>4, <1>5

(* The blocks of one action: a sink call, and what follows it.             *)
LEMMA WorksPairs ==
  ASSUME NEW i
  PROVE  /\ Works(i, <<>>) /\ Works(i, <<Sink>>)
         /\ \A s : Works(i, <<Sink, [op |-> "changed", signal |-> s]>>)
         /\ Works(i, <<Sink, [op |-> "contain"]>>)
         /\ \A s \in States(i) : Works(i, <<Sink, [op |-> "entered", state |-> s]>>)
<1>1. Works(i, <<>>) /\ Works(i, <<Sink>>)
  BY KnownSteps, WorksOne
<1>2. ASSUME NEW s, WorkStep(i, s)
      PROVE  Works(i, <<Sink, s>>)
  <2>1. WorkStep(i, Sink)
    BY KnownSteps
  <2>2. <<Sink, s>> \in Seq({Sink, s})
    OBVIOUS
  <2>3. IsSequence(<<Sink, s>>)
    BY <2>2, SeqIs
  <2>4. DOMAIN <<Sink, s>> = {1, 2} /\ <<Sink, s>>[1] = Sink /\ <<Sink, s>>[2] = s
    OBVIOUS
  <2> QED
    BY <1>2, <2>1, <2>3, <2>4 DEF Works
<1>3. \A s : Works(i, <<Sink, [op |-> "changed", signal |-> s]>>)
  BY <1>2, KnownSteps
<1>4. Works(i, <<Sink, [op |-> "contain"]>>)
  BY <1>2, KnownSteps
<1>5. \A s \in States(i) : Works(i, <<Sink, [op |-> "entered", state |-> s]>>)
  BY <1>2, KnownSteps
<1> QED
  BY <1>1, <1>3, <1>4, <1>5


-----------------------------------------------------------------------------
(* Actions of a machine keep the invariant.                                *)

LEMMA KeptTrans ==
  ASSUME NEW i, NEW time, NEW x, NEW y, NEW z, Kept(i, x, y, time), Kept(i, y, z, time)
  PROVE  Kept(i, x, z, time)
  BY DEF Kept

(* What an event leaves behind in the table of its instance.               *)
LEMMA EmitKept ==
  ASSUME EngineInv, NEW i \in Instances, NEW x, Kept(i, inst[i], x, now),
         NEW e, NEW self, emit(i, x, e, self)
  PROVE  \E y : Kept(i, inst[i], y, now) /\ InstIs(i, y) /\ y.deferred = x.deferred
<1>1. InstanceOK(i, x, now) /\ now \in Nat
  BY DEF Kept, EngineInv, TypeOK
<1> DEFINE y == IF self THEN queued(x, e) ELSE x
<1>2. inst' = [inst EXCEPT ![i] = y]
  BY DEF emit
<1>3. InstIs(i, y)
  BY <1>2, InstExcept
<1>4. Kept(i, x, queued(x, e), now) /\ queued(x, e).deferred = x.deferred
  BY <1>1, QueuedKept
<1>5. Kept(i, inst[i], y, now) /\ y.deferred = x.deferred
  BY <1>4, KeptTrans
<1> QED
  BY <1>3, <1>5

(* A generated event.                                                      *)
LEMMA GeneratedKept ==
  ASSUME EngineInv, NEW i \in Instances, NEW type, NEW about, NEW self,
         emit_generated(i, type, about, self)
  PROVE  \E y : Kept(i, inst[i], y, now) /\ InstIs(i, y) /\ y.deferred = inst[i].deferred
<1> DEFINE e == Event(type, about, IF type = "FAULT_RAISED" THEN FAULT ELSE GENERATED, ActivationTime)
<1>1. emit(i, inst[i], e, self)
  BY DEF emit_generated
<1>2. Kept(i, inst[i], inst[i], now)
  BY FieldKept DEF EngineInv, TypeOK
<1> HIDE DEF e
<1> QED
  BY <1>1, <1>2, EmitKept

(* The records an activation goes on with.                                 *)
LEMMA SameWorks ==
  ASSUME EngineInv, NEW op \in ActivationOps, At(op)
  PROVE  /\ SameWork(Top, stack[1]) /\ SameWork(Spent, stack[1]) /\ SameWork(Faulting, stack[1])
         /\ SameWork([Top EXCEPT !.suspend = TRUE], stack[1])
<1>1. /\ Top = stack[1] /\ stack[1].activation = TRUE
      /\ DOMAIN stack[1] = ActivationFields /\ stack[1].suspend \in BOOLEAN
  BY AtTop
<1> DEFINE f == stack[1]
           g == [f EXCEPT !.budget = @ - 1]
           h == [g EXCEPT !.suspend = TRUE]
           k == [f EXCEPT !.suspend = TRUE]
<1>2. SameWork(f, f)
  BY <1>1 DEF SameWork
<1>3. /\ DOMAIN g = ActivationFields /\ g.activation = f.activation /\ g.i = f.i
      /\ g.event = f.event /\ g.todo = f.todo /\ g.suspend = f.suspend
  BY <1>1 DEF ActivationFields
<1>4. /\ DOMAIN k = ActivationFields /\ k.activation = f.activation /\ k.i = f.i
      /\ k.event = f.event /\ k.todo = f.todo /\ k.suspend = TRUE
  BY <1>1 DEF ActivationFields
<1> HIDE DEF g
<1>5. /\ DOMAIN h = ActivationFields /\ h.activation = g.activation /\ h.i = g.i
      /\ h.event = g.event /\ h.todo = g.todo /\ h.suspend = TRUE
  BY <1>3 DEF ActivationFields
<1> HIDE DEF h, k
<1>6. SameWork(g, f) /\ SameWork(h, f) /\ SameWork(k, f)
  BY <1>1, <1>3, <1>4, <1>5 DEF SameWork
<1>7. Spent = g /\ Faulting = h /\ [Top EXCEPT !.suspend = TRUE] = k
  BY <1>1 DEF Spent, Faulting, g, h, k
<1> QED
  BY <1>1, <1>2, <1>6, <1>7

(* One action of a list.                                                   *)
LEMMA ActionStep ==
  ASSUME EngineInv, At("actions"), NEW f, SameWork(f, stack[1]),
         NEW w, Works(stack[1].i, w), Acted(f, w),
         NEW y, Kept(stack[1].i, inst[stack[1].i], y, now), InstIs(stack[1].i, y),
         UNCHANGED <<now, clock>>
  PROVE  EngineInv'
<1> DEFINE i == stack[1].i
           list == stack[1].todo[1].list
           b == w \o Acts(Tail(list))
           r == Tail(stack[1].todo)
<1>0. "actions" \in ActivationOps
  BY DEF ActivationOps
<1>1. /\ stack # <<>> /\ Top = stack[1] /\ Step = stack[1].todo[1]
      /\ stack[1].todo[1].op = "actions" /\ stack[1].activation = TRUE /\ i \in Instances
      /\ WorkStep(i, stack[1].todo[1]) /\ WorkTodo(i, stack[1].todo) /\ stack[1].todo # <<>>
  BY <1>0, AtTop
<1>2. SoundActions(i, list) /\ list # <<>> /\ Asking(stack[1].todo[1])
  BY <1>1 DEF WorkStep, Asking
<1>3. HasChain(r)
  BY <1>1, <1>2, WorkRest
<1>4. Works(i, Acts(Tail(list)))
  BY <1>2, SoundRest, WorksActs
<1>5. Works(i, b)
  BY <1>4, WorksConcat
<1>6. WorkBlock(i, b, r)
  BY <1>3, <1>5, Blocks
<1>7. stack' = Onward(stack, f, b)
  BY <1>1 DEF Acted, Continued, Onward
<1> HIDE DEF b, list, r
<1> QED
  BY <1>1, <1>2, <1>6, <1>7, ActivationStep DEF r

LEMMA ActionsInv ==
  ASSUME EngineInv, UNCHANGED clock,
         \/ give_up_actions \/ send_message \/ set_signal \/ set_variable
         \/ action_timer \/ log \/ raise_fault \/ action_transition
  PROVE  EngineInv'
<1> DEFINE i == stack[1].i
           x == inst[i]
<1>0. "actions" \in ActivationOps
  BY SMTT(30) DEF ActivationOps
<1>1. At("actions") /\ UNCHANGED <<now, clock>>
  BY DEF give_up_actions, send_message, set_signal, set_variable, action_timer, log,
         raise_fault, action_transition, Does
<1>2. /\ stack # <<>> /\ Top = stack[1] /\ Step = stack[1].todo[1]
      /\ stack[1].todo[1].op = "actions" /\ stack[1].activation = TRUE /\ i \in Instances
      /\ WorkStep(i, stack[1].todo[1]) /\ WorkTodo(i, stack[1].todo) /\ stack[1].todo # <<>>
  BY <1>0, <1>1, AtTop
<1>3. SameWork(Top, stack[1]) /\ SameWork(Spent, stack[1]) /\ SameWork(Faulting, stack[1])
  BY <1>0, <1>1, SameWorks
<1>4. now \in Nat /\ InstanceOK(i, x, now) /\ DOMAIN inst = Instances
  BY <1>2 DEF EngineInv, TypeOK
<1>5. Kept(i, x, x, now)
  BY <1>4, FieldKept
<1>6. UNCHANGED inst => InstIs(i, x)
  BY <1>2, InstExcept
<1>7. Works(i, <<>>) /\ Works(i, <<Sink>>)
  BY WorksPairs
<1>8. /\ Action.kind = "transition" => Action.target \in States(i)
      /\ Action.kind = "start_timer" /\ Action.duration # None => SoundDuration(Action.duration)
  BY <1>2, SoundRest DEF WorkStep, Action
<1>9. Asking(stack[1].todo[1])
  BY <1>2 DEF Asking
<1>10. CASE give_up_actions
  <2> DEFINE b == IF Top.suspend THEN <<>> ELSE <<Sink>>
  <2>1. WorkBlock(i, b, Tail(stack[1].todo))
    BY AddedBlocks
  <2>2. stack' = Onward(stack, Top, b) /\ UNCHANGED inst
    BY <1>10 DEF give_up_actions, Continued, Onward
  <2> HIDE DEF b
  <2> QED
    BY <2>1, <2>2, <1>1, <1>2, <1>3, <1>5, <1>6, <1>9, ActivationStep
<1>11. CASE send_message
  <2>1. UNCHANGED inst
    BY <1>11 DEF send_message
  <2>2. Acted(Spent, <<Sink>>) \/ Acted(Faulting, <<>>) \/ Acted(Spent, <<>>)
    BY <1>11 DEF send_message
  <2> QED
    BY <2>1, <2>2, <1>1, <1>3, <1>5, <1>6, <1>7, ActionStep
<1>12. CASE set_signal
  <2>1. UNCHANGED inst
    BY <1>12 DEF set_signal
  <2> DEFINE c == [op |-> "changed", signal |-> Action.signal]
  <2>2. \/ Acted(Spent, <<Sink>>) \/ Acted(Spent, <<Sink, c>>)
        \/ Acted(Faulting, <<>>) \/ Acted(Spent, <<>>)
    BY <1>12 DEF set_signal
  <2>3. Works(i, <<Sink, c>>)
    BY WorksPairs
  <2> HIDE DEF c
  <2> QED
    BY <2>1, <2>2, <2>3, <1>1, <1>3, <1>5, <1>6, <1>7, ActionStep
<1>13. CASE set_variable
  <2>1. Acted(Spent, <<>>) \/ Acted(Faulting, <<>>)
    BY <1>13, SMTT(30) DEF set_variable
  <2>2. \/ UNCHANGED inst
        \/ \E v : inst' = [inst EXCEPT ![i] = [x EXCEPT !.variables = v]]
    BY <1>2, <1>13 DEF set_variable
  <2>3. \E y : Kept(i, x, y, now) /\ InstIs(i, y)
    <3>1. ASSUME NEW v, inst' = [inst EXCEPT ![i] = [x EXCEPT !.variables = v]]
          PROVE  Kept(i, x, [x EXCEPT !.variables = v], now) /\ InstIs(i, [x EXCEPT !.variables = v])
      BY <3>1, <1>2, <1>4, FieldKept, InstExcept
    <3> QED
      BY <3>1, <2>2, <1>5, <1>6
  <2> QED
    BY <2>1, <2>3, <1>1, <1>3, <1>7, ActionStep
<1>14. CASE log
  <2>1. UNCHANGED inst /\ Acted(Spent, <<Sink>>)
    BY <1>14 DEF log
  <2> QED
    BY <2>1, <1>1, <1>3, <1>5, <1>6, <1>7, ActionStep
<1>15. CASE raise_fault
  <2>1. Acted(Spent, <<Sink>>) \/ Acted(Spent, <<Sink, [op |-> "contain"]>>)
    BY <1>15 DEF raise_fault
  <2>2. Works(i, <<Sink, [op |-> "contain"]>>)
    BY WorksPairs
  <2>3. \E self : emit_generated(i, "FAULT_RAISED", i, self)
    BY <1>2, <1>15 DEF raise_fault
  <2>4. \E y : Kept(i, x, y, now) /\ InstIs(i, y)
    BY <2>3, <1>2, GeneratedKept
  <2> QED
    BY <2>1, <2>2, <2>4, <1>1, <1>3, <1>7, ActionStep
<1>16. CASE action_transition
  <2> DEFINE d == IF x.deferred = None THEN Action.target ELSE x.deferred
             y == [x EXCEPT !.deferred = d]
  <2>1. Acted(Spent, <<>>) \/ Acted(Spent, <<Sink>>)
    BY <1>16 DEF action_transition
  <2>2. inst' = [inst EXCEPT ![i] = y]
    BY <1>2, <1>16 DEF action_transition
  <2>3. d \in States(i) \cup {None}
    BY <1>4, <1>8, <1>16 DEF action_transition, Does, InstanceOK
  <2>4. Kept(i, x, y, now)
    BY <2>3, <1>4, FieldKept
  <2>5. InstIs(i, y)
    BY <2>2, <1>2, InstExcept
  <2> QED
    BY <2>1, <2>4, <2>5, <1>1, <1>3, <1>7, ActionStep
<1>17. CASE action_timer
  <2> DEFINE t == Action.timer
             slot == x.timers[t]
             def == Machine[i].timers[t]
             dur == IF Action.duration = None THEN def.duration ELSE Action.duration
             rep == IF Action.repeat = None THEN def.repeat ELSE Action.repeat
             new == CASE Action.kind = "start_timer" -> armed(dur, rep)
                      [] Action.kind = "stop_timer" -> [slot EXCEPT !.running = FALSE]
                      [] Action.kind = "reset_timer" ->
                           [armed(slot.duration, slot.repeat) EXCEPT !.running = slot.running]
             y == [x EXCEPT !.timers[t] = new]
  <2>1. Acted(Spent, <<Sink>>)
    BY <1>17, ZenonT(30) DEF action_timer
  <2>2. inst' = [inst EXCEPT ![i] = y]
    BY <1>2, <1>17 DEF action_timer
  <2>3. InstIs(i, y)
    BY <2>2, <1>2, InstExcept
  <2>4. t \in Timers(i) => SlotKept(slot, new, now)
    <3> SUFFICES ASSUME t \in Timers(i)
                 PROVE  SlotKept(slot, new, now)
      BY ZenonT(30)
    <3>1. SlotOK(slot, now)
      BY <1>4 DEF InstanceOK
    <3>2. def.duration \in Nat \ {0}
      BY <1>2, EngineAssumption DEF SoundMachine, SoundDuration
    <3>3. CASE Action.kind = "start_timer"
      <4>1. dur \in Nat \ {0}
        BY <3>2, <3>3, <1>8 DEF SoundDuration
      <4>2. new = armed(dur, rep)
        BY <3>3
      <4> HIDE DEF dur, rep, new
      <4> QED
        BY <4>1, <4>2, <1>4, ArmedKept
    <3>4. CASE Action.kind = "stop_timer"
      <4> DEFINE n == [slot EXCEPT !.running = FALSE]
      <4>1. new = n
        BY <3>4
      <4>2. /\ DOMAIN n = SlotFields /\ n.running = FALSE /\ n.duration = slot.duration
            /\ n.origin = slot.origin /\ n.ticks = slot.ticks /\ n.deadline_us = slot.deadline_us
        BY <3>1 DEF SlotOK, SlotFields
      <4> HIDE DEF n, new
      <4>3. SlotOK(n, now)
        BY <3>1, <4>2, ZenonT(30) DEF SlotOK
      <4> QED
        BY <4>1, <4>2, <4>3 DEF SlotKept
    <3>5. CASE Action.kind = "reset_timer"
      <4>1. new = [armed(slot.duration, slot.repeat) EXCEPT !.running = slot.running]
        BY <3>5
      <4>2. slot.duration \in Nat \ {0} /\ slot.running \in BOOLEAN
        BY <3>1 DEF SlotOK
      <4> HIDE DEF new, slot
      <4> QED
        BY <4>1, <4>2, <1>4, ArmedKept
    <3> QED
      BY <3>3, <3>4, <3>5, <1>17 DEF action_timer, Does
  <2> HIDE DEF new
  <2>5. t \in Timers(i) => SlotOK(new, now)
    BY <2>4 DEF SlotKept
  <2>6. SlotSet(i, x, y, t, new)
    <3>1. DOMAIN x = InstanceFields /\ DOMAIN x.timers = Timers(i)
      BY <1>4 DEF InstanceOK
    <3>2. DOMAIN y = InstanceFields /\ \A f \in InstanceFields \ {"timers"} : y[f] = x[f]
      BY <3>1 DEF InstanceFields
    <3>3. y.timers = [x.timers EXCEPT ![t] = new]
      BY <3>1 DEF InstanceFields
    <3> QED
      BY <3>1, <3>2, <3>3 DEF SlotSet
  <2> HIDE DEF y
  <2>7. /\ InstanceOK(i, y, now)
        /\ y.processing = x.processing /\ y.evaluated = x.evaluated
    BY <2>5, <2>6, <1>4, SlotChanged
  <2>8. \A k \in Timers(i) : SlotKept(x.timers[k], y.timers[k], now)
    BY <2>4, <2>6, <1>4, KeptTimers DEF SlotSet
  <2>9. Kept(i, x, y, now)
    BY <2>7, <2>8, <1>4, KeptBy DEF InstanceOK
  <2> QED
    BY <2>1, <2>3, <2>9, <1>1, <1>3, <1>7, ActionStep
<1> QED
  BY <1>10, <1>11, <1>12, <1>13, <1>14, <1>15, <1>16, <1>17


-----------------------------------------------------------------------------
(* The other steps of an activation keep the invariant.                    *)

(* A set of natural numbers has a least one.                               *)
LEMMA LeastOf ==
  ASSUME NEW K \in SUBSET Nat, K # {}
  PROVE  \E k \in K : \A l \in K : k <= l
<1> DEFINE R == {ss \in Nat \X Nat : ss[1] < ss[2]}
<1>1. OpToRel(<, Nat) = R
  BY DEF OpToRel
<1>2. IsWellFoundedOn(R, Nat)
  BY <1>1, NatLessThanWellFounded, Zenon
<1> HIDE DEF R
<1>3. PICK k \in K : \A l \in K : ~(<<l, k>> \in R)
  BY <1>2, WFMin, Zenon
<1>4. \A a, b \in Nat : a < b => <<a, b>> \in R
  BY DEF R
<1>5. ASSUME NEW l \in K
      PROVE  k <= l
  <2>1. l \in Nat /\ k \in Nat /\ ~(l < k)
    BY <1>3, <1>4
  <2> QED
    BY <2>1
<1> QED
  BY <1>5

(* The transition that is taken is one of the machine.                     *)
LEMMA SelectedSound ==
  ASSUME NEW i \in Instances, inst[i].state \in States(i), NEW e, Candidates(i, e) # {}
  PROVE  Selected(i, e).target \in States(i) /\ SoundActions(i, Selected(i, e).actions)
<1> DEFINE trs == Machine[i].states[inst[i].state].transitions
<1>1. IsSequence(trs) /\ \A k \in DOMAIN trs : trs[k].target \in States(i) /\ SoundActions(i, trs[k].actions)
  BY EngineAssumption DEF SoundMachine
<1>2. Len(trs) \in Nat /\ DOMAIN trs = 1 .. Len(trs)
  BY <1>1, SeqFacts
<1> DEFINE K == Candidates(i, e)
<1>3. K \subseteq 1 .. Len(trs)
  BY <1>2, ZenonT(30) DEF Candidates
<1> HIDE DEF trs, K
<1>4. \E k \in K : \A l \in K : k <= l
  <2>1. K \in SUBSET Nat /\ K # {}
    BY <1>2, <1>3 DEF K
  <2> QED
    BY <2>1, LeastOf
<1> DEFINE k == CHOOSE k \in K : \A l \in K : k <= l
<1>5. k \in K
  BY <1>4
<1>6. k \in DOMAIN trs
  BY <1>2, <1>3, <1>5
<1>7. Selected(i, e) = trs[k]
  BY DEF Selected, trs, K
<1> HIDE DEF k
<1> QED
  BY <1>1, <1>6, <1>7

LEMMA TransitionInv ==
  ASSUME EngineInv, UNCHANGED clock,
         \/ select_transition \/ signal_changed \/ contain_fault \/ state_exited
         \/ commit \/ state_entered \/ run_deferred_chain \/ finish_activation \/ sink_returns
  PROVE  EngineInv'
<1> DEFINE i == stack[1].i
           x == inst[i]
           r == Tail(stack[1].todo)
<1>1. PICK op \in ActivationOps : At(op)
  BY DEF select_transition, signal_changed, contain_fault, state_exited, commit, state_entered,
         run_deferred_chain, finish_activation, sink_returns, ActivationOps
<1>2. /\ stack # <<>> /\ Top = stack[1] /\ Step = stack[1].todo[1]
      /\ stack[1].activation = TRUE /\ i \in Instances
      /\ WorkStep(i, stack[1].todo[1]) /\ WorkTodo(i, stack[1].todo) /\ stack[1].todo # <<>>
  BY <1>1, AtTop
<1>3. SameWork(Top, stack[1]) /\ SameWork([Top EXCEPT !.suspend = TRUE], stack[1])
  BY <1>1, SameWorks
<1>4. now \in Nat /\ InstanceOK(i, x, now) /\ DOMAIN inst = Instances
  BY <1>2 DEF EngineInv, TypeOK
<1>5. Kept(i, x, x, now)
  BY <1>4, FieldKept
<1>6. UNCHANGED inst => InstIs(i, x)
  BY <1>2, InstExcept
<1>7. UNCHANGED <<now, clock>>
  BY DEF select_transition, signal_changed, contain_fault, state_exited, commit, state_entered,
         run_deferred_chain, finish_activation, sink_returns
<1>8. WorkBlock(i, <<>>, r) /\ WorkBlock(i, <<Sink>>, r) /\ \A d : WorkBlock(i, <<Chain(d)>>, r)
  BY AddedBlocks
<1>9. \A f, b : Continued(f, b) => stack' = Onward(stack, f, b)
  BY DEF Continued, Onward
<1>10. ASSUME NEW f, SameWork(f, stack[1]), NEW b, WorkBlock(i, b, r), Continued(f, b),
              NEW y, Kept(i, x, y, now), InstIs(i, y),
              y.deferred # None => /\ stack[1].todo[1].op # "chain"
                                   /\ x.deferred # None \/ Asking(stack[1].todo[1])
       PROVE  EngineInv'
  BY <1>2, <1>7, <1>9, <1>10, ActivationStep
<1>11. CASE select_transition
  <2> DEFINE tr == Selected(i, stack[1].event)
             ts == TransitionSteps(i, tr.target, tr.actions)
  <2>1. UNCHANGED inst /\ stack[1].todo[1].op # "chain"
    BY <1>2, <1>11 DEF select_transition, At
  <2>2. \/ Continued(Top, <<>>) \/ Continued(Top, <<Chain(0)>>)
        \/ Continued([Top EXCEPT !.suspend = TRUE], <<Chain(0)>>)
        \/ /\ x.state # None /\ Candidates(i, stack[1].event) # {}
           /\ Continued(Top, ts \o <<Chain(1)>>)
    BY <1>2, <1>11 DEF select_transition
  <2>3. ASSUME x.state # None, Candidates(i, stack[1].event) # {}
        PROVE  WorkBlock(i, ts \o <<Chain(1)>>, r)
    <3>1. x.state \in States(i)
      BY <2>3, <1>4 DEF InstanceOK
    <3>2. tr.target \in States(i) /\ SoundActions(i, tr.actions)
      BY <3>1, <2>3, <1>2, SelectedSound
    <3>3. Works(i, ts)
      BY <3>1, <3>2, <1>2, WorksTransition
    <3> QED
      BY <3>3, Blocks
  <2> HIDE DEF ts, i, x, r
  <2> QED
    BY <2>1, <2>2, <2>3, <1>3, <1>5, <1>6, <1>8, <1>10
<1>12. CASE signal_changed
  <2>1. Continued(Top, <<>>) /\ stack[1].todo[1].op # "chain"
    BY <1>2, <1>12 DEF signal_changed, At
  <2>2. \E self : emit_generated(i, "SIGNAL_CHANGED", Step.signal, self)
    BY <1>2, <1>12 DEF signal_changed
  <2>3. \E y : Kept(i, x, y, now) /\ InstIs(i, y) /\ y.deferred = x.deferred
    BY <2>2, <1>2, GeneratedKept
  <2> QED
    BY <2>1, <2>3, <1>3, <1>8, <1>10
<1>13. CASE contain_fault
  <2>1. Continued(Top, <<>>) /\ stack[1].todo[1].op # "chain"
    BY <1>2, <1>13 DEF contain_fault, At
  <2>2. inst' = [inst EXCEPT ![i] = faulted(x)]
    BY <1>2, <1>13 DEF contain_fault
  <2>3. InstIs(i, faulted(x))
    BY <2>2, <1>2, InstExcept
  <2>4. Kept(i, x, faulted(x), now) /\ (faulted(x).deferred = None \/ faulted(x).deferred = x.deferred)
    BY <1>4, LifecycleKept
  <2> QED
    BY <2>1, <2>3, <2>4, <1>3, <1>8, <1>10
<1>14. CASE state_exited
  <2>1. Continued(Top, <<>>) /\ stack[1].todo[1].op # "chain"
    BY <1>2, <1>14 DEF state_exited, At
  <2>2. \E y : Kept(i, x, y, now) /\ InstIs(i, y) /\ y.deferred = x.deferred
    <3>1. CASE Top.suspend
      <4>1. UNCHANGED inst
        BY <3>1, <1>14 DEF state_exited
      <4> QED
        BY <4>1, <1>5, <1>6
    <3>2. CASE ~Top.suspend
      <4>1. emit_generated(i, "STATE_EXITED", <<i, Step.state>>, TRUE)
        BY <3>2, <1>2, <1>14 DEF state_exited, emit_state_event
      <4> QED
        BY <4>1, <1>2, GeneratedKept
    <3> QED
      BY <3>1, <3>2
  <2> QED
    BY <2>1, <2>2, <1>3, <1>8, <1>10
<1>15. CASE commit
  <2>1. stack[1].todo[1].op = "commit"
    BY <1>2, <1>15 DEF commit, At
  <2>2. Asking(stack[1].todo[1]) /\ Step.target \in States(i)
    BY <2>1, <1>2 DEF Asking, WorkStep
  <2>3. HasChain(r)
    BY <2>2, <1>2, WorkRest
  <2>4. CASE Top.suspend
    <3>1. Continued(Top, <<>>) /\ UNCHANGED inst
      BY <2>4, <1>15 DEF commit
    <3> QED
      BY <3>1, <2>1, <2>2, <1>3, <1>5, <1>6, <1>8, <1>10
  <2>5. CASE ~Top.suspend
    <3> DEFINE y == [x EXCEPT !.state = Step.target]
               b == <<Sink, [op |-> "entered", state |-> Step.target]>>
    <3>1. Continued(Top, b) /\ inst' = [inst EXCEPT ![i] = y]
      BY <2>5, <1>2, <1>15 DEF commit
    <3>2. Works(i, b)
      BY <2>2, WorksPairs
    <3>3. WorkBlock(i, b, r)
      BY <3>2, <2>3, Blocks
    <3>4. Kept(i, x, y, now) /\ InstIs(i, y)
      BY <3>1, <2>2, <1>2, <1>4, FieldKept, InstExcept
    <3> HIDE DEF b, y
    <3> QED
      BY <3>1, <3>3, <3>4, <2>1, <2>2, <1>3, <1>10
  <2> QED
    BY <2>4, <2>5
<1>16. CASE state_entered
  <2>1. stack[1].todo[1].op = "entered"
    BY <1>2, <1>16 DEF state_entered, At
  <2>2. Asking(stack[1].todo[1]) /\ Step.state \in States(i)
    BY <2>1, <1>2 DEF Asking, WorkStep
  <2>3. HasChain(r)
    BY <2>2, <1>2, WorkRest
  <2> DEFINE b == Acts(Machine[i].states[Step.state].entry)
  <2>4. Continued(Top, b) /\ emit_generated(i, "STATE_ENTERED", <<i, Step.state>>, TRUE)
    BY <1>2, <1>16 DEF state_entered, emit_state_event
  <2>5. SoundActions(i, Machine[i].states[Step.state].entry)
    BY <2>2, <1>2, EngineAssumption DEF SoundMachine
  <2>6. WorkBlock(i, b, r)
    BY <2>3, <2>5, WorksActs, Blocks
  <2>7. \E y : Kept(i, x, y, now) /\ InstIs(i, y)
    BY <2>4, <1>2, GeneratedKept
  <2> HIDE DEF b
  <2> QED
    BY <2>1, <2>2, <2>4, <2>6, <2>7, <1>3, <1>10
<1>17. CASE run_deferred_chain
  <2> DEFINE y == [x EXCEPT !.deferred = None]
             b == TransitionSteps(i, x.deferred, <<>>)
  <2>1. inst' = [inst EXCEPT ![i] = y]
    BY <1>2, <1>17 DEF run_deferred_chain
  <2>2. Kept(i, x, y, now) /\ InstIs(i, y) /\ y.deferred = None
    <3>1. InstIs(i, y)
      BY <2>1, <1>2, InstExcept
    <3>2. Kept(i, x, y, now)
      BY <1>4, FieldKept
    <3>3. y.deferred = None
      BY <1>4 DEF InstanceOK, InstanceFields
    <3> QED
      BY <3>1, <3>2, <3>3
  <2>3. \/ Continued(Top, <<>>) \/ Continued([Top EXCEPT !.suspend = TRUE], <<Sink>>)
        \/ x.deferred # None /\ \E d : Continued(Top, b \o <<Chain(d)>>)
    BY <1>2, <1>17 DEF run_deferred_chain
  <2>4. ASSUME x.deferred # None
        PROVE  \A d : WorkBlock(i, b \o <<Chain(d)>>, r)
    <3>1. x.deferred \in States(i) /\ x.state \in States(i) \cup {None}
      BY <2>4, <1>4 DEF InstanceOK
    <3>2. IsSequence(<<>>) /\ DOMAIN <<>> = {}
      <4>1. <<>> \in Seq({}) /\ DOMAIN <<>> = {}
        OBVIOUS
      <4> QED
        BY <4>1, SeqIs
    <3>3. SoundActions(i, <<>>)
      BY <3>2 DEF SoundActions
    <3>4. Works(i, b)
      BY <3>1, <3>3, <1>2, WorksTransition
    <3> QED
      BY <3>4, Blocks
  <2> HIDE DEF y, b, i, x, r
  <2> QED
    BY <2>2, <2>3, <2>4, <1>3, <1>8, <1>10
<1>18. CASE finish_activation
  <2> DEFINE y == IF Top.suspend THEN suspended(x) ELSE x
  <2>1. Continued(Top, <<>>) /\ stack[1].todo[1].op # "chain"
    BY <1>2, <1>18 DEF finish_activation, At
  <2>2. inst' = [inst EXCEPT ![i] = y]
    BY <1>2, <1>18 DEF finish_activation
  <2>3. InstIs(i, y)
    BY <2>2, <1>2, InstExcept
  <2>4. Kept(i, x, y, now) /\ (y.deferred = None \/ y.deferred = x.deferred)
    BY <1>4, <1>5, LifecycleKept
  <2> HIDE DEF y
  <2> QED
    BY <2>1, <2>3, <2>4, <1>3, <1>8, <1>10
<1>19. CASE sink_returns
  <2>1. Continued(Top, <<>>) /\ UNCHANGED inst /\ stack[1].todo[1].op # "chain"
    BY <1>2, <1>19 DEF sink_returns, At
  <2> QED
    BY <2>1, <1>3, <1>5, <1>6, <1>8, <1>10
<1> QED
  BY <1>11, <1>12, <1>13, <1>14, <1>15, <1>16, <1>17, <1>18, <1>19


-----------------------------------------------------------------------------
(* Steps of a call keep the invariant.                                     *)

(* Only the innermost call is in the middle of the timers.                 *)
LEMMA NoTimersBelow ==
  ASSUME NEW st, StackOK(st), st # <<>>
  PROVE  \A i, t : ~Ticking(Tail(st), i, t)
<1> DEFINE tl == Tail(st)
<1>1. StackOK(tl)
  BY StackPopped
<1>2. /\ DOMAIN tl = 1 .. Len(st) - 1 /\ Len(st) \in Nat /\ DOMAIN st = 1 .. Len(st)
      /\ \A k \in 1 .. Len(st) - 1 : tl[k] = st[k + 1]
  BY TailIs, SeqFacts DEF StackOK
<1> HIDE DEF tl
<1>3. \A k \in DOMAIN tl : k + 1 \in DOMAIN st /\ k + 1 > 1 /\ tl[k] = st[k + 1]
  BY <1>2
<1>4. \A k \in DOMAIN tl : tl[k].todo[1].op \in {"sink", "drain"}
  BY <1>3 DEF StackOK
<1>5. ASSUME NEW k \in DOMAIN tl, NEW m \in DOMAIN tl[k].todo, tl[k].todo[m].op = "timer"
      PROVE  FALSE
  <2>1. Frame(tl[k])
    BY <1>1 DEF StackOK
  <2>2. CASE tl[k].activation = TRUE
    BY <2>1, <2>2, <1>5 DEF Frame, WorkTodo, WorkStep, ActivationOps
  <2>3. CASE tl[k].activation = FALSE
    <3>1. CallTodo(tl[k].todo) /\ tl[k].todo # <<>>
      BY <2>1, <2>3 DEF Frame
    <3>2. tl[k].todo[1].op # "timer"
      BY <1>4
    <3> QED
      BY <3>1, <3>2, <1>5, CallRest
  <2> QED
    BY <2>1, <2>2, <2>3 DEF Frame
<1> QED
  BY <1>5 DEF Ticking, tl

(* A drain that has begun is a drain.                                      *)
LEMMA WorkingDrains ==
  ASSUME NEW st, StackOK(st), NEW i, Working(st, i)
  PROVE  Draining(st, i)
<1>1. PICK k \in DOMAIN st : Resumed(st[k].todo[1]) /\ st[k].todo[1].i = i
  BY DEF Working
<1>2. Frame(st[k])
  BY DEF StackOK
<1>3. IsSequence(st[k].todo) /\ st[k].todo # <<>>
  BY <1>2 DEF Frame, WorkTodo, CallTodo
<1>4. 1 \in DOMAIN st[k].todo
  BY <1>3, SeqFacts
<1> QED
  BY <1>1, <1>4 DEF Draining, Resumed, IsDrain

(* A step of a call for the instance i: it goes on with c, and only the    *)
(* table of i changes.                                                     *)
LEMMA CallStepKeeps ==
  ASSUME EngineInv, stack # <<>>, stack[1].activation = FALSE,
         NEW i \in Instances, stack[1].todo[1].i = i,
         NEW c, Fresh(c), stack' = CallOn(stack, c),
         \A j \in Instances \ {i} : HasDrain(stack[1].todo, j) => HasDrain(c, j),
         \A j \in Instances \ {i} : \A t : HasTimer(c, j, t) <=> HasTimer(stack[1].todo, j, t),
         NEW y, InstIs(i, y), InstanceOK(i, y, now),
         y.processing <=> inst[i].processing /\ ~Resumed(stack[1].todo[1]),
         y.deferred = inst[i].deferred,
         is_active(y) /\ ~is_empty(y.queue) /\ ~y.exhausted =>
           HasDrain(c, i) \/ Draining(Tail(stack), i),
         \A t \in Timers(i) : Reported(y, t) \/ HasTimer(c, i, t),
         \A t \in Timers(i) : HasTimer(c, i, t) => y.evaluated = now,
         UNCHANGED <<now, clock>>
  PROVE  EngineInv'
<1>1. StackOK(stack) /\ \A j \in Instances : Accounted(j, inst[j], stack, now)
  BY DEF EngineInv
<1>2. \A j, t : ~Ticking(Tail(stack), j, t)
  BY <1>1, NoTimersBelow
<1>3. /\ StackOK(stack')
      /\ \A j : Working(stack', j) <=>
           Working(stack, j) /\ ~(Resumed(stack[1].todo[1]) /\ stack[1].todo[1].i = j)
      /\ \A j : Settling(stack', j) <=> Settling(stack, j)
      /\ \A j : Draining(stack', j) <=> HasDrain(c, j) \/ Draining(Tail(stack), j)
      /\ \A j : Draining(stack, j) <=> HasDrain(stack[1].todo, j) \/ Draining(Tail(stack), j)
      /\ \A j, t : Ticking(stack', j, t) <=> HasTimer(c, j, t) \/ Ticking(Tail(stack), j, t)
      /\ \A j, t : Ticking(stack, j, t) <=> HasTimer(stack[1].todo, j, t) \/ Ticking(Tail(stack), j, t)
  <2>1. /\ StackOK(CallOn(stack, c))
        /\ \A j : Working(CallOn(stack, c), j) <=>
             Working(stack, j) /\ ~(Resumed(stack[1].todo[1]) /\ stack[1].todo[1].i = j)
        /\ \A j : Settling(CallOn(stack, c), j) <=> Settling(stack, j)
        /\ \A j : Draining(CallOn(stack, c), j) <=> HasDrain(c, j) \/ Draining(Tail(stack), j)
        /\ \A j : Draining(stack, j) <=> HasDrain(stack[1].todo, j) \/ Draining(Tail(stack), j)
        /\ \A j, t : Ticking(CallOn(stack, c), j, t) <=> HasTimer(c, j, t) \/ Ticking(Tail(stack), j, t)
        /\ \A j, t : Ticking(stack, j, t) <=> HasTimer(stack[1].todo, j, t) \/ Ticking(Tail(stack), j, t)
    BY <1>1, CallGoesOn
  <2> QED
    BY <2>1
<1>4. \A j, t : /\ Ticking(stack', j, t) <=> HasTimer(c, j, t)
                /\ Ticking(stack, j, t) <=> HasTimer(stack[1].todo, j, t)
  BY <1>2, <1>3
<1>5. TypeOK'
  <2>1. \A j \in Instances : InstanceOK(j, inst'[j], now)
    BY DEF InstIs, EngineInv, TypeOK
  <2> QED
    BY <2>1 DEF EngineInv, TypeOK, InstIs
<1>6. ASSUME NEW j \in Instances, j # i
      PROVE  Accounted(j, inst'[j], stack', now')
  <2>1. Accounted(j, inst[j], stack, now)
    BY <1>1
  <2>2. inst'[j] = inst[j] /\ now' = now
    BY <1>6 DEF InstIs
  <2>3. Working(stack', j) <=> Working(stack, j)
    BY <1>3, <1>6
  <2>4. Draining(stack, j) => Draining(stack', j)
    BY <1>3, <1>6
  <2>5. \A t : Ticking(stack', j, t) <=> Ticking(stack, j, t)
    BY <1>4, <1>6
  <2>6. Accounted(j, inst[j], stack', now)
    BY <1>3, <2>1, <2>3, <2>4, <2>5 DEF Accounted
  <2> QED
    BY <2>2, <2>6
<1>7. Accounted(i, inst'[i], stack', now')
  <2>1. Accounted(i, inst[i], stack, now)
    BY <1>1
  <2>2. inst'[i] = y /\ now' = now
    BY DEF InstIs
  <2>3. y.processing <=> Working(stack', i)
    BY <1>3, <2>1 DEF Accounted
  <2>4. y.deferred # None => Settling(stack', i)
    BY <1>3, <2>1 DEF Accounted
  <2>5. \A t \in Timers(i) : Reported(y, t) \/ Ticking(stack', i, t)
    BY <1>4
  <2>6. \A t \in Timers(i) : Ticking(stack', i, t) => y.evaluated = now
    BY <1>4
  <2>7. is_active(y) /\ ~is_empty(y.queue) /\ ~y.exhausted => Draining(stack', i)
    BY <1>3
  <2>8. Accounted(i, y, stack', now)
    BY <2>3, <2>4, <2>5, <2>6, <2>7 DEF Accounted
  <2> QED
    BY <2>2, <2>8
<1>8. \A j \in Instances : Accounted(j, inst'[j], stack', now')
  BY <1>6, <1>7
<1> QED
  BY <1>3, <1>5, <1>8 DEF EngineInv


(* What the call in progress goes on with.                                 *)
LEMMA CallContinues ==
  ASSUME EngineInv, NEW op \in CallOps, At(op)
  PROVE  /\ Continued(Top, <<>>) => stack' = CallOn(stack, Tail(stack[1].todo))
         /\ \A b : Continued(Top, b) => stack' = CallOn(stack, b \o Tail(stack[1].todo))
<1>1. Top = stack[1] /\ stack[1].todo # <<>> /\ IsSequence(stack[1].todo)
  BY AtTop
<1>2. \A b : Continued(Top, b) => stack' = CallOn(stack, b \o Tail(stack[1].todo))
  BY <1>1 DEF Continued, CallOn
<1>3. <<>> \o Tail(stack[1].todo) = Tail(stack[1].todo)
  <2>1. IsSequence(Tail(stack[1].todo))
    BY <1>1, TailIs
  <2> QED
    BY <2>1, ConcatEmptySeq DEF IsSequence
<1>4. Continued(Top, <<>>) => stack' = CallOn(stack, <<>> \o Tail(stack[1].todo))
  BY <1>2
<1> QED
  BY <1>2, <1>3, <1>4

(* Draining: the flag is set exactly while the drain that set it is on the *)
(* stack, so a second one is refused and leaves the queue to the first.    *)
LEMMA DrainInv ==
  ASSUME EngineInv, UNCHANGED clock, drain_refused \/ drain_over \/ drain_event
  PROVE  EngineInv'
<1> DEFINE s == stack[1].todo[1]
           i == s.i
           x == inst[i]
           r == Tail(stack[1].todo)
<1>1. At("drain") /\ "drain" \in CallOps
  BY DEF drain_refused, drain_over, drain_event, CallOps
<1>2. /\ stack # <<>> /\ Top = stack[1] /\ Step = s /\ s.op = "drain"
      /\ stack[1].todo # <<>> /\ stack[1].activation = FALSE
      /\ CallTodo(stack[1].todo) /\ CallStep(s)
  BY <1>1, AtTop
<1>3. i \in Instances /\ s.entered \in BOOLEAN /\ Resumed(s) = s.entered
  BY <1>2 DEF CallStep, Resumed
<1>4. /\ now \in Nat /\ InstanceOK(i, x, now) /\ DOMAIN inst = Instances
      /\ StackOK(stack) /\ Accounted(i, x, stack, now)
  BY <1>3 DEF EngineInv, TypeOK
<1>5. UNCHANGED <<now, clock>>
  BY DEF drain_refused, drain_over, drain_event
<1>6. /\ Fresh(r)
      /\ \A j : HasDrain(stack[1].todo, j) <=> IsDrain(s, j) \/ HasDrain(r, j)
      /\ \A j, t : HasTimer(stack[1].todo, j, t) <=> HasTimer(r, j, t)
      /\ \A m \in DOMAIN r : r[m].op # "timer"
  BY <1>2, CallRest
<1>7. \A j, t : ~HasTimer(r, j, t)
  BY <1>6 DEF HasTimer
<1>8. \A j \in Instances \ {i} : HasDrain(stack[1].todo, j) => HasDrain(r, j)
  BY <1>6 DEF IsDrain
<1>9. \A t \in Timers(i) : Reported(x, t)
  <2>1. \A j, t : Ticking(stack, j, t) <=> HasTimer(stack[1].todo, j, t) \/ Ticking(Tail(stack), j, t)
    BY <1>2, <1>4, <1>6, CallGoesOn
  <2>2. \A j, t : ~Ticking(stack, j, t)
    BY <2>1, <1>2, <1>4, <1>6, <1>7, NoTimersBelow
  <2> QED
    BY <2>2, <1>4 DEF Accounted
<1>10. ASSUME Continued(Top, <<>>), NEW y, InstIs(i, y), InstanceOK(i, y, now),
              y.processing <=> x.processing /\ ~Resumed(s),
              y.deferred = x.deferred, y.timers = x.timers, y.evaluated = x.evaluated,
              is_active(y) /\ ~is_empty(y.queue) /\ ~y.exhausted => Draining(Tail(stack), i)
       PROVE  EngineInv'
  <2>1. stack' = CallOn(stack, r)
    BY <1>1, <1>10, CallContinues
  <2>2. \A t \in Timers(i) : Reported(y, t)
    BY <1>9, <1>10 DEF Reported
  <2> HIDE DEF r, x, s, i
  <2>3. /\ \A j \in Instances \ {i} : \A t : HasTimer(r, j, t) <=> HasTimer(stack[1].todo, j, t)
        /\ \A t \in Timers(i) : Reported(y, t) \/ HasTimer(r, i, t)
        /\ \A t \in Timers(i) : HasTimer(r, i, t) => y.evaluated = now
    BY <2>2, <1>6, <1>7
  <2>4. stack[1].todo[1].i = i /\ (y.processing <=> inst[i].processing /\ ~Resumed(stack[1].todo[1]))
        /\ y.deferred = inst[i].deferred
    BY <1>10 DEF s, i, x
  <2> QED
    BY <2>1, <2>3, <2>4, <1>2, <1>3, <1>5, <1>6, <1>8, <1>10, CallStepKeeps
<1>11. CASE drain_refused
  <2>1. Continued(Top, <<>>) /\ UNCHANGED inst /\ x.processing /\ ~s.entered
    BY <1>2, <1>11 DEF drain_refused, Busy
  <2>2. InstIs(i, x)
    BY <2>1, <1>3, InstExcept
  <2>3. Working(stack, i) /\ ~Resumed(s)
    BY <2>1, <1>3, <1>4 DEF Accounted
  <2>4. Working(Tail(stack), i)
    BY <2>3, <1>2, <1>4, StackSplits DEF StackOK
  <2>5. Draining(Tail(stack), i)
    BY <2>4, <1>2, <1>4, StackPopped, WorkingDrains
  <2> QED
    BY <2>1, <2>2, <2>3, <2>5, <1>4, <1>10, ZenonT(30)
<1>12. CASE drain_over
  <2> DEFINE waiting == ~is_empty(x.queue) /\ is_active(x)
             y == [x EXCEPT !.processing = FALSE, !.exhausted = waiting]
  <2>1. Continued(Top, <<>>)
    BY <1>12 DEF drain_over
  <2>2. ~(x.processing /\ ~s.entered)
    BY <1>2, <1>12 DEF drain_over, Busy
  <2>3. inst' = [inst EXCEPT ![i].processing = FALSE, ![i].exhausted = waiting]
    BY <1>2, <1>12 DEF drain_over
  <2>4. DOMAIN x = InstanceFields
    BY <1>4 DEF InstanceOK
  <2>5. inst' = [inst EXCEPT ![i] = y]
    BY <2>3, <2>4, <1>3, <1>4 DEF InstanceFields
  <2>6. InstIs(i, y)
    BY <2>5, <1>3, InstExcept
  <2>7. /\ DOMAIN y = InstanceFields /\ y.processing = FALSE /\ y.exhausted = waiting
        /\ y.lifecycle = x.lifecycle /\ y.state = x.state /\ y.deferred = x.deferred
        /\ y.queue = x.queue /\ y.timers = x.timers /\ y.evaluated = x.evaluated
    BY <2>4 DEF InstanceFields
  <2> HIDE DEF y
  <2>8. InstanceOK(i, y, now)
    BY <2>7, <1>4 DEF InstanceOK
  <2>9. y.processing <=> x.processing /\ ~Resumed(s)
    BY <2>2, <2>7, <1>3
  <2>10. ~(is_active(y) /\ ~is_empty(y.queue) /\ ~y.exhausted)
    BY <2>7 DEF is_active, is_empty
  <2> QED
    BY <2>1, <2>6, <2>7, <2>8, <2>9, <2>10, <1>10, ZenonT(30)
<1>13. CASE drain_event
  <2> DEFINE e == Head(x.queue.slots)
             y == [x EXCEPT !.processing = TRUE, !.queue = pop(@)]
  <2>1. ~(x.processing /\ ~s.entered) /\ is_active(x)
    BY <1>2, <1>13, ZenonT(30) DEF drain_event, Busy
  <2>2. inst' = [inst EXCEPT ![i].processing = TRUE, ![i].queue = pop(@)]
    BY <1>2, <1>13 DEF drain_event
  <2>3. stack' = Begun(stack, e)
    BY <1>2, <1>13 DEF drain_event, Begun
  <2>4. DOMAIN x = InstanceFields
    BY <1>4 DEF InstanceOK
  <2>5. inst' = [inst EXCEPT ![i] = y]
    BY <2>2, <2>4, <1>3, <1>4 DEF InstanceFields
  <2>6. InstIs(i, y)
    BY <2>5, <1>3, InstExcept
  <2>7. /\ DOMAIN y = InstanceFields /\ y.processing = TRUE /\ y.exhausted = x.exhausted
        /\ y.lifecycle = x.lifecycle /\ y.state = x.state /\ y.deferred = x.deferred
        /\ y.queue = pop(x.queue) /\ y.timers = x.timers /\ y.evaluated = x.evaluated
    BY <2>4 DEF InstanceFields
  <2> HIDE DEF y
  <2>8. "slots" \in DOMAIN y.queue
    BY <2>7, <1>4, ZenonT(30) DEF InstanceOK, pop
  <2>9. InstanceOK(i, y, now)
    BY <2>7, <2>8, <1>4 DEF InstanceOK
  <2>10. s.entered \/ ~Working(stack, s.i)
    BY <2>1, <1>3, <1>4, ZenonT(30) DEF Accounted
  <2>11. /\ StackOK(stack')
         /\ \A j : Working(stack', j) <=> Working(stack, j) \/ j = i
         /\ \A j : Settling(stack, j) => Settling(stack', j)
         /\ \A j : Draining(stack, j) => Draining(stack', j)
         /\ \A j, t : Ticking(stack', j, t) <=> Ticking(stack, j, t)
    <3> HIDE DEF e
    <3> QED
      BY <2>3, <2>10, <1>2, <1>4, EventBegins
  <2>12. Draining(stack', i)
    <3>1. HasDrain(stack[1].todo, i)
      BY <1>2, <1>6 DEF IsDrain
    <3>2. Draining(stack, i)
      BY <3>1, <1>2, <1>4, <1>6, CallGoesOn
    <3> QED
      BY <3>2, <2>11
  <2>13. TypeOK'
    <3>1. \A j \in Instances : InstanceOK(j, inst'[j], now)
      BY <2>6, <2>9 DEF InstIs, EngineInv, TypeOK
    <3> QED
      BY <3>1, <2>6, <1>5 DEF EngineInv, TypeOK, InstIs
  <2> HIDE DEF x, i, s, r, e
  <2>14. ASSUME NEW j \in Instances, j # i
         PROVE  Accounted(j, inst'[j], stack', now')
    <3>1. Accounted(j, inst[j], stack, now)
      BY DEF EngineInv
    <3>2. inst'[j] = inst[j] /\ now' = now
      BY <2>6, <2>14, <1>5 DEF InstIs
    <3>3. Accounted(j, inst[j], stack', now)
      BY <2>11, <2>14, <3>1 DEF Accounted
    <3> QED
      BY <3>2, <3>3
  <2>15. Accounted(i, inst'[i], stack', now')
    <3>1. inst'[i] = y /\ now' = now
      BY <2>6, <1>5 DEF InstIs
    <3>2. y.processing <=> Working(stack', i)
      BY <2>7, <2>11
    <3>3. y.deferred # None => Settling(stack', i)
      BY <2>7, <2>11, <1>4 DEF Accounted
    <3>4. \A t \in Timers(i) : Reported(y, t)
      BY <2>7, <1>9 DEF Reported
    <3>5. \A t \in Timers(i) : Ticking(stack', i, t) => y.evaluated = now
      BY <2>7, <2>11, <1>4 DEF Accounted
    <3>6. Accounted(i, y, stack', now)
      BY <2>12, <3>2, <3>3, <3>4, <3>5 DEF Accounted
    <3> QED
      BY <3>1, <3>6
  <2>16. \A j \in Instances : Accounted(j, inst'[j], stack', now')
    BY <2>14, <2>15
  <2> QED
    BY <2>11, <2>13, <2>16 DEF EngineInv
<1> QED
  BY <1>11, <1>12, <1>13


-----------------------------------------------------------------------------
(* Time.                                                                   *)

(* Division, and the periods in a span of time.                            *)
LEMMA DivIs ==
  ASSUME NEW n \in Nat, NEW d \in Nat \ {0}
  PROVE  /\ n \div d \in Nat
         /\ (n \div d) * d <= n /\ n < (n \div d) * d + d
  OBVIOUS

LEMMA NextMultiple ==
  ASSUME NEW q \in Nat, NEW r \in Nat, NEW d \in Nat \ {0}, q < r
  PROVE  q * d + d <= r * d
<1>1. PICK z \in Nat : r = q + 1 + z
  <2>1. r - q - 1 \in Nat /\ r = q + 1 + (r - q - 1)
    OBVIOUS
  <2> QED
    BY <2>1
<1>2. r * d = q * d + d + z * d
  BY <1>1
<1>3. z * d \in Nat
  OBVIOUS
<1> QED
  BY <1>2, <1>3

LEMMA DivUnique ==
  ASSUME NEW n \in Nat, NEW d \in Nat \ {0}, NEW q \in Nat, q * d <= n, n < q * d + d
  PROVE  n \div d = q
<1> DEFINE r == n \div d
<1>1. r \in Nat /\ r * d <= n /\ n < r * d + d
  BY DivIs
<1> HIDE DEF r
<1>2. q * d \in Nat /\ r * d \in Nat
  BY <1>1
<1>3. CASE q < r
  <2>1. q * d + d <= r * d
    BY <1>1, <1>3, NextMultiple
  <2> QED
    BY <2>1, <1>1, <1>2
<1>4. CASE r < q
  <2>1. r * d + d <= q * d
    BY <1>1, <1>4, NextMultiple
  <2> QED
    BY <2>1, <1>1, <1>2
<1> QED
  BY <1>1, <1>3, <1>4 DEF r

(* k periods of length d since o were reported: no other is due, or with   *)
(* the p that are the count is exact and the deadline on its grid.         *)
LEMMA NoneDue ==
  ASSUME NEW o \in Nat, NEW k \in Nat, NEW d \in Nat \ {0}, NEW time \in Nat,
         o + k * d <= time, time < o + (k + 1) * d
  PROVE  k = (time - o) \div d
<1>1. k * d \in Nat /\ (k + 1) * d = k * d + d
  OBVIOUS
<1>2. time - o \in Nat /\ k * d <= time - o
  BY <1>1
<1>3. time - o < k * d + d
  BY <1>1, <1>2
<1> QED
  BY <1>2, <1>3, DivUnique

LEMMA SomeDue ==
  ASSUME NEW o \in Nat, NEW k \in Nat, NEW d \in Nat \ {0}, NEW time \in Nat,
         NEW g \in Nat, NEW p \in Nat, g = o + (k + 1) * d, p = 1 + (time - g) \div d,
         o + k * d <= time, time >= g
  PROVE  /\ k + p = (time - o) \div d
         /\ g + d * p = o + (k + p + 1) * d
         /\ o + (k + p) * d <= time
<1>1. k * d \in Nat /\ (k + 1) * d = k * d + d
  OBVIOUS
<1>2. time - o \in Nat /\ k * d <= time - o
  BY <1>1
<1> DEFINE n == time - g
           q == n \div d
<1>3. n \in Nat /\ p = 1 + q
  BY <1>1
<1>4. n = time - o - k * d - d
  BY <1>1
<1> HIDE DEF n
<1>5. q \in Nat /\ q * d <= n /\ n < q * d + d
  BY <1>3, DivIs
<1>6. q * d \in Nat
  BY <1>5
<1> HIDE DEF q
<1>7. p \in Nat /\ k + p \in Nat /\ p = 1 + q
  BY <1>3, <1>5
<1>8. /\ (k + p) * d = k * d + d + q * d /\ d * p = d + q * d
      /\ (k + p + 1) * d = k * d + d + q * d + d
  BY <1>5, <1>7
<1>9. (k + p) * d <= time - o /\ time - o < (k + p) * d + d
  BY <1>4, <1>5, <1>6, <1>8, <1>1, <1>2
<1>10. k + p = (time - o) \div d
  BY <1>7, <1>9, <1>2, DivUnique
<1>11. g + d * p = o + (k + p + 1) * d
  BY <1>6, <1>8, <1>1
<1>12. o + (k + p) * d <= time
  BY <1>6, <1>8, <1>9, <1>1, <1>2
<1> QED
  BY <1>10, <1>11, <1>12

(* What a machine word holds.                                              *)
LEMMA WordIs ==
  ASSUME NEW n \in Nat, NEW m \in Nat \ {0}
  PROVE  n % m \in Nat /\ n % m < m /\ (n < m => n % m = n)
  OBVIOUS

(* The periods that are due never take the deadline beyond what the        *)
(* product can hold: they lie between the first deadline and now.          *)
LEMMA DueFits ==
  ASSUME NEW o \in Nat, NEW k \in Nat, NEW d \in Nat \ {0}, NEW time \in Nat,
         time >= o + (k + 1) * d
  PROVE  d * (1 + (time - (o + (k + 1) * d)) \div d) <= time
<1> DEFINE n == time - (o + (k + 1) * d)
           q == n \div d
<1>1. k * d \in Nat /\ (k + 1) * d = k * d + d
  OBVIOUS
<1>2. n \in Nat /\ n + d <= time
  BY <1>1
<1> HIDE DEF n
<1>3. q \in Nat /\ q * d <= n
  BY <1>2, DivIs
<1> HIDE DEF q
<1>4. d * (1 + q) = d + q * d /\ q * d \in Nat
  BY <1>3
<1>5. d * (1 + q) <= time
  BY <1>2, <1>3, <1>4
<1> QED
  BY <1>5 DEF q, n

(* A timer that was looked at has reported every period that is over.      *)
LEMMA TurnReports ==
  ASSUME now \in Nat, NEW slot, SlotOK(slot, now), NEW new,
         new = IF Due(slot) THEN expired(slot) ELSE slot
  PROVE  /\ SlotOK(new, now)
         /\ new.running /\ ~new.lapped /\ now < TimeTop =>
              new.ticks = (now - new.origin) \div new.duration
<1> DEFINE o == slot.origin
           k == slot.ticks
           d == slot.duration
           due == 1 + (now - slot.deadline_us) \div d
           p == due % CountMod
           end == sat_add(slot.deadline_us, (d * p) % (TimeTop + 1), TimeTop)
<1>1. /\ DOMAIN slot = SlotFields /\ slot.running \in BOOLEAN
      /\ o \in Nat /\ k \in Nat /\ d \in Nat \ {0} /\ slot.deadline_us \in Nat
  BY DEF SlotOK
<1>2. slot.running /\ ~slot.lapped /\ now < TimeTop => OnGrid(slot) /\ o + k * d <= now
  BY DEF SlotOK
<1>0. TimeTop \in Nat /\ CountMod \in Nat \ {0} /\ TimeTop + 1 \in Nat \ {0}
  BY EngineAssumption
<1>3. CASE ~slot.running
  <2>1. new = slot
    BY <1>3 DEF Due
  <2> QED
    BY <2>1, <1>3
<1>4. CASE slot.running /\ ~Due(slot)
  <2>1. new = slot /\ now < slot.deadline_us
    BY <1>1, <1>4 DEF Due
  <2>2. ASSUME ~slot.lapped, now < TimeTop
        PROVE  k = (now - o) \div d
    <3>1. OnGrid(slot) /\ o + k * d <= now
      BY <1>2, <1>4, <2>2
    <3>2. o + (k + 1) * d \in Nat
      BY <1>1
    <3>3. now < o + (k + 1) * d
      BY <1>0, <1>1, <2>1, <2>2, <3>1, <3>2 DEF OnGrid
    <3> HIDE DEF o, k, d
    <3> QED
      BY <1>1, <3>1, <3>3, NoneDue
  <2> QED
    BY <2>1, <2>2
<1>5. CASE slot.running /\ Due(slot) /\ ~slot.repeat
  <2>1. new = [slot EXCEPT !.running = FALSE]
    BY <1>5 DEF expired
  <2>2. /\ DOMAIN new = SlotFields /\ new.running = FALSE
        /\ new.duration = d /\ new.origin = o /\ new.ticks = k /\ new.deadline_us = slot.deadline_us
    BY <2>1, <1>1 DEF SlotFields
  <2> QED
    BY <2>2, <1>1 DEF SlotOK
<1>6. CASE slot.running /\ Due(slot) /\ slot.repeat
  <2>1. now >= slot.deadline_us /\ now - slot.deadline_us \in Nat
    BY <1>1, <1>6 DEF Due
  <2>2. due \in Nat
    <3>1. (now - slot.deadline_us) \div d \in Nat
      BY <1>1, <2>1, DivIs
    <3> QED
      BY <3>1
  <2>3. new = [slot EXCEPT !.deadline_us = end, !.ticks = @ + p, !.lapped = @ \/ due >= CountMod]
    BY <1>6 DEF expired
  <2> HIDE DEF due
  <2>4. p \in Nat /\ (due < CountMod => p = due)
    BY <1>0, <2>2, WordIs
  <2> HIDE DEF p
  <2>5. d * p \in Nat
    BY <1>1, <2>4
  <2>6. /\ (d * p) % (TimeTop + 1) \in Nat
        /\ d * p < TimeTop + 1 => (d * p) % (TimeTop + 1) = d * p
    <3> DEFINE m == d * p
    <3>1. m \in Nat
      BY <2>5
    <3> HIDE DEF m
    <3>2. m % (TimeTop + 1) \in Nat /\ (m < TimeTop + 1 => m % (TimeTop + 1) = m)
      BY <3>1, <1>0, WordIs
    <3> QED
      BY <3>2 DEF m
  <2>7. end \in Nat
    <3> DEFINE w == (d * p) % (TimeTop + 1)
    <3>1. w \in Nat
      BY <2>6
    <3> HIDE DEF w
    <3>2. sat_add(slot.deadline_us, w, TimeTop) \in Nat
      BY <1>0, <1>1, <3>1 DEF sat_add
    <3> QED
      BY <3>2 DEF w
  <2>8. /\ DOMAIN new = SlotFields /\ new.running = slot.running /\ new.duration = d
        /\ new.origin = o /\ new.ticks = k + p /\ new.deadline_us = end
        /\ ~new.lapped => ~slot.lapped /\ ~(due >= CountMod)
    <3> HIDE DEF end
    <3> QED
      BY <2>3, <1>1 DEF SlotFields
  <2>9. ASSUME ~new.lapped, now < TimeTop
        PROVE  /\ OnGrid(new) /\ new.origin + new.ticks * new.duration <= now
               /\ new.ticks = (now - new.origin) \div new.duration
    <3> DEFINE g == o + (k + 1) * d
    <3>1. g \in Nat
      BY <1>1
    <3>2. OnGrid(slot) /\ o + k * d <= now
      BY <1>2, <1>6, <2>8, <2>9
    <3>3. slot.deadline_us = g
      BY <1>0, <1>1, <2>1, <2>9, <3>1, <3>2 DEF OnGrid
    <3>4. p = 1 + (now - g) \div d
      BY <1>0, <2>2, <2>4, <2>8, <2>9, <3>3 DEF due
    <3>5. d * p <= now /\ now >= g
      <4>1. now >= g
        BY <2>1, <3>3
      <4>2. d * (1 + (now - g) \div d) <= now
        <5> HIDE DEF o, k, d
        <5> QED
          BY <4>1, <1>1, DueFits
      <4> QED
        BY <3>4, <4>1, <4>2
    <3>6. /\ k + p = (now - o) \div d
          /\ g + d * p = o + (k + p + 1) * d
          /\ o + (k + p) * d <= now
      <4>1. /\ o \in Nat /\ k \in Nat /\ d \in Nat \ {0} /\ o + k * d <= now
            /\ g = o + (k + 1) * d /\ g \in Nat /\ p \in Nat /\ now \in Nat
        BY <1>1, <2>4, <3>1, <3>2
      <4>2. now >= g
        BY <3>5
      <4> HIDE DEF o, k, d, end, g
      <4> QED
        BY <4>1, <4>2, <3>4, SomeDue
    <3>7. d * p < TimeTop + 1
      BY <1>0, <2>5, <2>9, <3>5
    <3>8. end = sat_add(g, d * p, TimeTop)
      BY <2>6, <3>3, <3>7
    <3>9. end = g + d * p \/ (end = TimeTop /\ g + d * p >= TimeTop)
      <4> DEFINE m == d * p
      <4>1. m \in Nat /\ end = sat_add(g, m, TimeTop)
        BY <2>5, <3>8
      <4> HIDE DEF m, g, end
      <4>2. end = g + m \/ (end = TimeTop /\ g + m >= TimeTop)
        BY <1>0, <3>1, <4>1 DEF sat_add
      <4> QED
        BY <4>2 DEF m
    <3>10. OnGrid(new)
      <4> HIDE DEF end, g
      <4>1. new.origin + (new.ticks + 1) * new.duration = g + d * p
        BY <2>8, <3>6
      <4> QED
        BY <2>8, <3>9, <4>1 DEF OnGrid
    <3> QED
      BY <2>8, <3>6, <3>10
  <2>10. new.ticks \in Nat /\ new.deadline_us \in Nat
    BY <1>1, <2>4, <2>7, <2>8
  <2> HIDE DEF end
  <2>11. SlotOK(new, now)
    BY <1>1, <2>8, <2>9, <2>10 DEF SlotOK
  <2> QED
    BY <2>9, <2>11
<1> QED
  BY <1>1, <1>3, <1>4, <1>5, <1>6


(* A tick: each running instance looks at all its timers, at the time of   *)
(* the tick, before its queue is drained.                                  *)
LEMMA TickInv ==
  ASSUME EngineInv, UNCHANGED clock, tick_instance \/ timer_turn
  PROVE  EngineInv'
<1> DEFINE s == stack[1].todo[1]
           i == s.i
           x == inst[i]
           r == Tail(stack[1].todo)
<1>1. PICK op \in CallOps : At(op) /\ op \in {"timers", "timer"}
  BY DEF tick_instance, timer_turn, CallOps
<1>2. /\ stack # <<>> /\ Top = stack[1] /\ Step = s /\ s.op = op
      /\ stack[1].todo # <<>> /\ stack[1].activation = FALSE
      /\ CallTodo(stack[1].todo) /\ CallStep(s)
  BY <1>1, AtTop
<1>3. i \in Instances /\ ~Resumed(s) /\ \A j : ~IsDrain(s, j)
  BY <1>1, <1>2 DEF CallStep, Resumed, IsDrain
<1>4. /\ now \in Nat /\ InstanceOK(i, x, now) /\ DOMAIN inst = Instances
      /\ StackOK(stack) /\ Accounted(i, x, stack, now)
  BY <1>3 DEF EngineInv, TypeOK
<1>5. UNCHANGED <<now, clock>>
  BY DEF tick_instance, timer_turn
<1>6. /\ Fresh(r)
      /\ s.op = "timer" => HasDrain(r, i)
      /\ s.op # "timer" => \A m \in DOMAIN r : r[m].op # "timer"
      /\ \A j : HasDrain(stack[1].todo, j) <=> IsDrain(s, j) \/ HasDrain(r, j)
      /\ \A j, t : HasTimer(stack[1].todo, j, t) <=>
           \/ s.op = "timer" /\ s.i = j /\ s.timer = t
           \/ HasTimer(r, j, t)
  BY <1>2, CallRest
<1>7. \A j : HasDrain(stack[1].todo, j) <=> HasDrain(r, j)
  BY <1>3, <1>6
<1>8. \A t : Ticking(stack, i, t) <=> HasTimer(stack[1].todo, i, t)
  <2>1. \A j, t : Ticking(stack, j, t) <=> HasTimer(stack[1].todo, j, t) \/ Ticking(Tail(stack), j, t)
    BY <1>2, <1>4, <1>6, CallGoesOn
  <2> QED
    BY <2>1, <1>2, <1>4, NoTimersBelow
<1>9. \A j \in Instances \ {i} : \A t : HasTimer(r, j, t) <=> HasTimer(stack[1].todo, j, t)
  BY <1>6
<1>10. ASSUME NEW c, Fresh(c), stack' = CallOn(stack, c),
              \A j \in Instances \ {i} : HasDrain(r, j) => HasDrain(c, j),
              \A j \in Instances \ {i} : \A t : HasTimer(c, j, t) <=> HasTimer(r, j, t),
              NEW y, InstIs(i, y), InstanceOK(i, y, now),
              y.processing = x.processing, y.deferred = x.deferred,
              is_active(y) /\ ~is_empty(y.queue) /\ ~y.exhausted =>
                HasDrain(c, i) \/ Draining(Tail(stack), i),
              \A t \in Timers(i) : Reported(y, t) \/ HasTimer(c, i, t),
              \A t \in Timers(i) : HasTimer(c, i, t) => y.evaluated = now
       PROVE  EngineInv'
  <2>1. /\ stack[1].todo[1].i = i /\ (y.processing <=> inst[i].processing /\ ~Resumed(stack[1].todo[1]))
        /\ y.deferred = inst[i].deferred
    BY <1>3, <1>10
  <2> HIDE DEF r, x, s, i
  <2>2. /\ \A j \in Instances \ {i} : HasDrain(stack[1].todo, j) => HasDrain(c, j)
        /\ \A j \in Instances \ {i} : \A t : HasTimer(c, j, t) <=> HasTimer(stack[1].todo, j, t)
    BY <1>7, <1>9, <1>10
  <2> QED
    BY <2>1, <2>2, <1>2, <1>3, <1>5, <1>10, CallStepKeeps
<1>11. CASE tick_instance
  <2>1. s.op = "timers"
    BY <1>2, <1>11 DEF tick_instance, At
  <2>2. \A m \in DOMAIN r : r[m].op # "timer"
    BY <2>1, <1>6
  <2>3. \A j, t : ~HasTimer(r, j, t)
    BY <2>2 DEF HasTimer
  <2>4. CASE is_active(x)
    <3> DEFINE c == TimerLoop(i) \o r
               y == [x EXCEPT !.exhausted = FALSE, !.evaluated = now]
    <3>1. inst' = [inst EXCEPT ![i].exhausted = FALSE, ![i].evaluated = now]
      BY <2>4, <1>2, <1>11 DEF tick_instance
    <3>2. Continued(Top, TimerLoop(i))
      BY <2>4, <1>2, <1>11 DEF tick_instance
    <3>3. stack' = CallOn(stack, c)
      BY <3>2, <1>1, CallContinues
    <3>4. DOMAIN x = InstanceFields
      BY <1>4 DEF InstanceOK
    <3>5. inst' = [inst EXCEPT ![i] = y]
      BY <3>1, <3>4, <1>3, <1>4, ZenonT(30) DEF InstanceFields
    <3>6. InstIs(i, y)
      BY <3>5, <1>3, InstExcept
    <3>7. /\ DOMAIN y = InstanceFields /\ y.processing = x.processing /\ y.exhausted = FALSE
          /\ y.lifecycle = x.lifecycle /\ y.state = x.state /\ y.deferred = x.deferred
          /\ y.queue = x.queue /\ y.timers = x.timers /\ y.evaluated = now
      BY <3>4 DEF InstanceFields
    <3> HIDE DEF y
    <3>8. InstanceOK(i, y, now)
      <4>1. now <= now
        BY <1>4
      <4> QED
        BY <4>1, <3>7, <1>4, ZenonT(30) DEF InstanceOK
    <3>9. /\ Fresh(c) /\ HasDrain(c, i)
          /\ \A j : HasDrain(r, j) => HasDrain(c, j)
          /\ \A j, t : HasTimer(c, j, t) <=> j = i /\ t \in Timers(i)
      <4> HIDE DEF r, i
      <4> QED
        BY <2>2, <1>3, <1>6, LoopConcat
    <3> HIDE DEF c, r, i, x, s
    <3>10. /\ \A j \in Instances \ {i} : HasDrain(r, j) => HasDrain(c, j)
           /\ \A j \in Instances \ {i} : \A t : HasTimer(c, j, t) <=> HasTimer(r, j, t)
           /\ \A t \in Timers(i) : HasTimer(c, i, t)
      BY <2>3, <3>9
    <3> QED
      BY <3>3, <3>6, <3>7, <3>8, <3>9, <3>10, <1>10
  <2>5. CASE ~is_active(x)
    <3>1. Continued(Top, <<>>) /\ UNCHANGED inst
      BY <2>5, <1>2, <1>11 DEF tick_instance
    <3>2. stack' = CallOn(stack, r)
      BY <3>1, <1>1, CallContinues
    <3>3. InstIs(i, x)
      BY <3>1, <1>3, InstExcept
    <3>4. \A t \in Timers(i) : Reported(x, t)
      BY <2>1, <2>3, <1>4, <1>6, <1>8 DEF Accounted
    <3> HIDE DEF r, i, x, s
    <3> QED
      BY <3>2, <3>3, <3>4, <2>3, <2>5, <1>4, <1>6, <1>10
  <2> QED
    BY <2>4, <2>5
<1>12. CASE timer_turn
  <2> DEFINE t == s.timer
             old == x.timers[t]
             new == IF Due(old) THEN expired(old) ELSE old
             e == Event("TIMER_EXPIRED", <<i, t>>, TIMER, now)
             z == IF Due(old) THEN [x EXCEPT !.timers[t] = new] ELSE x
             y == IF Due(old) /\ instance_accepts(i, e) THEN queued(z, e) ELSE z
  <2>1. s.op = "timer"
    BY <1>2, <1>12, ZenonT(30) DEF timer_turn, At
  <2>2. t \in Timers(i)
    BY <2>1, <1>2 DEF CallStep
  <2>3. stack' = CallOn(stack, r)
    <3>1. Continued(Top, <<>>)
      BY <1>12 DEF timer_turn
    <3> QED
      BY <3>1, <1>1, CallContinues
  <2>4. /\ DOMAIN x = InstanceFields /\ DOMAIN x.timers = Timers(i) /\ SlotOK(old, now)
    BY <2>2, <1>4 DEF InstanceOK
  <2>5. /\ SlotOK(new, now)
        /\ new.running /\ ~new.lapped /\ now < TimeTop =>
             new.ticks = (now - new.origin) \div new.duration
    <3>1. new = IF Due(old) THEN expired(old) ELSE old
      OBVIOUS
    <3> HIDE DEF new, old
    <3> QED
      BY <3>1, <2>4, <1>4, TurnReports
  <2>6. x.evaluated = now
    <3>1. HasTimer(stack[1].todo, i, t)
      BY <2>1, <1>6
    <3>2. Ticking(stack, i, t)
      BY <3>1, <1>8
    <3> QED
      BY <3>2, <2>2, <1>4 DEF Accounted
  <2> HIDE DEF new
  <2>7. SlotSet(i, x, z, t, new)
    <3>1. CASE Due(old)
      BY <3>1, <2>4 DEF SlotSet, InstanceFields
    <3>2. CASE ~Due(old)
      <4>1. z = x /\ new = old
        BY <3>2 DEF new
      <4> HIDE DEF z, x, i, new
      <4> QED
        BY <4>1, <2>4 DEF SlotSet
    <3> QED
      BY <3>1, <3>2
  <2>8. /\ InstanceOK(i, z, now)
        /\ z.lifecycle = x.lifecycle /\ z.deferred = x.deferred /\ z.processing = x.processing
        /\ z.evaluated = x.evaluated
        /\ \A k \in Timers(i) : z.timers[k] = IF k = t THEN new ELSE x.timers[k]
    <3>1. /\ InstanceOK(i, z, now)
          /\ z.lifecycle = x.lifecycle /\ z.deferred = x.deferred /\ z.processing = x.processing
          /\ z.evaluated = x.evaluated
      <4>1. t \in Timers(i) => SlotOK(new, now)
        BY <2>5
      <4> HIDE DEF z, x, i, t, s, r, old, y, e
      <4>2. now \in Nat /\ InstanceOK(i, x, now)
        BY <1>4
      <4>3. InstanceOK(i, z, now)
        BY <4>1, <4>2, <2>7, SlotChanged
      <4> QED
        BY <4>3, <2>7 DEF SlotSet, InstanceFields
    <3> QED
      BY <3>1, <2>7, ZenonT(30) DEF SlotSet
  <2>9. \A k \in Timers(i) : Reported(z, k) \/ HasTimer(r, i, k)
    <3> SUFFICES ASSUME NEW k \in Timers(i)
                 PROVE  Reported(z, k) \/ HasTimer(r, i, k)
      BY ZenonT(30)
    <3> HIDE DEF z, old
    <3>1. CASE k = t
      <4>1. z.timers[k] = new /\ z.evaluated = now
        BY <3>1, <2>6, <2>8
      <4>2. new.origin \in Nat /\ (now \in new.origin .. TimeTop - 1 => now < TimeTop)
        BY <1>4, <2>5, EngineAssumption DEF SlotOK
      <4> QED
        BY <4>1, <4>2, <2>5 DEF Reported
    <3>2. CASE k # t
      <4>1. z.timers[k] = x.timers[k] /\ z.evaluated = x.evaluated
        BY <3>2, <2>8
      <4>2. Reported(x, k) \/ HasTimer(stack[1].todo, i, k)
        BY <1>4, <1>8 DEF Accounted
      <4>3. Reported(x, k) \/ HasTimer(r, i, k)
        BY <4>2, <3>2, <1>6
      <4> QED
        BY <4>1, <4>3 DEF Reported
    <3> QED
      BY <3>1, <3>2

  <2>11. InstIs(i, y)
    <3>1. CASE Due(old)
      <4>1. emit(i, [x EXCEPT !.timers[t] = expired(@)], e, instance_accepts(i, e))
        BY <3>1, <1>2, <1>12, ZenonT(30) DEF timer_turn
      <4>2. [x EXCEPT !.timers[t] = expired(@)] = z
        BY <3>1 DEF new
      <4>3. emit(i, z, e, instance_accepts(i, e))
        BY <4>1, <4>2
      <4>4. inst' = [inst EXCEPT ![i] = IF instance_accepts(i, e) THEN queued(z, e) ELSE z]
        BY <4>3 DEF emit
      <4>5. inst' = [inst EXCEPT ![i] = y]
        BY <4>4, <3>1, ZenonT(30)
      <4> QED
        BY <4>5, <1>3, InstExcept
    <3>2. CASE ~Due(old)
      <4>1. UNCHANGED inst
        BY <3>2, <1>2, <1>12 DEF timer_turn
      <4>2. y = x
        BY <3>2
      <4> HIDE DEF y
      <4> QED
        BY <4>1, <4>2, <1>3, InstExcept
    <3> QED
      BY <3>1, <3>2
  <2> HIDE DEF z, e
  <2>13. /\ Kept(i, z, queued(z, e), now)
         /\ queued(z, e).deferred = z.deferred
    <3> HIDE DEF i
    <3> QED
      BY <2>8, <1>4, QueuedKept
  <2>14. Kept(i, z, z, now)
    BY <2>8, <1>4, FieldKept
  <2>15. Kept(i, z, y, now) /\ y.deferred = z.deferred
    BY <2>13, <2>14
  <2> HIDE DEF y, x, i, r, s, t, old
  <2>16. /\ InstanceOK(i, y, now) /\ y.processing = x.processing /\ y.deferred = x.deferred
         /\ y.evaluated = now
         /\ \A k \in Timers(i) : Reported(y, k) \/ HasTimer(r, i, k)
    BY <2>6, <2>8, <2>9, <2>15 DEF Kept
  <2> QED
    BY <2>1, <2>3, <2>11, <2>16, <1>6, <1>10
<1> QED
  BY <1>11, <1>12


(* Every step the engine does by itself.                                   *)
LEMMA EngineStepInv ==
  ASSUME EngineInv, UNCHANGED clock, EngineStep
  PROVE  EngineInv'
<1>1. CASE \/ give_up_actions \/ send_message \/ set_signal \/ set_variable
           \/ action_timer \/ log \/ raise_fault \/ action_transition
  BY <1>1, ActionsInv
<1>2. CASE \/ select_transition \/ signal_changed \/ contain_fault \/ state_exited
           \/ commit \/ state_entered \/ run_deferred_chain \/ finish_activation \/ sink_returns
  BY <1>2, TransitionInv
<1>3. CASE drain_refused \/ drain_over \/ drain_event
  BY <1>3, DrainInv
<1>4. CASE tick_instance \/ timer_turn
  BY <1>4, TickInv
<1> QED
  BY <1>1, <1>2, <1>3, <1>4 DEF EngineStep

-----------------------------------------------------------------------------
(* The calls of the host keep the invariant.                               *)

LEMMA EmptyCall ==
  Fresh(<<>>) /\ (\A j : ~HasDrain(<<>>, j)) /\ (\A j, t : ~HasTimer(<<>>, j, t))
<1>1. IsSequence(<<>>) /\ DOMAIN <<>> = {}
  <2>1. <<>> \in Seq({}) /\ DOMAIN <<>> = {}
    OBVIOUS
  <2> QED
    BY <2>1, SeqIs
<1> QED
  BY <1>1 DEF Fresh, CallTodo, HasDrain, HasTimer

(* The stack after a call with the steps c.                                *)
LEMMA CallEntered ==
  ASSUME StackOK(stack), stack # <<>> => stack[1].todo[1].op = "sink", NEW c, Fresh(c), Enters(c)
  PROVE  /\ StackOK(stack')
         /\ \A j : Working(stack', j) <=> Working(stack, j)
         /\ \A j : Settling(stack', j) <=> Settling(stack, j)
         /\ \A j : Draining(stack', j) <=> HasDrain(c, j) \/ Draining(stack, j)
         /\ \A j, t : Ticking(stack', j, t) <=> HasTimer(c, j, t) \/ Ticking(stack, j, t)
<1>1. CASE c = <<>>
  <2>1. stack' = stack
    BY <1>1 DEF Enters
  <2>2. (\A j : ~HasDrain(c, j)) /\ \A j, t : ~HasTimer(c, j, t)
    BY <1>1, EmptyCall
  <2> QED
    BY <2>1, <2>2
<1>2. CASE c # <<>>
  <2>1. stack' = <<Call(c)>> \o stack
    BY <1>2 DEF Enters, Entered
  <2>2. /\ StackOK(<<Call(c)>> \o stack)
        /\ \A j : Working(<<Call(c)>> \o stack, j) <=> Working(stack, j)
        /\ \A j : Settling(<<Call(c)>> \o stack, j) <=> Settling(stack, j)
        /\ \A j : Draining(<<Call(c)>> \o stack, j) <=> HasDrain(c, j) \/ Draining(stack, j)
        /\ \A j, t : Ticking(<<Call(c)>> \o stack, j, t) <=> HasTimer(c, j, t) \/ Ticking(stack, j, t)
    BY <1>2, CallBegins
  <2> QED
    BY <2>1, <2>2
<1> QED
  BY <1>1, <1>2

(* Nothing is pending on an empty stack.                                   *)
LEMMA NothingPending ==
  /\ StackOK(<<>>)
  /\ \A j : ~Working(<<>>, j) /\ ~Settling(<<>>, j) /\ ~Draining(<<>>, j)
  /\ \A j, t : ~Ticking(<<>>, j, t)
<1>1. IsSequence(<<>>) /\ DOMAIN <<>> = {}
  <2>1. <<>> \in Seq({}) /\ DOMAIN <<>> = {}
    OBVIOUS
  <2> QED
    BY <2>1, SeqIs
<1> QED
  BY <1>1 DEF StackOK, Working, Settling, Draining, Ticking

(* The clock of the host does not run backwards.                           *)
LEMMA ClockAdvances ==
  ASSUME EngineInv, NEW d \in Periods
  PROVE  Advanced(d) \in Nat /\ clock <= Advanced(d) /\ Advanced(d) <= TimeMax
<1>1. clock \in Nat /\ clock <= TimeMax /\ TimeMax \in Nat /\ d \in Nat
  BY GatewayAssumption DEF EngineInv, TypeOK
<1> QED
  BY <1>1 DEF Advanced

LEMMA SlotLater ==
  ASSUME NEW slot, NEW a \in Nat, NEW b \in Nat, a <= b, SlotOK(slot, a)
  PROVE  SlotOK(slot, b)
<1>1. /\ slot.duration \in Nat /\ slot.origin \in Nat /\ slot.ticks \in Nat
  BY DEF SlotOK
<1>2. slot.origin + slot.ticks * slot.duration \in Nat
  BY <1>1
<1>3. slot.running /\ ~slot.lapped /\ a < TimeTop =>
        OnGrid(slot) /\ slot.origin + slot.ticks * slot.duration <= a
  BY DEF SlotOK
<1>4. b < TimeTop => a < TimeTop
  BY EngineAssumption
<1>5. slot.running /\ ~slot.lapped /\ b < TimeTop =>
        OnGrid(slot) /\ slot.origin + slot.ticks * slot.duration <= b
  BY <1>2, <1>3, <1>4
<1> QED
  BY <1>5 DEF SlotOK

LEMMA TableLater ==
  ASSUME NEW i, NEW x, NEW a \in Nat, NEW b \in Nat, a <= b, InstanceOK(i, x, a)
  PROVE  InstanceOK(i, x, b)
<1>1. \A t \in Timers(i) : SlotOK(x.timers[t], b)
  BY SlotLater DEF InstanceOK
<1>2. x.evaluated <= b
  BY DEF InstanceOK
<1> QED
  BY <1>1, <1>2 DEF InstanceOK

LEMMA IngestInv ==
  ASSUME EngineInv, ingest_frame
  PROVE  EngineInv'
<1>1. UNCHANGED <<inst, stack, now>> /\ \E d \in Periods : clock' = Advanced(d)
  BY DEF ingest_frame
<1>2. clock' \in Nat /\ clock <= clock' /\ clock' <= TimeMax
  BY <1>1, ClockAdvances
<1>3. TypeOK'
  <2>1. now \in Nat /\ clock \in Nat /\ now <= clock
    BY DEF EngineInv, TypeOK
  <2>2. now <= clock'
    BY <2>1, <1>2
  <2> QED
    BY <2>2, <1>1, <1>2 DEF EngineInv, TypeOK
<1> QED
  BY <1>1, <1>3 DEF EngineInv

LEMMA EngineTickInv ==
  ASSUME EngineInv, tick
  PROVE  EngineInv'
<1>1. stack = <<>> /\ UNCHANGED inst /\ now' = clock' /\ Enters(TimerSteps)
      /\ \E d \in Periods : clock' = Advanced(d)
  BY DEF tick, Input, Idle, engine_tick
<1>2. clock' \in Nat /\ clock <= clock' /\ clock' <= TimeMax
  BY <1>1, ClockAdvances
<1>3. /\ now \in Nat /\ clock \in Nat /\ now <= clock /\ StackOK(stack)
      /\ \A i \in Instances : InstanceOK(i, inst[i], now) /\ Accounted(i, inst[i], stack, now)
  BY DEF EngineInv, TypeOK
<1>4. now <= now' /\ now' \in Nat
  BY <1>1, <1>2, <1>3
<1>5. TypeOK'
  <2>1. \A i \in Instances : InstanceOK(i, inst[i], now')
    BY <1>3, <1>4, TableLater
  <2>2. now' <= clock'
    BY <1>1, <1>2
  <2> QED
    BY <2>1, <2>2, <1>1, <1>2 DEF EngineInv, TypeOK
<1>6. /\ StackOK(stack')
      /\ \A j : Working(stack', j) <=> Working(stack, j)
      /\ \A j : Settling(stack', j) <=> Settling(stack, j)
      /\ \A j : Draining(stack', j) <=> HasDrain(TimerSteps, j) \/ Draining(stack, j)
      /\ \A j, t : Ticking(stack', j, t) <=> HasTimer(TimerSteps, j, t) \/ Ticking(stack, j, t)
  BY <1>1, <1>3, AllTimers, CallEntered
<1>7. \A j, t : ~Ticking(stack', j, t) /\ ~Ticking(stack, j, t)
  BY <1>1, <1>6, AllTimers, NothingPending
<1>8. \A i \in Instances : Accounted(i, inst'[i], stack', now')
  <2> SUFFICES ASSUME NEW i \in Instances
               PROVE  Accounted(i, inst[i], stack', now')
    BY <1>1
  <2>1. Accounted(i, inst[i], stack, now)
    BY <1>3
  <2> QED
    BY <2>1, <1>6, <1>7 DEF Accounted
<1> QED
  BY <1>5, <1>6, <1>8 DEF EngineInv


(* A call that only changes the table of i.                                *)
LEMMA CalledIs ==
  ASSUME EngineInv, NEW i \in Instances, NEW y, NEW c, Called(i, y, c)
  PROVE  InstIs(i, y) /\ Enters(c) /\ now' = now
  BY InstExcept DEF Called

(* suspend, fault and disable, of the host or of a sink.                   *)
LEMMA StoppingInv ==
  ASSUME EngineInv, stack # <<>> => stack[1].todo[1].op = "sink", UNCHANGED clock,
         NEW i \in Instances, instance_suspend(i) \/ instance_fault(i) \/ instance_disable(i)
  PROVE  EngineInv'
<1> DEFINE x == inst[i]
<1>1. now \in Nat /\ InstanceOK(i, x, now) /\ Accounted(i, x, stack, now)
  BY DEF EngineInv, TypeOK
<1>2. PICK y \in {suspended(x), faulted(x), disabled(x)} : Called(i, y, <<>>)
  BY DEF instance_suspend, instance_fault, instance_disable
<1>3. InstIs(i, y) /\ Enters(<<>>) /\ now' = now
  BY <1>2, CalledIs
<1>4. Kept(i, x, y, now) /\ (y = x \/ (y.deferred = None /\ ~is_active(y)))
  BY <1>1, LifecycleKept
<1>5. y.deferred = None \/ y.deferred = x.deferred
  BY <1>4
<1>6. is_active(y) /\ ~is_empty(y.queue) /\ ~y.exhausted => Draining(stack, i)
  BY <1>1, <1>4 DEF Accounted
<1> HIDE DEF x
<1> QED
  BY <1>3, <1>4, <1>5, <1>6, EmptyCall, HostStep DEF x

(* enable and reset.                                                       *)
LEMMA InitializingInv ==
  ASSUME EngineInv, stack # <<>> => stack[1].todo[1].op = "sink", UNCHANGED clock,
         NEW i \in Instances, instance_enable(i) \/ instance_reset(i)
  PROVE  EngineInv'
<1> DEFINE x == inst[i]
           y == [initialized(i, x) EXCEPT !.lifecycle = "READY"]
<1>1. now \in Nat /\ InstanceOK(i, x, now)
  BY DEF EngineInv, TypeOK
<1>2. Called(i, y, <<>>)
  BY DEF instance_enable, instance_reset
<1>3. Kept(i, x, y, now) /\ y.deferred = None /\ ~is_active(y)
  BY <1>1, InitializedKept
<1> HIDE DEF y
<1>4. InstIs(i, y) /\ Enters(<<>>) /\ now' = now
  BY <1>2, CalledIs
<1> QED
  BY <1>3, <1>4, EmptyCall, HostStep

LEMMA ResumeInv ==
  ASSUME EngineInv, stack # <<>> => stack[1].todo[1].op = "sink", UNCHANGED clock,
         NEW i \in Instances, instance_resume(i)
  PROVE  EngineInv'
<1> DEFINE x == inst[i]
           y == [x EXCEPT !.lifecycle = "RUNNING"]
<1>1. now \in Nat /\ InstanceOK(i, x, now)
  BY DEF EngineInv, TypeOK
<1>2. Called(i, y, <<Drain(i)>>)
  BY DEF instance_resume
<1>3. DOMAIN x = InstanceFields
  BY <1>1 DEF InstanceOK
<1>4. /\ DOMAIN y = InstanceFields /\ y.processing = x.processing /\ y.exhausted = x.exhausted
      /\ y.state = x.state /\ y.deferred = x.deferred /\ y.queue = x.queue
      /\ y.timers = x.timers /\ y.evaluated = x.evaluated
  BY <1>3 DEF InstanceFields
<1> HIDE DEF y
<1>5. Kept(i, x, y, now)
  BY <1>1, <1>4 DEF Kept, InstanceOK, Reported
<1>6. InstIs(i, y) /\ Enters(<<Drain(i)>>) /\ now' = now
  BY <1>2, CalledIs
<1>7. /\ Fresh(<<Drain(i)>>) /\ HasDrain(<<Drain(i)>>, i)
      /\ \A j, t : ~HasTimer(<<Drain(i)>>, j, t)
  BY OneDrain
<1> DEFINE c == <<Drain(i)>>
<1> HIDE DEF c
<1>8. Enters(c) /\ Fresh(c) /\ HasDrain(c, i) /\ \A j, t : ~HasTimer(c, j, t)
  BY <1>6, <1>7 DEF c
<1> QED
  BY <1>4, <1>5, <1>6, <1>8, HostStep

LEMMA InjectInv ==
  ASSUME EngineInv, stack # <<>> => stack[1].todo[1].op = "sink", UNCHANGED clock,
         NEW i \in Instances, NEW e, inject_event(i, e)
  PROVE  EngineInv'
<1> DEFINE x == inst[i]
           y == queued(x, e)
           c == IF push(x.queue, e).ok THEN <<Drain(i)>> ELSE <<>>
<1>3. now \in Nat /\ InstanceOK(i, x, now) /\ Accounted(i, x, stack, now)
  BY DEF EngineInv, TypeOK
<1>4. Called(i, y, c)
  BY DEF inject_event
<1>6. /\ Kept(i, x, y, now) /\ y.lifecycle = x.lifecycle /\ y.deferred = x.deferred
      /\ y.exhausted = x.exhausted
      /\ ~push(x.queue, e).ok => y.queue.slots = x.queue.slots
  <2> HIDE DEF x
  <2> QED
    BY <1>3, QueuedKept
<1>7. Fresh(c) /\ \A j, t : ~HasTimer(c, j, t)
  BY OneDrain, EmptyCall
<1>8. is_active(y) /\ ~is_empty(y.queue) /\ ~y.exhausted => Draining(stack, i) \/ HasDrain(c, i)
  <2>1. CASE push(x.queue, e).ok
    <3>1. HasDrain(<<Drain(i)>>, i)
      BY OneDrain
    <3> QED
      BY <2>1, <3>1
  <2>2. CASE ~push(x.queue, e).ok
    BY <2>2, <1>3, <1>6 DEF Accounted, is_active, is_empty
  <2> QED
    BY <2>1, <2>2
<1> HIDE DEF y, c
<1>9. InstIs(i, y) /\ Enters(c) /\ now' = now
  BY <1>4, CalledIs
<1> QED
  BY <1>6, <1>7, <1>8, <1>9, HostStep

(* An event for everybody: every queue is drained afterwards.              *)
LEMMA ProcessInv ==
  ASSUME EngineInv, stack # <<>> => stack[1].todo[1].op = "sink", UNCHANGED <<now, clock>>,
         NEW e, process_event(e)
  PROVE  EngineInv'
<1> DEFINE c == DrainSteps(e)
           u(i) == [inst[i] EXCEPT !.exhausted = FALSE]
           y(i) == IF is_active(u(i)) /\ instance_accepts(i, e) THEN queued(u(i), e) ELSE u(i)
<1>1. inst' = [i \in Instances |-> y(i)] /\ Enters(c)
  BY DEF process_event
<1>2. now \in Nat /\ StackOK(stack)
  BY DEF EngineInv, TypeOK
<1>3. /\ Fresh(c) /\ (\A i \in Instances : HasDrain(c, i)) /\ \A j, t : ~HasTimer(c, j, t)
  BY AllDrains
<1> HIDE DEF c
<1>4. /\ StackOK(stack')
      /\ \A j : Working(stack', j) <=> Working(stack, j)
      /\ \A j : Settling(stack', j) <=> Settling(stack, j)
      /\ \A j : Draining(stack', j) <=> HasDrain(c, j) \/ Draining(stack, j)
      /\ \A j, t : Ticking(stack', j, t) <=> HasTimer(c, j, t) \/ Ticking(stack, j, t)
  BY <1>1, <1>2, <1>3, CallEntered
<1>5. ASSUME NEW i \in Instances
      PROVE  Kept(i, inst[i], y(i), now) /\ y(i).deferred = inst[i].deferred
  <2> DEFINE x == inst[i]
             z == u(i)
  <2>1. InstanceOK(i, x, now) /\ DOMAIN x = InstanceFields
    BY DEF EngineInv, TypeOK, InstanceOK
  <2>2. /\ DOMAIN z = InstanceFields /\ z.processing = x.processing /\ z.exhausted = FALSE
        /\ z.state = x.state /\ z.deferred = x.deferred /\ z.queue = x.queue
        /\ z.timers = x.timers /\ z.evaluated = x.evaluated
    BY <2>1 DEF InstanceFields
  <2> HIDE DEF u
  <2>3. InstanceOK(i, z, now)
    BY <2>1, <2>2 DEF InstanceOK
  <2>4. Kept(i, x, z, now)
    BY <2>2, <2>3 DEF Kept, Reported
  <2>6. Kept(i, z, queued(z, e), now) /\ queued(z, e).deferred = z.deferred
    BY <2>3, <1>2, QueuedKept
  <2>7. Kept(i, x, queued(z, e), now)
    BY <2>4, <2>6, KeptTrans
  <2> QED
    BY <2>2, <2>4, <2>6, <2>7
<1>6. DOMAIN inst' = Instances /\ \A i \in Instances : inst'[i] = y(i)
  BY <1>1
<1> HIDE DEF y, u
<1>7. TypeOK'
  <2>1. \A i \in Instances : InstanceOK(i, inst'[i], now)
    BY <1>5, <1>6 DEF Kept
  <2> QED
    BY <2>1, <1>6 DEF EngineInv, TypeOK
<1>8. \A i \in Instances : Accounted(i, inst'[i], stack', now')
  <2> SUFFICES ASSUME NEW i \in Instances
               PROVE  Accounted(i, y(i), stack', now)
    BY <1>6
  <2> DEFINE z == y(i)
  <2>1. Accounted(i, inst[i], stack, now) /\ Kept(i, inst[i], z, now) /\ z.deferred = inst[i].deferred
    BY <1>5 DEF EngineInv
  <2> HIDE DEF z
  <2>2. z.processing <=> Working(stack', i)
    BY <2>1, <1>4 DEF Accounted, Kept
  <2>3. z.deferred # None => Settling(stack', i)
    BY <2>1, <1>4 DEF Accounted
  <2>4. \A t \in Timers(i) : Reported(z, t) \/ Ticking(stack', i, t)
    BY <2>1, <1>4 DEF Accounted, Kept
  <2>5. \A t \in Timers(i) : Ticking(stack', i, t) => z.evaluated = now
    BY <2>1, <1>3, <1>4 DEF Accounted, Kept
  <2>6. Draining(stack', i)
    BY <1>3, <1>4
  <2>7. Accounted(i, z, stack', now)
    BY <2>2, <2>3, <2>4, <2>5, <2>6 DEF Accounted
  <2> QED
    BY <2>7 DEF z
<1> QED
  BY <1>4, <1>7, <1>8 DEF EngineInv


(* A start: the activation of the initial state on top of the drain.       *)
LEMMA StartInv ==
  ASSUME EngineInv, stack # <<>> => stack[1].todo[1].op = "sink", UNCHANGED clock,
         NEW i \in Instances, instance_start(i)
  PROVE  EngineInv'
<1> DEFINE x == inst[i]
           timers == [t \in DOMAIN x.timers |->
                        IF Machine[i].timers[t].auto_start
                        THEN armed(Machine[i].timers[t].duration, Machine[i].timers[t].repeat)
                        ELSE x.timers[t]]
           y == started(i, x)
           w == <<[op |-> "commit", target |-> Machine[i].initial], Chain(1), Finish>>
           mid == <<Call(<<Drain(i)>>)>> \o stack
<1>1. /\ now \in Nat /\ InstanceOK(i, x, now) /\ DOMAIN inst = Instances
      /\ StackOK(stack) /\ Accounted(i, x, stack, now)
  BY DEF EngineInv, TypeOK
<1>2. /\ DOMAIN x = InstanceFields /\ DOMAIN x.timers = Timers(i)
      /\ "slots" \in DOMAIN x.queue /\ x.exhausted \in BOOLEAN
  BY <1>1 DEF InstanceOK
<1>3. inst' = [inst EXCEPT ![i] = y] /\ now' = now
  BY DEF instance_start
<1>4. stack' = <<Activation(i, None, w), Call(<<Drain(i)>>)>> \o stack
  BY DEF instance_start, Entered
<1>5. DOMAIN timers = Timers(i) /\ \A t \in Timers(i) : SlotKept(x.timers[t], timers[t], now)
  <2>1. DOMAIN timers = Timers(i)
    BY <1>2
  <2>2. ASSUME NEW t \in Timers(i)
        PROVE  SlotKept(x.timers[t], timers[t], now)
    <3> DEFINE d == Machine[i].timers[t].duration
               a == armed(d, Machine[i].timers[t].repeat)
    <3>1. d \in Nat \ {0}
      BY EngineAssumption DEF SoundMachine, SoundDuration
    <3>2. SlotKept(x.timers[t], a, now)
      <4> HIDE DEF d
      <4> QED
        BY <3>1, <1>1, ArmedKept
    <3>3. SlotKept(x.timers[t], x.timers[t], now)
      BY <1>1, KeptTimers
    <3>4. timers[t] = a \/ timers[t] = x.timers[t]
      BY <1>2
    <3> HIDE DEF timers, a
    <3> QED
      BY <3>2, <3>3, <3>4
  <2> QED
    BY <2>1, <2>2
<1> HIDE DEF timers
<1>6. /\ DOMAIN y = InstanceFields /\ y.processing = x.processing /\ y.exhausted = x.exhausted
      /\ y.state = None /\ y.deferred = None /\ y.queue = clear(x.queue)
      /\ y.timers = timers /\ y.evaluated = x.evaluated
  BY <1>2 DEF started, timers, InstanceFields
<1> HIDE DEF y
<1>7. "slots" \in DOMAIN y.queue /\ is_empty(y.queue)
  BY <1>2, <1>6 DEF clear, is_empty
<1>8. Kept(i, x, y, now)
  <2>1. DOMAIN y.timers = Timers(i) /\ \A t \in Timers(i) : SlotKept(x.timers[t], y.timers[t], now)
    BY <1>5, <1>6
  <2>2. y.state \in States(i) \cup {None} /\ y.deferred \in States(i) \cup {None}
    BY <1>6
  <2>3. y.exhausted \in BOOLEAN
    BY <1>2, <1>6
  <2> HIDE DEF x
  <2> QED
    BY <2>1, <2>2, <2>3, <1>1, <1>6, <1>7, KeptBy
<1>9. InstIs(i, y)
  BY <1>3, InstExcept
<1>10. Machine[i].initial \in States(i)
  BY EngineAssumption DEF SoundMachine
<1>11. WorkTodo(i, w) /\ w # <<>>
  BY <1>10, WorkOfStart
<1> HIDE DEF w
<1>12. /\ StackOK(mid)
       /\ \A j : Working(mid, j) <=> Working(stack, j)
       /\ \A j : Settling(mid, j) <=> Settling(stack, j)
       /\ \A j : Draining(mid, j) <=> HasDrain(<<Drain(i)>>, j) \/ Draining(stack, j)
       /\ \A j, t : Ticking(mid, j, t) <=> HasTimer(<<Drain(i)>>, j, t) \/ Ticking(stack, j, t)
  <2>1. Fresh(<<Drain(i)>>) /\ <<Drain(i)>> # <<>>
    BY OneDrain
  <2> QED
    BY <2>1, <1>1, CallBegins
<1>13. mid # <<>> /\ mid[1] = Call(<<Drain(i)>>)
  <2>1. IsSequence(stack)
    BY <1>1 DEF StackOK
  <2> DEFINE f == Call(<<Drain(i)>>)
  <2> HIDE DEF f
  <2>2. IsSequence(<<f>> \o stack) /\ Len(<<f>> \o stack) = Len(stack) + 1 /\ (<<f>> \o stack)[1] = f
    BY <2>1, FrontIs
  <2>3. Len(stack) \in Nat
    BY <2>1, SeqFacts
  <2>4. <<f>> \o stack # <<>>
    BY <2>2, <2>3, SeqFacts
  <2> QED
    BY <2>2, <2>4 DEF f
<1>14. IsDrain(mid[1].todo[1], i)
  BY <1>13 DEF Call, Drain, IsDrain
<1>15. stack' = <<Activation(i, None, w)>> \o mid
  <2>1. IsSequence(stack)
    BY <1>1 DEF StackOK
  <2> DEFINE f == Activation(i, None, w)
             g == Call(<<Drain(i)>>)
  <2> HIDE DEF f, g
  <2>2. <<f, g>> \o stack = <<f>> \o (<<g>> \o stack)
    BY <2>1, TwoFronts
  <2> QED
    BY <2>2, <1>4 DEF f, g
<1> HIDE DEF mid
<1>16. /\ StackOK(stack')
       /\ \A j : Working(stack', j) <=> Working(mid, j)
       /\ \A j : Settling(mid, j) => Settling(stack', j)
       /\ \A j : Draining(stack', j) <=> Draining(mid, j)
       /\ \A j, t : Ticking(stack', j, t) <=> Ticking(mid, j, t)
  <2>1. /\ StackOK(<<Activation(i, None, w)>> \o mid)
        /\ \A j : Working(<<Activation(i, None, w)>> \o mid, j) <=> Working(mid, j)
        /\ \A j : Settling(mid, j) => Settling(<<Activation(i, None, w)>> \o mid, j)
        /\ \A j : Draining(<<Activation(i, None, w)>> \o mid, j) <=> Draining(mid, j)
        /\ \A j, t : Ticking(<<Activation(i, None, w)>> \o mid, j, t) <=> Ticking(mid, j, t)
    BY <1>11, <1>12, <1>13, <1>14, WorkBegins
  <2> QED
    BY <2>1, <1>15
<1>17. \A j, t : ~HasTimer(<<Drain(i)>>, j, t)
  BY OneDrain
<1>18. /\ \A j : Working(stack', j) <=> Working(stack, j)
       /\ \A j : Settling(stack, j) => Settling(stack', j)
       /\ \A j : Draining(stack, j) => Draining(stack', j)
       /\ \A j, t : Ticking(stack', j, t) <=> Ticking(stack, j, t)
  BY <1>12, <1>16, <1>17
<1>19. TypeOK'
  BY <1>3, <1>8, <1>9, TypesKept
<1>20. ASSUME NEW j \in Instances, j # i
       PROVE  Accounted(j, inst'[j], stack', now')
  <2>1. Accounted(j, inst[j], stack, now)
    BY DEF EngineInv
  <2>2. inst'[j] = inst[j]
    BY <1>9, <1>20 DEF InstIs
  <2>3. Accounted(j, inst[j], stack', now)
    BY <2>1, <1>18 DEF Accounted
  <2> QED
    BY <2>2, <2>3, <1>3
<1>21. Accounted(i, inst'[i], stack', now')
  <2>1. inst'[i] = y
    BY <1>9 DEF InstIs
  <2> HIDE DEF x
  <2>2. y.processing <=> Working(stack', i)
    BY <1>1, <1>6, <1>18 DEF Accounted
  <2>3. \A t \in Timers(i) : Reported(y, t) \/ Ticking(stack', i, t)
    BY <1>1, <1>8, <1>18 DEF Accounted, Kept
  <2>4. \A t \in Timers(i) : Ticking(stack', i, t) => y.evaluated = now
    BY <1>1, <1>6, <1>18 DEF Accounted
  <2>5. Accounted(i, y, stack', now)
    BY <2>2, <2>3, <2>4, <1>6, <1>7 DEF Accounted
  <2> QED
    BY <2>1, <2>5, <1>3
<1>22. \A j \in Instances : Accounted(j, inst'[j], stack', now')
  BY <1>20, <1>21
<1> QED
  BY <1>16, <1>19, <1>22 DEF EngineInv

(* Any of the seven, from the host or from a sink.                         *)
LEMMA OrderedInv ==
  ASSUME EngineInv, stack # <<>> => stack[1].todo[1].op = "sink", UNCHANGED clock,
         NEW i \in Instances, Ordered(i)
  PROVE  EngineInv'
<1>1. CASE instance_enable(i) \/ instance_reset(i)
  BY <1>1, InitializingInv
<1>2. CASE instance_start(i)
  BY <1>2, StartInv
<1>3. CASE instance_resume(i)
  BY <1>3, ResumeInv
<1>4. CASE instance_suspend(i) \/ instance_fault(i) \/ instance_disable(i)
  BY <1>4, StoppingInv
<1> QED
  BY <1>1, <1>2, <1>3, <1>4 DEF Ordered

LEMMA LifecycleInv ==
  ASSUME EngineInv, lifecycle
  PROVE  EngineInv'
<1>1. stack = <<>> /\ UNCHANGED clock
  BY DEF lifecycle, Idle
<1>2. PICK i \in Instances : Ordered(i)
  BY DEF lifecycle
<1> QED
  BY <1>1, <1>2, OrderedInv

LEMMA DrainBusInv ==
  ASSUME EngineInv, drain_bus
  PROVE  EngineInv'
<1> DEFINE e == Head(bus.slots)
<1>1. stack = <<>> /\ UNCHANGED <<now, clock>>
  BY DEF drain_bus, Idle
<1>2. \/ event_for_fsm(e.type) /\ process_event(e)
      \/ UNCHANGED <<inst, stack>>
  BY DEF drain_bus
<1>3. CASE event_for_fsm(e.type) /\ process_event(e)
  <2> HIDE DEF e
  <2> QED
    BY <1>1, <1>3, ProcessInv
<1>4. CASE UNCHANGED <<inst, stack>>
  BY <1>1, <1>4 DEF EngineInv, TypeOK
<1> QED
  BY <1>2, <1>3, <1>4

LEMMA CallbackInv ==
  ASSUME EngineInv, callback
  PROVE  EngineInv'
<1>1. At("sink") /\ UNCHANGED clock
  BY DEF callback
<1>2. stack[1].todo[1].op = "sink"
  BY <1>1, AtTop
<1>3. ASSUME NEW e, UNCHANGED now, process_event(e)
      PROVE  EngineInv'
  BY <1>1, <1>2, <1>3, ProcessInv
<1>4. ASSUME NEW i \in Instances, NEW e, inject_event(i, e)
      PROVE  EngineInv'
  BY <1>1, <1>2, <1>4, InjectInv
<1>5. ASSUME NEW i \in Instances, Ordered(i)
      PROVE  EngineInv'
  BY <1>1, <1>2, <1>5, OrderedInv
<1> QED
  BY <1>3, <1>4, <1>5 DEF callback


-----------------------------------------------------------------------------
(* The theorems.                                                           *)

LEMMA InitInv == Init => EngineInv
<1> SUFFICES ASSUME Init PROVE EngineInv
  OBVIOUS
<1> DEFINE x(i) == [lifecycle |-> IF Def[i].enabled THEN "READY" ELSE "DISABLED",
                    state |-> None, deferred |-> None, queue |-> queue_init(QueueCapacity),
                    variables |-> <<>>, timers |-> <<>>, processing |-> FALSE,
                    exhausted |-> FALSE, evaluated |-> 0]
<1>1. stack = <<>> /\ now = 0 /\ clock = 0 /\ inst = [i \in Instances |-> initialized(i, x(i))]
  BY DEF Init, EngineInit
<1>2. ASSUME NEW i
      PROVE  /\ DOMAIN x(i) = InstanceFields /\ x(i).queue = queue_init(QueueCapacity)
             /\ x(i).processing = FALSE /\ x(i).exhausted = FALSE
             /\ x(i).evaluated = 0
             /\ x(i).lifecycle \in {"READY", "DISABLED"}
  BY DEF InstanceFields
<1> HIDE DEF x
<1>3. ASSUME NEW i \in Instances
      PROVE  InstanceOK(i, inst[i], now) /\ Accounted(i, inst[i], stack, now)
  <2> DEFINE u == x(i)
             y == initialized(i, u)
  <2>1. inst[i] = y
    BY <1>1
  <2>2. /\ DOMAIN u = InstanceFields /\ u.queue = queue_init(QueueCapacity)
        /\ u.processing = FALSE /\ u.exhausted = FALSE /\ u.evaluated = 0
        /\ u.lifecycle \in {"READY", "DISABLED"}
    BY <1>2
  <2> HIDE DEF u
  <2>3. /\ DOMAIN y = InstanceFields
        /\ y.state = None /\ y.deferred = None /\ y.queue = clear(u.queue)
        /\ y.lifecycle = u.lifecycle /\ y.processing = u.processing
        /\ y.exhausted = u.exhausted /\ y.evaluated = u.evaluated
        /\ DOMAIN y.timers = Timers(i)
        /\ \A t \in Timers(i) : SlotOK(y.timers[t], 0) /\ ~y.timers[t].running
    BY <2>2, InitializedSlots
  <2>4. "slots" \in DOMAIN y.queue
    <3>1. "slots" \in DOMAIN u.queue
      BY <2>2 DEF queue_init
    <3> HIDE DEF y
    <3> QED
      BY <3>1, <2>3 DEF clear
  <2> HIDE DEF y
  <2>5. InstanceOK(i, y, 0)
    <3>2. y.evaluated \in Nat /\ y.evaluated <= 0
      BY <2>2, <2>3
    <3>3. y.processing \in BOOLEAN /\ y.exhausted \in BOOLEAN
      BY <2>2, <2>3
    <3>4. \A t \in Timers(i) : SlotOK(y.timers[t], 0)
      BY <2>3
    <3>5. y.state \in States(i) \cup {None} /\ y.deferred \in States(i) \cup {None}
      BY <2>3
    <3>6. DOMAIN y = InstanceFields /\ DOMAIN y.timers = Timers(i)
      BY <2>3
    <3> QED
      BY <3>2, <3>3, <3>4, <3>5, <3>6, <2>4, Zenon DEF InstanceOK
  <2>6. \A t \in Timers(i) : Reported(y, t)
    BY <2>3 DEF Reported
  <2>7. ~is_active(y)
    BY <2>2, <2>3 DEF is_active
  <2>8. Accounted(i, y, <<>>, 0)
    BY <2>2, <2>3, <2>6, <2>7, NothingPending DEF Accounted
  <2> QED
    BY <2>1, <2>5, <2>8, <1>1
<1>4. DOMAIN inst = Instances /\ 0 <= TimeMax
  BY <1>1, GatewayAssumption
<1>5. TypeOK
  BY <1>1, <1>3, <1>4 DEF TypeOK
<1> QED
  BY <1>1, <1>3, <1>5, NothingPending DEF EngineInv

LEMMA StutterInv ==
  ASSUME EngineInv, UNCHANGED vars
  PROVE  EngineInv'
<1>1. UNCHANGED <<inst, stack, now, clock>>
  BY DEF vars, engine_vars
<1> QED
  BY <1>1 DEF EngineInv, TypeOK

LEMMA Inductive == EngineInv /\ [Next]_vars => EngineInv'
<1> SUFFICES ASSUME EngineInv, [Next]_vars PROVE EngineInv'
  OBVIOUS
<1>1. CASE ingest_frame
  BY <1>1, IngestInv
<1>2. CASE tick
  BY <1>2, EngineTickInv
<1>3. CASE lifecycle
  BY <1>3, LifecycleInv
<1>4. CASE inject
  <2>1. stack = <<>> /\ UNCHANGED clock
    BY <1>4 DEF inject, Input, Idle
  <2>2. PICK i \in Instances, type \in DOMAIN External :
          inject_event(i, Event(type, External[type], CAN_RX, clock))
    BY <1>4 DEF inject
  <2> QED
    BY <2>1, <2>2, InjectInv
<1>5. CASE drain_bus
  BY <1>5, DrainBusInv
<1>6. CASE callback
  BY <1>6, CallbackInv
<1>7. CASE engine
  BY <1>7, EngineStepInv DEF engine
<1>8. CASE UNCHANGED vars
  BY <1>8, StutterInv
<1> QED
  BY <1>1, <1>2, <1>3, <1>4, <1>5, <1>6, <1>7, <1>8 DEF Next

(* Whatever the machines, the host and the callbacks do, everything an     *)
(* instance has left undone is pending on the C stack: a requested         *)
(* transition, queued events, timers not looked at, the processing flag    *)
(* (the call structure of engine.c as a whole).                            *)
THEOREM EngineInvCorrect == Spec => []EngineInv
  BY InitInv, Inductive, PTL DEF Spec

(* A transition an action asked for is taken or dropped before the call    *)
(* returns (fsm_run_deferred_chain): a request has a chain step above it,  *)
(* and an empty stack has none.                                            *)
THEOREM NoStaleDeferralCorrect == Spec => []NoStaleDeferral
<1>1. EngineInv => NoStaleDeferral
  <2> SUFFICES ASSUME EngineInv, stack = <<>>, NEW i \in Instances PROVE inst[i].deferred = None
    BY DEF NoStaleDeferral, Idle
  <2>1. Accounted(i, inst[i], <<>>, now)
    BY DEF EngineInv
  <2> QED
    BY <2>1, NothingPending DEF Accounted
<1> QED
  BY <1>1, EngineInvCorrect, PTL

(* Between calls an event waits in a running instance only when the last   *)
(* drain ran into its event budget (fsm_drain_instance, refused drains     *)
(* included: the one that is refused leaves its events to the one below).  *)
THEOREM NoStallCorrect == Spec => []NoStall
<1>1. EngineInv => NoStall
  <2> SUFFICES ASSUME EngineInv, stack = <<>>, NEW i \in Instances,
                      is_active(inst[i]), ~is_empty(inst[i].queue)
               PROVE  inst[i].exhausted
    BY DEF NoStall, Idle
  <2>1. Accounted(i, inst[i], <<>>, now)
    BY DEF EngineInv
  <2> QED
    BY <2>1, NothingPending DEF Accounted
<1> QED
  BY <1>1, EngineInvCorrect, PTL

(* An instance works on one event at a time (the processing flag of        *)
(* fsm_drain_instance): the activation of an event sits on a drain that    *)
(* has begun, and no two drains of an instance have.                       *)
THEOREM OneEventAtATimeCorrect == Spec => []OneEventAtATime
<1>1. EngineInv => OneEventAtATime
  <2> SUFFICES ASSUME EngineInv, NEW i \in Instances, NEW k \in Activations(i), NEW l \in Activations(i),
                      stack[k].event # None, stack[l].event # None
               PROVE  k = l
    BY DEF OneEventAtATime
  <2>1. StackOK(stack) /\ Len(stack) \in Nat /\ DOMAIN stack = 1 .. Len(stack)
    BY SeqFacts DEF EngineInv, StackOK
  <2>2. /\ k \in DOMAIN stack /\ stack[k].activation /\ stack[k].i = i
        /\ l \in DOMAIN stack /\ stack[l].activation /\ stack[l].i = i
    BY DEF Activations
  <2>3. ASSUME NEW m \in DOMAIN stack, stack[m].activation, stack[m].i = i, stack[m].event # None
        PROVE  /\ m + 1 \in DOMAIN stack
               /\ Resumed(stack[m + 1].todo[1]) /\ stack[m + 1].todo[1].i = i
    <3>1. m < Len(stack) /\ Base(stack[m], stack[m + 1])
      BY <2>1, <2>3 DEF StackOK
    <3>2. m + 1 \in DOMAIN stack
      BY <3>1, <2>1
    <3>3. IsDrain(stack[m + 1].todo[1], i) /\ stack[m + 1].todo[1].entered
      BY <3>1, <2>3 DEF Base
    <3> QED
      BY <3>2, <3>3 DEF IsDrain, Resumed
  <2>4. /\ k + 1 \in DOMAIN stack /\ Resumed(stack[k + 1].todo[1]) /\ stack[k + 1].todo[1].i = i
        /\ l + 1 \in DOMAIN stack /\ Resumed(stack[l + 1].todo[1]) /\ stack[l + 1].todo[1].i = i
    BY <2>2, <2>3
  <2>5. k + 1 = l + 1
    BY <2>1, <2>4 DEF StackOK
  <2> QED
    BY <2>1, <2>2, <2>5
<1> QED
  BY <1>1, EngineInvCorrect, PTL

(* A running timer has reported one tick per full period since it was      *)
(* armed, whatever suspensions and delays lie between, for any widths of   *)
(* the counter and of time: as long as no tick came so late that the count *)
(* of periods wrapped, and before the end of time, except while a tick is  *)
(* in the middle of the timers (fsm_timer_expired keeps the deadline on    *)
(* the grid of the first one, fsm_sat_add cuts it off).                    *)
THEOREM TicksAccountedCorrect == Spec => []TicksAccounted
<1>1. EngineInv => TicksAccounted
  <2> SUFFICES ASSUME EngineInv, NEW i \in Instances, NEW t \in Timers(i), ~At("timer")
               PROVE  Reported(inst[i], t)
    BY DEF TicksAccounted, Reported
  <2>1. StackOK(stack) /\ Accounted(i, inst[i], stack, now)
    BY DEF EngineInv
  <2>2. ASSUME Ticking(stack, i, t)
        PROVE  FALSE
    <3>1. stack # <<>>
      BY <2>2, NothingPending
    <3>2. IsSequence(stack) /\ Top = stack[1] /\ Frame(stack[1])
      BY <3>1, <2>1, SeqFacts, StackPopped DEF StackOK, Top
    <3>3. PICK m \in DOMAIN stack[1].todo : stack[1].todo[m].op = "timer"
      BY <2>1, <2>2, <3>1, <3>2, StackSplits, NoTimersBelow
    <3>4. CASE stack[1].activation = TRUE
      BY <3>2, <3>3, <3>4 DEF Frame, WorkTodo, WorkStep, ActivationOps
    <3>5. CASE stack[1].activation = FALSE
      <4>1. CallTodo(stack[1].todo) /\ stack[1].todo # <<>>
        BY <3>2, <3>5 DEF Frame
      <4>2. Step = stack[1].todo[1]
        BY <4>1, <3>2, SeqFacts DEF CallTodo, Step
      <4>3. stack[1].todo[1].op # "timer"
        BY <4>2, <3>1 DEF At
      <4> QED
        BY <4>1, <4>3, <3>3, CallRest
    <3> QED
      BY <3>2, <3>4, <3>5 DEF Frame
  <2> QED
    BY <2>1, <2>2 DEF Accounted
<1> QED
  BY <1>1, EngineInvCorrect, PTL

=============================================================================
