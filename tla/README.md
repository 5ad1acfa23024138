# CANcestry: TLA+ models and proofs

CANcestry is a C gateway runtime for CAN networks: interrupts put frames into a
ring, a HAL stamps and sorts them into a bounded priority queue, a codec turns
them into signals, state machines and recipes react to the events, ISO-TP and UDS
talk to diagnostic peers, a governor limits what is sent to the battery, and a
watchdog with a retention register catches what goes wrong. This directory models
the parts in which order, bounds, timers, callbacks, resets and arithmetic meet,
checks them with TLC on small instances and proves the central results with TLAPS
for every instance. `PROJECT.json` maps each definition to the lines it
translates and lists the hazards the properties are about.

## 1. Inventory

| component | state | operations | interacts with | what is hard | what makes it correct |
|---|---|---|---|---|---|
| event queue (`core/event/src/queue.c`, `types.c`) | heap array, fault count, sequence and id counters, statistics, terminal flag | init, push, emit, emit_generated, peek, pop, clear | HAL, engines and timers push; main loop pops; escalation hooks | admission at the limit, removal from the middle of a heap, counters patched in several places, 32-bit wrap | reserve kept for faults, no fault lost, FIFO among equals |
| event clock (`clock.c`) | virtual time | set, advance, saturating add | queue, engines | saturation | time never goes back |
| interrupt ring (`isr_queue.c`) | slots, head, tail, counters | push (interrupt), pop, drain (main loop) | CAN interrupt; event queue | lock-free interleaving, stale tail | no slot read while written, FIFO, everything accepted comes out |
| escalation and watchdog (`fault.c`, `watchdog.c`, `startup.c`) | IWDG counter, safe state, transmit authorisation, retention register, fault log | escalate, feed, authorise, boot recovery, bind hooks | queue saturation, reset hardware | reset between any two steps, missing hooks | saturation reported after the reset, outputs safe first, escalation always ends in a reset |
| ISO-TP transport (`core/transport`) | one reception and one transmission session, three timers, pending slots | rx_frame, send, tick, advance | HAL transmit (sink), UDS server (messages) | retries against timeouts, unsynchronised peers, back-pressure | messages whole and in order or a fault; sessions end; the peer's pacing is kept |
| HAL core (`core/hal`) | RX and TX rings, timestamp watermark, negotiated CAN FD per interface | init, poll_rx, deliver_rx, send_tx, raise_fault | backend vtable, event queue | partial init, rings at their limit, stale timestamps, several faults in one poll | every frame delivered or reported; order; the counters balance |
| SocketCAN backend (`platform/linux/socketcan.c`), mock bus (`platform/mock`) | sockets; injected frames and scheduled faults | open, close, poll, drain_tx, caps | kernel, HAL core | any result of a system call inside a loop, back-pressure | loops end; a frame is sent, kept or dropped and counted |
| FSM engine (`core/fsm/src/engine.c`) | instances: lifecycle, state, variables, timers, queue, deferred transition | process_event, inject_event, tick, seven lifecycle calls | bus, signal store, sinks that may call back | callbacks in the middle of an action list, chains, budgets, late ticks | one event at a time, nothing deferred is left behind, timers count every period, calls return |
| recipe engine (`core/recipe/src/engine.c`) | variables, signal store | process_event and its actions | bus, store, sinks | recipes that trigger themselves, a full store, a full bus | no silent change, consequences before later events, draining ends |
| expressions (`core/fsm/src/expression.c`, `core/recipe/src/engine.c`) | none | evaluate, validate; evaluate_condition | engines, loaders | two hand-written parsers of one language, int64 limits, validation by dry run | the value the language gives; check and run agree; both parsers agree |
| codec (`core/codec`) | registered maps | encode_signal, decode_frame, register, resolve | gateway, engines | bit layouts, scaling, clamping, stable ids | signals of a frame do not disturb one another, names keep their meaning |
| UDS server (`core/uds`) | DID data, mirrored signals | process: RDBI, WDBI, routine control | ISO-TP, governor, signal store | order of the steps of a write, shared buffer, signed values | reads return the last approved write, a refused request changes nothing |
| governor (`core/governor`) | none | evaluate, may_transmit, gate_response | UDS server, gateway | rounding in opposite directions | what is sent never exceeds the battery's limit |
| loaders (`core/{fsm,recipe,codec,uds}/src/loader.c`) | the set being built | load | engines use what they built without checking again | schemas re-implemented by hand, a block sized in one pass and filled in another | what loads is what the schema allows and fits its memory |
| example gateway (`examples/gateway/main.c`) | world: bus, store, engines | ingest_frame, drain_bus, run | all of the above | events handed back and forth | each event once, draining ends |
| STM32 driver (`platform/cortex_m/hal_stm32.c`) | receive FIFO, extended cycle counter, the ring `poll_rx` bound | receive interrupt, open, poll | interrupt ring, HAL core | interrupt and `poll_rx` change one ring without masking each other | an unread frame is never overwritten |
| real gateways, tools | see section 8 | | | | |

## 2. Modules

| module | models | state | actions |
|---|---|---|---|
| `EventOrder` | priority classes, validity, selection order, saturating time | - | - |
| `EventQueue` | the queue as the set of stored events: what it promises | `events` plus the C fields of the same names; histories `delivered`, `evicted`, `cleared` and each event's admission number `nth` | one per exit of `push` (terminal, invalid, reserved, room, full, evict, escalate), reached from the four producers; `pop`, `clear`, `advance_clock` |
| `Heap`, `EventHeap` | sift, insert, remove on a sequence; the queue over the array | `slots` in the place of `events` | the same calls on the array |
| `BoundedQueue` | the same queue as a value, for the instances and the bus | - | - |
| `IsrQueue` | the ring, one step per access to a shared field | indices, slots, counters and the locals of both routines; histories `accepted`, `received` | five steps of the interrupt, six of the drain loop |
| `FaultPath` | saturation, escalation hook by hook, IWDG, reset, boot recovery | `pc` of the processor, watchdog fields, retention register, log | boot, main loop, escalation, watchdog tick, power cycle |
| `IsoTp` | one transport engine | the record `tp`, the `phase` inside a tick, sink, frames sent, messages received | `rx_frame` by frame type, `send`, `tick` and one step per use of the sink |
| `IsoTpPeer`, `IsoTpLink` | one engine against a peer that may send anything; two engines joined by a bus | histories: what the last flow control granted (`grant`), the consecutive frames since the last first frame (`segments`) and where a burst has sent past a declined frame (`overtaken`); frames read by each node | hear, request, pass_time, run_tick; requests, receptions and ticks of each node |
| `HalRing`, `Hal`, `MCHal` | the rings; `hal.c` over SocketCAN or the mock bus | `pc`, `at`, `call`, `fault`: where the running call is; rings, watermark, caps per interface; histories of the frames | init one interface at a time; every iteration of the receive, deliver and drain loops and every raise |
| `Stm32` | the receive interrupt against `poll_rx` on the RX ring | FIFO, cycle counter and its extension, ring with counters, `main`: where `poll_rx` is | arrival, the whole interrupt, one step of `poll_rx` per access to what the interrupt also uses |
| `FsmValues`, `SignalStore` | values, rounding and coercion; the store of limited size | - | - |
| `FsmEngine` | the FSM engine | `inst` (one record per instance), `stack`: the calls under way, each with the steps it still has to do | every action, every phase of a transition, every step of a drain; the lifecycle calls, process_event, inject_event; a tick one instance and then one timer at a time; `sink_returns` |
| `Gateway`, `MCGateway` | the main loop around it | adds the bus and the signal store | ingest_frame, tick, drain_bus, lifecycle calls of the host, callbacks that re-enter the engine |
| `RecipeEngine`, `MCRecipe` | the recipe engine under the same main loop | `run`: the recipe and action under way; bus, store, variables; histories `announced`, `lost` | one per action kind, invoke, skip, ingest, external events, drain_bus |
| `ExpressionText` | tokens and the arithmetic both evaluators share | - | - |
| `FsmExpression`, `RecipeExpression`, `Expressions` | the two parsers; the language's meaning and the growing text | `text` | append a token |
| `Codec` | codec and its loader | registered maps `slots`, the frame, what it was given (`carried`), names handed out (`handed`) | load, register, resolve, encode |
| `Uds` | UDS server and its loader | configuration, DID data, signals, counters; history `current` | load, process a request, another writer of a signal |
| `Governor` | the governor | request, answer | gate |
| `Documents` | documents as trees, the spellings of numbers, edits of their authors, the validator for schemas | - | - |
| `FsmLoader`, `RecipeLoader`, `Loaders` | both loaders from the tree on; the schemas | the document and how often it may still be edited | edit |
| `MCData` | `Codec`, `Expressions`, `Governor`, `Loaders`, `Uds` as a disjoint union: they share no state, and `part` says which one a behaviour is about | | |
| `EventQueueProofs`, `HeapProofs`, `DeviceProofs`, `HalProofs`, `IsoTpProofs`, `IsoTpLinkProofs`, `GatewayProofs`, `ApplicationProofs` | theorems: the queue, its array, interrupt ring and fault path, the HAL, one transport engine, two of them on a bus, the FSM engine, and recipes with UDS, governor and codec | - | - |

`EventHeap` refines `EventQueue` by `events <- {slots[i]}`; `IsoTpLink` composes
two engines; `Gateway` composes the FSM engine, the bus and the store;
`RecipeEngine` the recipes, the bus and the store. `FaultPath` has the queue only
as a number of stored faults, since its subject starts where the queue is
saturated. `Hal` pushes to the event queue and ignores its answer, as the code
does.

The C engine is re-entrant: an action calls a sink, the sink may call the engine.
`FsmEngine` therefore keeps the call stack as state. A call is a record with the
steps it still has to do, an action that calls a sink is a step after which
`callback` may put a new call on top, and every other step belongs to the topmost
call. What a step reads is read at that point, not when the call began.

Operators whose comment starts with "Mutant" are deliberately wrong variants: each
stands for a plausible slip in the code and shows that a property would notice it.
No specification uses them.

What is abstracted: payloads where no property looks at them; frame contents of the
transport (a byte is its position in its message); per-type statistics, traces and
name tables; absolute deadlines of the transport (kept as time left); MCU registers
(kept as the field they set). In `FsmEngine` and `RecipeEngine` a guard or operand
is a literal or a comparison of a name with a value, with the faults an expression
can end in; the language is the subject of `Expressions`. Integers keep their width,
with the width as a constant: int64 is three bits, bytes are three bits in the codec
and base 4 in UDS; the count of missed periods and the end of time of the FSM engine are
the constants `CountMod` and `TimeTop`. A real is an integer number of quarters
(`RealUnit`), with a precision (`ExactMax`, `DoubleMax` in the codec) and a range
(`RealMax`) beyond which the binary64 effects of the code appear: the codec rounds after
each conversion, difference, quotient, product and sum as the code does. Real inputs,
scales and offsets are on that grid; a scale such as 0.1, which no double has exactly,
has no counterpart, and the code is then off by the rounding of the scale in addition.
Text is tokens or whole words, never characters; a number keeps how it is spelled
(sign, base, leading zeros, point, length) where a loader or parser looks at that.

## 3. Runs

| run | question | result |
|---|---|---|
| `queue` | Three slots, one reserved, all producers, up to five offers. Does any sequence of calls break the reserve, lose a fault, miscount or reorder equals? | holds, 3.9 million states |
| `heap_queue` | Six slots and seven offers. Does the array implement the set after every eviction? | holds, 0.9 million states |
| `isr_ring` | Three slots, six frames, interrupt and main loop interleaved at each access. Races, order, everything drained? | holds, 13 thousand states |
| `fault_path` | Five hook configurations; resets and power losses anywhere. Is a retained saturation reported, do outputs go safe, does escalation always reset? | holds, 1.1 thousand states |
| `tp_peer` | One engine, any peer frames, a sink that answers each time as it likes. Whole messages or a fault, pacing, no session hangs? | holds, 0.19 million states |
| `tp_link` | Two engines, one of which grants unlimited blocks or blocks of two frames. With sinks that answer as they like and unsynchronised ticks: whole messages in order, or a fault. On a prompt bus with willing sinks: every message that fits its block arrives, and one that does not ends in a fault at both ends. | holds, 0.85 million states |
| `hal` | Two interfaces, both backends, any result of `recvmsg` and `sendmsg`, frames arriving inside a poll. Is a frame lost without a fault, delivered out of order or shut out by a rejected one, do the TX counters balance, does every call return? | holds, 1.6 million states |
| `fsm` | Two machines, two inputs, three further orders of the host, a callback in any sink. Is a deferred transition left behind, are two events handled at once, is a period of a timer lost or doubled, does an event wait without reason, does every call return? | holds, 0.87 million states |
| `recipe` | Five recipes, of which two undo each other for ever. Does a value change without an event, does the bus go back in time, does draining end? | holds, 51 thousand states |
| `data` | Every signal shape in small frames, every text of five small alphabets, every request of three-bit quantities, every edit of four packages, every spelling of a number included: do the components agree with their references? Nine UDS configurations, eighteen requests, three response capacities, a governor that may refuse: do reads return the last approved write, does a refused request change anything? | holds, 0.33 million states |
| `fsm_nested` | Can a second activation of an instance start inside one? | violated, see section 6 |
| `stm32_ring` | Can the receive interrupt overwrite a frame `poll_rx` has not read? | violated, see section 6 |

### Bounds, and why they are enough

* Queue: three slots and one reserved slot have a state for every branch of
  `push`: ordinary share used with a slot free, full with one, two or three
  faults. Five offers fill it and reach eviction, escalation and a call after it.
  Two timestamps and classes 0 (fault), 3 (ordinary), 5 (generated) and 7 (out of
  range) cover each case of the order and of validation. The theorems remove all
  of these bounds.
* Heap: six is the least size at which the event that fills a hole can have to
  move up; a version that forgets `sift_up` survives at five slots. One timestamp
  is offered; three classes and the sequence still order the events.
* Ring: three slots wrap twice within six frames, with every combination of
  full, empty and stale tail. Proved without bounds.
* Fault path: a timeout of three ticks lets a reset fall between any two steps
  of escalation and of boot. The hook sets have the complete configuration and
  the ones that take each exit of `fault.c`.
* ISO-TP: single, first and consecutive frames carry 2, 1 and 2 bytes instead of
  7, 6 and 7 and the sequence number counts modulo 3, in `tp_link` 2, instead of 16, so
  that messages of six and seven bytes take three consecutive frames and wrap the
  number, within a block of two in `tp_link`: the case in which a repeated frame can
  pass for the next one. Timers of two or three ticks expire within a session. The peer
  of `tp_peer` sends two frames (`MaxHeard`) and as many waits as it likes. `MaxGap`
  saturates a history at the largest STmin in use.
* HAL: an RX ring of one slot overflows within a poll, a TX ring of two wraps and
  can hold a pushed-back frame beside a younger one. Three frames in all on two
  interfaces of which one may get CAN FD. Timestamps 0 to 2 repeat, go back and
  are absent.
* FSM: `gate` has a message, a one-shot timer, a chain that ends and one that runs
  into `MaxChain`, an expression that faults and a fault it subscribes to itself;
  `watch` has a periodic timer, a state that reacts to its own entry, an unset
  variable and a critical fault in the middle of a list. Two inputs and three
  lifecycle calls reach suspension with a full queue, a restart after a fault and a
  late tick over several periods (`Periods`, `TimeMax`). The count of missed periods is
  modulo 3 (2^32 in the code) and time ends at 7, so that both limits are met. One
  callback per behaviour (`MaxCallbacks`) re-enters at any sink of any action with any
  call of the engine but `tick`; the nesting it starts can again be in the middle of a
  list. A `tick` from a callback is left out: the host owns the time. `MaxActions`, `MaxEvents` and `MaxDispatches`
  are small so that each budget runs out.
* Recipes: three signals and a store of two, so that a write fails; a bus of four,
  so that an event is refused; four inputs; values that are equal in one kind and
  not in another (`UIntV(0)`, `IntV(0)`). The host sets the hooks for logs and faults and
  not those for timers and messages, as the example gateway does (`Hooks`).
* UDS: bytes in base 4; the first configuration has an unmapped DID between two of
  one signal with different lengths. Three steps let two others fill the signal store
  before a write, and put another change between a write and its read.
* STM32: a FIFO and a ring of two frames and six frames in all: the ring wraps, is
  full and is overrun. The cycle counter counts modulo four and rolls over.
* Data: bytes of three bits put every signal of up to four bits across a byte boundary;
  all start bits, lengths, types, layouts and byte orders are loaded. Words of seven bits
  and doubles exact up to 32 (2^5 for 2^53) let scaled and clamped signals leave the
  precision. Expressions are all texts of up to four to nine tokens over five
  alphabets, chosen so that each operator meets every neighbour in precedence and
  each limit of three-bit integers, the least one divided by -1 included; one alphabet
  has a number the two evaluators read differently. The governor gets every combination of its
  quantities. For the loaders, two packages in which each construct appears are
  edited once at any node and two small ones twice: replaced by every kind of
  scalar and, in the last edit, every length and every spelling of a number; null, key
  dropped, key added, item dropped or repeated.

Deadlock checking is off where producers stop at a bound (`queue`, `heap_queue`,
`fsm`, `recipe`, `data`, `stm32_ring`); everywhere else the watchdog, the drain loop, the
call or the tick always goes on.

### Fairness

* `isr_ring`: weak fairness of the drain loop (the main loop calls it in each
  round) and of an interrupt that has started. Nothing makes frames arrive.
* `fault_path`: weak fairness of the watchdog oscillator, and of boot and
  escalation code. `SF(restore_copy)` says that boot reaches the copy of the
  retained fault within some watchdog period: the period is configured in hundreds
  of milliseconds and boot takes a few instructions. The main loop may do anything,
  feeding the watchdog for ever included, and the power may fail at any time.
* `tp_peer`, `tp_link`: the main loop calls `tick` for ever and a tick runs to
  its end; in `tp_link` the bus also delivers accepted frames, which CAN does by
  retransmission. The peer of `tp_peer` owes nothing.
* `hal`, `fsm`: a call that has begun goes on to its next step, as code on a thread
  does. Neither calls nor arrivals are owed. In `fsm` a sink that was called also
  returns (`sink_returns`), which the engine cannot do without.
* `recipe`: as above, and the main loop drains the bus after each input.

`EveryMessageArrives` is claimed on a prompt link only (`Prompt`: frames arrive
within a tick, the nodes tick at one rate to within one tick); it says that no engine
raises a fault there and that each message arrives, as long as all of them fit the blocks
granted. A receiver sends no flow control after a full block, so the first longer message
ends in a timeout at either end, and the property says that this does come. Without a
prompt link the timers may expire for good reason, and `LossIsReported` says what is then
due.

## 4. Properties worth knowing

* `FaultsProtected`: the fault count is exact, a burst of ordinary events never
  takes the reserve, and no fault is ever evicted. `EvictionOnlyBeyondReserve`,
  the other side of the reserve, is proved.
* `ImplementsEventQueue`: pop and eviction of the array take the event the order
  names, and nothing else differs between the array and the set.
* `NoSlotRace`, `Fifo`: the interrupt decides with a tail that may be stale when it
  writes; staleness can only make it drop, never overwrite.
* `SaturationReported`: the register is cleared after the log has the fault, so a
  reset in between reports twice and never not at all.
* `SentWholeOrReported`, `DeliveredIntact`, `LossIsReported`: a frame that the sink
  declined is still the next one when it is retried; end to end, over both
  engines' timers, a message arrives whole or a fault is raised. `PacingKept`: no
  consecutive frame before the message's own clear to send, nor beyond what that grants.
  The sink may change its answer from one attempt to the next; where it declines the retry
  and takes the attempt of the burst in the same tick, the code sends the frame again, and
  the properties except that message (`overtaken`), though not from being accounted for.
* `NoSilentLoss`, `FramesInOrder`: overflow, protocol, length, age and bus errors of
  one poll end in at least one fault, though only the first fault of the backend is
  kept; the checks come before the watermark moves, so that a malformed frame with a
  timestamp of the far future shuts nothing out.
* `NoStaleDeferral`: a transition asked for by an action is executed or dropped
  within the call, on every way out of an action list.
* `TicksAccounted`: after any delay a timer has reported one tick per full period
  since it was armed, whenever no tick is in the middle of its timers; catching up
  neither loses nor invents one, as long as the number of periods fits its 32 bits.
* `NoStall`: between calls an event waits in a running instance only if a budget ran out.
* `NoSilentChange`: along all ways a value gets into the store, with the feedback of
  recipes on the signal they react to.
* `NoPartialEffect`: of the steps of a UDS write those that can fail come first.
* `FrameKeepsSignals`: setting one signal leaves every signal that shares no bit with
  it as it was, and what was set is read back: exactly without scaling, and with it within
  half a step as long as the doubles on the way are exact (`WithinPrecision`).
* `EvaluatesToMeaning`: the parser against a definition of the language that splits
  at the weakest operator instead of descending, with the levels of the grammar
  (`docs/system/expression-language.md`, section 2). `CheckPredictsRun`,
  `GuardAndConditionAgree`: the loader's check against the run, and the two parsers
  against each other. The differences that exist are part of the statements: the numbers
  of the text are those the condition reads, and the triggering signal has the value of
  the event.
* `MachinesFollowSchema`, `RecipesLoadSound`: the loaders against
  `schemas/fsm-0.3.0.schema.json` and `schemas/recipe-0.2.0.schema.json` in both
  directions, with the nodes and spellings of numbers they read otherwise than the schema
  as a parameter (`FsmReading`, `RecipeReading`); the block of `recipe_build_set` is
  large enough for every string written to it; and a number that both loaders take for a
  literal is the same one, but for the spellings in `Disputed`.

## 5. Proofs

`EventQueueProofs` (assumption `QueueAssumption`: capacity between 1 and 32767,
a reserve no larger, a modulus that leaves at least one non-zero id, any set of
offered classes):

* `TypeCorrect`, `ReserveCorrect`, `FaultsRetained`, `ReserveProtectsFaults` and
  `CountersCorrect` follow from one inductive invariant, `IndInv`, the conjunction of
  `TypeOK`, `FaultCountExact`, `ReservedShareKept`, `NoFaultEvicted`, `OnePlace`,
  `CountersAccount` and `TerminalOnce`. None of the last six is inductive alone:
  the reserve needs the exact fault count, the count needs to know that pop removes
  an event that is stored, the counters need disjointness of the places an event may
  be in, and disjointness needs fresh admission numbers. The proof has one lemma for
  the exits of `push` that store (`EnqueueKeeps`) and those that do not
  (`RefuseKeeps`), and one for pop and clear; cardinality enters through three lemmas
  about splitting, adding and removing.
* `FifoCorrect` adds `OrderInv`: as long as fewer events are offered than the counter
  can number (`MaxOffers < IdMod`), the sequence is the admission number. The premise
  is needed: `queue_next_id` wraps, and a younger event then sorts before an older
  stored one.
* `EvictionCorrect` is the action property, from the same invariant.

`HeapProofs` (assumption `HeapAssumption`: as above, for the array): `AlwaysHeap`, from
which `HeapImplementsQueue` follows, the refinement of `EventQueue` by the array.

* `HeapInv` says that the array is a heap in the selection order, that it holds no event
  twice and that no stored admission number is ahead of the counter. The last is what
  makes a new event differ from all stored ones, without which the set of the slots would
  lose one.
* `sift_up` and `sift_down` are loops, and the turns of a loop are counted by a recursive
  function; `LoopEnds` gives the result of one from its invariant and a measure that each
  turn decreases. `Rising` is the invariant of the first: a heap but for one event and its
  parent, whose children would do under the grandparent. `Sinking` is that of the second,
  which starts anywhere, so that a removal in the middle leaves a heap that may still have
  to rise from there (`DownEnd`): this is why the code calls both. Induction over the turns
  is by the least number at which a claim fails, from the well-foundedness of `<`.
* `RootIsOldest` and the lemmas on the search for a victim identify what the array gives
  up with what the set gives up; then each call simulates the one of the same name.

`DeviceProofs` holds the interrupt ring and the fault path.

* The ring (assumption `RingAssumption`: at least two slots): `FifoCorrect`, `RaceFree` and
  `CountersCorrect`, for every size and number of frames. The invariant adds
  `StaleTailSafe` to what the run checks: the tail the interrupt read is behind or at the
  real one, within what the main loop may have consumed, so the slot that looked free
  still is. Arithmetic modulo the capacity is isolated in the lemmas about `Distance` and
  `Slot`.
* The fault path (assumption `PathAssumption`: any capacity, watchdog period and hook
  configurations): `OutputsSafeCorrect`, `RetentionCorrect` and `NoFeedCorrect` from
  `PathInv`. `OutputsSafe` is not inductive: the fail-safe hook is one step of escalation
  and the spin another, so the invariant says at each place of the processor which hooks
  have run, that saturation is terminal until the reset, and that the watchdog runs from
  boot on. `RetentionCorrect` is the safety half of `SaturationReported` and
  `NoFeedCorrect` that of `EscalationResets`; the fairness that turns them into the
  liveness properties stays with TLC.

`HalProofs` (assumption `HalAssumption`: at least one interface, rings of at least one
slot, any arrivals with natural timestamps):

* `TxAccountingCorrect`, from `HalInv`, which adds to the balance that the rings
  stay inside their storage; the ring lemmas say so of push, pop and push-back, and
  each change of a TX ring is then one lemma. `InitAllOrNothing`, from `OpenInv`: while
  init runs, the interfaces before the current one are open, so the last one completes
  the set.
* `FramesInOrderCorrect` has one invariant per direction. `RxInv` says that the frames
  delivered, then those in the RX ring read from its tail, are an increasing sequence
  of arrival numbers, and that the watermark is the last timestamp delivered. `PressInv`
  says the same of transmission, and that the ring is in order as long as no
  back-pressure was reported; it needs `NoFaultYet`, since a drain that already holds
  another fault would not report the pressure.
* `NoSilentLossCorrect` holds between calls, so `LossInv` says what is owed inside one:
  each interface either has a fault still to be raised in this call (`Owing`) or every
  frame read is kept, that is delivered, in the ring, a notice, or accounted for
  (`AllKept`); and only the interface being polled has frames in its ring (`Emptied`).

`IsoTpProofs` (assumptions `TpAssumption`: positive frame sizes and timers, a first frame
that carries no more than a single one, any modulus of the sequence number, any sink; and
`PeerAssumption`: `MaxGap` is at least every STmin in use): `SentWholeOrReportedCorrect`
and the action property `PacingKeptCorrect`, both from `TpInv`. A frame the sink declined is the
hard part: `Waiting` says that what waits in the slot is the very frame the session would
build next, under the number it would use, and that the block and the pause allow it, so
that the retry and the burst keep the same books. `Underway` says that a session has sent a
prefix of its buffer, `Balanced` counts requests, and `Paced` ties what the session
believes to what the peer granted to this message: that there was a clear to send, the
frames left in the block, and that the pause still due plus the gap since the last frame
reach STmin. A burst that gets a frame past the sink while a declined one waits ends all
this for its message, until the next request: then only `Loose` is known, the shape of the
session and that requests stay covered by completions and faults. The slot may complete
such a message twice, so `TpInv` counts those (`extra`).

`IsoTpLinkProofs` (assumption `LinkAssumption`: frame sizes as above, any sinks, block
sizes, timers, capacities, modulus and messages): `DeliveredIntactCorrect` and
`LossIsReportedCorrect`, for ticks of the two nodes in any order and frames however late,
both up to the first frame that is overtaken; for `LossIsReported` that is a premise of the
theorem only, the run checks it without.
`LinkInv` has to say what the frames in transit mean, though the frames themselves do not
say which message they belong to. It gives each direction a trail of marks, one per frame
on the wire: the message the frame belongs to, how much of it has gone out, and how many
have gone out whole (`Trail`, `Follows`). The sender's session is at the last mark
(`Sender`), and what waits for its sink is the frame that moves it on (`Awaits`); the
receiver is at the mark of the last frame it read (`Receiver`): idle with what it has
delivered taken from the messages up to there, or with exactly the part of the current one
that the mark says. A consecutive frame moves only the mark of its own message, so what a
receiver pieces together is of one message, and it gets to the end only with all of it. The
sequence numbers are not needed for that, since the bus keeps the order and loses
nothing. For `LossIsReported` the faults of an engine are split into those that ended a
transmission and those that ended a reception: a message that did not go out whole is
charged to the sender, one that went out whole and was not delivered to the receiver, and
at rest no message is in between.

`GatewayProofs` (assumptions `EngineAssumption`: what the loader has checked, that is
transitions lead to declared states and durations are at least 1, and an order of distinct
instances, and capacities, budgets, the modulus of the period count and the end of time of
at least 1; `GatewayAssumption`: time is a natural number up to that end): for any machines,
any number of instances and callbacks nested to any depth, which make any call but `tick`,
`NoStaleDeferralCorrect`, `NoStallCorrect`, `OneEventAtATimeCorrect` and
`TicksAccountedCorrect`, all from `EngineInvCorrect`. The
properties speak of the tables; why they hold is in the calls under way, so `EngineInv`
relates the two:

* `StackOK` is the shape of the stack of calls. An activation lies on a drain of its
  instance, which has begun if the activation is for an event; a call that waits below
  another waits at a sink or at a drain; no two drains of one instance have begun. The
  last is what a callback could break: it holds since `processing` is set exactly while a
  drain that has begun is on the stack (`Working`). `OneEventAtATime` follows: two
  activations for events of an instance would lie on two such drains.
* `Accounted` says that what an instance has left undone is still on the stack: a deferred
  transition has a chain step to execute it (`Settling`), a waiting event a drain
  (`Draining`) unless the event budget was reached, a timer whose count is behind a step
  of the timer loop (`Ticking`). Between calls the stack is empty, hence nothing is
  left undone: `NoStaleDeferral` and `NoStall`.
* `InstanceOK` keeps each timer on its grid (`SlotOK`): the deadline is one period after
  the last tick reported, or at the end of time, and that tick is not in the future, unless
  the timer was looked at more periods late than the count holds (`lapped`).
  `TicksAccounted` needs this and two lemmas about division, for a turn of the catch-up
  loop and for its end.

One lemma per action shows that it keeps `EngineInv`; they share lemmas on what happens to
the stack (a step done, a call pushed, work put in front) and to one instance table (what
`Accounted` can see stays, or a slot is set).

`ApplicationProofs`, recipes (assumption `RecipeAssumption`: any recipes, capacities of at least one):
`ConsequencesFirstCorrect` from `TimeInv`: nothing on the bus is older than the event
dispatched last or newer than the clock, and the event being processed is that one. It
rests on lemmas about `BoundedQueue` that hold for every queue value: insertion keeps the
slots ordered, eviction and pop remove one, the head is the earliest.
`NoSilentChangeCorrect` needs no strengthening; its lemma is that a write to the store
and the push of its event are accounted together on every path.

`ApplicationProofs`, governor and UDS: `GovernorCorrect` (assumption `GovernorAssumption`: quantities up to any
`UMax`, positive denominators), by the two roundings: power is divided down before it is
compared and the current is divided up. Nonlinear arithmetic is in lemmas about division.
`NoPartialEffectCorrect` (assumption `UdsAssumption`: configurations with finite tables,
requests of bytes, signal ids that are not the mark for none): the exits of a write are
followed one by one up to the step after which nothing fails. `ReadYourWritesCorrect`, from
`KeptInv`: what a DID must read as is in its slot of the buffer, and if the DID is mirrored,
the signal is unset or has the decoded bytes as its value. That the slot survives writes to
its neighbours rests on `Laid`, which the loader's running sum of lengths establishes
(`OffsetsGrow`); that a read through the signal gives the bytes back is `Digits`, by
induction over the digits of the value in base `ByteBase`; that the buffer starts with the
defaults is `SeededIs`. Each of these follows a recursive function, which is first shown to
exist (`RecursiveFunction`).

`ApplicationProofs`, codec (assumptions `CodecAssumption`: bytes, words and frames are not empty,
doubles are exact up to a power of two that fits a word, the messages of a document and the
signals of a message are lists, what stands for a number or a flag in a signal is one, which
the readers of the YAML nodes ensure; `InputsAssumption`: inputs have a number, and a real
one is a double; nothing else is assumed of the values). `LoadedSignalsFitCorrect`, from `CodecInv`: every registered map was built from a
document the loader accepted. Per signal (`SignalFits`) it rests on `be_idx` being its own
inverse and staying within the byte (`Mirrored`), so that a sawtooth signal has as many bits
as elements. `NamesKeepTheirMeaningCorrect`, from `NamesInv`: map names are distinct, signal
names are distinct within a map, and each id handed out is that of a signal of that name
(`Known`). Maps are only appended, so ids stay (`IdKept`); that `resolve` and `resolve_id`
agree, one adding up signal counts and the other walking all signals, is `Places`.
`FrameKeepsSignalsCorrect`, from `FrameInv`: each signal that has been set and not written
over reads, bit by bit, the raw value it was encoded to (`StillThere`). `PutIs` says that a
store writes exactly the bits of its signal in all three layouts, so a signal without a
common bit keeps its word (`PutKeeps`); that a word read back is the number written is
`WordOfBits`, by induction over the bits with the powers of two as a recursive function.
`EncodedReads` then follows a value through limits, rounding, two's complement and back:
where the doubles on the way are exact (`WithinPrecision`), the raw value fits the signal
and rounding moves it by at most half a step. The quotient that is rounded is itself not
exact, nor is its sum with a half: `QuotientRounds` shows that the two roundings together
still give the nearest integer when twice the dividend and the divisor add up to no more
than `DoubleMax`. The unit in the last place of the quotient (`UnitIs`) divides `DoubleMax`, so a tie is a
double and is not crossed from above; from below the quotient stays a unit short of the next
tie, and the sum has at most twice that unit, which leaves one case of a tie to exclude.

Only model-checked:

* liveness (`CallsReturn` of `Hal` and `Gateway`, `EverythingDrained`,
  `SaturationReported`, `EscalationResets`, `SessionsEnd`, `EveryMessageArrives`,
  `DrainEnds`), since the prover has no support for fairness;
* what recursive operators compute: the expression parsers, `Documents` and both loaders;
  induction over trees and texts is beyond the installed provers.

## 6. Findings

* `fsm_nested`: `cancestry_fsm_instance_start` makes the instance ACTIVE and runs the
  initial entry actions outside `processing` (`engine.c:1995`). A sink that delivers an
  event from one of them starts a transition inside the initial entry, against
  `core/fsm/README.md:261-262` ("a re-entrant `sink` callback cannot nest a second
  activation"). `OneEventAtATime` of the run `fsm` shows that nesting is excluded in
  all other cases.
* `stm32_ring`: `cancestry_hal_rx_ring_pop` does `ring->count--` (`types.c:72`), a load
  and a store. The receive interrupt pushes to the same ring (`hal_stm32.c:142`) and is
  not masked by `poll_rx`; between the two accesses its `count++` is lost. From then on
  the ring holds more frames than it counts, and once it is full the next push overwrites
  one that was not read, neither reported nor counted, against
  `hal/include/cancestry/hal/types.h:167-170`. With the decrement as one step TLC finds no
  violation in all 131 thousand states.

Noted while modelling, without a run of their own. Unless it says otherwise, the models
contain the behaviour, and the properties name it as an exception or hold with it.

Event queue and transport:
* The FSM engine numbers what it publishes from 1 by a counter of its own
  (`fsm/engine.c:593`), the queue assigns ids from 1 to events without one
  (`queue.c:141`), so ids repeat; `event-ordering.md:124-126` says an id "is never
  reused within a queue lifetime, including after eviction". The sequence wrap of
  section 5 contradicts `queue.c:8`, which calls the order total.
* A sink that declines the retry of a consecutive frame and accepts the next attempt
  of the same tick makes the engine send that frame again, beyond the block if need be,
  and skip the following piece (`transport/engine.c:329`, `376`), against SW-FR-TP-009 and
  `engine.c:29`; the sink contract (`engine.h:88-96`) allows such a sink. Where the
  sequence number has come round in the meantime the receiver takes the frame for the next
  piece and delivers a message that was never sent. The receiver sends no flow control
  after a completed block (`engine.c:512`, against `types.h:195-196`), so with
  `fc_block_size` set longer messages end in timeouts at both ends. An abort while the first frame is pending leaves the
  payload in `tx_buffer` (`engine.c:193`).

HAL:
* After back-pressure `sc_drain_tx` puts the frame before `read_idx` and leaves
  `read_idx` where the pop moved it (`socketcan.c:508`, against the comment at 502-504):
  younger frames, or a zeroed slot, go out first. Of several bus faults in one poll only
  the first is raised (`socketcan.c:142`); a transient `sendmsg` error drops a frame
  without a fault (`:521`); `send_tx` does not look at `BUS_OFF` (`hal.c:408`); the drop
  counter `get_status` reports is reset by each poll (`hal.c:381`). The receive loop has no
  bound for error and malformed frames (`socketcan.c:286`), where `hal.h:53` promises
  bounded time; `CallsReturn` holds since the frames of the run are finitely many.
* The STM32 interrupt stamps all frames it takes from the FIFO with one time
  (`hal_stm32.c:92`); `hal_deliver_rx` accepts the first and turns the others into
  TIMESTAMP_NON_MONOTONIC faults. A zeroed slot has timestamp 0 and passes as a frame.

FSM engine and gateway:
* A half-executed transition is visible to callbacks (the comment at `engine.c:1562`); a
  critical `raise_fault` does not stop the list it is in. The terminal flag of an
  instance queue survives clear, reset and start, after which the instance hears
  nothing. Timers are armed from `engine.now`, which is the time of the last tick.
  Events an instance generates inherit the time of their cause and can keep external
  ones waiting.
* The main loop keeps the timer and state events of the engine from going back to it by
  their type (`gateway/main.c:1077`); a fault or a signal change an instance is
  subscribed to itself reaches it twice, from its own action and over the bus.
* At exactly 2^32 - 1 missed periods the sum at `engine.c:760` is 0, the deadline stays
  and the expiry is reported again. A duration above 1271310319 ms (14.7 days) becomes the
  end of time, since `fsm_us` compares with the low 32 bits of the limit
  (`engine.c:88-94`); durations of the model stay below. A timer that the rest of an action
  list arms after a callback has disabled and enabled its instance goes on running.
* The store is written before the event is pushed (`gateway/main.c:1049`,
  `recipe/engine.c:1629`): if the bus refuses it, the change is never announced, and the
  same value later counts as unchanged. The event that exceeds
  `GATEWAY_MAX_DISPATCHES` is popped and lost (`main.c:1101`). A recipe's timer trigger
  compares the number of the timer only, not its owner. The example gateway sets no hook
  for the timer actions of recipes (`main.c:933-936`), so that each of them fails there.

Expressions:
* A division by `round(...)` is refused at load, since the check evaluates it to zero.
  A recipe takes `<=` and `>=` on booleans as `!=` where a guard faults
  (`recipe/engine.c:881`, against `expression.c:35-37`). `.5` is a number in a guard only.
  A recipe has no bound on nesting and no check of permitted signals, and the two know
  different event fields. Integers are compared, clamped and ordered through binary64,
  so that 2^53 + 1 equals 2^53. `-2^63 % -1` is an overflow (`expression.c:596-600`),
  though its value would be 0.
* `*`, `/` and `%` are of one level, as are `+` and `-`, associating to the left: as the
  grammar in `docs/system/expression-language.md`, section 2, and not as the list of
  precedences in section 3, which gives each operator a level of its own.
* A condition adds up the digits of a number (`recipe/engine.c:600-612`), a guard uses
  `strtod` (`expression.c:989`): the two differ in the last bit, as for 0.3. A condition
  sees the triggering signal as the event has it (`engine.c:468-471`), a guard as it is in
  the store. `expression.c:33-35` says the two behave identically.

Codec, UDS, governor:
* The codec loader accepts signals that overlap or lie beyond the dlc. An enum as wide
  as the word with its high bit set is not read back. A limit between two raw values is
  clamped to one outside of it. A short name can become ambiguous by a later
  registration.
* Scaled values go through doubles (`encoder.c:46-67`, `201`, `decoder.c:89`, `99`): a raw
  value beyond 2^53 is a step or more off when it is read back, and an odd one between 2^52
  and 2^53 is rounded up by the added half. The limit of a scaled or clamped signal of 54
  to 63 bits is compared as a double, which rounds up to a power of two: that value is
  accepted and stored as 0 (`encoder.c:184`, `219`). Limits of unscaled 64-bit values are
  compared after rounding, too. `core/codec/README.md:44-45` calls encoding "the exact
  inverse of decoding"; for unscaled values (lines 67-68) `FrameKeepsSignals` confirms it.
* UDS answers 0x31 to an unknown routine where its README says 0x12, refuses (0x22) to
  read a signal that holds a real where the README says the stored bytes are served,
  and a negative integer read and written back becomes a large unsigned one.
* The governor allows a request of zero power with torque, with torque 0, and reports no
  intervention.

Loaders:
* A variable default of the wrong type loads and is only counted when the instance
  starts. Recipe expressions are not parsed at load. The FSM loader takes a key with an
  empty value for a missing one, so that an empty `guard:` is no guard, and plain
  numbers as names; -2^63 becomes a real, against the comment at `fsm/loader.c:1316-1318`.
  The recipe loader takes quoted numbers and booleans.
* Numbers are scanned by hand in both loaders, and differently, against
  `fsm/loader.c:1095-1098` and `recipe/README.md:164`. A machine refuses `+5` for an
  integer field, and as operands `007` and `1e-999`; it takes `.5` and `1.` for
  expressions, of which the second fails, `0b1` for a number, and keeps only the leading
  digits of a number beyond 2^64 in another base (`fsm/loader.c:1144-1166`). A recipe refuses
  `0o17` and hexadecimal operands beyond int64 and those of 32 digits or more beyond
  uint64 (`recipe/loader.c:1642-1685`), takes `007` for 7 and `0b1` for an expression, which
  fails when it is evaluated, and `.5`, `1.` and `1e-999` for reals.
* Names of signals in an FSM `send_message` have no limit; several counts are cast to 16
  bits unchecked.

## 7. Plan

1. STM32 driver: interrupts of two controllers that pre-empt each other (they share the
   interrupt ring and the cycle counter), and transmission.
2. A lossy bus: `IsoTpLink` over `Hal`; UDS over ISO-TP, one response per request.
3. Proofs: the recipe and the FSM loaders, once their validators are functions over a
   bounded depth instead of recursive operators.

## 8. Not modelled

Each loader has a YAML reader in front of the checks that are modelled: sequential text
processing in which a model would repeat the code. Memory allocation and its failure,
messages and positions of errors, trace rings and name tables are left out. Of SocketCAN
the setup of a socket is one step, of the mock the capture buffers are left out. Of the
STM32 driver the simulated registers, transmission and a second controller are left out;
the repository fixes no interrupt priorities. The example gateway is modelled as the
main loop around one engine at a time, without its script; the real gateways, tools, CI,
hardware notes and schemas are not part of the running core. Of the interrupt ring, the
case of two producers that pre-empt each other is left out, as the header excludes it.
The bus of `IsoTpLink` loses no frame.
