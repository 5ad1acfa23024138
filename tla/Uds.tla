-------------------------------- MODULE Uds ---------------------------------
(***************************************************************************)
(* The UDS server of core/uds: the configuration loader's checks           *)
(* (loader.c), server initialisation and the three services (services.c)   *)
(* over the DID data store and the signal store the server shares with     *)
(* recipes and state machines, which write signals between two requests.   *)
(*                                                                         *)
(* A byte is a number below ByteBase; identifiers are two bytes, high byte *)
(* first.  A document is what the YAML parser yields: records of fields,   *)
(* None where a field is missing, Malformed where it has the wrong kind.   *)
(***************************************************************************)
EXTENDS SignalStore, Sequences

CONSTANTS
  ByteBase,        \* 256
  LengthMax,       \* CANCESTRY_UDS_DID_LENGTH_MAX
  SignalLengthMax, \* CANCESTRY_UDS_DID_SIGNAL_LENGTH_MAX
  EntriesMax,      \* CANCESTRY_UDS_MAX_DIDS, CANCESTRY_UDS_MAX_ROUTINES
  Configurations,  \* configurations offered to the loader
  Namespace,       \* [signal name -> signal id]
  StoreCapacity,
  ClientRequests,  \* requests of the client
  Capacities,      \* response buffer sizes
  Writes,          \* what the other writers of the store put into it
  MaxSteps,        \* bound: requests and writes of others
  Malformed, None

ASSUME UdsAssumption ==
  /\ ByteBase \in Nat \ {0, 1} /\ LengthMax \in Nat /\ SignalLengthMax \in Nat
  /\ StoreCapacity \in Nat \ {0} /\ MaxSteps \in Nat
  /\ \A c \in Capacities : c \in Nat
  /\ \A req \in ClientRequests : req \in Seq(Nat) /\ \A k \in 2 .. Len(req) : req[k] < ByteBase
  /\ \A name \in DOMAIN Namespace : Namespace[name] # None
  /\ \A doc \in Configurations : \A entries \in {doc.dids, doc.routines} :
       \/ entries \in {None, Malformed}
       \/ Len(entries) \in Nat /\ DOMAIN entries = 1 .. Len(entries)
  /\ \A doc \in Configurations : doc.dids \notin {None, Malformed} =>
       \A k \in 1 .. Len(doc.dids) : doc.dids[k].default \in {None, Malformed} \cup Seq(Int)

VARIABLES
  config,          \* the loaded tables; None: refused by the loader
  did_data,        \* the DID data store, all slots in one buffer
  did_signal_ids,
  initialized,
  attached,        \* a signal store is attached
  governed,        \* a governor is attached
  signal_store,         \* shared with recipes and state machines
  counters,
  reply,           \* status and bytes of the last reply
  steps,
  current          \* history: what a read of each DID must return; None: unknown

server_vars == <<config, did_data, did_signal_ids, initialized, attached, governed, signal_store,
                 counters, reply, steps, current>>

-----------------------------------------------------------------------------
(* The loader.                                                             *)

ByteMax == ByteBase - 1
IdMax == ByteBase * ByteBase - 1

scalar_uint(x, low, high) == x \in low .. high

build_byte_array(x) ==
  /\ x # Malformed
  /\ Len(x) <= LengthMax
  /\ \A k \in DOMAIN x : scalar_uint(x[k], 0, ByteMax)

(* A DID of the document is acceptable.                                    *)
build_did(e) ==
  /\ e.unknown = {}
  /\ scalar_uint(e.did, 0, IdMax)
  /\ scalar_uint(e.length, 1, LengthMax)
  /\ e.read_only \in {None, TRUE, FALSE}
  /\ e.signal # None => e.signal # Malformed /\ e.length <= SignalLengthMax
  /\ e.default # None => build_byte_array(e.default) /\ Len(e.default) = e.length

build_routine_op(op) ==
  op # None => /\ op # Malformed
               /\ op.unknown = {}
               /\ op.allowed \in {None, TRUE, FALSE}
               /\ op.response # None => build_byte_array(op.response)

build_routine(e) ==
  /\ e.unknown = {}
  /\ scalar_uint(e.routine, 0, IdMax)
  /\ build_routine_op(e.start) /\ build_routine_op(e.stop) /\ build_routine_op(e.results)

Distinct(entries, key(_)) ==
  \A i, j \in DOMAIN entries : key(entries[i]) = key(entries[j]) => i = j

Acceptable(doc) ==
  /\ doc.unknown = {} /\ doc.version = "0.1.0"
  /\ doc.dids # None \/ doc.routines # None
  /\ doc.dids # None =>
       /\ doc.dids # Malformed /\ Len(doc.dids) <= EntriesMax
       /\ \A k \in DOMAIN doc.dids : build_did(doc.dids[k])
       /\ LET did(e) == e.did IN Distinct(doc.dids, did)
  /\ doc.routines # None =>
       /\ doc.routines # Malformed /\ Len(doc.routines) <= EntriesMax
       /\ \A k \in DOMAIN doc.routines : build_routine(doc.routines[k])
       /\ LET routine(e) == e.routine IN Distinct(doc.routines, routine)

Listed(entries) == IF entries = None THEN <<>> ELSE entries

(* The lengths of the DIDs before the k-th.                                *)
data_offset(dids, k) ==
  LET upto[i \in 0 .. Len(dids)] == IF i = 0 THEN 0 ELSE upto[i - 1] + dids[i].length
  IN  upto[k - 1]

routine_op(op) ==
  [declared |-> op # None,
   allowed  |-> op # None /\ op.allowed # FALSE,
   response |-> IF op = None THEN <<>> ELSE Listed(op.response)]

build_config(doc) ==
  LET dids == Listed(doc.dids)
      routines == Listed(doc.routines)
  IN  [dids |-> [k \in DOMAIN dids |->
                   [did |-> dids[k].did, length |-> dids[k].length, signal |-> dids[k].signal,
                    default |-> dids[k].default, data_offset |-> data_offset(dids, k)]],
       routines |-> [k \in DOMAIN routines |->
                       [routine |-> routines[k].routine, start |-> routine_op(routines[k].start),
                        stop |-> routine_op(routines[k].stop),
                        results |-> routine_op(routines[k].results)]],
       did_data_length |-> data_offset(dids, Len(dids) + 1)]

config_load(doc) == IF Acceptable(doc) THEN build_config(doc) ELSE None

-----------------------------------------------------------------------------
(* Byte order.                                                             *)

(* Mutant: the first byte is the most significant.                         *)
decode_le_big(data) ==
  LET from[k \in 0 .. Len(data)] == IF k = 0 THEN 0 ELSE data[k] + ByteBase * from[k - 1]
  IN  from[Len(data)]

decode_le(data) ==
  LET from[k \in 1 .. Len(data) + 1] ==
        IF k > Len(data) THEN 0 ELSE data[k] + ByteBase * from[k + 1]
  IN  from[1]

(* The weight of byte k: a shift by so many bytes.                         *)
Radix[k \in 0 .. LengthMax] == IF k = 0 THEN 1 ELSE ByteBase * Radix[k - 1]

Encodable(value, length) ==
  LET limit == Radix[length]
  IN  CASE value.kind \in {"bool", "uint"} -> value.v < limit
        [] value.kind = "int" -> -(limit \div 2) <= value.v /\ value.v < limit \div 2
        [] OTHER -> FALSE

(* Two's complement for a negative value.                                  *)
encode_value_le(value, length) ==
  [k \in 1 .. length |-> ((value.v % Radix[length]) \div Radix[k - 1]) % ByteBase]

-----------------------------------------------------------------------------
(* The tables of a configuration.                                          *)

IndexOf(entries, matches(_)) ==
  LET found == {k \in DOMAIN entries : matches(entries[k])}
  IN  IF found = {} THEN 0 ELSE CHOOSE k \in found : \A j \in found : k <= j

find_did(c, id) == LET same(e) == e.did = id IN IndexOf(c.dids, same)
find_routine(c, id) == LET same(e) == e.routine = id IN IndexOf(c.routines, same)

SlotOf(data, entry) == SubSeq(data, entry.data_offset + 1, entry.data_offset + entry.length)

(* memcpy of bytes into the slot of an entry.                              *)
Stored(data, entry, bytes) ==
  [p \in DOMAIN data |->
     IF p \in entry.data_offset + 1 .. entry.data_offset + entry.length
     THEN bytes[p - entry.data_offset] ELSE data[p]]

Zeros(length) == [k \in 1 .. length |-> 0]
Default(entry) == IF entry.default = None THEN Zeros(entry.length) ELSE entry.default

(* Zeroed, then the defaults in table order.                               *)
Seeded(c) ==
  LET after[k \in 0 .. Len(c.dids)] ==
        IF k = 0 THEN Zeros(c.did_data_length)
        ELSE IF c.dids[k].default = None THEN after[k - 1]
             ELSE Stored(after[k - 1], c.dids[k], c.dids[k].default)
  IN  after[Len(c.dids)]

-----------------------------------------------------------------------------
RDBI == 34     \* 0x22
WDBI == 46     \* 0x2E
ROUTINE_CONTROL == 49
POSITIVE_OFFSET == 64
NEGATIVE == 127
SERVICE_NOT_SUPPORTED == 17
SUB_FUNCTION_NOT_SUPPORTED == 18
INCORRECT_MESSAGE_LENGTH == 19
CONDITIONS_NOT_CORRECT == 34
REQUEST_OUT_OF_RANGE == 49
GENERAL_PROGRAMMING_FAILURE == 114

Nrcs == {SERVICE_NOT_SUPPORTED, SUB_FUNCTION_NOT_SUPPORTED, INCORRECT_MESSAGE_LENGTH,
         CONDITIONS_NOT_CORRECT, REQUEST_OUT_OF_RANGE, GENERAL_PROGRAMMING_FAILURE}
Services == {RDBI, WDBI, ROUTINE_CONTROL}

NoCounts == [requests |-> 0, denials |-> 0, service |-> [s \in Services |-> 0],
             nrc |-> [n \in Nrcs |-> 0]]

NoReply(status) == [status |-> status, response |-> <<>>]

Resolvable(c) ==
  \A k \in DOMAIN c.dids : c.dids[k].signal # None => c.dids[k].signal \in DOMAIN Namespace

(* config_load and server_init, which fails closed on an unknown signal.   *)
ServerInit ==
  /\ \E doc \in Configurations : config = config_load(doc)
  /\ initialized = (config # None /\ Resolvable(config))
  /\ did_data = IF initialized THEN Seeded(config) ELSE <<>>
  /\ did_signal_ids =
       IF ~initialized THEN <<>>
       ELSE [k \in DOMAIN config.dids |->
               IF config.dids[k].signal = None THEN None ELSE Namespace[config.dids[k].signal]]
  /\ attached \in BOOLEAN /\ governed \in BOOLEAN
  /\ signal_store = <<>>
  /\ counters = NoCounts
  /\ reply = NoReply("none")
  /\ steps = 0
  /\ current = IF ~initialized THEN <<>>
               ELSE [k \in DOMAIN config.dids |-> Default(config.dids[k])]

-----------------------------------------------------------------------------
(* Services.  Each yields the reply and the state after it.                *)

Answered(status, response, data, store) ==
  [status |-> status, response |-> response, data |-> data, store |-> store, denied |-> FALSE]
AnsweredOnly(status, response) == Answered(status, response, did_data, signal_store)

negative(sid, nrc, capacity) ==
  IF capacity < 3 THEN AnsweredOnly("CAPACITY", <<>>) ELSE AnsweredOnly("NEGATIVE", <<NEGATIVE, sid, nrc>>)

Identifier(req, k) == req[k] * ByteBase + req[k + 1]

read_data_by_identifier(req, capacity) ==
  LET index == IF Len(req) = 3 THEN find_did(config, Identifier(req, 2)) ELSE 0
      entry == config.dids[index]
      value == IF attached /\ entry.signal # None THEN Get(signal_store, did_signal_ids[index]) ELSE Unset
  IN  CASE Len(req) # 3 -> negative(RDBI, INCORRECT_MESSAGE_LENGTH, capacity)
        [] Len(req) = 3 /\ index = 0 -> negative(RDBI, REQUEST_OUT_OF_RANGE, capacity)
        [] index > 0 /\ capacity < entry.length + 3 -> AnsweredOnly("CAPACITY", <<>>)
        [] index > 0 /\ capacity >= entry.length + 3 ->
             IF IsSet(value) /\ ~Encodable(value, entry.length)
             THEN negative(RDBI, CONDITIONS_NOT_CORRECT, capacity)
             ELSE AnsweredOnly("OK", <<RDBI + POSITIVE_OFFSET, req[2], req[3]>>
                                  \o IF IsSet(value) THEN encode_value_le(value, entry.length)
                                     ELSE SlotOf(did_data, entry))

(* The decision of the governor, which is code outside this repository.    *)
governor_approves(decision) == governed /\ decision

Denied(result) == [result EXCEPT !.denied = TRUE]

(* Mutant: the bytes are stored whether or not the signal was mirrored.    *)
mirror_and_store_always(index, data) ==
  LET entry == config.dids[index]
      mirrored == attached /\ entry.signal # None
      ok == mirrored => HasSlot(signal_store, did_signal_ids[index], StoreCapacity)
  IN  [ok |-> ok,
       store |-> IF mirrored /\ ok THEN Set(signal_store, did_signal_ids[index], UIntV(decode_le(data)))
                 ELSE signal_store,
       data |-> Stored(did_data, entry, data)]

(* The signal is mirrored first; without a slot for it nothing is written. *)
mirror_and_store(index, data) ==
  LET entry == config.dids[index]
      mirrored == attached /\ entry.signal # None
      ok == mirrored => HasSlot(signal_store, did_signal_ids[index], StoreCapacity)
  IN  [ok |-> ok,
       store |-> IF mirrored /\ ok THEN Set(signal_store, did_signal_ids[index], UIntV(decode_le(data)))
                 ELSE signal_store,
       data |-> IF ok THEN Stored(did_data, entry, data) ELSE did_data]

write_data_by_identifier(req, capacity, decision) ==
  LET index == IF Len(req) >= 3 THEN find_did(config, Identifier(req, 2)) ELSE 0
      expected == config.dids[index].length + 3
      effect == mirror_and_store(index, SubSeq(req, 4, Len(req)))
  IN  CASE Len(req) < 3 -> negative(WDBI, INCORRECT_MESSAGE_LENGTH, capacity)
        [] Len(req) >= 3 /\ index = 0 -> negative(WDBI, REQUEST_OUT_OF_RANGE, capacity)
        [] index > 0 /\ Len(req) # expected ->
             negative(WDBI, INCORRECT_MESSAGE_LENGTH, capacity)
        [] index > 0 /\ Len(req) = expected ->
             CASE capacity < 3 -> AnsweredOnly("CAPACITY", <<>>)
               [] capacity >= 3 /\ ~governor_approves(decision) ->
                    Denied(negative(WDBI, CONDITIONS_NOT_CORRECT, capacity))
               [] capacity >= 3 /\ governor_approves(decision) ->
                    IF effect.ok
                    THEN Answered("OK", <<WDBI + POSITIVE_OFFSET, req[2], req[3]>>,
                                effect.data, effect.store)
                    ELSE Answered("NEGATIVE", <<NEGATIVE, WDBI, GENERAL_PROGRAMMING_FAILURE>>,
                                effect.data, effect.store)

(* Sub-functions 1, 2 and 3 of a routine.                                  *)
Operation(entry, subfunction) == <<entry.start, entry.stop, entry.results>>[subfunction]

routine_control(req, capacity, decision) ==
  LET whole == Len(req) = 4
      known == whole /\ req[2] \in 1 .. 3
      index == IF known THEN find_routine(config, Identifier(req, 3)) ELSE 0
      op == Operation(config.routines[index], req[2])
  IN  CASE ~whole -> negative(ROUTINE_CONTROL, INCORRECT_MESSAGE_LENGTH, capacity)
        [] whole /\ ~known -> negative(ROUTINE_CONTROL, SUB_FUNCTION_NOT_SUPPORTED, capacity)
        [] known /\ index = 0 -> negative(ROUTINE_CONTROL, REQUEST_OUT_OF_RANGE, capacity)
        [] index > 0 ->
             CASE ~op.declared \/ ~op.allowed ->
                    negative(ROUTINE_CONTROL, SUB_FUNCTION_NOT_SUPPORTED, capacity)
               [] op.declared /\ op.allowed /\ capacity < Len(op.response) + 4 ->
                    AnsweredOnly("CAPACITY", <<>>)
               [] op.declared /\ op.allowed /\ capacity >= Len(op.response) + 4 ->
                    IF governor_approves(decision)
                    THEN AnsweredOnly("OK", <<ROUTINE_CONTROL + POSITIVE_OFFSET, req[2], req[3],
                                           req[4]>> \o op.response)
                    ELSE Denied(negative(ROUTINE_CONTROL, CONDITIONS_NOT_CORRECT, capacity))

service(req, capacity, decision) ==
  CASE req = <<>> -> negative(0, SERVICE_NOT_SUPPORTED, capacity)
    [] req # <<>> /\ req[1] = RDBI -> read_data_by_identifier(req, capacity)
    [] req # <<>> /\ req[1] = WDBI -> write_data_by_identifier(req, capacity, decision)
    [] req # <<>> /\ req[1] = ROUTINE_CONTROL -> routine_control(req, capacity, decision)
    [] OTHER -> negative(req[1], SERVICE_NOT_SUPPORTED, capacity)

Bump(f, k) == [f EXCEPT ![k] = @ + 1]

counted(req, result) ==
  [requests |-> counters.requests + 1,
   denials |-> counters.denials + IF result.denied THEN 1 ELSE 0,
   service |-> IF result.status = "OK" THEN Bump(counters.service, req[1]) ELSE counters.service,
   nrc |-> IF result.status = "NEGATIVE" THEN Bump(counters.nrc, result.response[3]) ELSE counters.nrc]

-----------------------------------------------------------------------------
Aliases(index) == {k \in DOMAIN did_signal_ids : did_signal_ids[k] = did_signal_ids[index]}
Mapped(id) == {k \in DOMAIN did_signal_ids : did_signal_ids[k] = id}

(* An approved write fixes what its DID reads as, until another DID of the *)
(* same signal or another writer changes the signal.                       *)
AfterWrite(index, data) ==
  [k \in DOMAIN current |->
     CASE k = index -> data
       [] k # index /\ attached /\ did_signal_ids[index] # None /\ k \in Aliases(index) -> None
       [] OTHER -> current[k]]

process ==
  /\ initialized
  /\ steps < MaxSteps
  /\ steps' = steps + 1
  /\ \E req \in ClientRequests, capacity \in Capacities, decision \in BOOLEAN :
       LET result == service(req, capacity, decision)
       IN  /\ reply' = [status |-> result.status, response |-> result.response]
           /\ did_data' = result.data
           /\ signal_store' = result.store
           /\ counters' = counted(req, result)
           /\ current' = IF result.status = "OK" /\ req[1] = WDBI
                         THEN AfterWrite(find_did(config, Identifier(req, 2)),
                                         SubSeq(req, 4, Len(req)))
                         ELSE current
  /\ UNCHANGED <<config, did_signal_ids, initialized, attached, governed>>

(* Recipes, state machines and decoded frames write the same store.        *)
other_writer ==
  /\ initialized /\ attached
  /\ steps < MaxSteps
  /\ steps' = steps + 1
  /\ \E w \in Writes :
       /\ HasSlot(signal_store, w[1], StoreCapacity)
       /\ signal_store' = Set(signal_store, w[1], w[2])
       /\ current' = [k \in DOMAIN current |-> IF k \in Mapped(w[1]) THEN None ELSE current[k]]
  /\ UNCHANGED <<config, did_data, did_signal_ids, initialized, attached, governed, counters, reply>>

ServerNext == process \/ other_writer

-----------------------------------------------------------------------------
(* A DID reads as the last approved write to it, its default before that,  *)
(* whatever happens to the DIDs next to it in the shared buffer and to     *)
(* signals it does not map (data_offset, decode_le, encode_value_le).      *)
ReadYourWrites ==
  \A k \in DOMAIN current :
    current[k] # None =>
      LET id == config.dids[k].did
          req == <<RDBI, id \div ByteBase, id % ByteBase>>
      IN  read_data_by_identifier(req, LengthMax + 3).response =
            <<RDBI + POSITIVE_OFFSET, req[2], req[3]>> \o current[k]

(* A request that is not answered positively changes neither the DID data  *)
(* nor the signals: no step of a write happens before the one that may     *)
(* still fail (write_data_by_identifier).                                  *)
NoPartialEffect ==
  [][counters'.requests > counters.requests /\ reply'.status # "OK"
       => UNCHANGED <<did_data, signal_store>>]_server_vars

=============================================================================
