------------------------------- MODULE Codec --------------------------------
(***************************************************************************)
(* core/codec: a codec map document is checked and built (loader.c), maps  *)
(* are registered under their names (namespace.c), and signals are put     *)
(* into and read from CAN frames (encoder.c, decoder.c, codec_bits.h).     *)
(*                                                                         *)
(* A document is the tree its text stands for: a function of the keys that *)
(* are there.  A byte has ByteBits bits and a word WordBits, 8 and 64 in   *)
(* the code; physical values are in units of 1 / RealUnit and are doubles: *)
(* DoubleMax, 2^53, is the largest number up to which all of them are.     *)
(***************************************************************************)
EXTENDS FsmValues, Sequences, FiniteSets

Lists == INSTANCE SequencesExt

CONSTANTS
  ByteBits, WordBits, DoubleMax,
  ClassicBytes,        \* longest classic payload
  FdLengths,           \* payload lengths only CAN FD has
  Documents,           \* the documents that may be loaded together
  Shapes,              \* more documents, of one signal each
  FdTarget,            \* the platform supports CAN FD
  NamespaceCapacity,
  Inputs               \* values handed to the encoder

(* The powers of two of a word.                                            *)
pow2[n \in 0..WordBits] == IF n = 0 THEN 1 ELSE 2 * pow2[n - 1]

(* The lists of a document, and the numbers and flags of a signal.         *)
Listing(x) == Len(x) \in Nat /\ DOMAIN x = 1..Len(x)
SignalTyped(d) ==
  /\ \A key \in {"scale", "offset", "min", "max"} \cap DOMAIN d : d[key] \in Int
  /\ "strict" \in DOMAIN d => d.strict \in BOOLEAN

ASSUME CodecAssumption ==
  /\ ByteBits \in Nat \ {0} /\ WordBits \in Nat \ {0} /\ ClassicBytes \in Nat \ {0}
  /\ FdLengths \subseteq Nat /\ IsFiniteSet(FdLengths) /\ \A n \in FdLengths : n > ClassicBytes
  /\ DoubleMax \in {pow2[k] : k \in 0..WordBits}
  /\ \A root \in Documents \cup Shapes :
       "codec_map" \in DOMAIN root /\ "messages" \in DOMAIN root.codec_map =>
         /\ Listing(root.codec_map.messages)
         /\ \A k \in DOMAIN root.codec_map.messages :
              "signals" \in DOMAIN root.codec_map.messages[k] =>
                /\ Listing(root.codec_map.messages[k].signals)
                /\ \A n \in DOMAIN root.codec_map.messages[k].signals : SignalTyped(root.codec_map.messages[k].signals[n])

VARIABLES
  slots,     \* the registered maps, in order
  frame,     \* [length, bits] of the frame under construction
  carried,   \* history: [signal name -> value] the encoder has put in and accepted
  handed     \* history: [name -> id] of what resolve has answered

codec_vars == <<slots, frame, carried, handed>>

mask(bit_length) == pow2[bit_length] - 1

frame_length_ok(length) == length \in 1..ClassicBytes \cup FdLengths

Distance(a, b) == IF a < b THEN b - a ELSE a - b

-----------------------------------------------------------------------------
(* Arithmetic of doubles.                                                  *)
(* Quotient of naturals to the nearest, ties to even.                      *)
HalfEven(n, d) ==
  LET k == n \div d
      rest == n % d
  IN  IF 2 * rest > d \/ (2 * rest = d /\ k % 2 = 1) THEN k + 1 ELSE k

(* The double nearest to n / d: a multiple of the least power of two with  *)
(* which DoubleMax reaches it.                                             *)
DoubleRatio(n, d) ==
  LET unit[k \in 0..2 * WordBits] ==
        IF k = 0 THEN 1
        ELSE LET v == unit[k - 1] IN IF n <= DoubleMax * d * v THEN v ELSE 2 * v
      u == unit[2 * WordBits]
  IN  u * HalfEven(n, d * u)

Double(v) ==
  IF Distance(v, 0) <= DoubleMax THEN v
  ELSE IF v < 0 THEN - DoubleRatio(- v, 1) ELSE DoubleRatio(v, 1)

(* Quotient of integers, to the nearest, ties away from zero: the quotient *)
(* is a double, and so is its sum with a half.  Here they are in units of  *)
(* 1 / (2 * DoubleMax).                                                    *)
codec_round_half_away(a, b) ==
  LET q == DoubleRatio(Distance(a, 0) * 2 * DoubleMax, Distance(b, 0))
      raw == DoubleRatio(q + DoubleMax, 1) \div (2 * DoubleMax)
  IN  IF (a < 0) # (b < 0) THEN - raw ELSE raw

(* Real values handed to the encoder are doubles.                          *)
ASSUME InputsAssumption == \A x \in Inputs : x.v \in Int /\ (x.kind = "real" => Double(x.v) = x.v)

-----------------------------------------------------------------------------
(* Bits.                                                                   *)
be_idx(p) == (p \div ByteBits) * ByteBits + (ByteBits - 1 - (p % ByteBits))
SawBit(start_bit, k) == be_idx(be_idx(start_bit) + k)

(* Bit i of a number, and the number of which w has the bits.              *)
Bit(raw, i) == (raw \div pow2[i]) % 2
Word(w, count) ==
  LET low[n \in 0..count] == IF n = 0 THEN 0 ELSE low[n - 1] + w[n - 1] * pow2[n - 1]
  IN  low[count]

codec_bits_load(bits, first_bit, count) ==
  Word([i \in 0..count - 1 |-> bits[first_bit + i]], count)

(* Mutant: one bit too many is written.                                    *)
codec_bits_store_long(bits, first_bit, count, raw) ==
  [p \in DOMAIN bits |-> IF p \in first_bit..first_bit + count THEN Bit(raw, p - first_bit) ELSE bits[p]]

codec_bits_store(bits, first_bit, count, raw) ==
  [p \in DOMAIN bits |-> IF p \in first_bit..first_bit + count - 1 THEN Bit(raw, p - first_bit) ELSE bits[p]]

(* Motorola order: from the most significant bit down, byte after byte.    *)
codec_bits_load_saw(bits, start_bit, count) ==
  Word([i \in 0..count - 1 |-> bits[SawBit(start_bit, count - 1 - i)]], count)

codec_bits_store_saw(bits, start_bit, count, raw) ==
  LET Element(p) == be_idx(p) - be_idx(start_bit)
  IN  [p \in DOMAIN bits |-> IF Element(p) \in 0..count - 1 THEN Bit(raw, count - 1 - Element(p)) ELSE bits[p]]

codec_bits_saw_fits(length, start_bit, count) ==
  \A k \in 0..count - 1 : SawBit(start_bit, k) < length * ByteBits

sign_extend(raw, bit_length) ==
  IF raw < pow2[bit_length - 1] THEN raw ELSE raw - pow2[bit_length]

(* The signal fits into a frame of so many bytes.                          *)
Fits(s, length) ==
  IF s.layout = "sawtooth" THEN codec_bits_saw_fits(length, s.start_bit, s.bit_length)
  ELSE s.last_bit < length * ByteBits

-----------------------------------------------------------------------------
(* Loading a document.                                                     *)
Field(d, key, default) == IF key \in DOMAIN d THEN d[key] ELSE default

SIGNAL_KEYS == {"name", "start_bit", "bit_length", "type", "endianness", "layout", "bit_layout", "scale",
                "offset", "unit", "values", "min", "max", "strict"}
MESSAGE_KEYS == {"id", "name", "dlc", "period_ms", "description", "signals"}
TOP_KEYS == {"schema_version", "codec_map"}
MAP_KEYS == {"name", "version", "description", "can_fd", "messages"}

check_unknown_keys(d, keys) == DOMAIN d \subseteq keys

Layout(d) == Field(d, "layout", Field(d, "bit_layout", "contiguous"))

parse_signal_fields(d, max_payload_bits) ==
  /\ check_unknown_keys(d, SIGNAL_KEYS)
  /\ {"name", "start_bit", "bit_length", "type", "endianness"} \subseteq DOMAIN d
  /\ d.start_bit \in 0..max_payload_bits - 1
  /\ d.bit_length \in 1..WordBits
  /\ d.type \in {"uint", "int", "boolean", "enum"}
  /\ d.endianness \in {"little", "big"}

parse_signal_layout(d) ==
  /\ ~({"layout", "bit_layout"} \subseteq DOMAIN d)
  /\ Layout(d) \in {"contiguous", "sawtooth"}
  /\ Layout(d) = "sawtooth" => d.endianness = "big"

parse_signal_scaling(d) ==
  d.type \in {"uint", "int"} => Field(d, "scale", RealUnit) # 0

parse_signal_values(d) ==
  d.bit_length < WordBits => \A raw \in DOMAIN Field(d, "values", <<>>) : raw < pow2[d.bit_length]

parse_signal_rules(d) ==
  /\ {"min", "max"} \subseteq DOMAIN d => d.min <= d.max
  /\ d.type = "boolean" => d.bit_length = 1
  /\ d.type = "enum" => "values" \in DOMAIN d

(* Mutant: the last bit of a sawtooth signal is counted as a length.       *)
parse_signal_bits_long(d, max_payload_bits) ==
  CASE Layout(d) = "sawtooth" -> be_idx(d.start_bit) + d.bit_length - 1 <= max_payload_bits
    [] Layout(d) # "sawtooth" /\ d.endianness = "little" -> d.start_bit + d.bit_length <= max_payload_bits
    [] OTHER -> d.start_bit >= d.bit_length - 1

(* All bits are in the payload.  The dlc of the message does not count,    *)
(* and neither do the bits of other signals.                               *)
parse_signal_bits(d, max_payload_bits) ==
  CASE Layout(d) = "sawtooth" -> be_idx(d.start_bit) + d.bit_length <= max_payload_bits
    [] Layout(d) # "sawtooth" /\ d.endianness = "little" -> d.start_bit + d.bit_length <= max_payload_bits
    [] OTHER -> d.start_bit >= d.bit_length - 1

parse_signal(d, max_payload_bits) ==
  /\ parse_signal_fields(d, max_payload_bits)
  /\ parse_signal_layout(d)
  /\ parse_signal_scaling(d)
  /\ parse_signal_values(d)
  /\ parse_signal_rules(d)
  /\ parse_signal_bits(d, max_payload_bits)

MaxBytes(can_fd) == IF can_fd THEN Lists!Max(FdLengths \cup {ClassicBytes}) ELSE ClassicBytes

parse_message(d, can_fd) ==
  /\ check_unknown_keys(d, MESSAGE_KEYS)
  /\ {"id", "name", "dlc", "signals"} \subseteq DOMAIN d
  /\ d.dlc \in 0..ClassicBytes \/ (can_fd /\ d.dlc \in FdLengths)
  /\ d.signals # <<>>
  /\ \A k \in DOMAIN d.signals : parse_signal(d.signals[k], MaxBytes(can_fd) * ByteBits)

(* The signals of a map or a document, in order.                           *)
SignalsOf(m) == Lists!FlattenSeq([k \in DOMAIN m.messages |-> m.messages[k].signals])
SameAs(s, key) == {e \in (DOMAIN s) \X (DOMAIN s) : e[1] < e[2] /\ s[e[1]][key] = s[e[2]][key]}

validate_map(d) ==
  /\ check_unknown_keys(d, MAP_KEYS)
  /\ {"name", "version", "messages"} \subseteq DOMAIN d
  /\ d.messages # <<>>
  /\ \A k \in DOMAIN d.messages : parse_message(d.messages[k], Field(d, "can_fd", FALSE))
  /\ SameAs(d.messages, "id") = {}
  /\ SameAs(SignalsOf(d), "name") = {}

(* The bits a signal occupies, lowest and highest.                         *)
build_signal(d) ==
  LET saw == {SawBit(d.start_bit, k) : k \in 0..d.bit_length - 1}
      range == CASE Layout(d) = "sawtooth" -> <<Lists!Min(saw), Lists!Max(saw)>>
                 [] Layout(d) # "sawtooth" /\ d.endianness = "little" -> <<d.start_bit, d.start_bit + d.bit_length - 1>>
                 [] OTHER -> <<d.start_bit - (d.bit_length - 1), d.start_bit>>
  IN  [name |-> d.name, start_bit |-> d.start_bit, bit_length |-> d.bit_length, type |-> d.type,
       layout |-> Layout(d), scale |-> Field(d, "scale", RealUnit), offset |-> Field(d, "offset", 0),
       values |-> Field(d, "values", <<>>), strict |-> Field(d, "strict", TRUE),
       has_min |-> "min" \in DOMAIN d, min |-> Field(d, "min", 0),
       has_max |-> "max" \in DOMAIN d, max |-> Field(d, "max", 0),
       first_bit |-> range[1], last_bit |-> range[2]]

build_map(d) ==
  [name |-> d.name, can_fd |-> Field(d, "can_fd", FALSE),
   messages |-> [k \in DOMAIN d.messages |->
     [id |-> d.messages[k].id, dlc |-> d.messages[k].dlc,
      signals |-> [n \in DOMAIN d.messages[k].signals |-> build_signal(d.messages[k].signals[n])]]]]

validate_root(root) ==
  /\ check_unknown_keys(root, TOP_KEYS)
  /\ TOP_KEYS \subseteq DOMAIN root
  /\ root.schema_version \in {"0.2.0", "0.3.0"}

map_load_checked(root) ==
  /\ validate_root(root)
  /\ validate_map(root.codec_map)
  /\ Field(root.codec_map, "can_fd", FALSE) => FdTarget

-----------------------------------------------------------------------------
(* Namespace.                                                              *)
namespace_register(m) ==
  /\ \A k \in DOMAIN slots : slots[k].name # m.name
  /\ SameAs(SignalsOf(m), "name") = {}
  /\ Len(slots) < NamespaceCapacity

signal_count(m) == Len(SignalsOf(m))

(* Mutant: the maps before are not counted.                                *)
id_of_local(k, n) == n

(* The id of signal n of map k: every signal of the maps before counts.    *)
id_of(k, n) ==
  LET before[j \in 0..Len(slots)] == IF j = 0 THEN 0 ELSE before[j - 1] + signal_count(slots[j])
  IN  before[k - 1] + n

(* <<map, signal>>, or <<>> for an unknown id.                             *)
signal_at(id) ==
  LET all == Lists!FlattenSeq([k \in DOMAIN slots |-> [n \in DOMAIN SignalsOf(slots[k]) |->
                                                   <<slots[k].name, SignalsOf(slots[k])[n].name>>]])
  IN  IF id \in DOMAIN all THEN all[id] ELSE <<>>

(* <<map, signal>> is a canonical name, <<signal>> a short one; 0 where    *)
(* the name is not found or, for a short one, found more than once.        *)
Matches(name) ==
  UNION {{<<k, n>> : n \in {n \in DOMAIN SignalsOf(slots[k]) : SignalsOf(slots[k])[n].name = name[Len(name)]}} :
           k \in {k \in DOMAIN slots : Len(name) = 2 => slots[k].name = name[1]}}

namespace_resolve(name) ==
  IF Cardinality(Matches(name)) # 1 THEN 0
  ELSE LET at == CHOOSE at \in Matches(name) : TRUE IN id_of(at[1], at[2])

-----------------------------------------------------------------------------
(* Encoding: [status, raw].                                                *)
Encoded(status, raw) == [status |-> status, raw |-> raw]
Refusal(status) == Encoded(status, 0)
Accepted(e) == e.status \in {"OK", "CLAMPED"}

apply_limits(s, physical) ==
  LET low == IF s.has_min /\ physical < s.min THEN s.min ELSE physical
      clamped == IF s.has_max /\ low > s.max THEN s.max ELSE low
  IN  CASE clamped = physical -> [status |-> "OK", physical |-> physical]
        [] clamped # physical /\ s.strict -> [status |-> "RANGE", physical |-> physical]
        [] clamped # physical /\ ~s.strict -> [status |-> "CLAMPED", physical |-> clamped]

physical_to_raw(s, physical) == codec_round_half_away(Double(physical - s.offset), s.scale)

Scaled(s) == s.scale # RealUnit \/ s.offset # 0

encode_boolean(x) ==
  IF x.kind \notin {"bool", "int", "uint"} THEN Refusal("ARGUMENT")
  ELSE IF x.v \notin {0, 1} THEN Refusal("RANGE") ELSE Encoded("OK", x.v)

encode_enum(s, x) ==
  IF x.kind \notin {"int", "uint"} THEN Refusal("ARGUMENT")
  ELSE IF x.v \notin 0..mask(s.bit_length) THEN Refusal("RANGE") ELSE Encoded("OK", x.v)

(* The largest value of a signal, as the double it is compared with.       *)
AtMost(s, high) == IF s.bit_length < WordBits THEN Double(high) ELSE high

(* A limit between the largest value and the next is above the range of a  *)
(* narrow unsigned signal.                                                 *)
TooHigh(s, physical, high) ==
  IF s.type = "uint" /\ s.bit_length < WordBits THEN physical > AtMost(s, high) * RealUnit
  ELSE Truncated(physical) > high

(* The exact path of an integer into an unscaled signal of range low..high *)
(* and the path through the physical value.                                *)
Unscaled(s, v, low, high) ==
  LET limited == apply_limits(s, Double(v * RealUnit))
  IN  CASE limited.status = "RANGE" -> Refusal("RANGE")
        [] limited.status = "CLAMPED" ->
             IF limited.physical < low * RealUnit \/ TooHigh(s, limited.physical, high) THEN Refusal("RANGE")
             ELSE Encoded("CLAMPED", Truncated(limited.physical))
        [] limited.status = "OK" -> IF v \in low..high THEN Encoded("OK", v) ELSE Refusal("RANGE")

Physical(s, physical, low, high) ==
  LET limited == apply_limits(s, physical)
      raw == physical_to_raw(s, limited.physical)
  IN  IF limited.status = "RANGE" \/ raw \notin low..AtMost(s, high) THEN Refusal("RANGE")
      ELSE Encoded(limited.status, raw)

Number(s, x, kind, low, high) ==
  CASE x.kind = kind /\ ~Scaled(s) -> Unscaled(s, x.v, low, high)
    [] x.kind = kind /\ Scaled(s) -> Physical(s, Double(x.v * RealUnit), low, high)
    [] x.kind = "real" /\ Scaled(s) -> Physical(s, x.v, low, high)
    [] OTHER -> Refusal("ARGUMENT")

(* Only the low bits of a raw value are stored.                            *)
encode_uint(s, x) ==
  LET e == Number(s, x, "uint", 0, mask(s.bit_length))
  IN  Encoded(e.status, e.raw % pow2[s.bit_length])

encode_int(s, x) ==
  LET half == pow2[s.bit_length - 1]
      e == Number(s, x, "int", - half, half - 1)
  IN  Encoded(e.status, e.raw % pow2[s.bit_length])

Encode(s, x) ==
  CASE s.type = "boolean" -> encode_boolean(x)
    [] s.type = "enum" -> encode_enum(s, x)
    [] s.type = "uint" -> encode_uint(s, x)
    [] s.type = "int" -> encode_int(s, x)

put_raw(s, bits, raw) ==
  IF s.layout = "sawtooth" THEN codec_bits_store_saw(bits, s.start_bit, s.bit_length, raw)
  ELSE codec_bits_store(bits, s.first_bit, s.bit_length, raw)

-----------------------------------------------------------------------------
(* Decoding.                                                               *)
load(s, bits) ==
  IF s.layout = "sawtooth" THEN codec_bits_load_saw(bits, s.start_bit, s.bit_length)
  ELSE codec_bits_load(bits, s.first_bit, s.bit_length)

decode_raw(s, raw) ==
  LET n == IF s.type = "int" THEN sign_extend(raw, s.bit_length) ELSE raw
  IN  CASE s.type \in {"uint", "int"} /\ Scaled(s) -> RealV(Double(Double(Double(n) * s.scale) + s.offset))
        [] s.type = "uint" /\ ~Scaled(s) -> UIntV(n)
        [] s.type = "int" /\ ~Scaled(s) -> IntV(n)
        [] s.type = "boolean" -> BoolV(n = 1)
        [] s.type = "enum" -> IntV(sign_extend(n, WordBits))

decode_signal(s, f) ==
  IF frame_length_ok(f.length) /\ Fits(s, f.length) THEN decode_raw(s, load(s, f.bits)) ELSE Unset

(* All signals of the message with this id, or none: <<>> where a signal   *)
(* does not fit or the id is unknown.                                      *)
find_message(m, id) == {k \in DOMAIN m.messages : m.messages[k].id = id}

decode_frame(m, id, f) ==
  IF ~frame_length_ok(f.length) \/ find_message(m, id) = {} THEN <<>>
  ELSE LET signals == m.messages[Lists!Min(find_message(m, id))].signals
       IN  IF \E k \in DOMAIN signals : ~Fits(signals[k], f.length) THEN <<>>
           ELSE [k \in DOMAIN signals |-> decode_raw(signals[k], load(signals[k], f.bits))]

-----------------------------------------------------------------------------
(* The machine.                                                            *)
Empty(length) == [length |-> length, bits |-> [p \in 0..length * ByteBits - 1 |-> 0]]

CodecInit ==
  /\ slots = <<>>
  /\ frame = Empty(1)
  /\ carried = <<>> /\ handed = <<>>

load_map(documents) ==
  /\ \E d \in documents :
       /\ map_load_checked(d) /\ namespace_register(build_map(d.codec_map))
       /\ slots' = Append(slots, build_map(d.codec_map))
  /\ UNCHANGED <<frame, carried, handed>>

(* A caller resolves a name and keeps the id.                              *)
resolve_name_once ==
  /\ \E k \in DOMAIN slots : \E n \in DOMAIN SignalsOf(slots[k]), long \in BOOLEAN :
       LET signal == SignalsOf(slots[k])[n].name
           name == IF long THEN <<slots[k].name, signal>> ELSE <<signal>>
       IN
       /\ name \notin DOMAIN handed
       /\ namespace_resolve(name) # 0
       /\ handed' = [x \in DOMAIN handed \cup {name} |->
                       IF x = name THEN <<namespace_resolve(name), signal_at(namespace_resolve(name))>> ELSE handed[x]]
  /\ UNCHANGED <<slots, frame, carried>>

new_frame ==
  /\ \E length \in 1..ClassicBytes \cup FdLengths : frame' = Empty(length) /\ frame' # frame
  /\ carried' = <<>>
  /\ UNCHANGED <<slots, handed>>

(* The bits a signal is declared to have.                                  *)
Bits(s) ==
  IF s.layout = "sawtooth" THEN {SawBit(s.start_bit, k) : k \in 0..s.bit_length - 1} ELSE s.first_bit..s.last_bit

encode_signal ==
  /\ slots # <<>>
  /\ LET signals == SignalsOf(slots[1])
     IN  \E n \in DOMAIN signals, x \in Inputs :
           LET s == signals[n]
               e == Encode(s, x)
               others == {o \in DOMAIN carried : \A j \in DOMAIN signals :
                            signals[j].name = o => Bits(signals[j]) \cap Bits(s) = {}}
           IN  /\ Fits(s, frame.length)
               /\ Accepted(e)
               /\ frame' = [frame EXCEPT !.bits = put_raw(s, @, e.raw)]
               /\ carried' = [o \in others \cup {s.name} |-> IF o = s.name THEN <<e.status, x>> ELSE carried[o]]
  /\ UNCHANGED <<slots, handed>>

(* Names and frames have nothing in common but the maps, so that each is   *)
(* looked at by itself: several maps and their names, one map and its      *)
(* frames.                                                                 *)
NamespaceNext == load_map(Documents) \/ resolve_name_once
FrameNext == (slots = <<>> /\ load_map(Documents \cup Shapes)) \/ new_frame \/ encode_signal

-----------------------------------------------------------------------------
(* The physical value asked for, before and after the limits.              *)
Given(x) == IF x.kind = "real" THEN x.v ELSE x.v * RealUnit
Asked(s, x) == apply_limits(s, Given(x)).physical

(* Neither the value nor the way to its raw value and back leaves the      *)
(* numbers the arithmetic is exact on.                                     *)
WithinPrecision(s, x) ==
  /\ Distance(Given(x), 0) <= DoubleMax
  /\ Distance(Asked(s, x), 0) + Distance(s.scale, 0) <= DoubleMax
  /\ 2 * Distance(Asked(s, x), s.offset) + Distance(s.scale, 0) <= DoubleMax

(* What a signal was set to can be read back after any other signals have  *)
(* been set around it: exactly where it is not scaled and not clamped, and *)
(* within half a step, or cut to an integer, where it is scaled or clamped *)
(* and the doubles it passes through are exact                             *)
(* (cancestry_codec_encode_signal, cancestry_codec_decode_frame).  Only    *)
(* signals that share bits disturb one another; an enum as wide as the     *)
(* word is read back as signed.                                            *)
FrameKeepsSignals ==
  slots # <<>> =>
    \A k \in DOMAIN slots[1].messages : LET m == slots[1].messages[k] IN
      \A n \in DOMAIN m.signals :
        m.signals[n].name \in DOMAIN carried =>
          LET s == m.signals[n]
              x == carried[s.name][2]
              y == decode_signal(s, frame)
              all == decode_frame(slots[1], m.id, frame)
          IN  /\ IsSet(y) /\ (all # <<>> => all[n] = y)
              /\ CASE Scaled(s) /\ s.type \in {"uint", "int"} ->
                          WithinPrecision(s, x) => 2 * Distance(y.v, Asked(s, x)) <= Distance(s.scale, 0)
                   [] ~Scaled(s) /\ carried[s.name][1] = "CLAMPED" ->
                          WithinPrecision(s, x) => Distance(y.v * RealUnit, Asked(s, x)) < RealUnit
                   [] s.type = "enum" -> y.v = sign_extend(x.v, WordBits)
                   [] OTHER -> y.v = x.v

(* An id names the same signal for ever, whatever maps are registered      *)
(* later, and a name never comes to mean another signal: at most it        *)
(* becomes ambiguous (cancestry_codec_namespace_resolve, _resolve_id).     *)
NamesKeepTheirMeaning ==
  \A name \in DOMAIN handed :
    /\ signal_at(handed[name][1]) = handed[name][2]
    /\ handed[name][2][2] = name[Len(name)]
    /\ namespace_resolve(name) \in {handed[name][1]} \cup (IF Len(name) = 1 THEN {0} ELSE {})

(* A signal the loader has accepted fits into the longest frame of its map *)
(* with every bit, whatever its layout (codec_parse_signal).               *)
LoadedSignalsFit ==
  \A k \in DOMAIN slots : \A n \in DOMAIN SignalsOf(slots[k]) :
    LET s == SignalsOf(slots[k])[n]
    IN  /\ Fits(s, MaxBytes(slots[k].can_fd))
        /\ Bits(s) \subseteq 0..MaxBytes(slots[k].can_fd) * ByteBits - 1
        /\ Cardinality(Bits(s)) = s.bit_length
=============================================================================
