------------------------------- MODULE MCData --------------------------------
(***************************************************************************)
(* The parts of the system without a schedule of their own, checked in one *)
(* run: names and frames of the codec, the two expression evaluators, the  *)
(* loaders, the battery governor, the UDS server.  They share no state;    *)
(* `part` says which one a behaviour is about, and the others stay in one  *)
(* initial state.                                                          *)
(***************************************************************************)
EXTENDS Codec, Expressions, Governor, Loaders, Uds

LOCAL INSTANCE TLC

VARIABLE part

(* Codec: bytes of three bits, words of seven, frames of two bytes or      *)
(* three; doubles of five bits, so that the largest words are not exact.   *)
Sig(n, b, l, t, e) == [name |-> n, start_bit |-> b, bit_length |-> l, type |-> t, endianness |-> e]
Msg(i, s) == [id |-> i, name |-> "m", dlc |-> 2, signals |-> s]
Doc(n, messages, fd) ==
  [schema_version |-> "0.2.0",
   codec_map |-> [name |-> n, version |-> "1.0.0", messages |-> messages, can_fd |-> fd]]
MCDocuments ==
  {Doc("A", <<Msg(1, <<Sig("u", 0, 3, "uint", "little"),
                       Sig("w", 3, 3, "int", "little") @@ [scale |-> 2, offset |-> -4]>>),
              Msg(2, <<Sig("saw", 2, 3, "uint", "big") @@ [layout |-> "sawtooth", min |-> 5, max |-> 22, strict |-> FALSE],
                       Sig("b", 2, 1, "boolean", "little")>>)>>, FALSE),
   Doc("B", <<Msg(1, <<Sig("u", 1, 4, "int", "little"),
                       Sig("e", 6, 2, "enum", "big") @@ [values |-> (1 :> "on")]>>)>>, TRUE),
   Doc("C", <<Msg(7, <<Sig("v", 2, 4, "enum", "little") @@ [values |-> (9 :> "x")],
                       Sig("z", 0, 2, "uint", "little") @@ [scale |-> -8]>>)>>, FALSE),
   Doc("D", <<Msg(7, <<Sig("s", 0, 7, "uint", "big") @@ [bit_layout |-> "sawtooth", scale |-> 4, offset |-> 4]>>)>>, TRUE),
   Doc("E", <<Msg(7, <<Sig("s", 0, 6, "uint", "little") @@ [scale |-> 4, offset |-> 4]>>),
              Msg(8, <<Sig("i", 0, 6, "int", "little") @@ [max |-> 40, strict |-> FALSE]>>)>>, FALSE)}
MCShapes ==
  {Doc("S", <<Msg(1, <<Sig("s", b, l, t, e) @@ [layout |-> y]>>)>>, fd) :
     b \in 0..8, l \in {1, 4, 6, 7}, t \in {"uint", "int", "boolean"}, e \in {"little", "big"},
     y \in {"contiguous", "sawtooth"}, fd \in BOOLEAN}
MCInputs == {IntV(-3), IntV(1), UIntV(0), UIntV(1), UIntV(6), UIntV(13), UIntV(65), RealV(-5), RealV(7), BoolV(TRUE)}

(* Expressions: texts of one kind of token each, as long as they can be.   *)
Ops(kinds) == {Op(k) : k \in kinds}
MCAlphabets ==
  <<[length |-> 6, tokens |-> Ops({"+", "-", "*", "/", "(", ")"}) \cup {Num(IntV(2)), Num(IntV(7)), Num(RealV(6))}],
    [length |-> 5, tokens |-> Ops({"not", "and", "or", "==", "<=", "<", "=", "-"})
                                \cup {Bool(TRUE), Num(IntV(5)), Num(IntV(4))}],
    [length |-> 9, tokens |-> Ops({"(", ")", "/", "%", ","})
                                \cup {Name("bare", "round"), Name("bare", "min"), Name("sig", "a")}],
    [length |-> 8, tokens |-> Ops({"(", ")", ","}) \cup {Name("bare", "clamp"), Name("bare", "abs"), Name("sig", "n"),
                                                         Num(IntV(7)), Num(RealV(2))}],
    [length |-> 4, tokens |-> Ops({"*", ">=", "-", "%"})
       \cup {Name("sig", "a"), Name("sig", "x"), Name("sig", "u"), Name("sig", "n"), Name("var", "v"), Name("var", "w")}
       \cup {Name("evt", f) : f \in {"timestamp_us", "can_id", "other", "value", "signal_value"}}
       \cup {Num(IntV(1)), Spelled(RealV(1), RealV(2)), Spelled(RealV(2), Unset), Spelled(Unset, IntV(3)), Bool(FALSE)}]>>
MCContext ==
  [validate |-> FALSE, signals |-> [a |-> RealV(6), n |-> IntV(-8), x |-> IntV(1), s |-> UIntV(9)], denied |-> {"x"},
   variables |-> [v |-> IntV(2)],
   event |-> [type |-> "SIGNAL_CHANGED", about |-> "n", fields |-> [timestamp_us |-> UIntV(3), value |-> IntV(-7)]]]

(* Governor: three-bit numbers.                                            *)
MCRequests ==
  [power : 0..7, torque : {0, 5, 7}, voltage : 0..7, current : 0..7, efficiency : 0..4,
   state : {"NORMAL", "THERMAL_DERATING", "FAULT", "UNKNOWN"}]

MCIdle ==
  [power |-> 0, torque |-> 0, voltage |-> 0, current |-> 0, efficiency |-> 0, state |-> "NORMAL"]

(* Loaders: two packages in which every construct appears, edited once,    *)
(* and two small ones, edited twice.                                       *)
Act(kind, body) == Mapping(kind :> Mapping(body))
MCActions ==
  <<Act("send_message", [interface |-> Text("can"), message |-> Text("m"),
                         signals |-> Mapping([s |-> IntText(2), t |-> Expr(<<Name("sig", "a"), Op("+"), Num(IntV(1))>>)])]),
    Act("set_signal", [signal |-> Text("s"), value |-> Real(2)]),
    Act("set_variable", [variable |-> Text("v"), value |-> Flag(TRUE)]),
    Act("start_timer", [timer |-> Text("t"), duration_ms |-> IntText(3), repeat |-> Flag(FALSE)]),
    Act("stop_timer", [timer |-> Text("t")]),
    Act("reset_timer", [timer |-> Text("t")]),
    Act("log", [level |-> Text("info"), message |-> Text("hello")]),
    Act("raise_fault", [code |-> Text("c"), severity |-> Text("error")])>>
MCState(name, more) == Mapping([name |-> Text(name)] @@ more)
MCPackage(machine, instance) ==
  [schema_version |-> Text("0.3.0"), state_machines |-> List(<<Mapping(machine)>>), instances |-> List(<<Mapping(instance)>>)]
MCMachine ==
  [name |-> Text("m"), initial |-> Text("off"),
   states |-> List(<<MCState("off", [transitions |-> List(<<Mapping([event |-> Text("can_rx"), target |-> Text("off")])>>)])>>)]
MCInstance == [id |-> Text("i"), machine |-> Text("m"), enabled |-> Flag(TRUE)]
MCFullMachine ==
  [description |-> Text("d"),
   variables |-> List(<<Mapping([name |-> Text("v"), type |-> Text("boolean"), default |-> Flag(TRUE)])>>),
   timers |-> List(<<Mapping([name |-> Text("t"), duration_ms |-> IntText(4), repeat |-> Flag(TRUE), auto_start |-> Flag(FALSE)])>>),
   states |-> List(<<
     MCState("off", [entry |-> List(MCActions), exit |-> List(<<Act("transition", [target |-> Text("on")])>>),
                     transitions |-> List(<<
                       Mapping([event |-> Text("signal_changed"), signal |-> Text("s"), target |-> Text("on"),
                                guard |-> Expr(<<Name("sig", "a"), Op(">"), Num(IntV(2))>>)]),
                       Mapping([event |-> Text("timer_expired"), timer |-> Text("t"), target |-> Text("on"),
                                interface |-> Text("can"), message |-> Text("m"),
                                actions |-> List(<<Act("stop_timer", [timer |-> Text("t")])>>)])>>)]),
     MCState("on", <<>>)>>)] @@ MCMachine
MCFullInstance ==
  MCInstance @@
  [bindings |-> Mapping([can |-> Text("vcan0")]), variables |-> Mapping([v |-> Expr(<<Bool(FALSE)>>)]),
   subscriptions |-> Mapping([signals |-> List(<<Text("s")>>), timers |-> Flag(TRUE), faults |-> Flag(TRUE),
                              power_mode |-> Flag(FALSE),
                              can_rx |-> List(<<Mapping([interface |-> Text("can"), id |-> IntText(4), message |-> Text("m")])>>)])]
MCRecipe(name, event, actions) ==
  [name |-> Text(name), trigger |-> Mapping([event |-> Text(event)]), actions |-> List(actions)]
MCRecipes(recipes) == [schema_version |-> Text("0.2.0"), recipes |-> List(recipes)]
MCFullRecipe ==
  [description |-> Text("d"), enabled |-> Flag(TRUE), on_error |-> Text("continue"),
   trigger |-> Mapping([event |-> Text("timeout"), timeout_ms |-> IntText(5), interface |-> Text("can"), message |-> Text("m"),
                        signal |-> Text("s"), timer |-> Text("t")]),
   conditions |-> List(<<Mapping([expression |-> Expr(<<Name("sig", "a")>>)])>>)] @@ MCRecipe("r", "can_rx", MCActions)
MCDrafts ==
  {[language |-> "machines", document |-> Mapping(MCPackage(MCFullMachine, MCFullInstance)), edits |-> 1],
   [language |-> "machines", document |-> Mapping(MCPackage(MCMachine, MCInstance)), edits |-> 2],
   [language |-> "recipes", edits |-> 1,
    document |-> Mapping(MCRecipes(<<Mapping(MCFullRecipe), Mapping(MCRecipe("q", "fault_raised", <<Head(MCActions)>>))>>))],
   [language |-> "recipes", edits |-> 2,
    document |-> Mapping(MCRecipes(<<Mapping(MCRecipe("r", "can_rx", <<MCActions[2]>>))>>))]}
MCFirst ==
  {Null, Text("off"), Text("timer_expired"), Text("signal_changed"), EmptyText, IntText(0), Quoted(Flag(TRUE)),
   Mapping([k |-> IntText(1)]), List(<<Text("on"), Text("on")>>)}
MCTexts ==
  {Text("warning"), Text("critical"), Long(3), Long(4), Long(5), Long(6), LongExpr(4), LongExpr(5),
   IntText(1), IntText(5), IntText(6), IntText(8), IntText(-3), IntText(-8), Huge, Quoted(IntText(2)), Quoted(Text("0.2.0")),
   Expr(<<Op("("), Num(IntV(1))>>), Mapping("long" :> IntText(1))}
MCSpellings ==
  {Plus(2), Padded(3), Based("hex", 3), Based("hex", -8), Based("hex", 31), Based("octal", 3), Based("octal", 31),
   Based("binary", 3), Point(2), Open(1), Digits(40), Tiny}
MCReplacements == <<MCFirst \cup MCTexts \cup MCSpellings, MCFirst>>
(* As on a 32-bit target.                                                  *)
MCSizeOf == [set |-> 12, recipe |-> 44, condition |-> 4, action |-> 28, value |-> 20]
MCKeys == {"other", "type", "timer", "timeout_ms", "transition", "long"}

(* UDS server: base-4 bytes; three signals of which two fit the store.     *)
(* The first configuration has an unmapped DID between two DIDs of one     *)
(* signal with different lengths; the others are refused by the loader or  *)
(* by server_init, but for the one with routines only.                     *)
Did(id, length, signal, default) ==
  [did |-> id, length |-> length, read_only |-> None, signal |-> signal, default |-> default,
   unknown |-> {}]
RoutineOp(allowed, response) == [allowed |-> allowed, response |-> response, unknown |-> {}]
Routine == [routine |-> 6, start |-> RoutineOp(None, <<2>>), stop |-> RoutineOp(FALSE, None), results |-> None,
            unknown |-> {}]
Tables(dids, routines) ==
  [version |-> "0.1.0", dids |-> dids, routines |-> routines, unknown |-> {}]

Pair == <<Did(1, 2, "x", None), Did(2, 1, None, <<3>>), Did(5, 1, "x", <<1>>), Did(7, 1, "y", None)>>

MCConfigurations ==
  {Tables(Pair, <<Routine>>), Tables(None, <<Routine>>), Tables(None, None),
   Tables(Pair \o <<Did(2, 1, None, None)>>, None),        \* a duplicate
   Tables(<<Did(1, 3, "x", None)>>, None),                 \* too long for a signal
   Tables(<<Did(1, 2, None, <<1>>)>>, None),               \* default of another length
   Tables(<<Did(1, 1, "unknown", None)>>, None),           \* unresolved signal
   Tables(<<Did(16, 1, None, None)>>, None),
   Tables(None, <<[Routine EXCEPT !.start = Malformed]>>)}

MCClientRequests ==
  {<<>>, <<16>>, <<RDBI, 0>>, <<RDBI, 0, 1>>, <<RDBI, 1, 1>>, <<RDBI, 3, 3>>,
   <<WDBI, 0>>, <<WDBI, 0, 1, 1, 2>>, <<WDBI, 0, 1, 1>>, <<WDBI, 0, 2, 1>>, <<WDBI, 1, 1, 2>>,
   <<WDBI, 1, 3, 1>>, <<WDBI, 3, 3, 0>>,
   <<ROUTINE_CONTROL, 1, 1>>, <<ROUTINE_CONTROL, 1, 1, 2>>, <<ROUTINE_CONTROL, 2, 1, 2>>,
   <<ROUTINE_CONTROL, 0, 1, 2>>, <<ROUTINE_CONTROL, 1, 3, 3>>}

MCNamespace == [x |-> 1, y |-> 2]
MCWrites == {<<1, IntV(-1)>>, <<1, RealV(2)>>, <<1, UIntV(9)>>, <<3, BoolV(TRUE)>>}

ServerOff ==
  /\ config = None /\ did_data = <<>> /\ did_signal_ids = <<>>
  /\ initialized = FALSE /\ attached = FALSE /\ governed = FALSE
  /\ signal_store = <<>> /\ counters = NoCounts /\ reply = NoReply("none")
  /\ steps = 0 /\ current = <<>>

MCInit ==
  /\ part \in {"names", "frames", "expressions", "governor", "loaders", "uds"}
  /\ CodecInit
  /\ IF part = "expressions" THEN ExpressionInit ELSE alphabet = 1 /\ text = <<>>
  /\ IF part = "governor" THEN GovernorInit ELSE request = MCIdle /\ answer = Pending
  /\ IF part = "loaders" THEN LoadersInit ELSE language = "none" /\ document = Null /\ edits = 0
  /\ IF part = "uds" THEN ServerInit ELSE ServerOff

MCNext ==
  /\ \/ part = "names" /\ NamespaceNext /\ UNCHANGED <<expression_vars, governor_vars, loader_vars, server_vars>>
     \/ part = "frames" /\ FrameNext /\ UNCHANGED <<expression_vars, governor_vars, loader_vars, server_vars>>
     \/ part = "expressions" /\ Written /\ UNCHANGED <<codec_vars, governor_vars, loader_vars, server_vars>>
     \/ part = "governor" /\ gate /\ UNCHANGED <<codec_vars, expression_vars, loader_vars, server_vars>>
     \/ part = "loaders" /\ edit /\ UNCHANGED <<codec_vars, expression_vars, governor_vars, server_vars>>
     \/ part = "uds" /\ ServerNext /\ UNCHANGED <<codec_vars, expression_vars, governor_vars, loader_vars>>
  /\ UNCHANGED part

MCSpec ==
  MCInit /\ [][MCNext]_<<codec_vars, expression_vars, governor_vars, loader_vars, server_vars, part>>
=============================================================================
