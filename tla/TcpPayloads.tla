---------------------------- MODULE TcpPayloads ----------------------------
(***************************************************************************)
(* tcp_transport.py: the guards of the send_ functions and the parse_      *)
(* functions, on the messages of MessageSchema.  One request, response or  *)
(* notification is made, travels, and is read at the other end; a payload  *)
(* of another version of the simulator has bytes less or more than those   *)
(* of the schema.                                                          *)
(***************************************************************************)
EXTENDS MessageSchema

CONSTANTS Nothing,   \* None, what a parser returns of a payload it rejects
          MaxItems   \* bound on the repeated items
ASSUME PayloadAssumption == MaxItems \in 0..9

VARIABLES direction, msg,  \* the message: request, response, notification
          values, items,   \* what it is made of
          payload,         \* its bytes
          intact,          \* are these the bytes of this version?
          parsed,          \* what the reader makes of it
          told,            \* the callbacks the Receiver calls
          phase            \* "new", "refused", "sent", "read"

payloadVars == <<direction, msg, values, items, payload, intact, parsed, told, phase>>

NoName == <<NoSize>>
States == {UInt32(n) : n \in 1..4}             \* of a scenario
Lifecycle == {UInt32(n) : n \in 0..4}          \* SIMULATOR_STATE_MAP
Modes == {UInt32(n) : n \in 0..5}              \* SIMULATOR_MODE_MAP
TimeModes == {UInt32(n) : n \in 1..2}
OK == UInt32(0)

\* A value for the field at k, and the values of a message.
Some(type, k, seed) ==
  CASE type \in Strings -> [c \in 1..((k + seed) % 3) |-> 64 + c]
    [] type \in {"uint8", "uint32"} -> [b \in 1..TypeSizes[type] |-> IF b = 1 THEN (k + seed) % 6 ELSE 0]
    [] OTHER -> [b \in 1..TypeSizes[type] |-> (k + b * seed) % 7]
Values(fields, seed) == [k \in DOMAIN fields |-> Some(fields[k], k, seed)]

With(vals, ks, value) == [k \in DOMAIN vals |-> IF k \in ks THEN value ELSE vals[k]]

\* The last field of a message with repeated fields is the number of them.
Counted(d, m, vals, n) == IF Repeated(d, m) THEN With(vals, {Len(vals)}, UInt32(n)) ELSE vals
Items(d, m, n, seed) ==
  IF Repeated(d, m) THEN [i \in 1..n |-> Values(Repeats[d][m], seed + i)] ELSE << >>

-----------------------------------------------------------------------------
(* The requests.                                                           *)

\* What the send_ functions raise ValueError for.
Refused(m, args) ==
  \/ m = "SetSimulatorMode" /\ args[1] \notin Modes \ {UInt32(0)}
  \/ m = "ShutdownSimulator" /\ args[1] \notin {<<0>>, <<1>>}
  \/ m = "SetSimulationTimeMode" /\ args[1] \notin TimeModes
  \/ m = "FixedStep" /\ args[2] \notin {<<0>>, <<1>>, <<2>>}
  \/ m \in {"LoadMap", "GetVehicleInfo", "LoadTrafficScenario"} /\ args[1] = << >>

\* send_simulation_time_mode_command sends no rtf and no user_control unless
\* the mode is fixed.
Adjusted(m, args) ==
  IF m = "SetSimulationTimeMode" /\ args[1] # UInt32(2)
  THEN With(args, {4, 5}, UInt32(0)) ELSE args

\* The mode argument is one of the numbers a caller has.
Arguments(m, seed, n) ==
  LET args == Counted("request", m, Values(Requests[m], seed), n)
  IN IF m = "SetSimulationTimeMode" THEN With(args, {1}, UInt32(seed)) ELSE args

Request(m, seed, n) ==
  LET args == Arguments(m, seed, n) IN
  /\ phase = "new"
  /\ direction' = "request" /\ msg' = m
  /\ values' = Adjusted(m, args) /\ items' = Items("request", m, n, seed)
  /\ IF Refused(m, args) THEN phase' = "refused" /\ UNCHANGED payload
     ELSE /\ phase' = "sent" /\ payload' = Pack("request", m, values', items')
  /\ UNCHANGED <<intact, parsed, told>>

-----------------------------------------------------------------------------
(* The simulator's side.                                                   *)

\* Responses the documents give a shorter form: a failed GetVehicleInfo has the
\* result only, so may SetSimulationTimeMode, and an old ScenarioStatus no name.
ShortForm(m) == CASE m \in {"GetVehicleInfo", "SetSimulationTimeMode"} -> 2
                  [] m = "ScenarioStatus" -> 3
                  [] OTHER -> Len(Responses[m])
ResponseBytes(m, vals, its) ==
  IF Len(vals) < Len(Responses[m]) THEN PackFields(SubSeq(Responses[m], 1, Len(vals)), vals)
  ELSE Pack("response", m, vals, its)

Respond(m, ok, seed, n, short) ==
  LET all  == Counted("response", m, Values(Responses[m], seed), n)
      full == With(all, {1}, IF ok THEN OK ELSE UInt32(200))
      vals == IF short THEN SubSeq(full, 1, ShortForm(m)) ELSE full
  IN /\ phase = "new" /\ phase' = "sent"
     /\ m = "GetVehicleInfo" => (short <=> ~ok)
     /\ direction' = "response" /\ msg' = m
     /\ values' = vals /\ items' = Items("response", m, n, seed)
     /\ payload' = ResponseBytes(m, vals, items')
     /\ UNCHANGED <<intact, parsed, told>>

\* A notification: protobuf fields <<number, value>>, in any order, with others
\* among them; a value is a number, or the characters of a string.
Varint(n) == IF n < 128 THEN <<n>> ELSE <<128 + (n % 128), n \div 128>>
ProtoField(field) ==
  IF field[1] = 2 THEN <<8 * field[1] + 2>> \o Varint(Len(field[2])) \o field[2]
  ELSE <<8 * field[1]>> \o Varint(field[2])
Notify(m, fields) ==
  /\ phase = "new" /\ phase' = "sent" /\ direction' = "notification" /\ msg' = m
  /\ values' = fields /\ items' = << >>
  /\ payload' = FlattenSeq([k \in DOMAIN fields |-> ProtoField(fields[k])])
  /\ UNCHANGED <<intact, parsed, told>>

\* Another version of the simulator: bytes less, or more.
Shorter(n) ==
  /\ phase = "sent" /\ direction # "request" /\ intact /\ n < Len(payload)
  /\ payload' = SubSeq(payload, 1, n) /\ intact' = FALSE
  /\ UNCHANGED <<direction, msg, values, items, parsed, told, phase>>
Longer(n) ==
  /\ phase = "sent" /\ direction # "request" /\ intact
  /\ payload' = payload \o Times(n, 0) /\ intact' = FALSE
  /\ UNCHANGED <<direction, msg, values, items, parsed, told, phase>>

-----------------------------------------------------------------------------
(* The parse_ functions.                                                   *)

\* unpack_message_payload with the check that nothing is left over: what was
\* read, if it ends with the payload.
Exactly(read, p) == IF read.ok /\ read.offset = Len(p) THEN read.values ELSE Nothing

\* The simulator needs no more than the fields.
ReadValues(read) == IF read.ok THEN read.values ELSE Nothing

\* The parsers of a payload p that as a whole message is read, and whose
\* result and detail codes, if it has no more, are result.
ParseResult(p) == IF Len(p) # 8 THEN Nothing ELSE Exactly(Unpack("response", "FixedStep", p), p)

\* parse_get_simulator_status_payload, parse_get_simulator_mode_payload
ParseState(p, read, known) ==
  IF Len(p) # 12 \/ read = Nothing THEN Nothing
  ELSE IF read[1] = OK /\ read[3] \notin known THEN Nothing ELSE read

ParseTimeStatus(p, read) ==
  IF Len(p) # 48 \/ read = Nothing THEN Nothing
  ELSE IF read[3] \notin TimeModes THEN Nothing ELSE read

ParseTimeMode(p, read, result) ==
  IF Len(p) = 8 THEN result ELSE IF Len(p) # 20 THEN Nothing ELSE read

\* Mutant: what follows the object id is ignored.
ParseCreatePrefix(p, read) ==
  IF Len(p) < 12 THEN Nothing ELSE ReadValues(Unpack("response", "CreateObject", p))
ParseCreate(p, read) == IF Len(p) < 12 THEN Nothing ELSE read

Slice(p, first, size) == SubSeq(p, first + 1, first + size)
ParseVehicle(p) ==
  LET idSize == Number(Slice(p, 20, 4))
      floats == [k \in 1..18 |-> Slice(p, 24 + idSize + 4 * (k - 1), 4)]
  IN IF Len(p) < 8 THEN Nothing
     ELSE IF Slice(p, 0, 4) # OK THEN IF Len(p) = 8 THEN <<Slice(p, 0, 4), Slice(p, 4, 4)>> ELSE Nothing
     ELSE IF Len(p) < 97 \/ idSize <= 0 \/ Len(p) # 96 + idSize THEN Nothing
     ELSE <<Slice(p, 0, 4), Slice(p, 4, 4), Slice(p, 8, 8), Slice(p, 16, 4), Slice(p, 24, idSize)>> \o floats

ParseActiveSuite(p, read) ==
  IF Len(p) < 20 \/ read = Nothing THEN Nothing
  ELSE IF read[1] # OK THEN Nothing ELSE read

ParseScenario(p, read) ==
  IF Len(p) = 12
  THEN IF SubSeq(p, 9, 12) \notin States THEN Nothing
       ELSE <<SubSeq(p, 1, 4), SubSeq(p, 5, 8), SubSeq(p, 9, 12)>>
  ELSE IF read = Nothing THEN Nothing ELSE IF read[3] \notin States THEN Nothing ELSE read

\* The varint at an offset: the offset after it and its value; no offset if it
\* does not end within so many bytes.
VarintTo(p, at, end) ==
  IF end = NoSize THEN [end |-> NoSize, value |-> 0]
  ELSE [end |-> end, value |-> FoldRight(LAMBDA b, n : n * 128 + (b % 128), SubSeq(p, at + 1, end), 0)]
ReadVarint(p, at, most) ==
  LET ends == {k \in (at + 1)..Len(p) : k <= at + most /\ p[k] < 128}
  IN VarintTo(p, at, IF ends = {} THEN NoSize ELSE CHOOSE k \in ends : \A j \in ends : k <= j)

\* The loop of both parsers of notifications, from an offset to the end, for
\* the wire types it knows: the last state and the last name.
ReadField(p, at, num, end, wires, rest) ==
  LET field == p[at + 1] \div 8
      wire  == p[at + 1] % 8
  IN IF wire \notin wires \/ num.end = NoSize \/ end > Len(p)
     THEN [ok |-> FALSE, state |-> NoSize, name |-> << >>]
     ELSE [rest[end] EXCEPT
             !.state = IF @ = NoSize /\ wire = 0 /\ field = 1 THEN num.value ELSE @,
             !.name  = IF @ = NoName /\ wire = 2 /\ field = 2 THEN SubSeq(p, num.end + 1, end) ELSE @]
FieldEnd(p, at, num) == num.end + IF p[at + 1] % 8 = 2 THEN num.value ELSE 0
ReadFields(p, most, wires) ==
  LET nums == [at \in 0..Len(p) |-> ReadVarint(p, at + 1, most)]
      from[at \in 0..Len(p)] ==
        IF at = Len(p) THEN [ok |-> TRUE, state |-> NoSize, name |-> NoName]
        ELSE ReadField(p, at, nums[at], FieldEnd(p, at, nums[at]), wires, from)
  IN from[0]

StatusNote(p, read) ==
  IF p = << >> \/ ~read.ok \/ read.state \notin 0..4 THEN Nothing ELSE <<read.state>>
ParseStatusNote(p) == StatusNote(p, ReadFields(p, 10, {0}))
ScenarioNote(p, read) ==
  IF p = << >> \/ ~read.ok \/ read.state \notin 1..4 THEN Nothing
  ELSE <<read.state, IF read.name = NoName THEN << >> ELSE read.name>>
ParseScenarioNote(p) == ScenarioNote(p, ReadFields(p, 6, {0, 2}))

-----------------------------------------------------------------------------
(* tcp_thread.py: what the Receiver makes of a packet.                     *)

SimulatorParser(m, p, read, result) ==
  CASE m = "GetSimulatorStatus" -> ParseState(p, read, Lifecycle)
    [] m = "GetSimulatorMode" -> ParseState(p, read, Modes)
    [] OTHER -> result
TimeParser(m, p, read, result) ==
  IF m = "SetSimulationTimeMode" THEN ParseTimeMode(p, read, result) ELSE ParseTimeStatus(p, read)
ObjectParser(m, p, read, result) ==
  CASE m = "CreateObject" -> ParseCreate(p, read) [] m = "GetVehicleInfo" -> ParseVehicle(p)
    [] OTHER -> result
SuiteParser(m, p, read, result) ==
  CASE m = "ActiveSuiteStatus" -> ParseActiveSuite(p, read)
    [] m = "ScenarioStatus" -> ParseScenario(p, read)
    [] OTHER -> result
Response(m, p, read, result) ==
  CASE m \in DOMAIN SimulatorRequests -> SimulatorParser(m, p, read, result)
    [] m \in DOMAIN TimeRequests -> TimeParser(m, p, read, result)
    [] m \in DOMAIN ObjectRequests -> ObjectParser(m, p, read, result)
    [] m \in DOMAIN SuiteRequests -> SuiteParser(m, p, read, result)
    [] OTHER -> result
Notification(m, p) == IF m = "ScenarioStatus" THEN ParseScenarioNote(p) ELSE ParseStatusNote(p)

\* The callbacks of the panels that the packets of a message go to.
StateCallback == [ScenarioStatus |-> "on_scenario_status", GetSimulatorStatus |-> "on_simulator_status",
                  GetSimulatorMode |-> "on_simulator_mode"]
OtherCallback == [CreateObject |-> "on_create_object", GetVehicleInfo |-> "on_vehicle_info",
                  ActiveSuiteStatus |-> "update_scenario_list",
                  ScenarioControl |-> "on_scenario_control_response"]

\* A state is shown when it was notified or the request succeeded; the others
\* are told of every answer that could be read.
Calls(d, m, read) ==
  IF read = Nothing THEN {}
  ELSE {StateCallback[x] : x \in IF d = "notification" \/ read[1] = OK
                                 THEN {m} \cap DOMAIN StateCallback ELSE {}}
       \cup {OtherCallback[x] : x \in {m} \cap DOMAIN OtherCallback}

Parse ==
  /\ phase = "sent" /\ phase' = "read"
  /\ parsed' = CASE direction = "notification" -> Notification(msg, payload)
                 [] direction = "response" ->
                      Response(msg, payload, Exactly(Unpack("response", msg, payload), payload), ParseResult(payload))
                 [] OTHER -> ReadValues(Unpack("request", msg, payload))
  /\ told' = IF direction = "request" THEN {} ELSE Calls(direction, msg, parsed')
  /\ UNCHANGED <<direction, msg, values, items, payload, intact>>

PayloadInit ==
  /\ direction = "request" /\ msg = "SaveData" /\ values = << >> /\ items = << >>
  /\ payload = << >> /\ intact = TRUE /\ parsed = Nothing /\ told = {} /\ phase = "new"

\* Notifications: a state, a name, and a field of a number the parser skips.
Notes == {<<s>> : s \in {<<1, n>> : n \in {0, 1, 4, 5, 300}}}
         \cup {<<<<1, 2>>, <<2, <<65, 66>>>>>>, <<<<2, <<65, 66>>>>, <<1, 3>>>>,
               <<<<2, << >>>>, <<3, 300>>, <<1, 4>>>>, <<<<1, 2>>, <<3, 4>>>>, <<<<1, 1>>, <<3, 7>>, <<1, 2>>>>}

ItemCounts(d, m) == IF Repeated(d, m) THEN 0..MaxItems ELSE {0}
PayloadNext ==
  \/ \E m \in DOMAIN Requests, seed \in Seeds : \E n \in ItemCounts("request", m) : Request(m, seed, n)
  \/ \E m \in DOMAIN Responses, ok \in BOOLEAN, seed \in Seeds, short \in BOOLEAN :
       \E n \in ItemCounts("response", m) : Respond(m, ok, seed, n, short)
  \/ \E fields \in Notes : Notify("ScenarioStatus", fields)
  \/ \E fields \in {f \in Notes : \A k \in DOMAIN f : f[k][1] # 2} : Notify("GetSimulatorStatus", fields)
  \/ \E n \in 0..(Len(payload) - 1) : Shorter(n)
  \/ \E n \in 1..MaxExtra : Longer(n)
  \/ Parse

PayloadSpec == PayloadInit /\ [][PayloadNext]_payloadVars

-----------------------------------------------------------------------------
(* Properties.                                                             *)

Sent == values \o FlattenSeq(items)

\* A request is read at the other end as the values it was made of; every
\* message but those the senders refuse is sent.
RequestsArrive == direction = "request" /\ phase = "read" => parsed = Sent

\* The answers the console can use: a known state, mode or time mode, a suite
\* that was found, a vehicle with an id.
Usable ==
  /\ msg \in {"GetSimulatorStatus", "GetSimulatorMode"} /\ values[1] = OK =>
       values[3] \in (IF msg = "GetSimulatorStatus" THEN Lifecycle ELSE Modes)
  /\ msg = "GetSimulationTimeStatus" => values[3] \in TimeModes
  /\ msg = "ActiveSuiteStatus" => values[1] = OK
  /\ msg = "GetVehicleInfo" /\ values[1] = OK => values[5] # << >>
  /\ msg = "ScenarioStatus" => values[3] \in States

\* An answer that the console can use is handed on with every value as it was
\* sent, in its long and its short form, and any other is rejected.
AnswersRead ==
  direction = "response" /\ phase = "read" /\ intact =>
    parsed = IF Usable THEN Sent ELSE Nothing

\* Whatever a parser accepts is the whole payload: packing it gives the same
\* bytes, so that no answer of another version is read with bytes missing,
\* left over, or in another field.
AcceptedIsExact ==
  direction = "response" /\ phase = "read" /\ parsed # Nothing =>
    LET fields == Responses[msg]
        type(k) == IF k <= Len(fields) THEN fields[k] ELSE "string_u32"
    IN PackFields([k \in DOMAIN parsed |-> type(k)], parsed) = payload

\* The last state and the last name of a notification, whatever the order and
\* whatever else is in it; of a cut one, never a state that was not sent.
NotificationsRead ==
  direction = "notification" /\ phase = "read" =>
    LET last(f) == {k \in DOMAIN values : values[k][1] = f /\ \A j \in DOMAIN values :
                      j > k => values[j][1] # f}
        states == {values[k][2] : k \in last(1)}
    IN /\ parsed # Nothing /\ intact => parsed[1] \in states
       /\ parsed # Nothing /\ Len(parsed) = 2 =>
            \A k \in last(2) : parsed[2] \in {values[k][2], << >>}
       /\ intact => (parsed # Nothing <=>
            states \cap (IF msg = "ScenarioStatus" THEN 1..4 ELSE 0..4) # {})

\* A state reaches the panels only when the simulator notified it, or answered
\* with success, whatever the version.
ShownIsCurrent ==
  told \cap {StateCallback[m] : m \in DOMAIN StateCallback} # {} =>
    direction = "notification" \/ values[1] = OK

\* The sizes the schema and the documents give are those of the packed bytes.
SizesAgree ==
  direction # "notification" /\ phase = "sent" /\ intact /\ Len(values) = Len(Schema[direction][msg]) =>
    LET fields == Schema[direction][msg] IN
    /\ Len(payload) >= MinSize(fields)
    /\ StaticSize(fields) # NoSize => Len(payload) = StaticSize(fields)

\* What was sent is what is read, at both ends and in every version: the whole
\* of each answer, notification and request, of the size that is documented;
\* and what reaches the panels is the simulator's state.
PayloadsRead ==
  /\ RequestsArrive /\ AnswersRead /\ AcceptedIsExact /\ NotificationsRead /\ SizesAgree
  /\ ShownIsCurrent
=============================================================================
