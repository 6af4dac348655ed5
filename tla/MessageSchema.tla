--------------------------- MODULE MessageSchema ---------------------------
(***************************************************************************)
(* The TCP message schema and its users: message_schema.py lists the       *)
(* fields of every request and response and packs and unpacks them,        *)
(* tcp_transport.py builds the requests and parses what comes back.        *)
(*                                                                         *)
(* A payload is a sequence of bytes.  A field is its type; a value is the  *)
(* sequence of its bytes, and those of a string are its characters.  What  *)
(* a parser returns is the sequence of the values it hands on, or Nothing. *)
(***************************************************************************)
EXTENDS Integers, Sequences, SequencesExt

CONSTANTS Seeds,      \* the seeds that values are made from
          MaxExtra    \* bound on the bytes added to a payload

ASSUME SchemaAssumption == Seeds \subseteq 0..9 /\ MaxExtra \in 1..9

Times(n, type) == [k \in 1..n |-> type]

-----------------------------------------------------------------------------
(* message_schema.py: the messages.                                        *)

TypeSizes == [uint8 |-> 1, int32 |-> 4, uint32 |-> 4, int64 |-> 8, uint64 |-> 8,
              float32 |-> 4, float64 |-> 8]
Strings == {"string_u32", "string_raw"}

SimulatorRequests ==
  [GetSimulatorStatus |-> << >>, GetSimulatorMode |-> << >>, SetSimulatorMode |-> <<"uint32">>,
   LoadMap |-> <<"string_u32">>, ShutdownSimulator |-> <<"uint8">>]
TimeRequests ==
  [GetSimulationTimeStatus |-> << >>, SetSimulationTimeMode |-> Times(5, "int32")]
StepRequests ==
  [FixedStep |-> <<"uint32", "uint8", "uint64", "uint64">>, SaveData |-> << >>]
ObjectRequests ==
  [CreateObject         |-> <<"int32">> \o Times(6, "float32") \o Times(2, "int32"),
   ManualControlById    |-> <<"string_u32">> \o Times(3, "float64"),
   TransformControlById |-> <<"string_u32">> \o Times(7, "float32") \o <<"float64">>,
   SetTrajectory        |-> <<"string_u32", "int32", "string_u32", "uint32">>,
   DeleteObject         |-> <<"string_raw">>,
   GetVehicleInfo       |-> <<"string_u32">>]
SuiteRequests ==
  [ActiveSuiteStatus |-> << >>, LoadSuite |-> <<"string_u32">>, ScenarioStatus |-> << >>,
   ScenarioControl |-> <<"uint32", "string_u32">>,
   LoadTrafficScenario |-> <<"string_u32">>, TrafficGenerate |-> Times(2, "int32")]
Requests == SimulatorRequests @@ TimeRequests @@ StepRequests @@ ObjectRequests @@ SuiteRequests

Result == Times(2, "uint32")   \* result_code, detail_code
ResultResponses ==
  [name \in {"SetSimulatorMode", "LoadMap", "ShutdownSimulator"} |-> Result]
ControlResponses ==
  [name \in {"ManualControlById", "TransformControlById", "SetTrajectory", "DeleteObject"} |-> Result]
StateResponses ==
  [GetSimulatorStatus |-> Result \o <<"uint32">>, GetSimulatorMode |-> Result \o <<"uint32">>]
TimeResponses ==
  [GetSimulationTimeStatus |->
     Result \o <<"uint32">> \o Times(4, "int32") \o <<"uint64", "int64", "int32">>,
   SetSimulationTimeMode |-> Result \o <<"uint32", "float32", "float32">>]
StepResponses == [FixedStep |-> Result, SaveData |-> Result]
ObjectResponses ==
  [CreateObject   |-> Result \o <<"string_u32">>,
   GetVehicleInfo |-> Result \o <<"int64", "int32", "string_u32">> \o Times(18, "float32")]
SuiteResponses ==
  [ActiveSuiteStatus |-> Result \o <<"string_u32", "string_u32", "uint32">>,
   LoadSuite |-> Result, ScenarioStatus |-> Result \o <<"uint32", "string_u32">>]
ControlledResponses ==
  [ScenarioControl |-> Result, LoadTrafficScenario |-> Result, TrafficGenerate |-> Result]
Responses == ResultResponses @@ ControlResponses @@ StateResponses @@ TimeResponses
             @@ StepResponses @@ ObjectResponses @@ SuiteResponses @@ ControlledResponses

\* repeat_fields; the last of the fields is the number of items.
Repeats == [request  |-> [SetTrajectory |-> Times(4, "float64")],
            response |-> [ActiveSuiteStatus |-> <<"string_u32">>]]

Schema == [request |-> Requests, response |-> Responses]
Repeated(d, msg) == msg \in DOMAIN Repeats[d]

-----------------------------------------------------------------------------
(* message_schema.py: the sizes.                                           *)

NoSize == -1
IsFixed(fields) == \A k \in DOMAIN fields : fields[k] \notin Strings
SumOf(fields, size(_)) == FoldLeft(LAMBDA sum, type : sum + size(type), 0, fields)

\* get_static_payload_size
StaticSize(fields) == IF IsFixed(fields) THEN SumOf(fields, LAMBDA t : TypeSizes[t]) ELSE NoSize

\* get_min_payload_size
MinSize(fields) ==
  SumOf(fields, LAMBDA t : CASE t = "string_u32" -> 4 [] t = "string_raw" -> 0 [] OTHER -> TypeSizes[t])

-----------------------------------------------------------------------------
(* message_schema.py: packing and unpacking, little-endian.                *)

Number(bytes) == bytes[1] + 256 * bytes[2] + 65536 * bytes[3] + 16777216 * bytes[4]

UInt32(n) == <<n % 256, n \div 256, 0, 0>>

PackValue(type, value) == IF type = "string_u32" THEN UInt32(Len(value)) \o value ELSE value
PackFields(fields, values) ==
  FlattenSeq([k \in DOMAIN fields |-> PackValue(fields[k], values[k])])

\* pack_message_payload
Pack(d, msg, values, items) ==
  PackFields(Schema[d][msg], values)
  \o FlattenSeq([n \in DOMAIN items |-> PackFields(Repeats[d][msg], items[n])])

\* What was read: the values, the offset of the next byte, and whether every
\* value was there.
Read(values, offset, ok) == [values |-> values, offset |-> offset, ok |-> ok]
Take(read, payload, size) ==
  LET end == read.offset + size IN
  IF end > Len(payload) THEN Read(read.values, read.offset, FALSE)
  ELSE Read(Append(read.values, SubSeq(payload, read.offset + 1, end)), end, TRUE)

\* unpack_value, which raises where ok is FALSE here.
UnpackValue(type, read, payload) ==
  IF ~read.ok THEN read
  ELSE CASE type = "string_u32" ->
              LET at == read.offset + 4 IN
              IF at > Len(payload) THEN Read(read.values, read.offset, FALSE)
              ELSE Take([read EXCEPT !.offset = at], payload, Number(SubSeq(payload, at - 3, at)))
         [] type = "string_raw" -> Take(read, payload, Len(payload) - read.offset)
         [] OTHER -> Take(read, payload, TypeSizes[type])

UnpackFields(fields, start, payload) ==
  FoldLeft(LAMBDA read, type : UnpackValue(type, read, payload), start, fields)

\* unpack_repeated_fields, with the items' values one after the other.
UnpackRepeated(fields, count, start, payload) ==
  FoldLeft(LAMBDA read, n : UnpackFields(fields, read, payload), start, [n \in 1..count |-> n])

\* unpack_message_payload, the items after the fields that were read; a number
\* of items beyond what the payload can hold fails as the first item that is
\* missing does.
UnpackItems(d, msg, read, payload) ==
  IF ~read.ok \/ ~Repeated(d, msg) THEN read
  ELSE LET count == Number(Last(read.values)) IN
       IF count > Len(payload) THEN [read EXCEPT !.ok = FALSE]
       ELSE UnpackRepeated(Repeats[d][msg], count, read, payload)
Unpack(d, msg, payload) ==
  UnpackItems(d, msg, UnpackFields(Schema[d][msg], Read(<< >>, 0, TRUE), payload), payload)
=============================================================================
