------------------------------ MODULE Telemetry ------------------------------
(***************************************************************************)
(* Datagrams of the simulator that have one or no list of items: read with *)
(* a template (receivers/template_parser.py) by the monitor, the radar tab *)
(* and the ground truth receiver, and with formats of their own by the     *)
(* receivers of vehicles and collisions.  A datagram may claim any number  *)
(* of items and may be cut.  A value is where it is and how wide.          *)
(***************************************************************************)
EXTENDS Integers, Sequences, FiniteSets, FiniteSetsExt, SequencesExt

CONSTANTS
  Layouts,        \* name |-> fields, rows: sequences of fields; item: a word.  A field has
                  \* var, name, type, the words of its name, and the vector it is part of
  MaxRows,        \* bound on the items sent
  MaxDatagramsIn, \* bound on the datagrams
  MaxWheelCount   \* MAX_WHEEL_COUNT: 32

VARIABLES
  reader,         \* "monitor", "radar", "gt", "vehicle", "wheels" or "collision"
  layout,         \* what is sent to it
  claim,          \* the number of items each count field says
  sentRows, datagramSize, \* items sent, bytes that arrive
  readerAt,             \* "new", "recv", "parse", "shown" or "ended": the thread
  readerOn,        \* its flag
  output,         \* what was read of the last datagram, and is printed or shown
  latest, packetCount, invalidCount,  \* of the ground truth receiver
  received,
  afterStop       \* history: published since stop(), Never if it came before run()

telemetryVars == <<reader, layout, claim, sentRows, datagramSize, readerAt, readerOn, output,
                   latest, packetCount, invalidCount, received, afterStop>>
datagramVars == <<claim, sentRows, datagramSize>>
gtVars == <<latest, packetCount, invalidCount>>

Never == -1
TypeBytes(type) == CASE type \in {"INT64", "DOUBLE"} -> 8
                     [] type \in {"FLOAT", "INT32", "UINT32", "ENUM"} -> 4
                     [] type = "ID" -> 24          \* STRING of length 24
                     [] OTHER -> 0                 \* BOOL, BYTES: not in _TYPE_MAP
FieldBytes(fields) == [i \in DOMAIN fields |-> TypeBytes(fields[i].type)]
Total(sizes) == FoldLeft(LAMBDA a, b : a + b, 0, sizes)
\* The values of a struct format, one after the other.
ValuesOf(sizes, from) ==
  FoldLeft(LAMBDA read, n : Append(read, <<IF read = << >> THEN from ELSE read[Len(read)][1] + read[Len(read)][2], n>>),
           << >>, sizes)

BaseFields == Layouts[layout].fields
RowFields == Layouts[layout].rows
FieldsSize == Total(FieldBytes(BaseFields))
ItemSize == Total(FieldBytes(RowFields))
SentFields == ValuesOf(FieldBytes(BaseFields), 0)
SentRow(r) == ValuesOf(FieldBytes(RowFields), FieldsSize + (r - 1) * ItemSize)
CountFields(fields) == {i \in DOMAIN fields : "count" \in fields[i].words}
\* The integer at a place: only the counts matter.
NumberAt(v) == SumSet({claim[i] : i \in {j \in DOMAIN claim : SentFields[j] = v}})

NoOutput == [is |-> "none", base |-> << >>, rows |-> << >>, count |-> 0, short |-> FALSE]
Raised == [NoOutput EXCEPT !.is = "raised"]

-----------------------------------------------------------------------------
(* template_parser.py.                                                     *)

Known(fields) == \A i \in DOMAIN fields : TypeBytes(fields[i].type) > 0
\* The dictionary of a segment: a short name may hide one with the same name.
Lookup(fields, vals, key) ==
  LET named == {i \in DOMAIN fields : key \in {fields[i].var, fields[i].name}}
  IN vals[CHOOSE i \in named : \A j \in named : j <= i]

\* Mutant: the last count, whatever is repeated.
LastCount(vals, counts) ==
  IF counts = {} THEN 0 ELSE NumberAt(vals[CHOOSE i \in counts : \A j \in counts : j <= i])
\* _find_count: the first that has the word of what is repeated, else the last.
ChosenCount(counts, best) ==
  IF best # {} THEN CHOOSE i \in best : \A j \in best : i <= j
  ELSE CHOOSE i \in counts : \A j \in counts : j <= i
FindCount(vals, counts) ==
  IF counts = {} THEN 0
  ELSE NumberAt(vals[ChosenCount(counts, {i \in counts : Layouts[layout].item \in BaseFields[i].words})])
Least(a, b) == IF a < b THEN a ELSE b
Most(a, b) == IF a > b THEN a ELSE b

\* A type that is not known counts no bytes, but pads the format with one and
\* yields no value: the segment cannot be read.
WholeRows(size) == IF ItemSize = 0 THEN 0 ELSE (datagramSize - size) \div ItemSize
Segments(base, size, rows) ==
  IF datagramSize < size THEN NoOutput
  ELSE IF ~Known(BaseFields) \/ (rows > 0 /\ ~Known(RowFields)) THEN Raised
  ELSE [is |-> "read", base |-> base, count |-> 0, short |-> FALSE,
        rows |-> [r \in 1..rows |-> ValuesOf(FieldBytes(RowFields), size + (r - 1) * ItemSize)]]
FromTemplate(base, size) ==
  Segments(base, size, Least(Most(0, FindCount(base, CountFields(BaseFields))), WholeRows(size)))
Template == FromTemplate(ValuesOf(FieldBytes(BaseFields), 0), FieldsSize)

\* monitor_utils.make_groups: x, y, z and x, y, z, w that follow each other are
\* shown together.
Groups(fields) ==
  LET named(i, names) == /\ i + Len(names) - 1 <= Len(fields)
                         /\ \A k \in DOMAIN names : fields[i + k - 1].name = names[k]
      width(i) == IF named(i, <<"x", "y", "z", "w">>) THEN 4 ELSE IF named(i, <<"x", "y", "z">>) THEN 3 ELSE 1
      from[i \in 1..(Len(fields) + 1)] ==
        IF i > Len(fields) THEN {} ELSE {i..(i + width(i) - 1)} \cup from[i + width(i)]
  IN from[1]

\* gt_receiver.py: the row's dictionary, by variable name; radar_sensor_data.py: by short name.
ByName(vals, keys) == [i \in DOMAIN keys |-> Lookup(RowFields, vals, keys[i])]
CountName == CHOOSE i \in CountFields(BaseFields) : TRUE
CountIn(base) == NumberAt(Lookup(BaseFields, base, BaseFields[CountName].name))
Named(read, keys, count) ==
  IF read.is # "read" THEN read
  ELSE [read EXCEPT !.rows = [r \in DOMAIN @ |-> ByName(@[r], keys)], !.count = count]
Marked(read) == [read EXCEPT !.short = read.is = "read" /\ Len(read.rows) < Most(0, read.count)]
WithVars(read) == Named(read, [i \in DOMAIN RowFields |-> RowFields[i].var], CountIn(read.base))
WithNames(read) == Named(read, [i \in DOMAIN RowFields |-> RowFields[i].name], CountIn(read.base))
GroundTruth == Marked(WithVars(Template))
RadarView == WithNames(Template)

-----------------------------------------------------------------------------
(* The receivers with formats of their own.                                *)

Floats(n) == [i \in 1..n |-> 4]
VehicleFormat == <<8, 4, 24>> \o Floats(18)
\* vehicle_info_receiver.py.
VehicleSize == Total(VehicleFormat)
Vehicle == IF datagramSize < VehicleSize THEN NoOutput
           ELSE [NoOutput EXCEPT !.is = "read", !.base = ValuesOf(VehicleFormat, 0)]
\* vehicle_info_with_wheel_receiver.py: the count is given as it is claimed.
AddWheels(read, base, count) ==
  IF read.is = "none" \/ datagramSize < base + 4 THEN read
  ELSE [read EXCEPT !.count = count,
          !.rows = IF count \in 0..MaxWheelCount /\ datagramSize >= base + 4 + count * 12
                   THEN [w \in 1..count |-> ValuesOf(Floats(3), base + 4 + (w - 1) * 12)] ELSE << >>]
Wheels == AddWheels(Vehicle, VehicleSize, NumberAt(<<VehicleSize, 4>>))
CollisionBase == <<24, 4>>
CollisionRow == <<24, 4, 8, 4>> \o Floats(18)
\* collision_event_receiver.py.
Collisions(base, count, row) ==
  IF datagramSize < base THEN NoOutput
  ELSE [NoOutput EXCEPT !.base = ValuesOf(CollisionBase, 0), !.count = count,
          !.is = IF datagramSize < base + count * row THEN "error" ELSE "read",
          !.rows = IF datagramSize < base + count * row THEN << >>
                   ELSE [r \in 1..count |-> ValuesOf(CollisionRow, base + (r - 1) * row)]]
Collision == Collisions(Total(CollisionBase), NumberAt(<<24, 4>>), Total(CollisionRow))

Reading == CASE reader = "monitor" -> Template [] reader = "radar" -> RadarView
            [] reader = "gt" -> GroundTruth [] reader = "vehicle" -> Vehicle
            [] reader = "wheels" -> Wheels [] reader = "collision" -> Collision

-----------------------------------------------------------------------------
(* The threads.                                                            *)

TelemetryInit ==
  /\ \E pair \in ({"monitor"} \X {"wheels", "lights", "boxes", "image", "motion"})
                 \cup {<<"radar", "objects">>, <<"gt", "detected">>, <<"vehicle", "vehicle">>,
                       <<"wheels", "wheels">>, <<"wheels", "vehicle">>, <<"collision", "collision">>} :
       reader = pair[1] /\ layout = pair[2]
  /\ claim = << >> /\ sentRows = 0 /\ datagramSize = 0 /\ readerAt = "new" /\ readerOn = (reader # "gt")
  /\ output = NoOutput /\ latest = NoOutput /\ packetCount = 0 /\ invalidCount = 0
  /\ received = 0 /\ afterStop = 0

\* The flag is looked at between two datagrams.
Loop(on) == IF on THEN "recv" ELSE "ended"
\* run(): the ground truth receiver sets its flag here, the others when they are made.
RunReader ==
  /\ readerAt = "new" /\ readerOn' = (readerOn \/ reader = "gt") /\ readerAt' = Loop(readerOn')
  /\ UNCHANGED <<reader, layout, datagramVars, output, gtVars, received, afterStop>>
StopReader ==
  /\ readerOn' = FALSE /\ afterStop' = IF readerAt = "new" /\ reader = "gt" THEN Never ELSE afterStop
  /\ UNCHANGED <<reader, layout, datagramVars, readerAt, output, gtVars, received>>

\* Where a datagram may be cut: before, in and after each part of it.
CutPoints ==
  {n \in {k - d : k \in {0, FieldsSize, FieldsSize - Last(FieldBytes(BaseFields))}
                        \cup {FieldsSize + r * ItemSize : r \in 0..sentRows'}, d \in 0..1} : n >= 0}
Claims(i) == IF BaseFields[i].type = "UINT32" THEN 0..(MaxRows + 1) ELSE -1..(MaxRows + 1)
\* Bounded: only the ground truth receiver keeps anything for the next one.
ReceiveDatagram ==
  /\ readerAt = "recv" /\ received < (IF reader = "gt" THEN MaxDatagramsIn ELSE 1) /\ received' = received + 1
  /\ claim' \in {c \in [CountFields(BaseFields) -> -1..(MaxRows + 1)] : \A i \in DOMAIN c : c[i] \in Claims(i)}
  /\ sentRows' \in IF RowFields = << >> THEN {0} ELSE 0..MaxRows
  /\ datagramSize' \in CutPoints
  /\ readerAt' = "parse" /\ UNCHANGED <<reader, layout, readerOn, output, gtVars, afterStop>>
\* The timeout of the ground truth receiver, the closed socket of the others.
ReceiveEnds ==
  /\ readerAt = "recv" /\ ~readerOn /\ readerAt' = "ended"
  /\ UNCHANGED <<reader, layout, datagramVars, readerOn, output, gtVars, received, afterStop>>

\* What a parser raises ends the thread: nothing but OSError is caught.
ParseFails(read) ==
  /\ read.is = "raised" /\ output' = read /\ readerAt' = "ended"
  /\ UNCHANGED <<reader, layout, datagramVars, readerOn, gtVars, received, afterStop>>
ParseDatagram(read) ==
  /\ read.is # "raised" /\ output' = read
  /\ readerAt' = IF reader = "gt" /\ read.is = "read" THEN "shown" ELSE Loop(readerOn)
  /\ invalidCount' = IF reader = "gt" /\ read.is # "read" THEN invalidCount + 1 ELSE invalidCount
  /\ packetCount' = IF reader = "gt" /\ read.is = "read" THEN packetCount + 1 ELSE packetCount
  /\ UNCHANGED <<reader, layout, datagramVars, readerOn, latest, received, afterStop>>
\* Under its lock; what the callback raises is caught.
PublishLatest ==
  /\ readerAt = "shown" /\ readerAt' = Loop(readerOn) /\ latest' = output
  /\ afterStop' = IF readerOn \/ afterStop = Never THEN afterStop ELSE afterStop + 1
  /\ UNCHANGED <<reader, layout, datagramVars, readerOn, output, packetCount, invalidCount, received>>

TelemetryNext ==
  \/ RunReader \/ StopReader \/ ReceiveDatagram \/ ReceiveEnds
  \/ readerAt = "parse" /\ \E read \in {Reading} : ParseFails(read) \/ ParseDatagram(read)
  \/ PublishLatest
TelemetrySpec == TelemetryInit /\ [][TelemetryNext]_telemetryVars

-----------------------------------------------------------------------------
\* The items that arrived whole.
Arrived == Cardinality({r \in 1..sentRows : FieldsSize + r * ItemSize <= datagramSize})
\* What the count field of the repeated items says; 0 if there is none.
Claimed ==
  LET ofItem == {i \in CountFields(BaseFields) : Layouts[layout].item \in BaseFields[i].words}
  IN IF ofItem = {} THEN 0 ELSE claim[CHOOSE i \in ofItem : TRUE]
AllThere == Most(0, Claimed) <= Arrived

\* Every value that is read is one that was sent, of this field and this item,
\* by a template as well as by a format of the code: the two agree.  Of a cut
\* datagram the readers with a template give the items that are there, the
\* ground truth says so; the others give all the items or none, the wheels
\* with the number that was claimed, the collisions with an error.  Only a type
\* the templates do not know raises.  The ground truth counts every datagram,
\* and its latest is the last that was valid; once stopped it gives at most
\* one more, unless it was stopped before it ran.  The monitor shows the parts of a
\* vector together and nothing else with them.
TelemetryRead ==
  /\ readerAt # "parse" /\ output.is = "read" =>
       /\ output.base = SubSeq(SentFields, 1, Len(output.base))
       /\ \A r \in DOMAIN output.rows : output.rows[r] = SentRow(r)
       /\ reader \in {"monitor", "radar", "gt"} => Len(output.rows) = Least(Most(0, Claimed), Arrived)
       /\ reader \in {"gt", "radar"} => output.count = Claimed
       /\ reader = "gt" => output.short = ~AllThere
       /\ reader = "wheels" =>
            Len(output.rows) = IF layout = "wheels" /\ AllThere /\ Claimed \in 0..MaxWheelCount THEN Claimed ELSE 0
       /\ reader = "collision" => AllThere /\ Len(output.rows) = Claimed
  /\ readerAt # "parse" /\ output.is = "error" => ~AllThere
  /\ output.is = "raised" => ~Known(BaseFields \o RowFields)
  /\ reader = "monitor" /\ readerAt = "recv" /\ received = 0 => \A fields \in {BaseFields, RowFields} :
       Groups(fields) = {{i \in DOMAIN fields : fields[i].vector = v} : v \in {fields[i].vector : i \in DOMAIN fields}}
  /\ reader = "gt" =>
       /\ packetCount + invalidCount = received - (IF readerAt = "parse" THEN 1 ELSE 0)
       /\ readerAt \notin {"parse", "shown"} /\ output.is = "read" => latest = output
       /\ afterStop <= 1
=============================================================================
