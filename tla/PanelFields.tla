------------------------------ MODULE PanelFields ------------------------------
(***************************************************************************)
(* What the panels of the console make of each field of their files, and   *)
(* which fields they write.  A file may have been written by the panel, by *)
(* an earlier version of it or by hand.  A value is a word for its kind:   *)
(* the default, another one the input can hold, the number zero, a number  *)
(* that is negative or large beyond every limit, digits, a text ...        *)
(***************************************************************************)
EXTENDS Naturals, Sequences, FiniteSets, SequencesExt

CONSTANTS MaxRounds   \* bound on the loads

VARIABLES
  form,       \* the panel
  content,    \* its file: key |-> word, "absent", "torn" or "list" for another JSON value;
              \* "slots" is a LiDAR file of version 1, the fields are those of its first slot
  filled,     \* what its inputs show: key |-> word
  formOpen,       \* "closed", "open", or "failed": the console does not start
  fieldTouched,    \* did the user change an input since the file was read or written?
  written,    \* did the panel write its file?
  rounds,
  shownLast   \* history: what the inputs showed when the file was written

fieldVars == <<form, content, filled, formOpen, fieldTouched, written, rounds, shownLast>>

-----------------------------------------------------------------------------
(* The forms: key, kind and group of each input.  What cannot be read ends *)
(* the reading of its group.                                               *)

Each(kind, group, keys) == [i \in DOMAIN keys |-> [key |-> keys[i], kind |-> kind, group |-> group]]
CommandForm ==
  Each("filledText", 1, <<"suite_path">>) \o Each("mode", 1, <<"simulator_mode_combo">>)
  \o Each("item", 1, <<"simulator_map_combo">>) \o Each("anyText", 1, <<"sim_mode_combo">>)
  \o Each("renamed", 1, <<"sim_target_fps", "sim_physics_dt">>) \o Each("rtf", 1, <<"sim_rtf">>)
  \o Each("flag", 1, <<"sim_user_control">>) \o Each("switch", 1, <<"sc_timer_enabled">>)
  \o Each("number", 1, <<"sc_timer_min", "sc_timer_sec">>)
ObjectForm ==
  Each("anyText", 1, <<"obj_entity_id">>)
  \o Each("number", 1, <<"co_pos_x", "co_pos_y", "co_pos_z", "co_rot_x", "co_rot_y", "co_rot_z", "co_bulk_count">>)
  \o Each("anyText", 1, <<"co_bulk_map">>)
  \o Each("number", 1, <<"mc_thr", "mc_brk", "mc_steer", "tc_px", "tc_py", "tc_pz", "tc_rx", "tc_ry", "tc_rz",
                         "tc_steer", "tc_speed">>)
  \o Each("anyText", 1, <<"tr_name", "tr_sample">>)
  \o Each("number", 1, <<"tr_p1_x", "tr_p1_y", "tr_p1_z", "tr_p1_t", "tr_p2_x", "tr_p2_y", "tr_p2_z", "tr_p2_t">>)
  \o Each("enum", 1, <<"co_entity_type", "co_driving_mode", "co_ground_vehicle_model", "tr_follow_mode">>)
CameraSlot(s, keys) ==
  Each("ip", s, <<keys[1]>>) \o Each("int", s, <<keys[2]>>)
  \o Each("template", s, <<keys[3]>>) \o Each("namedItem", s, <<keys[4], keys[5]>>)
CameraForm ==
  CameraSlot(1, <<"ip_1", "port_1", "template_1", "depth_view_1", "depth_scale_1">>)
  \o CameraSlot(2, <<"ip_2", "port_2", "template_2", "depth_view_2", "depth_scale_2">>)
  \o CameraSlot(3, <<"ip_3", "port_3", "template_3", "depth_view_3", "depth_scale_3">>)
  \o CameraSlot(4, <<"ip_4", "port_4", "template_4", "depth_view_4", "depth_scale_4">>)
RadarForm ==
  Each("ip", 1, <<"objects_ip">>) \o Each("int", 1, <<"objects_port">>)
  \o Each("ip", 1, <<"detections_ip">>) \o Each("int", 1, <<"detections_port">>)
LidarForm ==
  Each("safeIp", 1, <<"ip">>) \o Each("port", 1, <<"port">>) \o Each("range", 1, <<"range_m">>)
  \o Each("namedItem", 1, <<"color_mode">>) \o Each("points", 1, <<"max_points">>)
  \o Each("target", 1, <<"target">>) \o Each("distance", 1, <<"distance">>) \o Each("yaw", 1, <<"yaw_deg">>)
  \o Each("pitch", 1, <<"pitch_deg">>) \o Each("fov", 1, <<"fov_deg">>)
FileForm == Each("filledText", 1, <<"fp_path", "fp_entity_id">>)
Forms == [commands |-> CommandForm, objects |-> ObjectForm, camera |-> CameraForm, radar |-> RadarForm,
          lidar |-> LidarForm, file |-> FileForm]
Form == Forms[form]
FormKeys == {Form[i].key : i \in DOMAIN Form}

Texts == {"filledText", "anyText", "ip", "safeIp"}
CameraNumbers == {"distance", "yaw", "pitch", "fov"}
Numbers == {"number", "renamed", "int", "port", "range", "points"} \cup CameraNumbers
\* What the user can leave in an input: none of the numbers is limited by it but
\* the range.  The camera of the LiDAR tab is moved with the mouse and the presets,
\* its angle of view by nothing.
Inputs(kind) ==
  CASE kind \in Texts               -> {"default", "other", "blank"}
    [] kind = "range"               -> {"default", "other"}
    [] kind = "distance"            -> {"default", "other", "least", "most"}
    [] kind = "yaw"                 -> {"default", "other", "zero"}
    [] kind = "pitch"               -> {"default", "other", "zero", "least", "most"}
    [] kind = "fov"                 -> {}
    [] kind \in Numbers \ ({"range"} \cup CameraNumbers) -> {"default", "other", "zero", "negative", "large"}
    [] OTHER                        -> {"default", "other"}
Words == {"missing", "null", "default", "other", "blank", "zero", "negative", "large", "digits", "text", "old", "list"}

-----------------------------------------------------------------------------
(* Loading.  A kind gives the word an input shows, or "raised".            *)

\* set_value with a value of another type may be refused or ignored.
Wrong == {"default", "raised"}
\* int(): of a number and of its digits.
AsInt(x) == CASE x \in {"default", "other", "zero", "negative", "large", "least", "most"} -> x
              [] x = "digits" -> "other" [] x = "missing" -> "default" [] OTHER -> "raised"
\* _coerce_float falls back where int() and float() raise.
AsFloat(x) == IF AsInt(x) = "raised" THEN "default" ELSE AsInt(x)
\* str(): of everything there is.
AsText(x) == CASE x \in {"default", "other", "blank"} -> x [] x = "missing" -> "default" [] OTHER -> "other"

\* Mutant: any number is taken for a port.
AnyPort(n) == n
\* A port, as dict_to_state takes it.
PortRange(n) == IF n \in {"zero", "negative", "large"} THEN "default" ELSE n
\* Mutant: the number of the file is taken as it is.
AnyNumber(n, below) == n
\* max_points of dict_to_state, and _clamp of OrbitCamera.
Clamped(n, below) == CASE n \in below -> "least" [] n = "large" -> "most" [] OTHER -> n

ReadAs(kind, x) ==
  CASE kind = "filledText" -> IF x \in {"missing", "null", "blank", "zero"} THEN {"default"}
                               ELSE IF x \in {"negative", "large", "list"} THEN Wrong ELSE {AsText(x)}
    [] kind = "anyText"    -> IF x \in {"null", "zero", "negative", "large", "list"} THEN Wrong ELSE {AsText(x)}
    [] kind = "ip"          -> {AsText(x)}
    [] kind = "safeIp"     -> {IF x \in {"null", "blank"} THEN "default" ELSE AsText(x)}
    \* Two numbers of the command panel had other names once.
    [] kind = "renamed" /\ x = "old" -> {"other"}
    [] kind \in {"number", "renamed"} ->
                               IF AsInt(x) = "raised" \/ x = "digits" THEN Wrong ELSE {AsInt(x)}
    [] kind = "int"         -> {AsInt(x)}
    [] kind = "port"        -> {PortRange(AsFloat(x))}
    [] kind = "range"       -> {IF AsFloat(x) \in {"zero", "negative"} THEN "default" ELSE AsFloat(x)}
    [] kind \in {"points", "distance", "fov"} -> {Clamped(AsFloat(x), {"zero", "negative"})}
    [] kind = "pitch"       -> {Clamped(AsFloat(x), {"negative"})}
    \* An angle, brought between 0 and 360 degrees.
    [] kind = "yaw"         -> {IF AsFloat(x) \in {"negative", "large"} THEN "other" ELSE AsFloat(x)}
    [] kind = "target"      -> {IF x \in {"other", "list"} THEN "other" ELSE "default"}
    [] kind = "mode"        -> {CASE x = "list" -> "raised" [] x = "other" -> "other" [] OTHER -> "default"}
    [] kind = "item"        -> {IF x = "other" THEN "other" ELSE "default"}
    [] kind = "namedItem"  -> {IF x = "other" THEN "other" ELSE "default"}
    [] kind \in {"template", "rtf"} -> {IF x \in {"other", "old"} THEN "other" ELSE "default"}
    [] kind = "enum"        -> {IF x \in {"other", "old", "digits"} THEN "other" ELSE "default"}
    [] kind = "flag"        -> {IF x \in {"missing", "null", "blank", "zero", "default"} THEN "default" ELSE "other"}
    [] kind = "switch"      -> IF x \in {"default", "other"} THEN {x} ELSE IF x = "missing" THEN {"default"} ELSE Wrong

PlaceOf(key) == CHOOSE i \in DOMAIN Form : Form[i].key = key
StandsBefore(i, j) == i <= j /\ Form[i].group = Form[j].group
\* What the inputs show after _load_state: they are read in their order, until
\* one of their group raises.
LoadedForm(reading) ==
  [key \in FormKeys |->
     IF \E i \in DOMAIN Form : StandsBefore(i, PlaceOf(key)) /\ reading[i] = "raised" THEN "default"
     ELSE reading[PlaceOf(key)]]
WordOf(i) == IF Form[i].key \in DOMAIN content.fields THEN content.fields[Form[i].key] ELSE "missing"
Taken(words, refuse) == IF words = Wrong THEN refuse ELSE CHOOSE x \in words : TRUE
ReadInputs(refuse) == [i \in DOMAIN Form |-> Taken(ReadAs(Form[i].kind, WordOf(i)), refuse)]
HasFields == content.is \in {"json", "slots"}
LoadForm ==
  /\ formOpen = "closed" /\ rounds < MaxRounds /\ rounds' = rounds + 1
  \* The camera tab looks into the file before it is ready for errors.
  /\ formOpen' = IF form = "camera" /\ content.is = "list" THEN "failed" ELSE "open"
  /\ IF HasFields
     THEN \E reading \in {ReadInputs(refuse) : refuse \in Wrong} : filled' = LoadedForm(reading)
     ELSE filled' = [key \in FormKeys |-> "default"]
  /\ fieldTouched' = FALSE /\ UNCHANGED <<form, content, written, shownLast>>

-----------------------------------------------------------------------------
(* Using and saving.                                                       *)

\* Bounded: of a file of another hand nothing is changed before it is saved.
FillInput ==
  /\ formOpen = "open" /\ ~fieldTouched /\ rounds < MaxRounds /\ (written \/ ~HasFields) /\ fieldTouched' = TRUE
  /\ \E i \in DOMAIN Form : \E x \in Inputs(Form[i].kind) :
       x # filled[Form[i].key] /\ filled' = [filled EXCEPT ![Form[i].key] = x]
  /\ UNCHANGED <<form, content, formOpen, written, rounds, shownLast>>
\* An empty IP is written as the one that means any.
WordFor(key) ==
  IF Form[PlaceOf(key)].kind \in {"ip", "safeIp"} /\ filled[key] = "blank" THEN "default" ELSE filled[key]
SaveForm ==
  /\ formOpen = "open" /\ content' = [is |-> "json", fields |-> [key \in FormKeys |-> WordFor(key)]]
  /\ written' = TRUE /\ shownLast' = filled /\ fieldTouched' = TRUE
  /\ UNCHANGED <<form, filled, formOpen, rounds>>
CloseForm ==
  /\ formOpen = "open" /\ formOpen' = "closed" /\ UNCHANGED fieldTouched
  /\ UNCHANGED <<form, content, filled, written, rounds, shownLast>>

NoFields(is) == [is |-> is, fields |-> << >>]
\* A file of another hand has one strange field, or it misses one.
FieldsInit ==
  /\ form \in DOMAIN Forms
  /\ \/ content \in {NoFields("absent"), NoFields("torn"), NoFields("list")}
     \/ form = "lidar" /\ content = NoFields("slots")
     \/ \E key \in FormKeys, x \in Words : \E is \in IF form = "lidar" THEN {"json", "slots"} ELSE {"json"} :
          content = [is |-> is, fields |-> [k \in FormKeys |-> IF k = key THEN x ELSE "other"]]
  /\ filled = [key \in FormKeys |-> "default"] /\ formOpen = "closed" /\ fieldTouched = FALSE /\ written = FALSE /\ rounds = 0
  /\ shownLast = filled
FieldsNext == LoadForm \/ FillInput \/ SaveForm \/ CloseForm
FieldsSpec == FieldsInit /\ [][FieldsNext]_fieldVars

-----------------------------------------------------------------------------
\* After a start a panel shows what it showed when it wrote its file, but for
\* texts that were empty, which come back as the default where an empty one
\* means it, and for the port and the number of points of the LiDAR tab, which
\* its inputs do not limit and the start does.  Of a file of another hand, or of
\* version 1, no port, number of points or camera number beyond its limits comes
\* into the LiDAR tab, and no range that is not positive (a larger one than its
\* input allows is shown); what stands before a field that cannot be read is
\* shown as it is there; and the console starts with whatever file its panels wrote.
Expected(kind, w) ==
  CASE w = "blank" /\ kind \in {"filledText", "ip", "safeIp"} -> "default"
    [] kind = "port" /\ w \in {"zero", "negative", "large"} -> "default"
    [] kind = "points" /\ w \in {"zero", "negative"} -> "least"
    [] kind = "points" /\ w = "large" -> "most"
    [] OTHER -> w
Ranged == {"port", "range", "points"} \cup CameraNumbers
InRange(kind) ==
  CASE kind = "port"  -> {"default", "other"}
    [] kind = "range" -> {"default", "other", "large"}
    [] kind = "yaw"   -> {"default", "other", "zero"}
    [] kind = "pitch" -> {"default", "other", "zero", "least", "most"}
    [] kind \in {"points", "distance", "fov"} -> {"default", "other", "least", "most"}
FieldsRestored ==
  /\ formOpen # "closed" /\ ~fieldTouched /\ written =>
       \A i \in DOMAIN Form : filled[Form[i].key] = Expected(Form[i].kind, shownLast[Form[i].key])
  /\ formOpen # "closed" /\ ~fieldTouched /\ HasFields =>
       \A j \in DOMAIN Form :
         /\ Form[j].kind \in Ranged => filled[Form[j].key] \in InRange(Form[j].kind)
         /\ (\A i \in DOMAIN Form : StandsBefore(i, j) => WordOf(i) = "other") => filled[Form[j].key] = "other"
  /\ formOpen = "failed" => ~written
=============================================================================
