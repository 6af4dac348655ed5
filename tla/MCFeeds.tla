------------------------------- MODULE MCFeeds ------------------------------
(* What the console receives, shows and keeps: TCP packets and their         *)
(* payloads, the datagrams of the LiDAR, the cameras and the other sensors,  *)
(* the tabs that show them, and the files of the panels and the window; the  *)
(* routes and paths a vehicle is driven on; the console without a window;    *)
(* and what the launcher window keeps and shows.  They share no state in the *)
(* model, so the run lets one of them move, which is chosen at the start.    *)
(* Nothing here waits for an event that must come: there is no fairness.     *)
EXTENDS Framing, TcpPayloads, LidarFrames, CameraPayloads,
        LidarView, SensorStreams, CameraSlots, BulkObjects,
        SavedState, GuiSettings, GuiLogin, Telemetry,
        UdpControl, ConsoleWindow, PanelFields, VehicleForms, RoutePlan, CliConsole

CONSTANTS v1, v2, d1, d2, h1, h2, h3
VARIABLE feed
networkVars == <<frameVars, payloadVars, vars, chunkVars, cameraVars, telemetryVars>>
tabsVars == <<viewVars, streamVars, slotVars, bulkVars>>
diskVars == <<savedVars, tabVars, settingsVars, loginVars, hashVars>>
formsVars == <<controlVars, windowVars, fieldVars, formVars>>
drivingVars == <<routeVars, followVars, cliVars>>
feedVars == <<networkVars, tabsVars, diskVars, formsVars, drivingVars, feed>>

MCVehicles == {v1, v2}
MCSizes == <<<<3, 3, 3, 3, 3>>, <<4, 3, 4, 4>>, <<17>>>>
MCWidth == <<5, 5, 6>>
MCPlain == {3}
\* Three packets: request ids, sizes and payloads that hold the magic byte, empty
\* payloads, ones that look like a header, ones of the largest size.
MCStreams == {<<p, q, r>> : p \in {<<2>>, <<9, 2, 1>>, <<2, 1, 1, 3>>, <<9, 5, 6, 7, 8>>},
                            q \in {<<2>>, <<8, 2, 1, 1, 4>>, <<8, 3>>}, r \in {<<7>>, <<2, 5>>}}
\* Pictures of two chunks; the simulator is started anew after the
\* second and counts from 1 again.
MCTotals == <<2, 2, 2>>
MCPacketIds == <<1, 2, 1>>
MCSizes2D == {<<4, 3>>, <<8, 6>>, <<12, 9>>, <<16, 9>>, <<32, 18>>, <<64, 48>>}

\* The layouts of the datagram templates: their fields in order.
TField(n, v, t, w) == [name |-> n, var |-> v, type |-> t, words |-> w, vector |-> v]
Part(v, n) == [TField(n, v \o "." \o n, "FLOAT", {}) EXCEPT !.vector = v]
Plain3(v) == <<Part(v, "x"), Part(v, "y"), Part(v, "z")>>
Stamp == <<TField("seconds", "time.seconds", "INT64", {}), TField("nanos", "time.nanos", "INT32", {})>>
Ident(n) == TField(n, n, "ID", {})
CountOf(word, type) == TField(word \o "_count", word \o "_count", type, {"count", word})
Vectors(ts) == FlattenSeq([i \in DOMAIN ts |-> Plain3(ts[i])])
VehicleFields == Stamp \o <<Ident("id")>>
  \o Vectors(<<"location", "rotation", "velocity", "acceleration", "angular", "control">>)
ObjectEnd == Vectors(<<"location", "rotation", "dimensions", "velocity", "acceleration", "spec">>)
MCLayouts == [
  vehicle   |-> [fields |-> VehicleFields, rows |-> << >>, item |-> "none"],
  wheels    |-> [fields |-> VehicleFields \o <<CountOf("wheel", "INT32")>>, rows |-> Plain3("wheel"), item |-> "wheel"],
  collision |-> [fields |-> <<Ident("id"), CountOf("collision", "UINT32")>>,
                 rows |-> <<Ident("object"), TField("type", "type", "ENUM", {})>> \o Stamp \o ObjectEnd,
                 item |-> "collision"],
  detected  |-> [fields |-> Stamp \o <<CountOf("object", "INT32")>>,
                 rows |-> <<Ident("object"), TField("type", "type", "ENUM", {})>> \o ObjectEnd, item |-> "object"],
  objects   |-> [fields |-> Stamp \o <<CountOf("object", "UINT32")>>,
                 rows |-> <<TField("object_id", "object_id", "UINT32", {}), TField("center_x", "center.x", "FLOAT", {}),
                            TField("velocity_x", "velocity.x", "FLOAT", {})>>, item |-> "object"],
  lights    |-> [fields |-> <<CountOf("light", "UINT32"), CountOf("lane", "UINT32")>>,
                 rows |-> <<TField("state", "state", "ENUM", {})>>, item |-> "light"],
  boxes     |-> [fields |-> <<Ident("camera")>> \o Stamp, rows |-> Plain3("box"), item |-> "box"],
  motion    |-> [fields |-> Plain3("orientation") \o <<Part("orientation", "w")>> \o Vectors(<<"angular", "linear">>),
                 rows |-> << >>, item |-> "none"],
  image     |-> [fields |-> <<TField("size", "size", "INT32", {}), TField("data", "data", "BYTES", {})>>,
                 rows |-> << >>, item |-> "none"]]
\* Control templates: two whole ones, one with a field of no known kind, one with no
\* fields, one that cannot be parsed.
ControlField(v, k) == [var |-> v, kind |-> k]
MCControls == [manual |-> <<ControlField("throttle", "number"), ControlField("gear", "unsigned")>>,
               transform |-> <<ControlField("name", "text")>>,
               flag |-> <<ControlField("on", "unknown")>>, header |-> << >>, broken |-> << >>]
Order == <<"broken", "flag", "header", "manual", "transform">>
MCFirst(S) == Order[CHOOSE i \in DOMAIN Order : Order[i] \in S /\ \A j \in 1..(i - 1) : Order[j] \notin S]
MCButtons == <<3, 5, 2>>
\* Roads of four nodes: two of one pair, a ring, and two that change lane.
MCLink(from, to, length, over) == [from |-> from, to |-> to, length |-> length, over |-> over]
MCLinks == <<MCLink(1, 2, 20, <<>>), MCLink(2, 3, 30, <<>>), MCLink(1, 3, 4, <<>>), MCLink(3, 4, 30, <<>>),
             MCLink(3, 2, 5, <<>>), MCLink(4, 1, 40, <<>>), MCLink(1, 2, 10, <<>>),
             MCLink(1, 1, 7, <<>>), MCLink(1, 4, 1, <<3, 4>>), MCLink(1, 4, 1, <<2, 8>>)>>
\* The file of the version the loader cannot read.
NoMap == [version |-> 1, nodes |-> 1..2, listed |-> 1..2, links |-> [l \in {1} |-> MCLinks[1]]]
MCMapFiles ==
  {[version |-> 2, nodes |-> 1..4, listed |-> kept, links |-> [l \in ls |-> MCLinks[l]]] :
     kept \in {1..4, {1, 2, 4}},
     ls \in {x \in SUBSET (1..10) : (9 \in x => {3, 4} \subseteq x) /\ (10 \in x => {2, 8} \subseteq x)}}
  \cup {NoMap}
\* The scenarios of two suites.
MCSuiteLists == {<<"s1">>, <<"s2", "s1">>}
MCTrips == {1, 2} \X {1, 3, 4, 5}
\* A path of eight points, there and back.
MCPlaces == <<<<0, 0>>, <<1, 0>>, <<2, 0>>, <<3, 0>>, <<3, 1>>, <<2, 1>>, <<1, 1>>, <<0, 1>>>>

FeedsInit ==
  /\ feed \in {"framing", "payloads", "lidar", "chunks", "pictures", "lidar tab", "streams",
               "camera", "bulk", "saved", "tabs", "settings", "login", "hash",
               "telemetry", "control", "window", "fields", "vehicles", "route", "follow", "cli"}
  \* The others start in one of their initial states.
  /\ (feed = "framing" \/ (feed # "framing" /\ packets = <<<<2>>, <<2>>, <<7>>>>)) /\ FramingInit
  /\ (feed = "lidar" \/ (feed # "lidar" /\ network = "ordered")) /\ Init
  /\ (feed = "chunks" \/ (feed # "chunks" /\ path = "ordered")) /\ ChunkInit
  /\ (feed = "streams" \/ (feed # "streams" /\ streamKind = "radar")) /\ StreamInit
  /\ (feed = "camera" \/ (feed # "camera" /\ sensor = "depth")) /\ SlotInit
  /\ SavedInit /\ (feed # "saved" => files["commands"] = NoStateFile)
  /\ (feed = "settings" \/ (feed # "settings" /\ stored = Absent)) /\ SettingsInit
  /\ (feed = "login" \/ (feed # "login" /\ config = FALSE /\ file = FALSE)) /\ LoginInit
  /\ (feed = "telemetry" \/ (feed # "telemetry" /\ reader = "vehicle")) /\ TelemetryInit
  /\ (feed = "window" \/ (feed # "window" /\ windowFile = [is |-> "absent"])) /\ WindowInit
  /\ (feed = "fields" \/ (feed # "fields" /\ form = "file" /\ content = NoFields("absent"))) /\ FieldsInit
  /\ (feed = "vehicles" \/ (feed # "vehicles" /\ listTab = "follow" /\ listFile = NoList("absent"))) /\ FormInit
  /\ (feed = "route" \/ (feed # "route" /\ mapFile = NoMap /\ trip = <<1, 1>>)) /\ RouteInit
  /\ (feed = "follow" \/ (feed # "follow" /\ isClosed = TRUE /\ window = 1)) /\ FollowInit
  /\ PayloadInit /\ CameraInit /\ ViewInit /\ BulkInit /\ TabsInit /\ HashInit /\ ControlInit /\ CliInit

NetworkRests == UNCHANGED <<networkVars, feed>>
TabsRest == UNCHANGED <<tabsVars, feed>>
DiskRests == UNCHANGED <<diskVars, feed>>
FormsRest == UNCHANGED <<formsVars, feed>>
DrivingRests == UNCHANGED <<drivingVars, feed>>

FramingMoves == feed = "framing" /\ FramingNext
  /\ UNCHANGED <<payloadVars, vars, chunkVars, cameraVars, telemetryVars>>
PayloadsMove == feed = "payloads" /\ PayloadNext
  /\ UNCHANGED <<frameVars, vars, chunkVars, cameraVars, telemetryVars>>
LidarMoves == feed = "lidar" /\ Next
  /\ UNCHANGED <<frameVars, payloadVars, chunkVars, cameraVars, telemetryVars>>
ChunksMove == feed = "chunks" /\ ChunkNext
  /\ UNCHANGED <<frameVars, payloadVars, vars, cameraVars, telemetryVars>>
PicturesMove == feed = "pictures" /\ CameraNext
  /\ UNCHANGED <<frameVars, payloadVars, vars, chunkVars, telemetryVars>>
TelemetryMoves == feed = "telemetry" /\ TelemetryNext
  /\ UNCHANGED <<frameVars, payloadVars, vars, chunkVars, cameraVars>>
NetworkMoves == FramingMoves \/ PayloadsMove \/ LidarMoves \/ ChunksMove \/ PicturesMove \/ TelemetryMoves

LidarTabMoves == feed = "lidar tab" /\ ViewNext /\ UNCHANGED <<streamVars, slotVars, bulkVars>>
StreamsMove == feed = "streams" /\ StreamNext /\ UNCHANGED <<viewVars, slotVars, bulkVars>>
CameraMoves == feed = "camera" /\ SlotNext /\ UNCHANGED <<viewVars, streamVars, bulkVars>>
BulkMoves == feed = "bulk" /\ BulkNext /\ UNCHANGED <<viewVars, streamVars, slotVars>>
TabMoves == LidarTabMoves \/ StreamsMove \/ CameraMoves \/ BulkMoves

SavedMove == feed = "saved" /\ SavedNext /\ UNCHANGED <<tabVars, settingsVars, loginVars, hashVars>>
MonitorMoves == feed = "tabs" /\ TabsNext /\ UNCHANGED <<savedVars, settingsVars, loginVars, hashVars>>
SettingsMove == feed = "settings" /\ SettingsNext /\ UNCHANGED <<savedVars, tabVars, loginVars, hashVars>>
LoginMoves == feed = "login" /\ LoginNext /\ UNCHANGED <<savedVars, tabVars, settingsVars, hashVars>>
HashMoves == feed = "hash" /\ HashNext /\ UNCHANGED <<savedVars, tabVars, settingsVars, loginVars>>
DiskMoves == SavedMove \/ MonitorMoves \/ SettingsMove \/ LoginMoves \/ HashMoves

ControlMoves == feed = "control" /\ ControlNext /\ UNCHANGED <<windowVars, fieldVars, formVars>>
WindowMoves == feed = "window" /\ WindowNext /\ UNCHANGED <<controlVars, fieldVars, formVars>>
FieldsMove == feed = "fields" /\ FieldsNext /\ UNCHANGED <<controlVars, windowVars, formVars>>
VehiclesMove == feed = "vehicles" /\ FormNext /\ UNCHANGED <<controlVars, windowVars, fieldVars>>
FormMoves == ControlMoves \/ WindowMoves \/ FieldsMove \/ VehiclesMove

RouteMoves == feed = "route" /\ RouteNext /\ UNCHANGED <<followVars, cliVars>>
FollowMoves == feed = "follow" /\ FollowNext /\ UNCHANGED <<routeVars, cliVars>>
CliMoves == feed = "cli" /\ CliNext /\ UNCHANGED <<routeVars, followVars>>
DrivingMoves == RouteMoves \/ FollowMoves \/ CliMoves

FeedsNext ==
  \/ NetworkMoves /\ TabsRest /\ DiskRests /\ FormsRest /\ DrivingRests
  \/ TabMoves /\ NetworkRests /\ DiskRests /\ FormsRest /\ DrivingRests
  \/ DiskMoves /\ NetworkRests /\ TabsRest /\ FormsRest /\ DrivingRests
  \/ FormMoves /\ NetworkRests /\ TabsRest /\ DiskRests /\ DrivingRests
  \/ DrivingMoves /\ NetworkRests /\ TabsRest /\ DiskRests /\ FormsRest
FeedsSpec == FeedsInit /\ [][FeedsNext]_feedVars

\* The bytes of the payload of a packet, of a camera picture and of a datagram of
\* another sensor are read as what was sent.
BytesRead == PayloadsRead /\ CamerasRead /\ TelemetryRead
=============================================================================
