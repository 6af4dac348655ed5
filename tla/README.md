# Verification of MORAI SimControl

TLA+ models, model-checking runs and machine-checked proofs for the client side
of MORAI Simulation Control: the Interface Console with a window
(`src/src/morai_interface_console_main.py`, its panels and runners) and without
one (`src/src/morai_interface_console_cli_main.py`), the `DemoSession` library,
the simulation control GUI and its launcher, the receivers of sensor data, and
the route search.  Paths below are relative to `src/src/` unless they start with
`src/`.

The program is a client of a simulator.  Its own logic is what happens between
user-interface callbacks, background threads, one TCP connection, a few UDP
sockets and a handful of files; almost everything that can go wrong is a matter
of order: which thread read an attribute before which other thread cleared it,
which answer arrived after its request was given up, which part of a file was
written when the program was killed.  That is what the modules model.

## 1. The system

### Components

| component | state | operations | module |
|---|---|---|---|
| Console connection (`morai_interface_console_main.py`, `transport/tcp_thread.py`) | `tcp_sock`, `receiver`, `_connecting`, `_disconnect_requested` | `connect` (a thread per call), `disconnect`, `_on_disconnect` (run by the UI or by a Receiver) | `ConsoleTcp` |
| Pending requests, `dispatch`, AutoCaller | request counter, table from request id to event, call index, stop event | `pending_add`, `pending_pop`, completion by an answer or a loss; the loop "send FixedStep, wait" | `ConsoleTcp` |
| DemoSession (`demo/demo_session.py`) | `_socket`, `_running`, `_receiver`, `_pending` | `connect`, `close`, `_request` from any thread, `_receive_loop` | `DemoSession`, `RequestReply` |
| StepAdRunner (`runners/step_ad_runner.py`) | per vehicle the latest VehicleInfo and its event, the open requests | start, stop, the control loop, the UDP loops, late answers | `StepAd` |
| AdRunner, LaneRunner (`runners/`) | latest state of the vehicle, request in progress; steering, streak | control loops, late answers, the brake of Stop | `AdDrive`, `LaneDrive` |
| Command panel (`panels/commands.py`) | scenario clock, counter threads, timers; the pending LoadSuite | play, stop, messages, timer; load, watchdog | `ScenarioClock`, `SuiteLoad` |
| Playback panels | player thread, waits, the row | play, stop, send, save, loss | `Playback` |
| Autonomous Driving tab | lists of runners, rows of values, Start button | start, stop, values and ends posted by threads | `DrivePanel` |
| Lane Control tab, lane detector (`panels/lane_control_panel.py`, `lane_control/`) | runner, picture, posts, sliders; the curves of earlier pictures | start, stop, frames, sliders; find the lane in a picture | `LaneTab`, `LaneDetect` |
| Object panel (`panels/object_control.py`) | tracked ids, pending creates and deletes | bulk create and delete, answers | `BulkObjects` |
| LiDAR tab, radar and monitor tabs, camera tab | receiver in use, frame, texture in flight, status | start, stop, frames, errors that come late | `LidarView`, `SensorStreams`, `CameraSlots` |
| Receivers (`receivers/`) | the frame that is being assembled | datagram in, frame or rows out | `LidarFrames`, `Framing`, `CameraPayloads`, `Telemetry` |
| TCP framing, message schema, typed commands (`transport/`) | bytes read so far | resynchronisation, packing and parsing, dispatch by type | `Framing`, `MessageSchema`, `TcpPayloads` |
| ProtoClient (`transport/proto_client.py`) | ids, pending requests, bytes of a frame | `call`, `send`, `receive` | `ProtoClient` |
| Files and fields of the panels, monitor tabs | JSON files | load, save, kill, fall back to an earlier file | `SavedState`, `PanelFields` |
| UDP Control tab, tabs with lists of vehicles, window of the console | inputs per template, row and endpoint | select, type, resize, connect, send | `UdpControl`, `VehicleForms`, `ConsoleWindow` |
| Simulation control GUI (`simulation_control_gui_main.py`) | one task at a time, texts, buttons, refresh generations | tasks, time poll, refresh | `SimGui`, `GuiRefresh` |
| Login and launcher (`demo/`) | tokens, session file, settings, hardware hash | login, verify, force, logout, launch, save, restart | `GuiLogin`, `GuiSettings` |
| Console without a window | key loop, prompts, AutoCaller | keys, reconnect, W | `CliConsole` |
| Route search, map files, path following (`autonomous_driving/`) | none; the window on the path | read a map, search, follow | `RoutePlan` |

`PROJECT.json` "components" lists them with their sources and says of each what
is left out; three parts are not modelled (section 6).

The components meet at few places: the request table and the socket (all of them
in `ConsoleTcp`), the lists of runners that the Receiver goes through (`AdDrive`,
`StepAd`, `DrivePanel`), the UI queue, which the panels fill and the main thread
empties, and the files.  Where two components share an attribute they are in one
module.  Where one only sees that another sends, answers or is lost, it is
modelled against an environment that may do any of that at any time.

### Which behaviours are hard

* **Unlocked shared attributes.**  The console, `DemoSession` and the panels read
  and write `receiver`, `tcp_sock`, `_running`, the receiver of a tab, the list of
  scenarios from several threads without a lock; a value tested and then used may
  have changed.
* **Losses racing requests.**  A lost connection releases every waiting request
  while others are being registered, answered, or given up by a timeout.
* **Late and stale answers.**  VehicleInfo answers, datagrams, acknowledgements,
  refreshes and errors arrive after whoever wanted them has gone on; the next
  round, load or receiver must not take them for its own.
* **Stop and restart.**  `stop()` of a loop that is inside a wait, followed by a
  new start; callbacks of the old instance that act on the new one.
* **Termination.**  Each loop waits in several places, each wait has its own
  timeout, and together they must end after a stop or a loss.
* **Reassembly.**  Chunks are duplicated, reordered, lost; packets are read with a
  timeout that may fall inside one; a datagram claims more than it holds.
* **Kills.**  Files are emptied before they are written; several programs create
  the same file.
* **Values kept for another.**  What is typed for one row, template or endpoint
  must not be kept for the one selected next.

`PROJECT.json` "hazards" names the line where each bites and the properties that
cover it.  Three have no property.  At `transport/tcp_transport.py:97` two threads
call `sendall` on one socket; the models take a `sendall` for one step, and whether
the kernel splits it is not decided by this code.  The other two are false of the
code, are steps of `DemoSession`, and stand in section 4: an old receiver that
clears `_running` of a new connection (`demo/demo_session.py:368`), and a packing
that raises what `_request` does not catch (335).

### What makes each component correct

* Connection: one `connect()` at a time; requests go out on the socket that is
  read; a connected console has a reader.  Waiters are covered by the table.
* DemoSession: what a synchronous client promises (`RequestReply`); a closed link
  is reported to whoever uses it.
* Loops: they end; one FixedStep on its way; a control comes from this round's
  answer; few steps, controls or rows after a stop; one thread drives.
* Panels: texts, buttons, rows and tables at rest are those of the runners,
  receivers, vehicles and answers there are.
* Receivers: what is published was sent as one frame, at its own place.
* Files: the next start shows what was kept, or the defaults, field by field.
* Routes: a route is a shortest way from its start to its end.

## 2. Modules

| module | models | run |
|---|---|---|
| `ConsoleTcp` | connection, Receiver threads, pending table, `dispatch`, AutoCaller, in one module because each step reads the others' attributes | `console_*` |
| `DemoSession` | `connect`, `close`, `_request`, `_receive_loop`; implements `RequestReply` | `demo_*` |
| `RequestReply` | abstract: every request returns once, with its answer, an error or a timeout | `demo_session` |
| `StepAd` | the lockstep loop with the console's start, stop and loss, the Receiver's routing, the simulator as environment | `step_ad*` |
| `ScenarioClock` | Play, Stop, status messages, automatic stop, elapsed-time counter | `panels` |
| `SuiteLoad` | LoadSuite: sender, response, watchdog, loss, the texts they post | `panels` |
| `Playback` | file and transform playback with every send and wait | `panels` |
| `AdDrive`, `LaneDrive` | the control loops of path following and lane keeping | `panels` |
| `LaneDetect` | the lane detector: which curves it remembers, what it makes of a picture | `panels` |
| `DrivePanel` | the driving tab: lists of runners, values, Start | `panels` |
| `LaneTab` | the Lane Control tab: runner, Start, picture, sliders | `panels` |
| `SimGui`, `GuiRefresh` | tasks, callback thread, worker, poll, queue; chains of refreshes | `gui` |
| `ProtoClient` | the protobuf client with frames cut by timeouts | `gui` |
| `Framing` | what comes in pieces: packets cut from a byte stream with timeouts inside them, camera pictures put together of datagrams | `feeds` |
| `MessageSchema`, `TcpPayloads` | tables of all messages, packing; senders, parsers, dispatch | `feeds` |
| `LidarFrames`, `CameraPayloads`, `Telemetry` | assembly of the chunks of a LiDAR frame; the bytes of pictures, boxes; datagrams read with a template or a fixed format | `feeds` |
| `LidarView`, `SensorStreams`, `CameraSlots` | tabs with their receivers, threads and pictures on their way | `feeds`, `lidar_dropped` |
| `BulkObjects` | bulk create and delete with the two pending tables | `feeds` |
| `SavedState`, `PanelFields`, `GuiSettings` | files of the panels and monitor tabs, each field of them, settings of the launcher | `feeds` |
| `GuiLogin` | login, force login, session file, logout, launch; the hardware hash several programs create | `feeds` |
| `UdpControl`, `VehicleForms`, `ConsoleWindow` | what is typed for templates, vehicles and the window | `feeds` |
| `RoutePlan` | map files, weights, search, the way back; the search window on the path | `feeds` |
| `CliConsole` | the console without a window | `feeds` |
| `MCPanels`, `MCGui`, `MCFeeds` | the modules of a run side by side, values for TLC | |
| `MCDemoSession` | a symmetry set | |
| `ConsoleTcpProofs`, `DemoSessionProofs`, `StepAdProofs`, `PanelsProofs`, `GuiProofs`, `FeedsProofs`, `ReadersProofs`, `FramingProofs` | theorems | |

### How state and steps correspond to the code

*One action is what a thread does between two accesses to state another thread
can see.*  What the code does under one lock is one action; each unlocked read or
write of a shared attribute is an action of its own, so
`if self.receiver: self.receiver.stop()` is two (`OpenSeeReceiver`,
`OpenStopReceiver`), and a `None` found by the second one is the
`AttributeError` Python raises.  Where an exception leads is modelled: out of the
thread, into the handler that closes the socket, into the `finally`.  Purely local
work, logging and drawing are left out.  DearPyGui runs callbacks one after the
other in one thread; that thread, the main thread that renders and empties the UI
queue, and each `threading.Thread` are the threads of the models.

*ConsoleTcp.*  A member of `Socks` stands for one call of `connect()`: its thread
(`opener`), the socket it makes (`sock`) and the `Receiver` on it (`rx`). `lost[t]`
is how far a thread is in `_on_disconnect`, which the UI thread and every Receiver
run alike; the two attributes it clears (697, 698) are two steps, and so are the two
reads of `tcp_sock` before a close, at which a `None` raises.  `pending` and `ev`
are the table and the `threading.Event`s; `ev` distinguishes an event set by an
answer from one set by a loss, which the code cannot.  `panel` is the socket the
command panel cached in `init()`; `dispatch` uses it, an AutoCaller keeps the one it
was started with.

*StepAd.*  `pc` walks through `_presend_step` (`clear`, `register`, `send`), the
wait for the acknowledgement (`ack`), `_request_tcp_vehicle_info` (`ask`,
`collect`), `_wait_for_vi` (`infos`) and `_send_all_cmds` (`command`); `looping`
tells the initial part from the `while` loop.  A VehicleInfo is abstracted to
the number of the simulation step it describes, which is all the properties
need.  `todo`/`ready` are what is left of the current `for` loop, in any order.
`owed` and `acks` are FixedSteps on their way to the simulator and answers on
their way back.  `lastOk` and `sentStopped` are history variables.

*DemoSession.*  A member of `Conns` is one `connect()` call, its socket and its
receiver thread.  `pend` is `_pending`; `held` is what a thread has popped and
has not completed yet; `reply`/`signalled` are the two fields of
`_PendingRequest`.  `result` and `heard` are history variables, the ones that
the refinement mapping to `RequestReply` reads; `deserted` is another one: the
requests that waited on a closed link when a `close()` raised.  A send fails with what `_request`
catches, or raises what it does not (`result` is `"raised"`, and the entry stays).

*Panels.*  In `ScenarioClock` a member of `Plays` stands for a Play request and
for the `threading.Event`s made when its answer is handled.  In `SuiteLoad` the
texts posted to the UI queue are kept as the last one, which is what the panel
comes to show.  In `Playback`, `AdDrive` and `DrivePanel` each start makes a new
thread; a state of a vehicle is the id of the request it answers, a row of a file
is its number.  In `LaneDrive` steering is in thousandths and what the PD
controller wants is one of `WantedSteers`.  In `LaneDetect` a curve is the pixel
where it meets the bottom of the picture, and the pixels of a picture are one
choice: where each side has a mark.  In `LaneTab` a runner is a number and a frame is
its runner and its kind; a post is applied by the main thread, in order.

*GUI.*  In `SimGui` a task is the sequence of what it asks and posts (`Steps`),
worked off by the worker while clicks, the poll and a loss go on; what is posted is
shown by the main thread in pieces.  In `ProtoClient` each notification that is read
starts the timeout of the socket again, however many there are.  In `GuiRefresh` a
member of `Threads` is one refresh thread, used again when it has ended.

*Feeds.*  In `Framing` a header is four bytes (magic number, class and type, size,
request id), each of which may be the magic number; in `LidarFrames` a byte is its
position, so that "right" means equal to its own; in `MessageSchema` a float is four
bytes of its own; in `Telemetry` a value is where it is and how wide.  In the file
modules a write is two steps, emptying and writing, with a kill possible between
them.  In `GuiSettings` a save is read, opened and written by the main thread or by
the callback thread (a logout), and one may write over the other; the fields are
changed by the user and by what the simulator answers.  In `GuiLogin` the search of
the process list may answer anything, `running` counts the simulators there are, and
`ourProcess` is what the program knows of its own.  In `RoutePlan` lengths and the
ten metres of penalty are whole numbers.

Some properties have an exception for a named race or failure, a history variable
that says "this has happened": `lateFrame` (a frame crossed a Stop, `LidarView`),
`metAnother`, `gap`, `overdue` (`DrivePanel`), `outrun`, `lateRuns`, `cameraEarly`,
`slipped` (`LaneTab`), `mixed` (`GuiRefresh`: items posted out of order, so
`ShownIsLatest` does not speak of that mixing), `lateLoss`, `refusedLoad`
(`SimGui`), `overtaken` (`SuiteLoad`), `cut`, `turnedAway` (`Playback`), `byHand`,
`dropped` (`BulkObjects`), `gone` (`ProtoClient`), `cuts`, `waited` (`Framing`),
`deserted` (`DemoSession`), `listMoved` (`CliConsole`), `excused` (`SavedState`), `hit`
(`SensorStreams`), `unbound`, `stray` (`CameraSlots`), `strayed` (`RoutePlan`),
`touched`, `emptied` (`GuiSettings`), `crossed`, `unsaved`, `forgotten`, `unwritten`
(`GuiLogin`).  Each is set by the step that makes the race, with a comment that says
what the code does then; the property states what holds but for it.

## 3. Runs

All runs are exhaustive.  `CHECK_DEADLOCK FALSE` is set everywhere because the
systems may stop for good: sockets and ids run out by the bounds, and a user
may do nothing.

| run | instance | shows |
|---|---|---|
| `console_connect` | 2 sockets, 1 AutoCaller with 1 call | `OneOpener`, `SameConnection`, `ConnectedIsServed` over two connections opened, closed and lost in every order; the one socket shown without a Receiver is the closed one of a `connect()` that a crossing loss made raise |
| `console_live` | 1 socket, 1 AutoCaller with 2 calls, 1 `dispatch`, 3 ids; fairness | `WaiterCovered`; `CallerEnds`: every AutoCaller ends |
| `console_reconnect` | 2 sockets; fairness; **violation** | `AttemptEnds` fails: see Findings |
| `demo_session` | 1 connection, 1 client, 2 requests; fairness | `NoLeakedEntry` (but for calls whose packing raised), `WaiterCovered`, the refinement of `RequestReply` (`ImplementsRequestReply`), `EveryCallReturns` |
| `demo_reconnect` | 2 connections, 1 request | `ClosedLinkReported`: a request whose socket was closed is still going to be failed by the thread that closed it, unless a `close()` has raised meanwhile |
| `step_ad` | 1 runner, a TCP vehicle and a UDP chaser, 3 steps; fairness | `OneStepInFlight`, `TcpInfoFresh`, `StopsSoon`, `LoopEnds` |
| `step_ad_failed` | 1 runner, 1 TCP vehicle; **violation** | `InfoOfThisStep` fails: see Findings |
| `step_ad_overlap` | 2 runners; **violation** | `SimulatorWaits` fails: see Findings |
| `panels` | 2 Plays, 2 loads, 2 players with 2 rows, 2 runners with 2 requests, 3 steps of a lane, pictures with marks at 6 places and curves kept for 2 of them, 2 driving runs, 3 events of the lane tab; fairness | `OneArmedTimer`, `CounterReachable`, `StopIsFinal` (clock), `AnswerSettles` (suite), `DrivesInStep` (playback), `ControlsRight` (path), `LaneKept` (lane and its detector), `DriveTabsTrue` (both tabs); `LoopsEnd` of all |
| `gui` | 2 tasks, 2 refresh threads, 4 requests; fairness | `WindowSettles`, `ShownIsLatest`, `AnswersKept`; `TasksEnd` |
| `feeds` | see the bounds below; no fairness | `PiecesJoined`, `FramesKept`, `NoChunkTwice`, `BytesRead`, `ViewSettles`, `ReceiversTrue`, `TablesAreTrue`, `StateRestored`, `SettingsKept`, `LoginTrue`, `FormsKept`, `RoutesRight`, `CliDriven` |
| `lidar_dropped` | 1 receiver, 2 frames; **violation** | `DropIsSuperseded` fails: see Findings |

`panels`, `gui` and `feeds` each put modules side by side that share no state in
the model: what connects them in the program (an answer, a loss, a datagram, a
file) is the environment of each.  One variable (`panel`, `window`, `feed`) is
chosen at the start and says which module moves; the others stay in one of their
initial states.  So the state space is the sum of those of the modules, not their
product, and nothing is lost, as interleaving independent modules shows nothing
about either.  `LoopsEnd` and `TasksEnd` say of the module that moves that what it
owes (`Owing`) comes about (`Settled`): one temporal property instead of one for
each module, which TLC would have to check on all of them.

In `panels`, `LaneKept` is `LaneDriven` (`LaneDrive`) and `LaneFound` (`LaneDetect`),
`DriveTabsTrue` is `DriveTabTrue` (`DrivePanel`) and `LaneTabTrue` (`LaneTab`).
A combined property of `feeds` is the conjunction of those of the modules it is
about: `PiecesJoined` is `StreamKept` (packets) and `PicturesWhole` (camera
pictures, both `Framing`), `BytesRead` is `PayloadsRead` (`TcpPayloads`),
`CamerasRead` (`CameraPayloads`) and `TelemetryRead`, `ReceiversTrue` is `StreamsTrue` and
`SlotsTrue`, `StateRestored` is `PanelsRestored`, `TabsRestored` (`SavedState`),
`FieldsRestored` (`PanelFields`) and `WindowKept` (`ConsoleWindow`), `LoginTrue` is
`LoginSettles` and `HashAgreed` (`GuiLogin`), `FormsKept` is `ControlsKept`
(`UdpControl`) and `VehiclesKept` (`VehicleForms`), `RoutesRight` is `RouteRight` and
`FollowRight` (`RoutePlan`).

### Bounds, and why they are enough

* `Socks`, `Conns`: two.  An attribute can be current for one connection or
  stale from an earlier one; two members give every such pair.  Liveness runs
  have one, because each thread's progress argument is about itself.
* `MaxRid`, `MaxDispatch`, `MaxCalls`: request ids a behaviour may use.  Ids are
  never reused, so a third one meets no situation the second did not meet
  (an earlier request answered, released, given up or still in the table).
  `MaxCalls` is a parameter of the code, small here.
* `MaxStep`: 2 or 3 executed steps.  Information is fresh or stale relative to
  the last step; two steps produce the staleness, the third a round in between.
* `Vehicles` of `StepAd`: one of each kind of wait (TCP and UDP), so that the
  `for` loops have an order and one vehicle can fail while the other succeeds.
* `Plays`, `Loads`, `Players`, `Runners`, `Threads`, `MaxReceivers`, `MaxThreads`,
  `MaxSlotThreads`, `MaxRuns`, `MaxTasks`: two, what is current and what came
  before it; clicks and messages on a clock are not bounded.
* `Rows`, `MaxAsks`, `MaxControls`, `MaxSteps`: what a loop needs to go round
  once with an answer of this round and once with one that is late; in
  `LaneDrive` one step more than `MinDetGo`.
* `Pixels`, `MaxMiss` (lane detector): a curve on the road, off it, near its
  neighbour and too far from it, on either side; with `MaxMiss` 2 a curve is missed once,
  at the limit and beyond it.  `PictureWidth` and the other distances are the code's.
* `MaxTabEvents`, `MaxWaiting`, `Knobs` (lane tab): three Starts, frames or moves of
  a slider in any mix, so that a stopped runner's frame meets the next runner; one post
  that waits when a reset is posted; a slider whose default is the controller's and one
  whose default is not.
* `Sizes`, `Width`, `MaxPoints` (LiDAR): a frame of five equal chunks whose header
  spans two of them and whose points straddle chunk borders; a frame whose second
  chunk is shorter, so that the uniform test, the prefix rule and a hidden size
  all occur; a frame in one datagram with more points than `MaxPoints`.
  `MaxDatagrams` is 5: one frame completely, or parts of several.
* `Totals`, `PacketIds` (cameras): three pictures of two chunks, the third with
  the number of the first, as after a restart of the simulator.
* `Streams` (framing): sizes, request ids and payloads that hold the magic number,
  payloads that are empty, look like a header, or are of the largest size; two
  timeouts at any byte.
* `Seeds`, `MaxItems`, `MaxExtra`: what the fields of a message hold, lists of up
  to two items, payloads longer or shorter than the schema by up to four bytes.
* `MaxSessions`, `MaxKills`, `Programs`: a session that writes, one that reads what
  it wrote, a third that reads what the second made of it; one kill at any step;
  three programs for the hash, one of which may be killed.
* `Controls`, `Layouts`: the kinds of templates there are, a template that cannot be
  parsed and one without fields among them.
* `MapFiles`, `Trips`: every set of links out of ten between four nodes (two of one
  pair, a ring, two that change lane over others), with and without a node; ends
  that exist and one that does not.
* `Fields`, `MaxEdits`, `MaxSaves` (settings): a field that may hold anything and
  one that only the simulator can get wrong, besides one that holds only its own
  values; two saves before the last one, so that saves of both threads overlap.
* `MaxClicks`, `MaxQueued` (login): a login, a Start and a second Start or a logout in
  any order, of which two wait.
* `MaxNotes` (ProtoClient): notifications on the wire at a time; how many come in a
  call is not bounded.
* `MaxKeys`, `MaxCallers`, `MaxLinks` (console without a window): three keys, so that
  W, another W and a command meet; one reconnection.

The bounds only bound the instances; the theorems hold for all values.

### Fairness

Weak fairness of each thread's own steps: CPython runs every runnable thread,
and the waits of the code have timeouts, so "the wait expires" is a step the
thread can take.  A Receiver is fair only in what it does without the
simulator (`RxResp`, `RxQuit`, `RxFail`; in `DemoSession` everything but
`RxRecv`).  Nothing is assumed of the user, of the simulator or of the network:
no request has to be answered, no connection has to last.  In `panels` the
timer's, watchdog's, players', control loops' and the camera's own steps are fair,
and the item that gives Play back is shown; in `gui` the callback thread, the
worker, the refresh threads, the main thread's queue and a read of the client,
whose socket has a timeout.  `feeds` has no fairness: nothing in it waits for
something that must come.

## 4. Findings

* `console_reconnect` / `AttemptEnds` (`morai_interface_console_main.py:604`).
  `connect()`'s thread tests `self.receiver` and then calls `stop()` on it
  outside its `try`.  If `_on_disconnect` of the old Receiver clears the
  attribute in between, the thread dies with `_connecting` set, and every later
  click on Connect returns at once.  The message at line 718 says "Connection
  lost. Click Reconnect to retry."
* `step_ad_failed` / `InfoOfThisStep` (`runners/step_ad_runner.py:214`).  A
  failed GetVehicleInfo sets the vehicle's event like a success, and the
  information of an earlier step passes `event.wait(...) and ctx.latest is not
  None`.  `src/docs/lockstep-network-latency.md:59` describes the loop as
  finishing the VehicleInfo and the control of a step before the next FixedStep.
* `step_ad_overlap` / `SimulatorWaits` (`runners/step_ad_runner.py:192`).
  `stop()` does not set the event of the FixedStep.  After stop and start the
  old loop is still waiting, may be woken by its late acknowledgement and go
  through a whole round while the new loop steps the simulator.
* `lidar_dropped` / `DropIsSuperseded` (`panels/lidar_panel.py:180`).  The render
  worker clears the dirty flag together with the frame it drops while a texture is
  in flight, and nobody sets it again when that texture is applied.  If no frame
  and no drag follows, the tab keeps what it showed before.  The comment at line
  179 says the "frame can be dropped because the next render supersedes it".

Met while modelling and not the subject of a run:

* `panels/lane_control_panel.py`, `runners/lane_runner.py:113`: Start does not look
  whether there is a connection.  A lane runner made without one drives nothing, and
  Stop raises on the `None` socket before the runner is forgotten and the button
  reset: Start then does nothing until the program ends (`StopReaches` says so).
* The same tab: sliders moved before Start are not handed to the new runner, which
  uses the defaults of the code until a slider moves (`TuningTrue`); Start clicked
  before the reset of the last Stop is applied leaves a runner driving under
  "Stopped" (`ButtonTrue`).
* `morai_interface_console_main.py:697`: a loss clears `tcp_sock` and then `receiver`.
  If the next `connect()` publishes both in between, the second write takes its Receiver
  away, line 635 raises, and 669-675 leave the closed socket shown (`ConnectedIsServed`
  excepts it).  Lines 606-608 and 689-691 read `tcp_sock` twice and raise if a loss
  clears it in between.
* `demo/demo_session.py`: packing a value out of range raises `struct.error`, which line
  335 does not name, and the entry stays in the table until a loss or a `close()`
  (`NoLeakedEntry` excepts it).  A `close()` that meets a receiver not yet started raises
  at 139, and the requests it would have failed at 141 run into their timeouts
  (`ClosedLinkReported` excepts them).  A receiver that fails after a `close()` and a
  `connect()` clears `_running` of the new connection (367-368), whose receiver then
  ends quietly.
* `transport/proto_client.py:247` and 200: neither `call()` nor `receive()` has a deadline
  of its own; as each notification restarts the timeout of the socket, a call need
  not end while notifications keep coming (`TasksEnd` excepts that).
* `simulation_control_gui_main.py:1340`: a time status fills the window with
  whatever the simulator answered, the mode `UNKNOWN(n)` too; it is saved, and the
  next start refuses the file.  A logout saves in the callback thread: with a save
  of the main thread at the same time the file may be torn.
* The same file, 621: a tick that has found the last simulator ended may drop one just
  launched from `_headless_process`; where the search of the process list finds none (it
  knows two names, and only Windows) another Start starts a second one.  When a save of
  the preferences fails, a session file stays that the configuration does not name.
* `src/tests/test_scenario_control.py` calls `commands._register_scenario_play`,
  which `panels/commands.py` does not define (it has `_register_scenario_control`).
* A map file of version 1 is never read: its loader appends to what are
  dictionaries now (`LoadMap` fails for it), and the Sangam_Track map in the
  repository has no `global_info` file, so it gets that loader.
* `receivers/`: the wheel receiver reports the count a datagram claims with no
  wheels when it is cut; the reader with a template gives the rows that are whole,
  the fixed readers all or none; `run()` sets `running` after an earlier `stop()`.
* `panels/camera_sensor_panel.py`: the template of the boxes has no field of the
  count, so the template reader finds no rows.
* `transport/commands.py`: a docstring counts seven doubles, the schema is 36
  bytes; the direct senders in this file are called from nowhere.
* The console without a window ends with a traceback when something that is no
  number is typed at a prompt, when a value does not fit its field, or when the
  list of scenarios is replaced between the check of an index and its use; a lost
  connection shows only in a send that fails.

## 5. Proofs

Each theorem is for every value of the constants, from the constants' named
assumptions: the "None" values are not members of the sets they stand beside, the
bounds are naturals, the TCP vehicles are vehicles, the chunks of a frame are not
empty and hold a header, its points and one byte, there is a vehicle, a path visits
no point twice (where one crosses itself on a waypoint, the nearest waypoint is not
one), the wanted steering is within the limit, a lane seen from one side fits into
the picture, the sliders have defaults, no payload of a packet is longer than its
header may say, pictures have chunks and ids, the lists of scenarios are sequences
of names, a control template is a sequence of fields of known kinds, the first of a
set of templates is one of them.  Each proof shows `Init => IInv`, `IInv /\
[Next]_vars => IInv'` action by action, and then what follows from `IInv`. The
theorems are about each module's own specification; a run of `panels`, `gui` or
`feeds` lets one of them move and keeps the others still.

* **ConsoleTcp.**  `IInv` adds to the properties: where the event of an id can be
  (`EventsMatchTable`), that ids are issued once (`RidsIssued`), that from dropping
  the old Receiver until making its own a `connect()` thread is the only one that
  touches `receiver` (`OpenerOwnsReceiver`), where a thread inside `_on_disconnect`
  is (`LossHandlers`), and how the current socket is served at each point of its
  life (`CurrentServed`; it may be a closed one without a Receiver, if an earlier
  loss cleared `receiver` in the middle of a `connect()`).  `SameConnection` is not
  inductive without `OpenerOwnsReceiver`: a state in which a connecting thread finds
  a Receiver of another socket would break it in one step.  `ConnectedIsServed`
  follows from `CurrentServed`; that an event is never set twice
  (`NoSecondCompletion`) from `EventsMatchTable`.
* **DemoSession.**  `IInv` adds `IdsIssued` (one call per id), `HeldMatches` (what a
  thread holds is what it is about to complete), `ReplyBeforeSignal` (a response is
  stored before its event is set) and `CallCovered`, which is `WaiterCovered` from
  the registration on.  The refinement theorem (`SessionKeepsPromise`) needs
  `ReplyBeforeSignal`: without it a woken call could return empty-handed, which is
  no step of `RequestReply`. `ClosedLinksReported` needs another invariant
  (`LinkInv`): the socket of the session and of each call was dialled, and a call
  that waits on a link which is closed has a thread that has still to take its
  entry, or a `close()` has raised meanwhile (`deserted`).  An entry of a call that
  raised is in the table for no caller: that it is the only kind is in `IInv`.
* **StepAd.**  `IInv` adds `LossIsReal` (handlers of a loss run only when the
  connection is lost), `StepAccount` (when an event can be set with a FixedStep
  outstanding), `AnswersOfThisStep` (what the Receiver handles for a runner
  that has seen its step done belongs to that step), `StoredMatches`,
  `EventMeansFresh` and `StopAccount` (FixedSteps sent after a stop, by
  position in the loop).
* **ScenarioClock** (`PanelsProofs`).  `ClockIInv` adds `RxHolds` (from cancelling
  the old timer until starting the new one no timer is armed; the new counter event
  is made after the old one was set) and `CalmHolds` (what a Stop has set at each of
  its steps).  `OneArmedTimer` alone is not inductive: it does not exclude that a
  new event replaces one whose timer is still armed.
* **Panels** (`PanelsProofs`).  `LaneInv`: the streak the code counts is the one
  that was seen, and after the brake only the head of the loop is left.
  `DetectInv`: the counters of misses bound how old a remembered curve is and for
  how long a mark can be overlooked, as each lapse starts them again.  `AdInv`: by
  position in the round, which request is open, whether its answer was taken and
  which was used last.  `SuiteInv`: by the sender's position, what the table may
  hold, and which text is still to come from whom.  `PlayInv`: who may hold the
  player's place, which reply belongs to which row, and how much each step may still
  send after a Stop.  `TabInv`: a run that drives is listed, being made or told to
  stop; Start is off while a run is listed, or a reset or an end is on its way; rows
  show listed runs.  `LaneTabInv`: an old picture, or a Start that is off without a
  runner, has a reset on its way; while raw frames are held back, a raw one that
  waits has another frame or a reset behind it; only the runner of main has threads
  that were not told to stop, but for a camera told before it listened.
* **GUI** (`GuiProofs`).  `RefreshInv`: the name shown last, after what is
  queued, is that of the thread that fetched last, or it is about to post it.
  `ProtoInv`: ids are issued upwards, and what is owed is with the simulator or
  on the wire as long as the stream is in step.  `GuiInv`: a text that stands
  for something under way has its end in the task that is left, in the queue
  behind it, or nobody has shown it yet; this is a statement about the order in
  a queue (`Followed`) and in the rest of a task (`InTodo`, `Ordered`), kept by
  every post, show and step of a task.
* **Feeds** (`FeedsProofs`).  `BulkInv` ties each id in a table to the state of its
  request; `SettingsInv` says that what is on disk, what each of the two saves holds
  and what the window shows is out of its range only in the fields that come in
  unchecked; `CliInv` that every AutoCaller but the current one was told to stop and
  works on a closed socket; `ViewInv` that a texture in flight, the render thread or
  the dirty flag still carries what is not shown yet; `StreamInv` and `SlotInv`
  which threads of a stream or a slot may run and be shown; `LoginInv`, unless a
  logout or a kill crossed a task, what each step of a login knows of tokens and
  session file; `SimulatorInv` that the simulator which runs is the one of
  `_headless_process`, unless one was lost from sight, and that no start is under
  way beside it; `HashInv` that the hashes the programs hold are the one in the
  file.  `ControlInv` (UDP Control): the cache while the console runs, and the file
  while it does not, give each template what the user left in it, and nothing is
  torn but while it is written; a datagram has the fields of its template.
  `FormInv` (lists of vehicles): the file between two writes is what was kept, and
  `KeptComesBack` shows that reading it gives that list again.
* **Readers of data** (`ReadersProofs`).  What these modules keep or hand on is
  computed by functions over lists, so their proofs have two halves: what the
  function computes for every list, and an invariant that says which list it is
  applied to.  The functions are recursive ones over an interval.  Induction is used
  on a set of naturals (`Induct`, from the least number outside it, `LeastNatural`),
  and that a recursive function has a value at all is built up number by number
  (`Recursion`, `RecursionUpTo`): neither needs a rule with an operator as a parameter.
  - `PanelsStayRestored`: `SavedInv` says that the files give each panel what it
    showed or saved, but for those a kill or a save of the shared legacy file excused.
  - `TabsStayRestored` (monitor tabs): `TabsInv` relates, at each entry the start
    has still to read, the tabs that are open, those of the file that are left, and
    the file that is rewritten on the way; `OpenedUpTo` is followed entry by entry.
  - `FieldsStayRestored` (fields of a panel): every input shows something its kind
    can show, what is written is what is shown, and reading that gives it again but
    for the values `Expected` names (`ShownIsRead`); what is read of a file depends on
    the fields that stand before only where one of them raises.
  - `WindowStaysKept`: rows packed up to n hold the first n buttons, each in
    its place; each row fits, and the first button of the next one does not fit behind
    it (`PackedWell`, by the number of buttons); `WindowInv` ties the file, what
    is typed and the connection to what the window shows.
  - `StateStaysRestored` puts these four together: the property the run checks.
  - `ChunksPublishedOnce`, `FramesStayKept` (LiDAR): `IInv` says that the chunks
    published and assembled have arrived, and that the assembly is disjoint from
    every packet of its frame; `Assembled` says that an assembly in which the chunks
    are of one size has each of them in its place.  `FramesKept` follows from what
    `RunPoints` reads out of a row of bytes, whose lengths add up over the chunks
    (`Starts`).
  - `RouteStaysRight` (`RouteRight`): the reference, the least costs over at most k
    links, is a recursive function of which Bellman's equations are proved
    (`LeastCostsAre`).  `Searching` is the invariant of the search: no cost that was
    found can be lowered over a node that was selected, and none of the others is
    nearer than these.  From it no walk, by the number of its links, is cheaper than
    what was found (`FoundIsLeast`), and what was found is a walk (`FoundIsAWalk`).
    `RouteInv` adds the way back and the links that were taken.  Infinity is a number
    in the model; `RouteAssumption` says that no route of the map costs as much, and
    `SumsAreFinite` that the sums the planner makes do not either.
  - `PathStaysFollowed` (`FollowRight`): the window of the search on the path, its
    wrap at the end of a closed path, and that the nearest waypoint of it is taken.
  - `RoutesStayRight` puts these two together: the property the run checks.

* **What comes in pieces** (`FramingProofs`, with the lemmas on induction of
  `ReadersProofs`).
  - `StreamStaysKept` (`StreamKept`): the bytes of a connection are those of its
    packets, one behind the other (`StreamIs`: where each begins, by the number of the
    packet).  `ReadInv` says where the reader is: at a packet of which all that came is in
    the buffer (`InPacket`), or in one that a timeout cut (`InTorn`), where it skips
    what is left, as none of it can begin a header.  What was returned is then the
    packets before that no timeout cut, in order.  Nothing is assumed of the packets
    but that their payloads are not longer than a header may say: sizes, request ids
    and payloads may hold the magic number.  `Clean` excuses such a byte only where it is
    behind a timeout in its packet (`cuts`): a request id 77 is read as it should be
    unless a timeout falls into the header before it.
  - `PicturesStayWhole` (`PicturesWhole`): `NetworkInv` says that on a network that keeps
    the order the next datagram was sent after all that arrived; `AsmInv` that what is
    assembled is of one packet id, from which `NoMixture` follows on any network.
    `OrderedInv` adds which pictures were delivered how often (`PictureIs`): one of which
    every chunk came once, the others never, and the latest one is what is assembled
    unless it came behind a picture with the same id (`TwinBefore`).
  - `PiecesStayJoined` puts these two together: the property the run checks.

`PROJECT.json` "theorems" lists the results by name.

### Only model-checked

* Liveness (`CallerEnds`, `EveryCallReturns`, `LoopEnds`, `LoopsEnd`, `TasksEnd`) is
  beyond the prover, which handles neither fairness nor `ENABLED`.
* `BytesRead` says what readers compute from the bytes of payloads, pictures and
  datagrams: packing and unpacking by tables of messages, a search for markers, a
  template applied row by row.  Their samples are enumerated, not their properties
  proved: each value is the result of a long chain of folds over sequences of bytes.

## 6. What is not modelled

* The ROS2 runner (its threads are those of a ROS installation), the interactive
  program for `DemoSession` (a loop over calls of the modelled library), the
  scripts under `src/tools/`.
* `StepAdRunner`'s Variable mode, which never steps the simulator; control laws,
  cruise control, the pixels of a lane: floating-point geometry and pictures.
* Drawing, the layout of values, colours, logging.
* In a LiDAR frame: widths and point steps out of range, `is_dense`, the loss
  ratio, the reuse of packet numbers by the sender.
* In a map: planes, regulations, attributes no caller reads, the writing of maps,
  the drawing of a lane change (`draw_lange_change`).
* In the launcher: the check of the simulator's path before a start, and in the driving
  tab: one vehicle id typed in two rows, which share a row of values
  (`panels/autonomous_panel.py:462`).
* A save of `UdpControl` that the UI queue asks for while a callback saves: they are
  taken one after the other.
* Pause, Prev and Next of the command panel and the control of single objects,
  which each send one request.
* The simulator, the login service and the network: environments that may answer,
  answer late, fail or vanish.

## 7. Plan

Done: all modules of section 2 with their runs and the proofs of section 5.  Left,
by importance:

1. More of what is left aside in the parts marked "partly": the single-object
   controls, the remaining MGeo classes, the Variable mode of `StepAdRunner`.
