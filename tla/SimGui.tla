------------------------------- MODULE SimGui -------------------------------
(***************************************************************************)
(* The main window of the simulation control GUI.  Clicks are queued by    *)
(* the main thread while it renders, and handled one after the other by    *)
(* DearPyGui's callback thread, which starts a worker for each task; the   *)
(* worker, and a thread that polls the simulation time, post to the UI     *)
(* queue what the main thread then shows.  The flag of a running task is   *)
(* under a lock, the texts, the buttons and the session are not.           *)
(*                                                                         *)
(* Every task that is one request, and shows its result, is "other".  The  *)
(* session is DemoSession's: a request fails without a connection, and may *)
(* fail with one.                                                          *)
(***************************************************************************)
EXTENDS Naturals, Sequences

CONSTANTS MaxTasks,   \* bound: how often the user clicks
          MaxClicked  \* bound: clicks not handled yet

VARIABLES
  clicked, clicks, \* callbacks queued by DearPyGui; how many clicks there were
  cb,             \* the callback thread, in _start_task
  taskRunning,    \* _task_running
  worker,         \* what the worker has still to do, and the state it was told
  leaving,        \* workers that have reset the flag and post a last time
  uiQueue, drawn, \* the UI queue, and where the main thread is in an item of it
  buttons,        \* which are enabled: of all tasks, of those that need a link
  link,           \* session.is_connected
  shown,          \* the texts of connection, suite and simulator
  simulatorState, suiteLoaded,  \* _simulator_state, _suite_loaded
  poll,           \* _poll_simulation_time's thread
  refusedLoad, lateLoss  \* history: a Load was refused after its preparation;
                         \* a poll reported a loss after the next connection

guiHistory == <<refusedLoad, lateLoss>>
guiVars == <<clicked, clicks, cb, taskRunning, worker, leaving, uiQueue, drawn, buttons, link,
             shown, simulatorState, suiteLoaded, poll, guiHistory>>

Tasks  == {"connect", "disconnect", "load", "query", "shutdown", "other"}
States == {"PRE_LOGIN", "READY"}
Item(kind, s) == [kind |-> kind, state |-> s]
Text(kind) == Item(kind, "READY")
NoCall == [at |-> "idle", task |-> "other", busy |-> FALSE, link |-> FALSE]
NoDraw == [at |-> "idle", busy |-> FALSE, link |-> FALSE]
NoWork == [todo |-> <<>>, told |-> "READY"]

GuiTypeOK ==
  /\ clicked \in Seq(Tasks) /\ clicks \in 0..MaxTasks
  /\ cb \in [at : {"idle", "start", "apply", "configure", "launch"}, task : Tasks,
             busy : BOOLEAN, link : BOOLEAN]
  /\ taskRunning \in BOOLEAN /\ leaving \in Nat
  /\ worker.todo \in Seq(STRING) /\ worker.told \in States
  /\ uiQueue \in Seq([kind : STRING, state : States])
  /\ drawn \in [at : {"idle", "configure"}, busy : BOOLEAN, link : BOOLEAN]
  /\ buttons \in [task : BOOLEAN, link : BOOLEAN]
  /\ link \in BOOLEAN /\ suiteLoaded \in BOOLEAN
  /\ shown.connection \in {"Disconnected", "Connecting", "Connected"}
  /\ shown.suite \in {"-", "Loading", "Blocked", "Complete", "Failed"}
  /\ shown.simulator \in States \cup {"-", "Querying", "Failed"}
  /\ simulatorState \in States \cup {"None"}
  /\ poll \in {"none", "asking", "failed", "lost"}
  /\ refusedLoad \in BOOLEAN /\ lateLoss \in BOOLEAN

AsDisconnected(texts) == [texts EXCEPT !.connection = "Disconnected", !.simulator = "-"]

\* The start of the program, or a later moment of rest with a connection.
GuiInit ==
  /\ clicked = <<>> /\ clicks = 0 /\ cb = NoCall
  /\ taskRunning = FALSE /\ worker = NoWork /\ leaving = 0
  /\ uiQueue = <<>> /\ drawn = NoDraw /\ poll = "none"
  /\ refusedLoad = FALSE /\ lateLoss = FALSE
  /\ link \in BOOLEAN /\ buttons = [task |-> TRUE, link |-> link]
  /\ \E s \in States :
       LET texts == [connection |-> "Connected", suite |-> "-", simulator |-> s] IN
       IF link THEN simulatorState = s /\ shown = texts /\ suiteLoaded \in BOOLEAN
       ELSE simulatorState = "None" /\ shown = AsDisconnected(texts) /\ suiteLoaded = FALSE

-----------------------------------------------------------------------------
(* The tasks: what a worker does and posts, one after the other, and its   *)
(* end; every "ask" and "connect" may raise.                               *)

ConnectTask    == <<"close", "Connecting", "connect", "Connected", "ask", "Status", "end">>
DisconnectTask == <<"close", "Disconnected", "end">>
LoadTask       == <<"unload", "ask", "Status", "mayLoad", "ask", "loaded", "Complete", "end">>
QueryTask      == <<"Querying", "ask", "Status", "end">>
ShutdownTask   == <<"ask", "close", "Shutdown", "end">>
OtherTask      == <<"ask", "end">>
WorkOf(task) ==
  CASE task = "connect" -> ConnectTask [] task = "disconnect" -> DisconnectTask
    [] task = "load" -> LoadTask [] task = "query" -> QueryTask
    [] task = "shutdown" -> ShutdownTask [] OTHER -> OtherTask

-----------------------------------------------------------------------------
(* Clicks and the callback thread.                                         *)

\* Connect or Disconnect is shown; a disabled button takes no click.
Click(task) ==
  /\ clicks < MaxTasks /\ Len(clicked) < MaxClicked /\ drawn.at = "idle"
  /\ CASE task = "connect"    -> buttons.task /\ shown.connection # "Connected"
       [] task = "disconnect" -> buttons.task /\ shown.connection = "Connected"
       [] OTHER               -> buttons.link
  /\ clicked' = Append(clicked, task) /\ clicks' = clicks + 1
  /\ UNCHANGED <<cb, taskRunning, worker, leaving, uiQueue, drawn, buttons, link, shown,
                 simulatorState, suiteLoaded, poll, guiHistory>>

Blocked == ~link \/ simulatorState = "PRE_LOGIN"
\* _on_load_suite prepares the texts before the task is started.
HandleClick ==
  LET task == Head(clicked)  blocked == task = "load" /\ Blocked IN
  /\ cb.at = "idle" /\ clicked # <<>> /\ clicked' = Tail(clicked)
  /\ cb' = IF blocked THEN cb ELSE [cb EXCEPT !.at = "start", !.task = task]
  /\ shown' = IF task # "load" THEN shown
              ELSE [shown EXCEPT !.suite = IF blocked THEN "Blocked" ELSE "Loading"]
  /\ UNCHANGED <<clicks, taskRunning, worker, leaving, uiQueue, drawn, buttons, link,
                 simulatorState, suiteLoaded, poll, guiHistory>>

\* _start_task: the flag, the buttons, and then the worker.
StartTask ==
  /\ cb.at = "start"
  /\ cb' = IF taskRunning THEN NoCall ELSE [cb EXCEPT !.at = "apply"]
  /\ taskRunning' = TRUE
  /\ refusedLoad' = (refusedLoad \/ (taskRunning /\ cb.task = "load"))
  /\ UNCHANGED <<clicked, clicks, worker, leaving, uiQueue, drawn, buttons, link, shown,
                 simulatorState, suiteLoaded, poll, lateLoss>>
\* _apply_button_state reads the flag and the connection, and then configures.
ApplyOnStart ==
  /\ cb.at = "apply"
  /\ cb' = [cb EXCEPT !.at = "configure", !.busy = taskRunning, !.link = link]
  /\ UNCHANGED <<clicked, clicks, taskRunning, worker, leaving, uiQueue, drawn, buttons, link,
                 shown, simulatorState, suiteLoaded, poll, guiHistory>>

Enabled(seen) == [task |-> ~seen.busy, link |-> seen.link /\ ~seen.busy]
ConfigureOnStart ==
  /\ cb.at = "configure" /\ cb' = [cb EXCEPT !.at = "launch"] /\ buttons' = Enabled(cb)
  /\ UNCHANGED <<clicked, clicks, taskRunning, worker, leaving, uiQueue, drawn, link, shown,
                 simulatorState, suiteLoaded, poll, guiHistory>>
LaunchWorker ==
  /\ cb.at = "launch" /\ cb' = NoCall
  /\ worker' = [NoWork EXCEPT !.todo = WorkOf(cb.task)]
  /\ UNCHANGED <<clicked, clicks, taskRunning, leaving, uiQueue, drawn, buttons, link, shown,
                 simulatorState, suiteLoaded, poll, guiHistory>>

-----------------------------------------------------------------------------
(* The worker.                                                             *)

NextIs(kinds) == worker.todo # <<>> /\ Head(worker.todo) \in kinds
Done == [worker EXCEPT !.todo = Tail(worker.todo)]
Posted(item) == uiQueue' = Append(uiQueue, item)

\* A request or connect raises; run() posts _handle_task_error.
Raise ==
  /\ NextIs({"ask", "connect"}) /\ worker' = [worker EXCEPT !.todo = <<"end">>]
  /\ Posted(Text("Error"))
  /\ UNCHANGED <<clicked, clicks, cb, taskRunning, leaving, drawn, buttons, link, shown,
                 simulatorState, suiteLoaded, poll, guiHistory>>
Ask(told) ==
  /\ NextIs({"ask"}) /\ link /\ worker' = [Done EXCEPT !.told = told]
  /\ UNCHANGED <<clicked, clicks, cb, taskRunning, leaving, uiQueue, drawn, buttons, link, shown,
                 simulatorState, suiteLoaded, poll, guiHistory>>
SetLink ==
  /\ NextIs({"close", "connect"}) /\ worker' = Done /\ link' = (Head(worker.todo) = "connect")
  /\ UNCHANGED <<clicked, clicks, cb, taskRunning, leaving, uiQueue, drawn, buttons, shown,
                 simulatorState, suiteLoaded, poll, guiHistory>>
SetLoaded ==
  /\ NextIs({"unload", "loaded"}) /\ worker' = Done
  /\ suiteLoaded' = (Head(worker.todo) = "loaded")
  /\ UNCHANGED <<clicked, clicks, cb, taskRunning, leaving, uiQueue, drawn, buttons, link, shown,
                 simulatorState, poll, guiHistory>>
\* In PRE_LOGIN the load is given up, with the reason as the suite's text.
MayLoad ==
  /\ NextIs({"mayLoad"})
  /\ IF worker.told = "PRE_LOGIN"
     THEN worker' = [worker EXCEPT !.todo = <<"end">>] /\ Posted(Text("Blocked"))
     ELSE worker' = Done /\ UNCHANGED uiQueue
  /\ UNCHANGED <<clicked, clicks, cb, taskRunning, leaving, drawn, buttons, link, shown,
                 simulatorState, suiteLoaded, poll, guiHistory>>

Texts == {"Connecting", "Connected", "Disconnected", "Status", "Complete", "Querying", "Shutdown"}
PostText ==
  /\ NextIs(Texts) /\ worker' = Done /\ Posted(IF NextIs({"Status"}) THEN Item("Status", worker.told) ELSE Text(Head(worker.todo)))
  /\ UNCHANGED <<clicked, clicks, cb, taskRunning, leaving, drawn, buttons, link, shown,
                 simulatorState, suiteLoaded, poll, guiHistory>>

\* Mutant: the buttons are posted first, and then the flag is reset.
EndTaskPosted ==
  /\ NextIs({"end"})
  /\ IF leaving = 0
     THEN leaving' = 1 /\ Posted(Text("Buttons")) /\ UNCHANGED <<worker, taskRunning>>
     ELSE leaving' = 0 /\ worker' = NoWork /\ taskRunning' = FALSE /\ UNCHANGED uiQueue
  /\ UNCHANGED <<clicked, clicks, cb, drawn, buttons, link, shown, simulatorState,
                 suiteLoaded, poll, guiHistory>>
\* run's finally: the flag, and then the buttons.
EndTask ==
  /\ NextIs({"end"}) /\ worker' = NoWork /\ taskRunning' = FALSE /\ leaving' = leaving + 1
  /\ UNCHANGED <<clicked, clicks, cb, uiQueue, drawn, buttons, link, shown, simulatorState,
                 suiteLoaded, poll, guiHistory>>
PostButtons ==
  /\ leaving > 0 /\ leaving' = leaving - 1 /\ Posted(Text("Buttons"))
  /\ UNCHANGED <<clicked, clicks, cb, taskRunning, worker, drawn, buttons, link, shown,
                 simulatorState, suiteLoaded, poll, guiHistory>>

-----------------------------------------------------------------------------
(* The main thread: drain and tick.                                        *)

\* _apply_simulator_status leaves a text alone that shows the state already.
\* Mutant: it looks at the state only.
ApplyStatusByState(s) ==
  /\ simulatorState' = s
  /\ shown' = IF simulatorState = s THEN shown ELSE [shown EXCEPT !.simulator = s]
ApplyStatus(s) ==
  /\ simulatorState' = s
  /\ shown' = IF simulatorState = s /\ shown.simulator # "Querying" THEN shown
              ELSE [shown EXCEPT !.simulator = s]

ApplyDisconnected ==
  /\ suiteLoaded' = FALSE /\ simulatorState' = "None" /\ shown' = AsDisconnected(shown)

\* _handle_task_error
ApplyError ==
  LET texts == IF link THEN shown ELSE AsDisconnected(shown) IN
  /\ suiteLoaded' = (suiteLoaded /\ link)
  /\ simulatorState' = IF link THEN simulatorState ELSE "None"
  /\ shown' = [texts EXCEPT
       !.suite     = IF @ = "Loading" THEN "Failed" ELSE @,
       !.simulator = IF @ = "Querying" THEN "Failed" ELSE @]

\* The items that end with _apply_button_state, and the state it reads there.
Applies(item) ==
  \/ item.kind \in {"Connecting", "Connected", "Disconnected", "Shutdown", "Buttons"}
  \/ item.kind = "Error" /\ ~link
  \/ item.kind = "Status" /\ ~(simulatorState = item.state /\ shown.simulator # "Querying")

Drain ==
  LET item == Head(uiQueue) IN
  /\ drawn.at = "idle" /\ uiQueue # <<>> /\ uiQueue' = Tail(uiQueue)
  /\ drawn' = IF Applies(item) THEN [at |-> "configure", busy |-> taskRunning, link |-> link]
              ELSE drawn
  /\ CASE item.kind \in {"Connecting", "Connected"} ->
            shown' = [shown EXCEPT !.connection = item.kind] /\ UNCHANGED <<simulatorState, suiteLoaded>>
       [] item.kind \in {"Disconnected", "Shutdown"} -> ApplyDisconnected
       [] item.kind = "Error"  -> ApplyError
       [] item.kind = "Status" -> ApplyStatus(item.state) /\ UNCHANGED suiteLoaded
       [] item.kind = "Querying" ->
            shown' = [shown EXCEPT !.simulator = "Querying"] /\ UNCHANGED <<simulatorState, suiteLoaded>>
       [] item.kind \in {"Blocked", "Complete"} ->
            shown' = [shown EXCEPT !.suite = item.kind] /\ UNCHANGED <<simulatorState, suiteLoaded>>
       [] OTHER -> UNCHANGED <<shown, simulatorState, suiteLoaded>>
  /\ UNCHANGED <<clicked, clicks, cb, taskRunning, worker, leaving, buttons, link, poll, guiHistory>>
Configure ==
  /\ drawn.at = "configure" /\ drawn' = NoDraw /\ buttons' = Enabled(drawn)
  /\ UNCHANGED <<clicked, clicks, cb, taskRunning, worker, leaving, uiQueue, link, shown,
                 simulatorState, suiteLoaded, poll, guiHistory>>

\* _poll_simulation_time starts a thread unless one is in flight, ...
PollTime ==
  /\ drawn.at = "idle" /\ suiteLoaded /\ link /\ poll = "none" /\ poll' = "asking"
  /\ UNCHANGED <<clicked, clicks, cb, taskRunning, worker, leaving, uiQueue, drawn, buttons, link,
                 shown, simulatorState, suiteLoaded, guiHistory>>
\* ... which shows the time it is told, or looks whether the link is lost.
PollAnswered(ok) ==
  /\ poll = "asking" /\ poll' = IF ok THEN "none" ELSE "failed"
  /\ UNCHANGED <<clicked, clicks, cb, taskRunning, worker, leaving, uiQueue, drawn, buttons, link,
                 shown, simulatorState, suiteLoaded, guiHistory>>
PollFailed ==
  /\ poll = "failed" /\ poll' = IF link THEN "none" ELSE "lost"
  /\ UNCHANGED <<clicked, clicks, cb, taskRunning, worker, leaving, uiQueue, drawn, buttons, link,
                 shown, simulatorState, suiteLoaded, guiHistory>>
PollLost ==
  /\ poll = "lost" /\ poll' = "none" /\ Posted(Text("Disconnected"))
  /\ lateLoss' = (lateLoss \/ link)
  /\ UNCHANGED <<clicked, clicks, cb, taskRunning, worker, leaving, drawn, buttons, link,
                 shown, simulatorState, suiteLoaded, refusedLoad>>

\* The Receiver of the session loses the connection; it tells nobody here.
LoseLink ==
  /\ link /\ link' = FALSE
  /\ UNCHANGED <<clicked, clicks, cb, taskRunning, worker, leaving, uiQueue, drawn, buttons,
                 shown, simulatorState, suiteLoaded, poll, guiHistory>>

CallbackStep == HandleClick \/ StartTask \/ ApplyOnStart \/ ConfigureOnStart \/ LaunchWorker
WorkerStep == \/ Raise \/ SetLink \/ SetLoaded \/ MayLoad \/ PostText \/ EndTask
              \/ \E told \in States : Ask(told)
MainStep == Drain \/ Configure
PollStep == PollFailed \/ PollLost \/ \E ok \in BOOLEAN : PollAnswered(ok)
GuiNext == \/ CallbackStep \/ WorkerStep \/ PostButtons \/ MainStep \/ PollTime \/ PollStep \/ LoseLink
           \/ \E task \in Tasks : Click(task)

\* No thread waits for ever: a request and a connect have a timeout, and the
\* main thread drains the queue once a frame.
GuiFairness == WF_guiVars(CallbackStep) /\ WF_guiVars(WorkerStep) /\ WF_guiVars(PostButtons)
               /\ WF_guiVars(MainStep)
GuiSpec == GuiInit /\ [][GuiNext]_guiVars /\ GuiFairness

-----------------------------------------------------------------------------
(* Properties.                                                             *)

\* Nothing is running and nothing is left to be shown.
AtRest == /\ clicked = <<>> /\ cb.at = "idle" /\ ~taskRunning /\ leaving = 0
          /\ uiQueue = <<>> /\ drawn.at = "idle" /\ poll = "none"

\* At rest the buttons of the tasks are enabled, with a connection those of the
\* tasks that need one too: no reading of a flag that changed since stays.
ButtonsSettle == AtRest => buttons.task /\ (link => buttons.link)

\* At rest the suite's text is not "Loading...": every end of a load replaces
\* it, except of one that was prepared and then refused as Busy.
LoadingEnds == AtRest /\ ~refusedLoad => shown.suite # "Loading"

\* At rest the simulator's text is not "Querying...".
QueryingEnds == AtRest => shown.simulator # "Querying"

\* At rest an open connection is shown as connected, unless a poll of the time
\* looked before the next Connect and reported its loss after it.
LinkShown == AtRest /\ link /\ ~lateLoss => shown.connection = "Connected"

\* At rest the window is that of the state, whatever crossed on the way to it.
WindowSettles == ButtonsSettle /\ LoadingEnds /\ QueryingEnds /\ LinkShown

\* While a task runs, its end enables the buttons again.
ButtonsComeBack == taskRunning ~> buttons.task
=============================================================================
