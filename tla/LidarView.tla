------------------------------ MODULE LidarView ------------------------------
(***************************************************************************)
(* panels/lidar_panel.py: what the LiDAR tab shows.  A receive thread      *)
(* stores a frame in the panel's state, points first and the numbers of    *)
(* the statistics after them; a render thread, woken by a dirty flag,      *)
(* draws the points and posts the texture with the statistics, unless the  *)
(* texture before is still to be applied; the main thread applies it; the  *)
(* callback thread starts and stops receivers and moves the camera.  A     *)
(* frame stands for its points and its statistics, 0 for none.             *)
(***************************************************************************)
EXTENDS Naturals, Sequences

CONSTANTS MaxReceivers, MaxFrames, MaxViews   \* bounds: Starts, frames, changes of the view
ASSUME ViewAssumption == MaxReceivers \in Nat /\ MaxFrames \in Nat /\ MaxViews \in Nat

VARIABLES
  points, stats,   \* the frame whose points, and whose statistics, _state holds
  cameraView,      \* camera, range and colour mode: how often they changed
  rxNow,           \* _state.receiver, 0 for None
  rx,              \* the receive threads: whether running, in which step, with which frame
  frames,          \* frames received
  ui,              \* the step of the callback thread
  startEnabled,    \* the Start button; the status says Running when it is not
  wake,            \* RenderWorker._wake
  worker,          \* the render thread: its step and what it read
  inFlight,        \* _texture_in_flight
  uiQueue,         \* the textures posted
  screen,          \* the texture and the statistics shown
  renderDropped,   \* history: was what the render thread read last not posted?
  lateFrame        \* history: did a callback store a frame after its receiver was stopped?

viewVars == <<points, stats, cameraView, rxNow, rx, frames, ui, startEnabled, wake,
              worker, inFlight, uiQueue, screen, renderDropped, lateFrame>>

Receivers == 1..MaxReceivers
Drawn(p, v, s) == [points |-> p, view |-> v, stats |-> s]
Waiting == [at |-> "wait", points |-> 0, view |-> 0]

ViewInit ==
  /\ points = 0 /\ stats = 0 /\ cameraView = 0 /\ rxNow = 0 /\ frames = 0
  /\ rx = [r \in Receivers |-> [running |-> FALSE, at |-> "new", frame |-> 0]]
  /\ ui = "idle" /\ startEnabled = TRUE /\ wake = TRUE
  /\ worker = Waiting
  /\ inFlight = FALSE /\ uiQueue = << >> /\ screen = Drawn(0, 0, 0)
  /\ renderDropped = FALSE /\ lateFrame = FALSE

-----------------------------------------------------------------------------
(* The receive threads.                                                    *)

ThreadMoves(r, here, there) == rx[r].at = here /\ rx' = [rx EXCEPT ![r].at = there]

\* The port is taken: the thread ends, and nobody is told.
BindFails(r) ==
  /\ ThreadMoves(r, "bind", "gone")
  /\ UNCHANGED <<points, stats, cameraView, rxNow, frames, ui, startEnabled, wake, worker,
                 inFlight, uiQueue, screen, renderDropped, lateFrame>>
\* run() sets running itself, after a stop() that came before it as well.
Binds(r) ==
  /\ rx[r].at = "bind" /\ rx' = [rx EXCEPT ![r].at = "recv", ![r].running = TRUE]
  /\ UNCHANGED <<points, stats, cameraView, rxNow, frames, ui, startEnabled, wake, worker,
                 inFlight, uiQueue, screen, renderDropped, lateFrame>>
\* The inner loop reads on while datagrams come, stopped or not.
FrameComes(r) ==
  /\ rx[r].at = "recv" /\ frames < MaxFrames /\ frames' = frames + 1
  /\ rx' = [rx EXCEPT ![r].at = "points", ![r].frame = frames + 1]
  /\ UNCHANGED <<points, stats, cameraView, rxNow, ui, startEnabled, wake, worker,
                 inFlight, uiQueue, screen, renderDropped, lateFrame>>
StorePoints(r) ==
  /\ ThreadMoves(r, "points", "stats") /\ points' = rx[r].frame
  /\ lateFrame' = (lateFrame \/ r # rxNow)
  /\ UNCHANGED <<stats, cameraView, rxNow, frames, ui, startEnabled, wake, worker,
                 inFlight, uiQueue, screen, renderDropped>>
StoreStats(r) ==
  /\ rx[r].at = "stats" /\ rx' = [rx EXCEPT ![r].at = "recv", ![r].frame = 0]
  /\ stats' = rx[r].frame /\ wake' = TRUE
  /\ lateFrame' = (lateFrame \/ r # rxNow)
  /\ UNCHANGED <<points, cameraView, rxNow, frames, ui, startEnabled, worker,
                 inFlight, uiQueue, screen, renderDropped>>
ThreadEnds(r) ==
  /\ ThreadMoves(r, "recv", "gone") /\ ~rx[r].running
  /\ UNCHANGED <<points, stats, cameraView, rxNow, frames, ui, startEnabled, wake, worker,
                 inFlight, uiQueue, screen, renderDropped, lateFrame>>

-----------------------------------------------------------------------------
(* The callback thread.  _reset_stats clears the points first, then the    *)
(* rest; a callback that is under way may store its frame after it.        *)

Crossing == \E r \in Receivers : rx[r].at \in {"points", "stats"}

StartView ==
  /\ ui = "idle" /\ startEnabled /\ rxNow = 0
  /\ ui' = "startStats" /\ points' = 0 /\ lateFrame' = (lateFrame \/ Crossing)
  /\ UNCHANGED <<stats, cameraView, rxNow, rx, frames, startEnabled, wake, worker,
                 inFlight, uiQueue, screen, renderDropped>>
StartStats ==
  /\ ui = "startStats" /\ ui' = "idle" /\ stats' = 0 /\ lateFrame' = (lateFrame \/ Crossing)
  /\ startEnabled' = FALSE
  /\ \E r \in Receivers :
       /\ rx[r].at = "new" /\ \A q \in Receivers : q < r => rx[q].at # "new"
       /\ rx' = [rx EXCEPT ![r].at = "bind"] /\ rxNow' = r
  /\ UNCHANGED <<points, cameraView, frames, wake, worker, inFlight, uiQueue, screen, renderDropped>>

StopView ==
  /\ ui = "idle" /\ ui' = "stopStats" /\ rxNow' = 0
  /\ rx' = IF rxNow = 0 THEN rx ELSE [rx EXCEPT ![rxNow].running = FALSE]
  /\ points' = 0 /\ lateFrame' = (lateFrame \/ Crossing)
  /\ UNCHANGED <<stats, cameraView, frames, startEnabled, wake, worker, inFlight, uiQueue, screen, renderDropped>>
\* Mutant: Stop leaves the last frame on the screen.
StopStatsQuietly ==
  /\ ui = "stopStats" /\ ui' = "idle" /\ stats' = 0 /\ lateFrame' = (lateFrame \/ Crossing)
  /\ startEnabled' = TRUE
  /\ UNCHANGED <<points, cameraView, rxNow, rx, frames, wake, worker, inFlight, uiQueue, screen, renderDropped>>
StopStats ==
  /\ ui = "stopStats" /\ ui' = "mark" /\ stats' = 0 /\ lateFrame' = (lateFrame \/ Crossing)
  /\ startEnabled' = TRUE
  /\ UNCHANGED <<points, cameraView, rxNow, rx, frames, wake, worker, inFlight, uiQueue, screen, renderDropped>>

\* A drag, the wheel, a preset, the range, the colour mode.
ChangeView ==
  /\ ui = "idle" /\ ui' = "mark" /\ cameraView < MaxViews /\ cameraView' = cameraView + 1
  /\ UNCHANGED <<points, stats, rxNow, rx, frames, startEnabled, wake, worker,
                 inFlight, uiQueue, screen, renderDropped, lateFrame>>
MarkDirty ==
  /\ ui = "mark" /\ ui' = "idle" /\ wake' = TRUE
  /\ UNCHANGED <<points, stats, cameraView, rxNow, rx, frames, startEnabled, worker,
                 inFlight, uiQueue, screen, renderDropped, lateFrame>>

-----------------------------------------------------------------------------
(* RenderWorker._loop and _render_once.                                    *)

\* The flag is cleared before the state is read: what comes later sets it again.
TakeWake ==
  /\ worker.at = "wait" /\ wake /\ wake' = FALSE
  /\ worker' = [at |-> "check", points |-> points, view |-> cameraView]
  /\ UNCHANGED <<points, stats, cameraView, rxNow, rx, frames, ui, startEnabled,
                 inFlight, uiQueue, screen, renderDropped, lateFrame>>
CheckInFlight ==
  /\ worker.at = "check" /\ renderDropped' = inFlight
  /\ worker' = IF inFlight THEN Waiting ELSE [worker EXCEPT !.at = "post"]
  /\ UNCHANGED <<points, stats, cameraView, rxNow, rx, frames, ui, startEnabled, wake,
                 inFlight, uiQueue, screen, lateFrame>>
\* The statistics are those of the moment the texture is posted.
PostTexture ==
  /\ worker.at = "post" /\ worker' = Waiting
  /\ inFlight' = TRUE /\ uiQueue' = Append(uiQueue, Drawn(worker.points, worker.view, stats))
  /\ UNCHANGED <<points, stats, cameraView, rxNow, rx, frames, ui, startEnabled, wake,
                 screen, renderDropped, lateFrame>>

\* The main thread.
ApplyTexture ==
  /\ uiQueue # << >> /\ uiQueue' = Tail(uiQueue) /\ screen' = Head(uiQueue) /\ inFlight' = FALSE
  /\ UNCHANGED <<points, stats, cameraView, rxNow, rx, frames, ui, startEnabled, wake,
                 worker, renderDropped, lateFrame>>

RxStep(r) == Binds(r) \/ BindFails(r) \/ FrameComes(r) \/ StorePoints(r) \/ StoreStats(r)
             \/ ThreadEnds(r)
WorkerDraws == TakeWake \/ CheckInFlight \/ PostTexture
CallbackMoves == StartView \/ StartStats \/ StopView \/ StopStats \/ ChangeView \/ MarkDirty
ViewNext == (\E r \in Receivers : RxStep(r)) \/ CallbackMoves \/ WorkerDraws \/ ApplyTexture
ViewSpec == ViewInit /\ [][ViewNext]_viewVars

-----------------------------------------------------------------------------
(* Nothing is left to do: what is shown stays shown until something new    *)
(* comes.                                                                  *)
AtRest ==
  /\ ui = "idle" /\ worker.at = "wait" /\ ~wake /\ uiQueue = << >>
  /\ \A r \in Receivers : rx[r].at \in {"new", "bind", "recv", "gone"}

\* At most one texture waits to be applied, however long the main loop stalls.
OneTexture == Len(uiQueue) <= 1 /\ (uiQueue # << >> => inFlight)

\* The screen comes to rest at the last frame and the last view, with the
\* statistics of the same frame, and a stopped panel at no frame.  Two things
\* prevent it: the last render was dropped, or a callback stored its frame
\* across a Stop or a Start.
ViewSettles ==
  /\ OneTexture
  /\ AtRest /\ ~renderDropped /\ ~lateFrame =>
       /\ screen = Drawn(points, cameraView, stats) /\ points = stats
       /\ rxNow = 0 => points = 0

\* "this frame can be dropped because the next render supersedes it"
\* (_render_once): a panel at rest on a dropped render shows its points and
\* view all the same.
DropIsSuperseded ==
  AtRest /\ renderDropped /\ ~lateFrame =>
    screen.points = points /\ screen.view = cameraView
=============================================================================
