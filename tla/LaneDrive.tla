----------------------------- MODULE LaneDrive -----------------------------
(***************************************************************************)
(* LaneRunner of runners/lane_runner.py with the loop and the steering of  *)
(* LaneController, the thread of CameraReceiver, and start_lc / stop_lc of *)
(* main.  The loop takes the last frame the camera gave, however old, and  *)
(* sends a control; stop() tells the loop and the camera to end, sends the *)
(* brake and waits for neither.                                            *)
(*                                                                         *)
(* Of a frame, what LaneDetector makes of it matters: a lane with an       *)
(* offset, a lane of a bad width (offset NaN), none.  Steering is in       *)
(* thousandths, as are the rates; what the PD controller wants is one of   *)
(* WantedSteers, whatever it makes of the offset.  Of the throttle only    *)
(* whether the vehicle may move is kept.                                   *)
(***************************************************************************)
EXTENDS Integers

CONSTANTS WantedSteers,  \* outputs of PDController.compute, within SteerMax
          SteerMax,      \* steer_max
          SteerRate,     \* _STEER_RATE
          MinDetGo,      \* min_det_go
          MaxSteps       \* bound on the steps of the loop

ASSUME LaneAssumption ==
  /\ SteerMax \in Nat /\ SteerRate \in Nat /\ WantedSteers \subseteq -SteerMax..SteerMax
  /\ MinDetGo \in Nat \ {0} /\ MaxSteps \in Nat

Views == {"lane", "wide", "none"}
NoFrame == "no frame"

VARIABLES
  lane,        \* the runner: "none", "running", "controller" and "camera" while
               \* stop() tells them, "brake" before the brake, "stopped"
  loopRuns,    \* _running of the controller
  loop,        \* "head", "step" with a frame in hand, "send", "ended"
  view,        \* the frame in hand
  lastView,      \* _latest_frame
  camRuns,     \* running of the CameraReceiver
  cam,         \* its thread: "started" before run() sets running, "up", "ended"
  steer,       \* _last_steer
  lost,        \* _no_det_cnt
  invalid,     \* _no_valid_cnt
  streak,      \* _det_streak
  ready,       \* _ready
  laneLink,    \* the connection: "up", "lost", or "none" if tcp_sock was None at Start
  steps,
  seen,        \* history: steps in a row with a lane, and the longest of them
  longest,
  afterBrake   \* history: controls sent after the brake

laneVars == <<lane, loopRuns, loop, view, lastView, camRuns, cam, steer, lost, invalid, streak,
              ready, laneLink, steps, seen, longest, afterBrake>>
steerVars == <<steer, lost, invalid, streak, ready, seen, longest>>

LaneTypeOK ==
  /\ lane \in {"none", "running", "controller", "camera", "brake", "stopped"}
  /\ loopRuns \in BOOLEAN /\ loop \in {"none", "head", "step", "send", "ended"}
  /\ view \in Views /\ lastView \in Views \cup {NoFrame}
  /\ camRuns \in BOOLEAN /\ cam \in {"none", "started", "up", "ended"}
  /\ steer \in Int /\ {lost, invalid, streak, seen, longest} \subseteq 0..MaxSteps
  /\ ready \in BOOLEAN /\ laneLink \in {"up", "lost", "none"} /\ steps \in 0..MaxSteps /\ afterBrake \in Nat

LaneInit ==
  /\ lane = "none" /\ loopRuns = FALSE /\ loop = "none" /\ view = "none" /\ lastView = NoFrame
  /\ camRuns = FALSE /\ cam = "none" /\ steer = 0
  /\ lost = 0 /\ invalid = 0 /\ streak = 0 /\ ready = FALSE /\ laneLink \in {"up", "none"}
  /\ steps = 0 /\ seen = 0 /\ longest = 0 /\ afterBrake = 0

-----------------------------------------------------------------------------
(* The panel: start_lc and stop_lc.                                        *)

StartLc ==
  /\ lane = "none" /\ lane' = "running" /\ cam' = "started" /\ loopRuns' = TRUE /\ loop' = "head"
  /\ UNCHANGED <<view, lastView, camRuns, steerVars, laneLink, steps, afterBrake>>

StopLc ==
  /\ lane = "running" /\ lane' = "controller"
  /\ UNCHANGED <<loopRuns, loop, view, lastView, camRuns, cam, steerVars, laneLink, steps, afterBrake>>
StopController ==
  /\ lane = "controller" /\ lane' = "camera" /\ loopRuns' = FALSE
  /\ UNCHANGED <<loop, view, lastView, camRuns, cam, steerVars, laneLink, steps, afterBrake>>
StopCamera ==
  /\ lane = "camera" /\ lane' = "brake" /\ camRuns' = FALSE
  /\ UNCHANGED <<loopRuns, loop, view, lastView, cam, steerVars, laneLink, steps, afterBrake>>
\* A connection that is lost is passed over; without one the send raises, and main
\* keeps the runner.
SendBrake ==
  /\ lane = "brake" /\ lane' = IF laneLink = "none" THEN "running" ELSE "stopped"
  /\ UNCHANGED <<loopRuns, loop, view, lastView, camRuns, cam, steerVars, laneLink, steps, afterBrake>>

-----------------------------------------------------------------------------
(* The camera's thread.                                                    *)

\* run() binds and sets running, whatever stop() has set before.
CameraUp ==
  /\ cam = "started" /\ cam' = "up" /\ camRuns' = TRUE
  /\ UNCHANGED <<lane, loopRuns, loop, view, lastView, steerVars, laneLink, steps, afterBrake>>
\* on_frame; a stop is seen at the latest when select() ends, after 0.5 s.
Frame(v) ==
  /\ cam = "up" /\ lastView' = v
  /\ UNCHANGED <<lane, loopRuns, loop, view, camRuns, cam, steerVars, laneLink, steps, afterBrake>>
CameraEnds ==
  /\ cam = "up" /\ ~camRuns /\ cam' = "ended"
  /\ UNCHANGED <<lane, loopRuns, loop, view, lastView, camRuns, steerVars, laneLink, steps, afterBrake>>

-----------------------------------------------------------------------------
(* _loop and _step of the controller.                                      *)

\* Mutant: the loop ends only with its connection.
LoopHeadOn ==
  /\ loop = "head" /\ steps < MaxSteps
  /\ IF lastView # NoFrame THEN loop' = "step" /\ view' = lastView /\ steps' = steps + 1
     ELSE UNCHANGED <<loop, view, steps>>
  /\ UNCHANGED <<lane, loopRuns, lastView, camRuns, cam, steerVars, laneLink, afterBrake>>
LoopHead ==
  /\ loop = "head" /\ (loopRuns => steps < MaxSteps)
  /\ IF ~loopRuns THEN loop' = "ended" /\ UNCHANGED <<view, steps>>
     ELSE IF lastView # NoFrame THEN loop' = "step" /\ view' = lastView /\ steps' = steps + 1
     ELSE UNCHANGED <<loop, view, steps>>
  /\ UNCHANGED <<lane, loopRuns, lastView, camRuns, cam, steerVars, laneLink, afterBrake>>

Least(a, b) == IF a < b THEN a ELSE b
Most(a, b) == IF a > b THEN a ELSE b
Clip(x, low, high) == Least(Most(x, low), high)

\* The steps a lane with an offset allows; after frames without one, in which
\* the steering was held or decayed, the rate up is raised and the rate down cut.
RateUp == IF invalid > 0 THEN SteerRate + (SteerRate * Least(invalid * 40, 2000)) \div 1000 ELSE SteerRate
RateDown == IF invalid > 0 THEN (SteerRate * 3) \div 10 ELSE SteerRate
Steered(wanted) == Clip(wanted, steer - RateDown, steer + RateUp)

\* Without a lane the steering goes back towards 0.  \div rounds down.
Decay(n) == Most(985 - n, 975)
Decayed(n) == IF steer >= 0 THEN (steer * Decay(n)) \div 1000 ELSE -((-steer * Decay(n)) \div 1000)

Streak == IF view = "none" THEN 0 ELSE streak + 1

Detect ==
  /\ loop = "step" /\ loop' = "send" /\ streak' = Streak
  /\ ready' = (ready \/ (view # "none" /\ Streak >= MinDetGo))
  /\ lost' = IF view = "none" THEN lost + 1 ELSE 0
  /\ invalid' = IF view = "lane" THEN 0 ELSE invalid + 1
  /\ \/ view = "lane" /\ \E wanted \in WantedSteers : steer' = Steered(wanted)
     \/ view = "wide" /\ steer' = steer
     \/ view = "none" /\ steer' = Decayed(lost + 1)
  /\ seen' = IF view = "none" THEN 0 ELSE seen + 1
  /\ longest' = Most(longest, seen')
  /\ UNCHANGED <<lane, loopRuns, view, lastView, camRuns, cam, laneLink, steps, afterBrake>>

\* Throttle once ready, the brake before; a send that raises ends the loop, or its
\* thread if there was no connection.
SendLane ==
  /\ loop = "send"
  /\ loop' = IF laneLink = "up" THEN "head" ELSE "ended"
  /\ loopRuns' = (loopRuns /\ laneLink # "lost")
  /\ afterBrake' = IF laneLink = "up" /\ lane = "stopped" THEN afterBrake + 1 ELSE afterBrake
  /\ UNCHANGED <<lane, view, lastView, camRuns, cam, steerVars, laneLink, steps>>

LaneLinkLost ==
  /\ laneLink = "up" /\ laneLink' = "lost"
  /\ UNCHANGED <<lane, loopRuns, loop, view, lastView, camRuns, cam, steerVars, steps, afterBrake>>

LoopGoes == LoopHead \/ Detect \/ SendLane
LaneNext ==
  \/ StartLc \/ StopLc \/ StopController \/ StopCamera \/ SendBrake \/ CameraUp \/ CameraEnds \/ LaneLinkLost
  \/ LoopGoes \/ \E v \in Views : Frame(v)

\* The threads run; stop() goes through.
LaneSpec == LaneInit /\ [][LaneNext]_laneVars
  /\ WF_laneVars(LoopGoes) /\ WF_laneVars(CameraUp) /\ WF_laneVars(CameraEnds)
  /\ WF_laneVars(StopController \/ StopCamera \/ SendBrake)

-----------------------------------------------------------------------------
(* Properties.                                                             *)

\* The steering stays within the limit of the PD controller through every rate
\* limit, hold and decay.
SteerBounded == steer \in -SteerMax..SteerMax

\* The vehicle is let go only after MinDetGo steps in a row that saw a lane.
ReadyAfterLanes == ready => longest >= MinDetGo

\* After the brake of stop() one control at most, of the step in progress: it
\* can undo the brake.
OneAfterBrake == afterBrake <= 1

\* What the lane controller may never do: steer beyond its limit, set off without
\* a lane, or drive on after the brake.
LaneDriven == SteerBounded /\ ReadyAfterLanes /\ OneAfterBrake

\* After stop() the loop and the camera's thread end, unless stop() came before
\* run() had set running.
LaneIsOver == loop = "ended" /\ (cam = "ended" \/ (cam = "up" /\ camRuns))
LaneEnds == lane = "stopped" ~> LaneIsOver
=============================================================================
