------------------------------- MODULE LaneTab -------------------------------
(***************************************************************************)
(* The Lane Control tab (panels/lane_control_panel.py) with start_lc and   *)
(* stop_lc of main and the threads LaneRunner starts: its Start button,    *)
(* its picture, its tuning sliders.  The callback thread starts, stops and *)
(* tunes; the camera's thread of a runner posts raw frames and its loop    *)
(* debug frames, which hold the raw ones back for half a second; the main  *)
(* thread applies what is posted.  LaneDrive says how a runner drives.     *)
(***************************************************************************)
EXTENDS DrivePanel

CONSTANTS MaxTabEvents,  \* bound: Starts, frames and moves of sliders together
          MaxWaiting,    \* bound: posts that wait when a reset is posted
          Knobs,         \* the sliders of _TUNING_DEFAULTS but that of the speed,
                         \* which start_lc sets
          KnobValues,
          PanelDefault,  \* _TUNING_DEFAULTS
          CodeDefault    \* what a new LaneController has
ASSUME LaneTabAssumption ==
  /\ MaxTabEvents \in Nat /\ MaxWaiting \in Nat
  /\ PanelDefault \in [Knobs -> KnobValues] /\ CodeDefault \in [Knobs -> KnobValues]

VARIABLES
  lcAt,        \* the step of the callback thread
  lcRunner,    \* lc_runner of main, 0 for None
  lcSet,       \* _runner of the panel
  lcOn,        \* is Start enabled?  The status is Stopped if so, Running if not
  camera,      \* each runner: its camera's thread, "on" until it is told to stop
  control,     \* its loop, the same
  linked,      \* the runners that were made with a connection
  posting,     \* the frames that threads are about to post
  lcPosts,     \* the queue of the main thread
  picture,     \* the frame that is shown
  hushed,      \* is _suppress_raw_until to come?
  sliders,     \* what the sliders show
  tunedTo,     \* what the last runner uses
  heeded,      \* history: sliders moved since that runner was set
  outrun,      \* history: was a reset applied since Start was clicked last, with a
               \* runner there or to come?
  lateRuns,    \* history: runners a frame of which was shown when they were not
               \* the runner of main any more
  cameraEarly, \* history: runners whose camera was told to stop before it listened
  slipped,     \* history: did a raw frame follow the debug frame that holds it back?
  tabEvents    \* how many Starts, frames and moves there were

runnerVars == <<camera, control, linked>>
knobVars == <<sliders, tunedTo, heeded>>
shownVars == <<posting, lcPosts, picture, hushed>>
pastVars == <<lateRuns, cameraEarly, slipped>>
lcVars == <<lcAt, lcRunner, lcSet, lcOn, runnerVars, knobVars, shownVars, outrun, pastVars, tabEvents>>
LaneRuns == 1..MaxTabEvents
NoPicture == [run |-> 0, kind |-> "blank"]
Shot(r, k) == [run |-> r, kind |-> k]
LaneReset == [run |-> 0, kind |-> "reset"]
Happens == tabEvents < MaxTabEvents /\ tabEvents' = tabEvents + 1

LaneTabInit ==
  /\ lcAt = "idle" /\ lcRunner = 0 /\ lcSet = 0 /\ lcOn = TRUE
  /\ camera = [r \in LaneRuns |-> "new"] /\ control = [r \in LaneRuns |-> "new"] /\ linked = {}
  /\ posting = {} /\ lcPosts = << >> /\ picture = NoPicture /\ hushed = FALSE
  /\ sliders = PanelDefault /\ tunedTo = CodeDefault /\ heeded = {}
  /\ outrun = FALSE /\ lateRuns = {} /\ cameraEarly = {} /\ slipped = FALSE /\ tabEvents = 0

-----------------------------------------------------------------------------
(* The callback thread: _on_start and start_lc.                            *)

\* A second click may wait in DearPyGui when the first one disables Start.
ClickLaneStart ==
  /\ lcAt = "idle" /\ lcAt' = "called" /\ lcOn' = FALSE /\ outrun' = FALSE
  /\ UNCHANGED <<lcRunner, lcSet, runnerVars, shownVars, knobVars, pastVars, tabEvents>>
LaneRunsAlready ==
  /\ lcAt = "called" /\ lcRunner # 0 /\ lcAt' = "idle"
  /\ UNCHANGED <<lcRunner, lcSet, lcOn, runnerVars, shownVars, knobVars, outrun, pastVars, tabEvents>>
\* The port of the vehicle info is taken: LaneRunner raises.
LaneStartFails ==
  /\ lcAt = "called" /\ lcRunner = 0 /\ lcAt' = "idle"
  /\ Len(lcPosts) < MaxWaiting /\ lcPosts' = Append(lcPosts, LaneReset)
  /\ UNCHANGED <<lcRunner, lcSet, lcOn, runnerVars, posting, picture, hushed, knobVars, outrun, pastVars, tabEvents>>
\* tcp_sock is None if the console is not connected: that is not looked at.
MakeLaneRunner ==
  /\ lcAt = "called" /\ lcRunner = 0 /\ lcAt' = "made" /\ Happens
  /\ \E r \in LaneRuns :
       /\ camera[r] = "new" /\ \A q \in LaneRuns : q < r => camera[q] # "new"
       /\ lcRunner' = r /\ linked' \in {linked, linked \cup {r}}
       /\ camera' = [camera EXCEPT ![r] = "bind"] /\ control' = [control EXCEPT ![r] = "on"]
  /\ tunedTo' = CodeDefault /\ heeded' = {}
  /\ UNCHANGED <<lcSet, lcOn, shownVars, sliders, outrun, pastVars>>
SetRunner ==
  /\ lcAt = "made" /\ lcAt' = "idle" /\ lcSet' = lcRunner
  /\ UNCHANGED <<lcRunner, lcOn, runnerVars, shownVars, knobVars, outrun, pastVars, tabEvents>>

(* stop_lc.                                                                *)

Told(threads) == [r \in LaneRuns |-> IF r = lcRunner /\ threads[r] = "on" THEN "told" ELSE threads[r]]
\* The runner tells its loop and its camera and brakes, and is forgotten; one that
\* was made without a connection raises instead of braking, and is not.
ClickLaneStop ==
  /\ lcAt = "idle" /\ lcSet' = 0
  /\ control' = Told(control) /\ camera' = Told(camera)
  /\ cameraEarly' = cameraEarly \cup {r \in LaneRuns : r = lcRunner /\ camera[r] = "bind"}
  /\ IF lcRunner \in linked \cup {0}
       THEN lcRunner' = 0 /\ lcAt' = "stopped"
       ELSE UNCHANGED <<lcRunner, lcAt>>
  /\ UNCHANGED <<lcOn, linked, shownVars, knobVars, outrun, lateRuns, slipped, tabEvents>>
\* Mutant: Stop leaves the button as it is.
ResetForgotten ==
  /\ lcAt = "stopped" /\ lcAt' = "idle"
  /\ UNCHANGED <<lcRunner, lcSet, lcOn, runnerVars, shownVars, knobVars, outrun, pastVars, tabEvents>>
PostLaneReset ==
  /\ lcAt = "stopped" /\ lcAt' = "idle"
  /\ Len(lcPosts) < MaxWaiting /\ lcPosts' = Append(lcPosts, LaneReset)
  /\ UNCHANGED <<lcRunner, lcSet, lcOn, runnerVars, posting, picture, hushed, knobVars, outrun, pastVars, tabEvents>>

(* The sliders.                                                            *)

Tune(values, moved) ==
  /\ lcAt = "idle" /\ Happens /\ sliders' = [k \in Knobs |-> IF k \in moved THEN values[k] ELSE sliders[k]]
  /\ IF lcSet # 0
       THEN /\ tunedTo' = [k \in Knobs |-> IF k \in moved THEN values[k] ELSE tunedTo[k]]
            /\ heeded' = heeded \cup moved
       ELSE UNCHANGED <<tunedTo, heeded>>
  /\ UNCHANGED <<lcAt, lcRunner, lcSet, lcOn, runnerVars, shownVars, outrun, pastVars>>
\* _on_kp to _on_min_pixels, and _on_reset_tuning.
MoveSlider == \E k \in Knobs, values \in [Knobs -> KnobValues] : Tune(values, {k})
ResetTuning == Tune(PanelDefault, Knobs)

-----------------------------------------------------------------------------
(* The threads of a runner.  One that has ended by itself, as its port is  *)
(* taken or its connection lost, takes no step any more.                   *)

CamListens(r) ==
  /\ camera[r] = "bind" /\ camera' = [camera EXCEPT ![r] = "on"]
  /\ UNCHANGED <<lcAt, lcRunner, lcSet, lcOn, control, linked, shownVars, knobVars, outrun, pastVars, tabEvents>>
\* update_frame: the frame is not held back, nor comes too soon after the last one.
\* A camera that was told to stop goes on while frames keep coming.
RawPasses(r) ==
  /\ camera[r] \in {"on", "told"} /\ ~hushed /\ Happens
  /\ Shot(r, "raw") \notin posting /\ posting' = posting \cup {Shot(r, "raw")}
  /\ UNCHANGED <<lcAt, lcRunner, lcSet, lcOn, runnerVars, lcPosts, picture, hushed, knobVars, outrun, pastVars>>
\* update_debug_frame at the end of a step, which Stop does not wait for; without a
\* connection the send before it raises.
DebugPasses(r) ==
  /\ control[r] \in {"on", "told"} /\ r \in linked /\ Happens /\ hushed' = TRUE
  /\ control' = [control EXCEPT ![r] = IF @ = "told" THEN "off" ELSE @]
  /\ Shot(r, "debug") \notin posting /\ posting' = posting \cup {Shot(r, "debug")}
  /\ UNCHANGED <<lcAt, lcRunner, lcSet, lcOn, camera, linked, lcPosts, picture, knobVars, outrun, pastVars>>
\* _post_frame.
PostShot(s) ==
  /\ s \in posting /\ posting' = posting \ {s} /\ lcPosts' = Append(lcPosts, s)
  /\ slipped' = (slipped \/ (hushed /\ s.kind = "raw"))
  /\ UNCHANGED <<lcAt, lcRunner, lcSet, lcOn, runnerVars, picture, hushed, knobVars, outrun, lateRuns, cameraEarly, tabEvents>>
HushEnds ==
  /\ hushed /\ hushed' = FALSE
  /\ UNCHANGED <<lcAt, lcRunner, lcSet, lcOn, runnerVars, posting, lcPosts, picture, knobVars, outrun, pastVars, tabEvents>>

-----------------------------------------------------------------------------
(* The main thread.                                                        *)

ApplyLaneReset ==
  /\ lcPosts # << >> /\ Head(lcPosts) = LaneReset /\ lcPosts' = Tail(lcPosts)
  /\ lcOn' = TRUE /\ picture' = NoPicture
  /\ outrun' = (lcRunner # 0 \/ lcAt \in {"called", "made"})
  /\ UNCHANGED <<lcAt, lcRunner, lcSet, runnerVars, posting, hushed, knobVars, pastVars, tabEvents>>
ApplyShot ==
  /\ lcPosts # << >> /\ Head(lcPosts) # LaneReset /\ lcPosts' = Tail(lcPosts)
  /\ picture' = Head(lcPosts)
  /\ lateRuns' = lateRuns \cup ({picture'.run} \ {lcRunner})
  /\ UNCHANGED <<lcAt, lcRunner, lcSet, lcOn, runnerVars, posting, hushed, knobVars, outrun, cameraEarly, slipped, tabEvents>>

LaneClicks ==
  \/ ClickLaneStart \/ LaneRunsAlready \/ LaneStartFails \/ MakeLaneRunner \/ SetRunner \/ ClickLaneStop \/ PostLaneReset
  \/ ResetTuning \/ MoveSlider
LaneThreads(r) ==
  CamListens(r) \/ RawPasses(r) \/ DebugPasses(r)
LaneTabNext ==
  \/ LaneClicks \/ HushEnds \/ ApplyLaneReset \/ ApplyShot
  \/ \E r \in LaneRuns : LaneThreads(r)
  \/ \E s \in posting : PostShot(s)
LaneTabSpec == LaneTabInit /\ [][LaneTabNext]_lcVars

-----------------------------------------------------------------------------
LaneTabRests == lcAt = "idle" /\ lcPosts = << >>

\* At rest Start is offered exactly when there is no runner, unless the reset of
\* an earlier Stop was applied after Start was clicked again: the runner then
\* drives under "Stopped", until Start is clicked once more.
ButtonTrue == LaneTabRests /\ ~outrun => (lcOn <=> lcRunner = 0)

\* The picture is of the runner of now, or none, unless a frame of a stopped one
\* came after the reset; and no raw frame covers the debug frame that holds it
\* back, unless it was on its way already.
PictureTrue ==
  LaneTabRests =>
    /\ picture.run \in {0, lcRunner} \cup lateRuns
    /\ hushed /\ ~slipped /\ (\A s \in posting : s.kind # "debug") => picture.kind # "raw"

\* Only the runner that Stop can reach goes on, unless it was stopped before its
\* camera listened: the camera then stays for good.  A runner that was told to
\* stop is forgotten, and Start starts the next one, unless it was made without a
\* connection: it is then told and kept at each Stop, and Start starts none.
StopReaches ==
  /\ \A r \in LaneRuns : r # lcRunner => control[r] # "on" /\ (camera[r] = "on" => r \in cameraEarly)
  /\ lcRunner \in LaneRuns /\ camera[lcRunner] = "told" => lcRunner \notin linked

\* What a slider shows is what the runner uses if it was moved since the runner
\* was set; if not, the runner uses its own default, whatever the slider shows.
TuningTrue ==
  lcSet # 0 =>
    \A k \in Knobs :
      IF k \in heeded THEN tunedTo[k] = sliders[k] ELSE tunedTo[k] = CodeDefault[k]

LaneTabTrue == ButtonTrue /\ PictureTrue /\ StopReaches /\ TuningTrue
\* Both tabs that drive show what drives, and stop it.
DriveTabsTrue == DriveTabTrue /\ LaneTabTrue
=============================================================================
