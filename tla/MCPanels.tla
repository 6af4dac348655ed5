------------------------------ MODULE MCPanels ------------------------------
(* The panels of the console that start timers, threads and runners.  Each   *)
(* runs beside the others and shares no state with them in the model, so the *)
(* run lets one of them move, which is chosen at the start, and the others   *)
(* stay as they begin.                                                       *)
EXTENDS ScenarioClock, SuiteLoad, Playback, AdDrive, LaneDetect, LaneTab

CONSTANTS p1, p2, l1, l2, r1, r2
VARIABLE panel
drivingVars == <<playVars, adVars, laneVars, detectVars>>
shellVars == <<suiteVars, clockVars, driveVars, lcVars>>
allVars == <<drivingVars, shellVars, panel>>

MCPlays == {p1, p2}
MCLoads == {l1, l2}
MCPosesOf == <<2, 1>>
MCRunners == {r1, r2}
MCOrder == <<p1, p2>>
MCRunnerOrder == <<r1, r2>>
MCWanted == {0 - 1000, 0, 1000}
MCPixels == {100, 200, 260, 330, 440, 530}
MCPanelDefault == [k \in Knobs |-> 0]
MCCodeDefault == [k \in Knobs |-> IF k = "pixels" THEN 1 ELSE 0]

PanelsInit ==
  /\ panel \in {"suite", "clock", "playback", "ad", "lane", "detector", "tab", "lane tab"}
  /\ SuiteInit /\ ClockInit /\ PlayInit /\ AdInit /\ LaneInit /\ DetectInit /\ DriveInit /\ LaneTabInit
  /\ panel # "playback" => kind = "file" /\ tcp = "up"
  /\ panel # "ad" => source = "TCP" /\ ~chaser /\ linkUp
  /\ panel # "lane" => laneLink = "up"

SuiteMoves == panel = "suite" /\ SuiteNext /\ UNCHANGED <<drivingVars, clockVars, driveVars, lcVars, panel>>
ClockMoves == panel = "clock" /\ ClockNext /\ UNCHANGED <<drivingVars, suiteVars, driveVars, lcVars, panel>>
TabMoves == panel = "tab" /\ DriveNext /\ UNCHANGED <<drivingVars, suiteVars, clockVars, lcVars, panel>>
LaneTabMoves == panel = "lane tab" /\ LaneTabNext /\ UNCHANGED <<drivingVars, suiteVars, clockVars, driveVars, panel>>
PlaybackMoves == panel = "playback" /\ PlayNext /\ UNCHANGED <<adVars, laneVars, detectVars, shellVars, panel>>
AdMoves == panel = "ad" /\ AdNext /\ UNCHANGED <<playVars, laneVars, detectVars, shellVars, panel>>
LaneMoves == panel = "lane" /\ LaneNext /\ UNCHANGED <<playVars, adVars, detectVars, shellVars, panel>>
DetectorMoves == panel = "detector" /\ DetectNext /\ UNCHANGED <<playVars, adVars, laneVars, shellVars, panel>>
PanelsNext ==
  \/ SuiteMoves \/ ClockMoves \/ TabMoves \/ LaneTabMoves
  \/ PlaybackMoves \/ AdMoves \/ LaneMoves \/ DetectorMoves

\* The fairness of each module; nothing of it is enabled in a panel that rests.
PanelsSpec ==
  /\ PanelsInit /\ [][PanelsNext]_allVars
  /\ \A p \in Plays : WF_clockVars(panel = "clock" /\ TimerStep(p))
  /\ WF_suiteVars(panel = "suite" /\ WatchdogStep)
  /\ \A p \in Players : WF_playVars(panel = "playback" /\ PlayerStep(p)) /\ WF_playVars(panel = "playback" /\ ApplyReset(p))
  /\ \A r \in Runners : WF_adVars(panel = "ad" /\ LoopStep(r))
  /\ WF_laneVars(panel = "lane" /\ LoopGoes) /\ WF_laneVars(panel = "lane" /\ CameraUp) /\ WF_laneVars(panel = "lane" /\ CameraEnds)
  /\ WF_laneVars(panel = "lane" /\ (StopController \/ StopCamera \/ SendBrake))

\* An armed timer fires unless it is cancelled, every loop ends when it is told
\* to or has nothing left to do, and Play is offered again after a playback:
\* AutoStops, WatchdogLeaves, PlayComesBack, StoppedLoopEnds and LaneEnds, of
\* the one panel that moves.  Nothing is owed by the tabs and the detector.
Owing(i) ==
  CASE panel = "clock" -> TimerWaits(MCOrder[i])
    [] panel = "suite" -> WatchdogSleeps
    [] panel = "playback" -> ~playable
    [] panel = "ad" -> ToldToStop(MCRunnerOrder[i])
    [] panel = "lane" -> lane = "stopped"
    [] OTHER -> FALSE
Settled(i) ==
  CASE panel = "clock" -> TimerIsOver(MCOrder[i])
    [] panel = "suite" -> WatchdogLeft
    [] panel = "playback" -> PlayIsBack
    [] panel = "ad" -> LoopIsOver(MCRunnerOrder[i])
    [] panel = "lane" -> LaneIsOver
    [] OTHER -> TRUE
LoopsEnd == \A i \in {1, 2} : Owing(i) ~> Settled(i)
=============================================================================
