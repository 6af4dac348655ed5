------------------------------- MODULE MCGui --------------------------------
(* The launcher window with its tasks and the refresh of the scenario's name,*)
(* and the client of the protobuf API, the programs beside the console.      *)
(* They share no state in the model, so the run lets one of them move, which *)
(* is chosen at the start.                                                   *)
EXTENDS SimGui, GuiRefresh, ProtoClient

CONSTANTS t1, t2, n1
VARIABLE window
windowVars == <<guiVars, refreshVars, protoVars, window>>

WindowInit ==
  /\ window \in {"tasks", "refresh", "proto"}
  /\ GuiInit /\ RefreshInit /\ ProtoInit
  /\ window # "tasks" => ~link /\ shown.simulator = "-" /\ shown.suite = "-"
  /\ window # "refresh" => simName = NoName

TasksMove == window = "tasks" /\ GuiNext /\ UNCHANGED <<refreshVars, protoVars, window>>
RefreshMoves == window = "refresh" /\ RefreshNext /\ UNCHANGED <<guiVars, protoVars, window>>
ProtoMoves == window = "proto" /\ ProtoNext /\ UNCHANGED <<guiVars, refreshVars, window>>
WindowNext == TasksMove \/ RefreshMoves \/ ProtoMoves

\* The fairness of each module; nothing of it is enabled in one that rests.
WindowSpec ==
  /\ WindowInit /\ [][WindowNext]_windowVars
  /\ WF_guiVars(window = "tasks" /\ CallbackStep) /\ WF_guiVars(window = "tasks" /\ WorkerStep)
  /\ WF_guiVars(window = "tasks" /\ PostButtons) /\ WF_guiVars(window = "tasks" /\ MainStep)
  /\ \A t \in Threads : WF_refreshVars(window = "refresh" /\ ThreadStep(t))
  /\ WF_protoVars(window = "proto" /\ ReadStep)

\* The end of a task gives the buttons back, a chain of refreshes ends, and a
\* call of the client returns, unless notifications keep coming: each restarts
\* the timeout of the socket, and the call has no deadline of its own.
\* ButtonsComeBack, ChainsEnd and CallsReturn, of the one program that moves.
Owing(t) == CASE window = "tasks" -> taskRunning
              [] window = "refresh" -> refresher[t].at # "none"
              [] window = "proto" -> Reading
Settled(t) == CASE window = "tasks" -> buttons.task
                [] window = "refresh" -> refresher[t].at = "none"
                [] window = "proto" -> client = "idle"
TasksEnd == (\A t \in Threads : Owing(t) ~> Settled(t)) \/ NotesKeepComing
=============================================================================
