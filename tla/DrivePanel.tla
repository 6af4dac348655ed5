------------------------------ MODULE DrivePanel ------------------------------
(***************************************************************************)
(* The Autonomous Driving tab (panels/autonomous_panel.py) with start_ad,  *)
(* stop_ad, start_step_ad and stop_step_ad of main: its Start button, its  *)
(* rows of values, the lists of runners.  The callback thread starts and   *)
(* stops, runner threads report values and, the StepAD ones, their end,    *)
(* the main thread applies what is posted, the Receiver stops StepAD when  *)
(* the connection is lost.  The runners of one Start are one runner here;  *)
(* AdDrive and StepAd say how they drive.                                  *)
(***************************************************************************)
EXTENDS Naturals, Sequences, FiniteSets

CONSTANTS MaxRuns, MaxReports,   \* bounds: Starts, values that are posted
          VehicleRows            \* the rows of the tab
ASSUME DriveAssumption == MaxRuns \in Nat /\ MaxReports \in Nat /\ VehicleRows \in Nat

VARIABLES
  startOn,     \* is Start enabled?  The status is Stopped if so, Running if not
  stepMode,    \* _running_step_mode
  slotOf,      \* _entity_slot: the row of each vehicle of the last Start, 0 if it has none
  adRunners, stepRunners,   \* the lists of main
  runs,        \* each runner: its kind, the step of its thread, its _running flag
  clickAt,     \* the step of the callback thread
  making,      \* the runner it starts, 0 for none
  uiPosts,     \* the queue of the main thread
  cells,       \* the value each row shows: of which runner, of which vehicle; 0 for "-"
  reports,     \* how many values were posted
  metAnother,     \* history: did what was meant for one Start meet another one?
  overdue,     \* history: was a value posted of a runner that is not listed?
  gap          \* history: was a row without an id above one with an id?

driveVars == <<startOn, stepMode, slotOf, adRunners, stepRunners, runs, clickAt, making,
               uiPosts, cells, reports, metAnother, overdue, gap>>
RunIds == 1..MaxRuns
Slots == 1..VehicleRows
Blank == [run |-> 0, vehicle |-> 0]
Listed == adRunners \cup stepRunners

DriveInit ==
  /\ startOn = TRUE /\ stepMode = FALSE /\ slotOf = [v \in Slots |-> 0]
  /\ adRunners = {} /\ stepRunners = {}
  /\ runs = [r \in RunIds |-> [step |-> FALSE, at |-> "new", running |-> TRUE]]
  /\ clickAt = "idle" /\ making = 0 /\ uiPosts = << >> /\ cells = [i \in Slots |-> Blank]
  /\ reports = 0 /\ metAnother = FALSE /\ overdue = FALSE /\ gap = FALSE

Reset == [what |-> "reset"]
Value(r, v, slot) == [what |-> "value", run |-> r, vehicle |-> v, slot |-> slot]

-----------------------------------------------------------------------------
(* The callback thread.                                                    *)

\* _on_start: the vehicles with an id are numbered from 1, wherever they are.
PressStart ==
  /\ clickAt = "idle" /\ startOn /\ ~metAnother   \* bound: nothing is promised after
  /\ clickAt' = "called" /\ startOn' = FALSE /\ stepMode' \in BOOLEAN
  /\ \E named \in SUBSET Slots \ {{}} :
       /\ slotOf' = [v \in Slots |-> IF v \in named THEN Cardinality({u \in named : u <= v}) ELSE 0]
       /\ gap' = (gap \/ \E v \in named : Cardinality({u \in named : u <= v}) # v)
  /\ UNCHANGED <<adRunners, stepRunners, runs, making, uiPosts, cells, reports, metAnother, overdue>>

Busy == IF stepMode THEN stepRunners # {} ELSE adRunners # {}
\* start_ad and start_step_ad: "already running", and the tab stays at Running.
AlreadyRunning ==
  /\ clickAt = "called" /\ Busy /\ clickAt' = "idle"
  /\ UNCHANGED <<startOn, stepMode, slotOf, adRunners, stepRunners, runs, making, uiPosts, cells,
                 reports, metAnother, overdue, gap>>
StartRaises ==
  /\ clickAt = "called" /\ ~Busy /\ clickAt' = "idle" /\ Len(uiPosts) < MaxRuns /\ uiPosts' = Append(uiPosts, Reset)
  /\ UNCHANGED <<startOn, stepMode, slotOf, adRunners, stepRunners, runs, making, cells,
                 reports, metAnother, overdue, gap>>
MakeRunner ==
  /\ clickAt = "called" /\ ~Busy /\ clickAt' = "made"
  /\ \E r \in RunIds :
       /\ runs[r].at = "new" /\ \A q \in RunIds : q < r => runs[q].at # "new"
       /\ runs' = [runs EXCEPT ![r] = [step |-> stepMode, at |-> "live", running |-> TRUE]]
       /\ making' = r
  /\ UNCHANGED <<startOn, stepMode, slotOf, adRunners, stepRunners, uiPosts, cells, reports,
                 metAnother, overdue, gap>>
\* The runner is listed after its thread was started.
ListRunner ==
  /\ clickAt = "made" /\ clickAt' = "idle" /\ making' = 0
  /\ adRunners' = IF stepMode THEN adRunners ELSE adRunners \cup {making}
  /\ stepRunners' = IF stepMode THEN stepRunners \cup {making} ELSE stepRunners
  /\ UNCHANGED <<startOn, stepMode, slotOf, runs, uiPosts, cells, reports, metAnother, overdue, gap>>

Silence(rs) == runs' = [r \in RunIds |-> [runs[r] EXCEPT !.running = @ /\ r \notin rs]]
\* Mutant: Stop leaves it to the runner to bring the button back.
PressStopSilently ==
  /\ clickAt = "idle"
  /\ IF stepMode THEN Silence(stepRunners) /\ stepRunners' = {} /\ UNCHANGED adRunners
                 ELSE Silence(adRunners) /\ adRunners' = {} /\ UNCHANGED stepRunners
  /\ UNCHANGED <<startOn, stepMode, slotOf, clickAt, making, uiPosts, cells, reports, metAnother, overdue, gap>>
\* _on_stop stops the runners of the mode that was started last.
PressStop ==
  /\ clickAt = "idle" /\ Len(uiPosts) < MaxRuns   \* bound on the resets that wait
  /\ IF stepMode THEN Silence(stepRunners) /\ stepRunners' = {} /\ UNCHANGED adRunners
                 ELSE Silence(adRunners) /\ adRunners' = {} /\ UNCHANGED stepRunners
  /\ uiPosts' = Append(uiPosts, Reset)
  /\ UNCHANGED <<startOn, stepMode, slotOf, clickAt, making, cells, reports, metAnother, overdue, gap>>
\* Another number of vehicles: the rows are built anew.
RebuildRows ==
  /\ clickAt = "idle" /\ cells' = [i \in Slots |-> Blank]
  /\ UNCHANGED <<startOn, stepMode, slotOf, adRunners, stepRunners, runs, clickAt, making,
                 uiPosts, reports, metAnother, overdue, gap>>

-----------------------------------------------------------------------------
(* The threads of the runners, and the Receiver.                           *)

\* AdRunner: stopped, or its port is taken, or it raised; nobody is told.
AdThreadEnds(r) ==
  /\ runs[r].at = "live" /\ ~runs[r].step /\ runs' = [runs EXCEPT ![r].at = "gone"]
  /\ UNCHANGED <<startOn, stepMode, slotOf, adRunners, stepRunners, clickAt, making, uiPosts,
                 cells, reports, metAnother, overdue, gap>>
StepThreadEnds(r) ==
  /\ runs[r].at = "live" /\ runs[r].step /\ runs' = [runs EXCEPT ![r].at = "done"]
  /\ UNCHANGED <<startOn, stepMode, slotOf, adRunners, stepRunners, clickAt, making, uiPosts,
                 cells, reports, metAnother, overdue, gap>>
\* _on_done clears the list, whoever is on it, and resets the tab.
TabOnDone(r) ==
  /\ runs[r].at = "done" /\ runs' = [runs EXCEPT ![r].at = "over"] /\ stepRunners' = {}
  /\ metAnother' = (metAnother \/ stepRunners \ {r} # {} \/ making # 0)
  /\ UNCHANGED <<startOn, stepMode, slotOf, adRunners, clickAt, making, uiPosts, cells, reports,
                 overdue, gap>>
TabOnDoneResets(r) ==
  /\ runs[r].at = "over" /\ runs' = [runs EXCEPT ![r].at = "gone"]
  /\ uiPosts' = Append(uiPosts, Reset)
  /\ UNCHANGED <<startOn, stepMode, slotOf, adRunners, stepRunners, clickAt, making, cells,
                 reports, metAnother, overdue, gap>>
\* update_status: no more than ten values in a second.
ReportValue(r) ==
  /\ runs[r].at = "live" /\ reports < MaxReports /\ reports' = reports + 1
  /\ \E v \in Slots : slotOf[v] # 0 /\ uiPosts' = Append(uiPosts, Value(r, v, slotOf[v]))
  /\ overdue' = (overdue \/ r \notin Listed)
  /\ UNCHANGED <<startOn, stepMode, slotOf, adRunners, stepRunners, runs, clickAt, making, cells,
                 metAnother, gap>>
\* _on_disconnect: AdRunners are left alone.
StopStepping ==
  /\ stepRunners # {} /\ Silence(stepRunners) /\ stepRunners' = {}
  /\ UNCHANGED <<startOn, stepMode, slotOf, adRunners, clickAt, making, uiPosts, cells, reports,
                 metAnother, overdue, gap>>

-----------------------------------------------------------------------------
(* The main thread.                                                        *)

ApplyTabReset ==
  /\ uiPosts # << >> /\ Head(uiPosts).what = "reset" /\ uiPosts' = Tail(uiPosts)
  /\ startOn' = TRUE /\ cells' = [i \in Slots |-> Blank]
  /\ metAnother' = (metAnother \/ Listed # {} \/ clickAt # "idle")
  /\ UNCHANGED <<stepMode, slotOf, adRunners, stepRunners, runs, clickAt, making, reports, overdue, gap>>
ApplyValue ==
  /\ uiPosts # << >> /\ Head(uiPosts).what = "value" /\ uiPosts' = Tail(uiPosts)
  /\ LET p == Head(uiPosts) IN
     /\ cells' = [cells EXCEPT ![p.slot] = [run |-> p.run, vehicle |-> p.vehicle]]
     /\ overdue' = (overdue \/ p.run \notin Listed)
  /\ UNCHANGED <<startOn, stepMode, slotOf, adRunners, stepRunners, runs, clickAt, making, reports,
                 metAnother, gap>>

DriveClicks ==
  \/ PressStart \/ AlreadyRunning \/ StartRaises \/ MakeRunner \/ ListRunner \/ PressStop \/ RebuildRows
DriveThread(r) == AdThreadEnds(r) \/ StepThreadEnds(r) \/ TabOnDone(r) \/ TabOnDoneResets(r) \/ ReportValue(r)
DriveNext ==
  DriveClicks \/ StopStepping \/ ApplyTabReset \/ ApplyValue \/ \E r \in RunIds : DriveThread(r)
DriveSpec == DriveInit /\ [][DriveNext]_driveVars

-----------------------------------------------------------------------------
DriveRests ==
  /\ clickAt = "idle" /\ uiPosts = << >>
  /\ \A r \in RunIds :
       runs[r].at \in {"new", "gone"} \/ (runs[r].at = "live" /\ runs[r].running)

\* At rest Start is offered exactly when no runner is listed, so that Stop
\* reaches every runner whose thread runs, and the rows show values of listed
\* runners only, each vehicle in its own row.  Except: the end of a StepAD
\* runner that was stopped is told after the next Start, which is then on no
\* list and has no Stop, or before its runner is listed, which then blocks the
\* next Start; a value that is late; a row left empty above one that is used.
DriveTabTrue ==
  DriveRests =>
    /\ ~metAnother => (startOn <=> Listed = {})
    /\ ~metAnother => \A r \in RunIds : runs[r].at = "live" => r \in Listed
    /\ ~metAnother /\ ~overdue => \A i \in Slots : cells[i] # Blank => cells[i].run \in Listed
    /\ ~gap => \A i \in Slots : cells[i] # Blank => cells[i].vehicle = i
=============================================================================
