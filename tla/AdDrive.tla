------------------------------ MODULE AdDrive ------------------------------
(***************************************************************************)
(* AdRunner of runners/ad_runner.py for one vehicle, with start_ad,        *)
(* stop_ad and the dispatch of GetVehicleInfo answers in main.  Each start *)
(* makes a new runner, whose control thread asks for the vehicle's state   *)
(* (TCP) or takes the last one received (UDP) and sends a control.  The    *)
(* Receiver hands an answer to the runners that are listed; the event is   *)
(* set after the lock is given back.  _on_disconnect leaves the runners    *)
(* alone, their sends raise.                                               *)
(*                                                                         *)
(* A state of the vehicle is the id of the request it answers.             *)
(***************************************************************************)
EXTENDS Naturals

CONSTANTS Runners,     \* one per click of Start
          NoRunner,
          MaxAsks,     \* bound on the GetVehicleInfo requests
          MaxControls  \* bound on the controls of a runner

ASSUME AdAssumption == NoRunner \notin Runners /\ MaxAsks \in Nat /\ MaxControls \in Nat

Asks == 1..MaxAsks
NoInfo == 0
Stages == {"new", "head", "clear", "note", "send", "wait", "woken", "late", "drive", "ended"}

VARIABLES
  source, chaser,   \* _vehicle_info_source, _is_chaser
  starting,         \* start_ad: the runner that runs and is not listed yet
  listed,           \* ad_runners
  stopping,         \* stop_ad: _running is FALSE, the event is not set yet
  running, stage,   \* of each runner: _running, where its control thread is
  event,            \* _vi_event is set
  asked,            \* _pending_vi_request_ids
  current,          \* the request of this round
  response,         \* _vi_response
  info,             \* the state this round drives on
  lastId,           \* the last request id
  coming,           \* requests the simulator will answer
  handing,          \* the Receiver: the runner whose event it has still to set
  linkUp,           \* the connection of the runners
  controls, after   \* history: controls sent, and those sent after stop()

adVars == <<source, chaser, starting, listed, stopping, running, stage, event, asked, current,
            response, info, lastId, coming, handing, linkUp, controls, after>>
panelVars == <<starting, listed, stopping>>
roundVars == <<asked, current, response, info>>
fixedVars == <<source, chaser>>
sentVars == <<controls, after>>

AdTypeOK ==
  /\ source \in {"TCP", "UDP"} /\ chaser \in BOOLEAN /\ linkUp \in BOOLEAN
  /\ {starting, listed, stopping, handing} \subseteq Runners \cup {NoRunner}
  /\ running \in [Runners -> BOOLEAN] /\ stage \in [Runners -> Stages]
  /\ event \in [Runners -> BOOLEAN] /\ asked \in [Runners -> SUBSET Asks]
  /\ current \in [Runners -> Asks \cup {NoInfo}] /\ response \in [Runners -> Asks \cup {NoInfo}]
  /\ info \in [Runners -> Asks \cup {NoInfo}] /\ lastId \in 0..MaxAsks /\ coming \subseteq Asks
  /\ controls \in [Runners -> 0..MaxControls] /\ after \in [Runners -> 0..MaxControls]

AdInit ==
  /\ source \in {"TCP", "UDP"} /\ chaser \in BOOLEAN /\ linkUp \in BOOLEAN
  /\ starting = NoRunner /\ listed = NoRunner /\ stopping = NoRunner /\ handing = NoRunner
  /\ running = [r \in Runners |-> FALSE] /\ stage = [r \in Runners |-> "new"]
  /\ event = [r \in Runners |-> FALSE] /\ asked = [r \in Runners |-> {}]
  /\ current = [r \in Runners |-> NoInfo] /\ response = [r \in Runners |-> NoInfo]
  /\ info = [r \in Runners |-> NoInfo] /\ lastId = 0 /\ coming = {}
  /\ controls = [r \in Runners |-> 0] /\ after = [r \in Runners |-> 0]

-----------------------------------------------------------------------------
(* The UI: start_ad and stop_ad.                                           *)

UiFree == starting = NoRunner /\ stopping = NoRunner

\* start() comes before the append.
StartAd ==
  /\ UiFree /\ listed = NoRunner
  /\ \E r \in Runners :
       /\ stage[r] = "new" /\ starting' = r
       /\ running' = [running EXCEPT ![r] = TRUE] /\ stage' = [stage EXCEPT ![r] = "head"]
  /\ UNCHANGED <<fixedVars, listed, stopping, event, roundVars, lastId, coming, handing, linkUp, sentVars>>
ListAd ==
  /\ starting # NoRunner /\ listed' = starting /\ starting' = NoRunner
  /\ UNCHANGED <<fixedVars, stopping, running, stage, event, roundVars, lastId, coming, handing, linkUp, sentVars>>

\* stop() of the runner: _running, then the event; then the list is cleared.
StopAd ==
  /\ UiFree /\ listed # NoRunner /\ stopping' = listed
  /\ running' = [running EXCEPT ![listed] = FALSE]
  /\ UNCHANGED <<fixedVars, starting, listed, stage, event, roundVars, lastId, coming, handing, linkUp, sentVars>>
ClearAd ==
  /\ stopping # NoRunner /\ event' = [event EXCEPT ![stopping] = TRUE]
  /\ listed' = NoRunner /\ stopping' = NoRunner
  /\ UNCHANGED <<fixedVars, starting, running, stage, roundVars, lastId, coming, handing, linkUp, sentVars>>

-----------------------------------------------------------------------------
(* _control_loop and _request_vehicle_info.                                *)

To(r, s) == stage' = [stage EXCEPT ![r] = s]

\* Mutant: the loop looks at _running only when it waits.
HeadOn(r) ==
  /\ stage[r] = "head" /\ To(r, IF source = "TCP" THEN "clear" ELSE "drive")
  /\ UNCHANGED <<fixedVars, panelVars, running, event, roundVars, lastId, coming, handing, linkUp, sentVars>>
Head1(r) ==
  /\ stage[r] = "head"
  /\ To(r, IF ~running[r] THEN "ended" ELSE IF source = "TCP" THEN "clear" ELSE "drive")
  /\ UNCHANGED <<fixedVars, panelVars, running, event, roundVars, lastId, coming, handing, linkUp, sentVars>>

ClearEvent(r) ==
  /\ stage[r] = "clear" /\ lastId < MaxAsks /\ lastId' = lastId + 1
  /\ current' = [current EXCEPT ![r] = lastId + 1]
  /\ event' = [event EXCEPT ![r] = FALSE] /\ To(r, "note")
  /\ UNCHANGED <<fixedVars, panelVars, running, asked, response, info, coming, handing, linkUp, sentVars>>

\* Mutant: the response of the round before is kept.
NoteAskKept(r) ==
  /\ stage[r] = "note" /\ asked' = [asked EXCEPT ![r] = @ \cup {current[r]}] /\ To(r, "send")
  /\ UNCHANGED <<fixedVars, panelVars, running, event, current, response, info, lastId, coming, handing, linkUp, sentVars>>
NoteAsk(r) ==
  /\ stage[r] = "note" /\ asked' = [asked EXCEPT ![r] = @ \cup {current[r]}]
  /\ response' = [response EXCEPT ![r] = NoInfo] /\ To(r, "send")
  /\ UNCHANGED <<fixedVars, panelVars, running, event, current, info, lastId, coming, handing, linkUp, sentVars>>

\* A send that raises ends the loop.
SendAsk(r) ==
  /\ stage[r] = "send"
  /\ IF linkUp THEN To(r, "wait") /\ coming' = coming \cup {current[r]} /\ UNCHANGED asked
     ELSE To(r, "ended") /\ asked' = [asked EXCEPT ![r] = @ \ {current[r]}] /\ UNCHANGED coming
  /\ UNCHANGED <<fixedVars, panelVars, running, event, current, response, info, lastId, handing, linkUp, sentVars>>

\* The wait ends with the event or after 0.5 s.
WaitEnds(r) ==
  /\ stage[r] = "wait" /\ \/ event[r] /\ To(r, "woken")
                          \/ ~event[r] /\ To(r, "late")
  /\ UNCHANGED <<fixedVars, panelVars, running, event, roundVars, lastId, coming, handing, linkUp, sentVars>>
Taken(r) == IF stage[r] = "woken" THEN response[r] ELSE NoInfo
TakeInfo(r) ==
  /\ stage[r] \in {"woken", "late"} /\ asked' = [asked EXCEPT ![r] = @ \ {current[r]}]
  /\ info' = [info EXCEPT ![r] = Taken(r)]
  /\ To(r, IF Taken(r) = NoInfo THEN "head" ELSE "drive")
  /\ UNCHANGED <<fixedVars, panelVars, running, event, current, response, lastId, coming, handing, linkUp, sentVars>>

\* _run_path_follow logs what a send raises, _run_chaser lets it end the thread;
\* a chaser without a target, or UDP before the first state, sends nothing.
Drive(r) ==
  /\ stage[r] = "drive" /\ controls[r] < MaxControls
  /\ \/ linkUp /\ controls' = [controls EXCEPT ![r] = @ + 1] /\ To(r, "head")
        /\ after' = IF running[r] THEN after ELSE [after EXCEPT ![r] = @ + 1]
     \/ ~linkUp /\ To(r, IF chaser THEN "ended" ELSE "head") /\ UNCHANGED sentVars
     \/ (chaser \/ source = "UDP") /\ To(r, "head") /\ UNCHANGED sentVars
  /\ UNCHANGED <<fixedVars, panelVars, running, event, roundVars, lastId, coming, handing, linkUp>>

-----------------------------------------------------------------------------
(* The Receiver and the connection.                                        *)

\* handle_vehicle_info_response of the listed runner; the state is taken only
\* with a result that is success.
HandOver(id, ok) ==
  /\ handing = NoRunner /\ linkUp /\ id \in coming /\ coming' = coming \ {id}
  /\ IF listed # NoRunner /\ id \in asked[listed]
     THEN /\ asked' = [asked EXCEPT ![listed] = @ \ {id}] /\ handing' = listed
          /\ response' = [response EXCEPT ![listed] = IF ok THEN id ELSE NoInfo]
     ELSE UNCHANGED <<asked, handing, response>>
  /\ UNCHANGED <<fixedVars, panelVars, running, stage, event, current, info, lastId, linkUp, sentVars>>
SetEvent ==
  /\ handing # NoRunner /\ event' = [event EXCEPT ![handing] = TRUE] /\ handing' = NoRunner
  /\ UNCHANGED <<fixedVars, panelVars, running, stage, roundVars, lastId, coming, linkUp, sentVars>>
LinkLost ==
  /\ linkUp /\ linkUp' = FALSE /\ coming' = {}
  /\ UNCHANGED <<fixedVars, panelVars, running, stage, event, roundVars, lastId, handing, sentVars>>

LoopStep(r) ==
  \/ Head1(r) \/ ClearEvent(r) \/ NoteAsk(r) \/ SendAsk(r) \/ WaitEnds(r) \/ TakeInfo(r) \/ Drive(r)
AdNext ==
  \/ StartAd \/ ListAd \/ StopAd \/ ClearAd \/ SetEvent \/ LinkLost
  \/ \E r \in Runners : LoopStep(r)
  \/ \E id \in Asks, ok \in BOOLEAN : HandOver(id, ok)

\* The control thread runs; its wait has a timeout.
AdSpec == AdInit /\ [][AdNext]_adVars /\ \A r \in Runners : WF_adVars(LoopStep(r))

-----------------------------------------------------------------------------
(* Properties.                                                             *)

\* A control over TCP is computed from the answer to the request of its round,
\* though answers come late, after a timeout, and the event after the lock.
FreshInfo == \A r \in Runners :
  source = "TCP" /\ stage[r] = "drive" => info[r] = current[r]

\* A runner sends one control at most after stop(), so that a new runner for the
\* vehicle soon has it alone.
LastControl == \A r \in Runners : after[r] <= 1

\* Every control is of the answer of its round, and the last one comes soon.
ControlsRight == FreshInfo /\ LastControl

\* A stopped loop ends (a loop the bounds cut short aside).
ToldToStop(r) == stage[r] # "new" /\ ~running[r]
LoopIsOver(r) == stage[r] = "ended" \/ lastId = MaxAsks \/ controls[r] = MaxControls
StoppedLoopEnds == \A r \in Runners : ToldToStop(r) ~> LoopIsOver(r)
=============================================================================
