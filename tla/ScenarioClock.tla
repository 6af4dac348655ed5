--------------------------- MODULE ScenarioClock ----------------------------
(***************************************************************************)
(* The scenario clock of the command panel: Play asks the simulator, and   *)
(* the Receiver, on the answer, restarts the elapsed-time counter and arms *)
(* the automatic stop; Stop and the status messages end both.  The UI, the *)
(* Receiver, the counter and the timers are threads; only the clock itself *)
(* (accumulated time, running since) is under a lock.                      *)
(*                                                                         *)
(* A Play stands for its request, and for the threading.Events made when   *)
(* its answer is handled; None stands for the Events made at import.  Of   *)
(* the accumulated time it matters whether it is zero.                     *)
(***************************************************************************)
CONSTANTS Plays, None, NoThread

ASSUME ClockAssumption == None \notin Plays /\ NoThread \notin Plays /\ None # NoThread

VARIABLES
  play,           \* what became of each Play: "new", "asked", "answered"
  resume,         \* _scenario_play_pending: the Plays that resume a pause
  timerCancel, elapsedCancel,  \* _timer_cancel, _elapsed_cancel
  isSet,          \* the Events that are set, <<"timer" or "elapsed", event>>
  accum, since,   \* _elapsed_accum_sec > 0, _elapsed_running_since is not None
  timer,          \* for each Play, its timer thread
  captured,       \* for each Play, elapsed_ev of its timer thread
  counter,        \* the Event the counter thread waits for, or NoThread
  rx,             \* the Receiver: where it is, and for which Play (or None)
  ui,             \* where the UI thread is in _on_sc_stop
  calm            \* history: is a Stop in force, and no Play since?

clock == <<accum, since>>
timers == <<timer, captured>>
clockVars == <<play, resume, timerCancel, elapsedCancel, isSet, clock, timers, counter, rx, ui, calm>>

Events == Plays \cup {None}
RxPlaces == {"idle", "cancel", "elapse", "event", "clock", "count", "timer", "start",
             "check", "endTimer", "endElapsed", "endClock"}

ClockTypeOK ==
  /\ play \in [Plays -> {"new", "asked", "answered"}] /\ resume \subseteq Plays
  /\ timerCancel \in Events /\ elapsedCancel \in Events
  /\ isSet \subseteq {"timer", "elapsed"} \X Events
  /\ accum \in BOOLEAN /\ since \in BOOLEAN
  /\ timer \in [Plays -> {"none", "waiting", "timedOut", "firing", "ended"}]
  /\ captured \in [Plays -> Events]
  /\ counter \in Events \cup {NoThread}
  /\ rx \in [at : RxPlaces, play : Events]
  /\ ui \in {"idle", "stopElapsed", "stopClock"}
  /\ calm \in {"no", "stopping", "stopped"}

ClockInit ==
  /\ play = [p \in Plays |-> "new"] /\ resume = {}
  /\ timerCancel = None /\ elapsedCancel = None /\ isSet = {}
  /\ accum = FALSE /\ since = FALSE
  /\ timer = [p \in Plays |-> "none"] /\ captured = [p \in Plays |-> None]
  /\ counter = NoThread
  /\ rx = [at |-> "idle", play |-> None] /\ ui = "idle" /\ calm = "no"

-----------------------------------------------------------------------------
(* The UI thread.                                                          *)

\* _on_sc_play, with the registration and the sending by dispatch's thread;
\* a request that could not be sent is one that is never answered.
ClickPlay(p) ==
  /\ ui = "idle" /\ play[p] = "new" /\ play' = [play EXCEPT ![p] = "asked"]
  /\ resume' = IF accum /\ ~since THEN resume \cup {p} ELSE resume
  /\ UNCHANGED <<timerCancel, elapsedCancel, isSet, clock, timers, counter, rx, ui, calm>>

\* _on_sc_stop: the Events, one after the other, then the clock.
ClickStop ==
  /\ ui = "idle" /\ ui' = "stopElapsed"
  /\ isSet' = isSet \cup {<<"timer", timerCancel>>}
  /\ calm' = IF rx.at = "idle" THEN "stopping" ELSE "no"
  /\ UNCHANGED <<play, resume, timerCancel, elapsedCancel, clock, timers, counter, rx>>
StopElapsed ==
  /\ ui = "stopElapsed" /\ ui' = "stopClock"
  /\ isSet' = isSet \cup {<<"elapsed", elapsedCancel>>}
  /\ UNCHANGED <<play, resume, timerCancel, elapsedCancel, clock, timers, counter, rx, calm>>

\* Mutant: the clock is stopped but not set to zero.
StopClockKept ==
  /\ ui = "stopClock" /\ ui' = "idle"
  /\ since' = FALSE
  /\ calm' = IF calm = "stopping" THEN "stopped" ELSE calm
  /\ UNCHANGED <<play, resume, timerCancel, elapsedCancel, isSet, accum, timers, counter, rx>>
StopClock ==
  /\ ui = "stopClock" /\ ui' = "idle"
  /\ accum' = FALSE /\ since' = FALSE
  /\ calm' = IF calm = "stopping" THEN "stopped" ELSE calm
  /\ UNCHANGED <<play, resume, timerCancel, elapsedCancel, isSet, timers, counter, rx>>

-----------------------------------------------------------------------------
(* The Receiver: the answer to a Play.                                     *)

RxAt(here) == rx.at = here
RxGo(there) == rx' = [rx EXCEPT !.at = there]
RxMoves(here, there) ==
  /\ RxAt(here) /\ RxGo(there)
  /\ UNCHANGED <<play, resume, timerCancel, elapsedCancel, isSet, clock, timers, counter, ui, calm>>
RxSets(here, there, event) ==
  /\ RxAt(here) /\ RxGo(there) /\ isSet' = isSet \cup {event}
  /\ UNCHANGED <<play, resume, timerCancel, elapsedCancel, clock, timers, counter, ui, calm>>

\* on_scenario_control_response takes the request from the table.
RxPlay(p, ok) ==
  /\ RxAt("idle") /\ play[p] = "asked" /\ play' = [play EXCEPT ![p] = "answered"]
  /\ rx' = IF ok THEN [at |-> "cancel", play |-> p] ELSE rx
  /\ calm' = IF ok THEN "no" ELSE calm
  /\ UNCHANGED <<resume, timerCancel, elapsedCancel, isSet, clock, timers, counter, ui>>

\* Mutant: the timer of the Play before goes on.
RxCancelNothing == RxMoves("cancel", IF rx.play \in resume THEN "clock" ELSE "elapse")
RxCancel ==
  RxSets("cancel", IF rx.play \in resume THEN "clock" ELSE "elapse", <<"timer", timerCancel>>)

\* Mutant: the counter of the Play before goes on.
RxElapseNothing == RxMoves("elapse", "event")
RxElapse == RxSets("elapse", "event", <<"elapsed", elapsedCancel>>)

\* _start_elapsed_counter: a new Event, then the clock, then the thread.
RxEvent ==
  /\ RxAt("event") /\ RxGo("clock") /\ elapsedCancel' = rx.play
  /\ UNCHANGED <<play, resume, timerCancel, isSet, clock, timers, counter, ui, calm>>
RxClock ==
  /\ RxAt("clock") /\ RxGo("count") /\ since' = TRUE
  /\ accum' = (accum /\ (rx.play = None \/ rx.play \in resume))
  /\ UNCHANGED <<play, resume, timerCancel, elapsedCancel, isSet, timers, counter, ui, calm>>
RxCount ==
  /\ RxAt("count") /\ RxGo(IF rx.play = None THEN "idle" ELSE "timer")
  /\ counter' = IF counter = NoThread THEN elapsedCancel ELSE counter
  /\ UNCHANGED <<play, resume, timerCancel, elapsedCancel, isSet, clock, timers, ui, calm>>

\* _start_sc_timer: a new Event, then the thread; nothing if it is disabled.
RxTimer(enabled) ==
  /\ RxAt("timer") /\ RxGo(IF enabled THEN "start" ELSE "idle")
  /\ timerCancel' = IF enabled THEN rx.play ELSE timerCancel
  /\ captured' = IF enabled THEN [captured EXCEPT ![rx.play] = elapsedCancel] ELSE captured
  /\ UNCHANGED <<play, resume, elapsedCancel, isSet, clock, timer, counter, ui, calm>>
RxStart ==
  /\ RxAt("start") /\ RxGo("idle") /\ timer' = [timer EXCEPT ![rx.play] = "waiting"]
  /\ UNCHANGED <<play, resume, timerCancel, elapsedCancel, isSet, clock, captured, counter, ui, calm>>

-----------------------------------------------------------------------------
(* The Receiver: on_scenario_status.                                       *)

\* PLAY: the clock runs, and the counter is started if there is none.
StatusPlay ==
  /\ RxAt("idle") /\ rx' = [at |-> "check", play |-> None]
  /\ since' = TRUE /\ calm' = "no"
  /\ UNCHANGED <<play, resume, timerCancel, elapsedCancel, isSet, accum, timers, counter, ui>>
StatusCheck == RxMoves("check", IF counter = NoThread THEN "clock" ELSE "idle")
StatusPause ==
  /\ RxAt("idle")
  /\ accum' = (accum \/ since) /\ since' = FALSE
  /\ UNCHANGED <<play, resume, timerCancel, elapsedCancel, isSet, timers, counter, rx, ui, calm>>

\* STOP and COMPLETED.
StatusEnd == RxMoves("idle", "endTimer")

EndTimer == RxSets("endTimer", "endElapsed", <<"timer", timerCancel>>)
EndElapsed == RxSets("endElapsed", "endClock", <<"elapsed", elapsedCancel>>)
EndClock ==
  /\ RxAt("endClock") /\ RxGo("idle")
  /\ accum' = FALSE /\ since' = FALSE /\ calm' = "stopped"
  /\ UNCHANGED <<play, resume, timerCancel, elapsedCancel, isSet, timers, counter, ui>>

-----------------------------------------------------------------------------
(* The timer threads and the counter thread.                               *)

Cancelled(p) == <<"timer", p>> \in isSet
TimerMoves(p, here, there) ==
  /\ timer[p] = here /\ timer' = [timer EXCEPT ![p] = there]
  /\ UNCHANGED <<play, resume, timerCancel, elapsedCancel, isSet, clock, captured, counter, rx, ui, calm>>

\* cancel.wait(timeout=total_sec)
TimerWaited(p) == TimerMoves(p, "waiting", IF Cancelled(p) THEN "ended" ELSE "timedOut")

TimerCheck(p) == TimerMoves(p, "timedOut", IF Cancelled(p) THEN "ended" ELSE "firing")

\* The automatic stop: end the captured counter and dispatch a Stop.
TimerFires(p) ==
  /\ timer[p] = "firing" /\ timer' = [timer EXCEPT ![p] = "ended"]
  /\ isSet' = isSet \cup {<<"elapsed", captured[p]>>}
  /\ UNCHANGED <<play, resume, timerCancel, elapsedCancel, clock, captured, counter, rx, ui, calm>>

\* The counter thread leaves its loop.
CounterEnds ==
  /\ counter # NoThread /\ <<"elapsed", counter>> \in isSet /\ counter' = NoThread
  /\ UNCHANGED <<play, resume, timerCancel, elapsedCancel, isSet, clock, timers, rx, ui, calm>>

UiStep == \/ ClickStop \/ StopElapsed \/ StopClock
          \/ \E p \in Plays : ClickPlay(p)
RxStep ==
  \/ \E p \in Plays, ok \in BOOLEAN : RxPlay(p, ok)
  \/ RxCancel \/ RxElapse \/ RxEvent \/ RxClock \/ RxCount \/ RxStart
  \/ \E enabled \in BOOLEAN : RxTimer(enabled)
  \/ StatusPlay \/ StatusCheck \/ StatusPause \/ StatusEnd \/ EndTimer \/ EndElapsed \/ EndClock
TimerStep(p) == TimerWaited(p) \/ TimerCheck(p) \/ TimerFires(p)

ClockNext == UiStep \/ RxStep \/ CounterEnds \/ \E p \in Plays : TimerStep(p)

\* A timer thread goes on by itself: its wait has a timeout.
ClockSpec == ClockInit /\ [][ClockNext]_clockVars /\ \A p \in Plays : WF_clockVars(TimerStep(p))

-----------------------------------------------------------------------------
(* Properties.                                                             *)

Armed(p) == timer[p] \in {"waiting", "timedOut"} /\ ~Cancelled(p)

\* An automatic stop that is not cancelled is the current one, so that Stop and
\* the next Play, which set _timer_cancel, reach it; there is at most one.
OneArmedTimer == \A p \in Plays : Armed(p) => timerCancel = p

\* A counter thread that goes on waits for the current _elapsed_cancel, so that
\* Stop reaches it.
CounterReachable ==
  counter # NoThread /\ <<"elapsed", counter>> \notin isSet => counter = elapsedCancel

\* After a STOP or COMPLETED status, or a Stop click that met no Play being
\* handled, and until the next Play is accepted or reported: no automatic stop
\* is armed, the counter thread is ending, and the clock is at zero.
StopIsFinal ==
  calm = "stopped" =>
    /\ \A p \in Plays : ~Armed(p)
    /\ counter # NoThread => <<"elapsed", counter>> \in isSet
    /\ ~accum /\ ~since

\* The inductive invariant: what is set where in the handlers of the Receiver
\* and in _on_sc_stop.
TimerSet   == <<"timer", timerCancel>> \in isSet
ElapsedSet == <<"elapsed", elapsedCancel>> \in isSet
Answering  == \/ rx.at \in {"elapse", "event", "timer", "start"}
              \/ rx.at \in {"clock", "count"} /\ rx.play # None
RxHolds ==
  /\ rx.at \in {"cancel", "elapse", "event", "timer", "start"} => rx.play \in Plays
  /\ rx.at = "check" => rx.play = None
  /\ Answering => \A p \in Plays : ~Armed(p)
  /\ rx.at = "event" => ElapsedSet
  /\ rx.at = "start" => timerCancel = rx.play
  /\ rx.at \in {"endElapsed", "endClock"} => TimerSet
  /\ rx.at = "endClock" => ElapsedSet
CalmHolds ==
  /\ calm # "no" => rx.at \in {"idle", "endTimer", "endElapsed", "endClock"} /\ TimerSet
  /\ calm = "stopping" => ui # "idle" /\ (ui = "stopClock" => ElapsedSet)
  /\ calm = "stopped" => ElapsedSet /\ ~accum /\ ~since
ClockIInv == ClockTypeOK /\ OneArmedTimer /\ CounterReachable /\ RxHolds /\ CalmHolds

\* An armed timer sends its automatic stop unless it is cancelled.
TimerWaits(p) == timer[p] = "waiting"
TimerIsOver(p) == timer[p] = "firing" \/ Cancelled(p)
AutoStops == \A p \in Plays : TimerWaits(p) ~> TimerIsOver(p)
=============================================================================
