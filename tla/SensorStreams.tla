---------------------------- MODULE SensorStreams ----------------------------
(***************************************************************************)
(* One stream of the radar tab (panels/radar_sensor_panel.py) or one tab   *)
(* of the monitor (panels/monitor.py), with its UDPThread.  The callback   *)
(* thread starts and stops the stream; a receive thread that fails posts   *)
(* an error, which the main thread applies to whatever the panel holds by  *)
(* then.  The radar stops what it holds, the monitor forgets it.           *)
(***************************************************************************)
EXTENDS Naturals, Sequences

CONSTANTS MaxThreads, MaxPackets   \* bounds: Starts, datagrams
ASSUME StreamAssumption == MaxThreads \in Nat /\ MaxPackets \in Nat

VARIABLES
  streamKind,      \* "radar" or "monitor"
  supported,       \* does the template have only types TemplateParser knows?
  threads,         \* each UDPThread: its step and its running flag
  thread,          \* the one the panel holds, 0 for None
  streamRunning,   \* the monitor's own flag
  tab,             \* is the tab open?
  streamStatus,    \* "Stopped", "Running", "RX error", "Bind failed"
  clicking,        \* the callback thread is between binding and showing "Running"
  posted,          \* the queue of the main thread: <<"data" or "error", thread>>
  displayed,       \* the thread whose packet is shown, 0 for none
  datagramsIn,         \* datagrams that came
  hit              \* history: was an error applied to a stream other than the one that
                   \* failed, or to one that was just being shown as started?

streamVars == <<streamKind, supported, threads, thread, streamRunning, tab, streamStatus, clicking,
                posted, displayed, datagramsIn, hit>>
ThreadIds == 1..MaxThreads
Monitored == streamKind = "monitor"

StreamInit ==
  /\ streamKind \in {"radar", "monitor"} /\ supported \in BOOLEAN /\ (streamKind = "radar" => supported)
  /\ threads = [t \in ThreadIds |-> [at |-> "new", running |-> TRUE]]
  /\ thread = 0 /\ streamRunning = FALSE /\ tab = TRUE /\ streamStatus = "Stopped" /\ clicking = FALSE
  /\ posted = << >> /\ displayed = 0 /\ datagramsIn = 0 /\ hit = FALSE

ThreadAlive(t) == threads[t].at \in {"recv", "data", "failed", "error"}
Listening(t) == ThreadAlive(t) /\ threads[t].running

-----------------------------------------------------------------------------
(* The callback thread.                                                    *)

MayStart == IF Monitored THEN tab /\ ~streamRunning ELSE ~\E t \in ThreadIds : t = thread /\ ThreadAlive(t)
StartFails ==
  /\ ~clicking /\ MayStart /\ streamStatus' = "Bind failed"
  /\ UNCHANGED <<streamKind, supported, threads, thread, streamRunning, tab, clicking, posted, displayed, datagramsIn, hit>>
StartStream ==
  /\ ~clicking /\ MayStart /\ clicking' = TRUE
  /\ \E t \in ThreadIds :
       /\ threads[t].at = "new" /\ \A u \in ThreadIds : u < t => threads[u].at # "new"
       /\ threads' = [threads EXCEPT ![t].at = "recv"] /\ thread' = t
  /\ streamRunning' = Monitored
  /\ UNCHANGED <<streamKind, supported, tab, streamStatus, posted, displayed, datagramsIn, hit>>
\* The radar writes "Running", the monitor what its flag says by now.
ShowStarted ==
  /\ clicking /\ clicking' = FALSE
  /\ streamStatus' = IF ~Monitored \/ streamRunning THEN "Running" ELSE "Stopped"
  /\ UNCHANGED <<streamKind, supported, threads, thread, streamRunning, tab, posted, displayed, datagramsIn, hit>>

\* The flag of the thread is cleared before its socket is closed.
StopHeld == threads' = IF thread = 0 THEN threads ELSE [threads EXCEPT ![thread].running = FALSE]
\* Mutant: the thread is forgotten, not stopped.
StopForgets ==
  /\ ~clicking /\ (Monitored => tab /\ streamRunning)
  /\ thread' = 0 /\ streamRunning' = FALSE /\ streamStatus' = "Stopped"
  /\ UNCHANGED <<streamKind, supported, threads, tab, clicking, posted, displayed, datagramsIn, hit>>
StopStream ==
  /\ ~clicking /\ (Monitored => tab /\ streamRunning)
  /\ StopHeld /\ thread' = 0 /\ streamRunning' = FALSE /\ streamStatus' = "Stopped"
  /\ hit' = (hit /\ Monitored)
  /\ UNCHANGED <<streamKind, supported, tab, clicking, posted, displayed, datagramsIn>>
CloseTab ==
  /\ Monitored /\ tab /\ ~clicking /\ tab' = FALSE
  /\ StopHeld /\ thread' = 0 /\ streamRunning' = FALSE /\ streamStatus' = "Stopped"
  /\ UNCHANGED <<streamKind, supported, clicking, posted, displayed, datagramsIn, hit>>

-----------------------------------------------------------------------------
(* UDPThread.run.                                                          *)

ThreadTo(t, here, there) == threads[t].at = here /\ threads' = [threads EXCEPT ![t].at = there]

\* A datagram; a parser that meets a type it does not know raises what run()
\* does not catch, and the thread is gone.
PacketComes(t) ==
  /\ datagramsIn < MaxPackets /\ datagramsIn' = datagramsIn + 1
  /\ ThreadTo(t, "recv", IF supported THEN "data" ELSE "crashed")
  /\ UNCHANGED <<streamKind, supported, thread, streamRunning, tab, streamStatus, clicking, posted, displayed, hit>>
\* _on_data posts at most one packet in 50 ms; the loop looks at its flag.
HandOverPacket(t) ==
  /\ ThreadTo(t, "data", IF threads[t].running THEN "recv" ELSE "ended")
  /\ posted' \in {posted, Append(posted, <<"data", t>>)}
  /\ UNCHANGED <<streamKind, supported, thread, streamRunning, tab, streamStatus, clicking, displayed, datagramsIn, hit>>
\* The socket was closed, or fails by itself.
ReceiveFails(t) ==
  /\ ThreadTo(t, "recv", "failed")
  /\ UNCHANGED <<streamKind, supported, thread, streamRunning, tab, streamStatus, clicking, posted, displayed, datagramsIn, hit>>
CheckFailure(t) ==
  /\ ThreadTo(t, "failed", IF threads[t].running THEN "error" ELSE "ended")
  /\ UNCHANGED <<streamKind, supported, thread, streamRunning, tab, streamStatus, clicking, posted, displayed, datagramsIn, hit>>
PostError(t) ==
  /\ ThreadTo(t, "error", "ended") /\ posted' = Append(posted, <<"error", t>>)
  /\ UNCHANGED <<streamKind, supported, thread, streamRunning, tab, streamStatus, clicking, displayed, datagramsIn, hit>>

-----------------------------------------------------------------------------
(* The main thread.                                                        *)

ApplyPacket ==
  /\ posted # << >> /\ Head(posted)[1] = "data" /\ posted' = Tail(posted)
  /\ displayed' = IF tab THEN Head(posted)[2] ELSE displayed
  /\ UNCHANGED <<streamKind, supported, threads, thread, streamRunning, tab, streamStatus, clicking, datagramsIn, hit>>

Hits(t) == hit' = (hit \/ (tab /\ thread \notin {0, t}) \/ (clicking /\ ~Monitored))
\* radar: _on_error stops the stream, whichever thread it has.
RadarError ==
  /\ ~Monitored /\ posted # << >> /\ Head(posted)[1] = "error" /\ posted' = Tail(posted)
  /\ StopHeld /\ thread' = 0 /\ streamStatus' = "RX error" /\ Hits(Head(posted)[2])
  /\ UNCHANGED <<streamKind, supported, streamRunning, tab, clicking, displayed, datagramsIn>>
\* monitor: _on_thread_error forgets the thread and does not stop it.
MonitorError ==
  /\ Monitored /\ posted # << >> /\ Head(posted)[1] = "error" /\ posted' = Tail(posted)
  /\ thread' = IF tab THEN 0 ELSE thread
  /\ streamRunning' = FALSE /\ streamStatus' = "Stopped" /\ Hits(Head(posted)[2])
  /\ UNCHANGED <<streamKind, supported, threads, tab, clicking, displayed, datagramsIn>>

ThreadRuns(t) == PacketComes(t) \/ HandOverPacket(t) \/ ReceiveFails(t) \/ CheckFailure(t) \/ PostError(t)
StreamClicks == StartFails \/ StartStream \/ ShowStarted \/ StopStream \/ CloseTab
StreamNext ==
  \/ StreamClicks \/ ApplyPacket \/ RadarError \/ MonitorError
  \/ \E t \in ThreadIds : ThreadRuns(t)
StreamSpec == StreamInit /\ [][StreamNext]_streamVars

-----------------------------------------------------------------------------
Settled ==
  /\ ~clicking /\ posted = << >>
  /\ \A t \in ThreadIds : threads[t].at \notin {"data", "failed", "error"}

\* At rest the status says Running exactly of a stream whose thread runs, and
\* no other thread listens: not after a Stop, an error, a closed tab.  Except:
\* an error still queued when the next Start comes, or applied before the Start
\* is shown (the radar is then stopped, or says Running with no thread, until
\* the next Stop; the monitor's new thread listens on for good, with no Stop
\* for it); and a template with a type the parser does not know, of which the
\* first datagram ends the thread unnoticed.
StreamsTrue ==
  Settled =>
    /\ ~hit => (streamStatus = "Running" <=> thread # 0 /\ (ThreadAlive(thread) \/ threads[thread].at = "crashed"))
    /\ \A t \in ThreadIds : Listening(t) => t = thread \/ (Monitored /\ hit)
    /\ \A t \in ThreadIds : threads[t].at = "crashed" => ~supported
=============================================================================
