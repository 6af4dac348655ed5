------------------------------- MODULE StepAd -------------------------------
(***************************************************************************)
(* StepAdRunner: the control loop that steps the simulator in Fixed Step   *)
(* mode, waits for the step's VehicleInfo and commands the vehicles before *)
(* it sends the next FixedStep; with it start_step_ad and stop_step_ad,    *)
(* the loss of the connection, the TCP Receiver that routes VehicleInfo    *)
(* answers to the listed runners, and the runner's UDP receive loops.      *)
(*                                                                         *)
(* A VehicleInfo is the number of the simulation step it describes.  One   *)
(* connection is modelled; a runner keeps the socket it was started with.  *)
(***************************************************************************)
EXTENDS Naturals

CONSTANTS Runners,   \* StepAdRunner instances
          Vehicles,  \* the vehicles each of them drives, in any order
          Tcp,       \* those whose VehicleInfo is requested over TCP
          Chasers,   \* those driven by _send_chaser
          NoRunner,  \* no runner
          MaxStep    \* bound: the simulator executes this many steps

ASSUME StepAdAssumption ==
  /\ Tcp \subseteq Vehicles /\ Chasers \subseteq Vehicles
  /\ NoRunner \notin Runners
  /\ MaxStep \in Nat

VARIABLES
  pc,            \* program counter of each control loop
  looping,       \* it has left the initial part and is in the while loop
  todo, ready,   \* vehicles left in the current for loop; those with info
  running,       \* _running
  entry, ack,    \* its FixedStep is in the pending table; the entry's event
  wired,         \* it was started with a socket, not with None
  latest, event, \* each vehicle's latest and vi_event
  seen,          \* a UDP receive loop has stored a datagram, its event not set
  asked,         \* the keys of _tcp_vi_requests
  listed,        \* step_ad_runners
  ui, starting,  \* the user interface thread, and the runner it starts
  tcpSock, sock, \* tcp_sock is not None; the socket: open, reset, closed
  lost,          \* how far a thread is in _on_disconnect
  rx, rxRunner, rxVehicle, rxInfo,  \* the Receiver and the answer it handles
  owed, acks,    \* FixedSteps not executed yet; executed, their answer unread
  queries, infos,\* GetVehicleInfo not answered yet; answers not read yet
  step,          \* steps the simulator has executed
  stepOf,        \* the one executed for a runner's last FixedStep
  lastOk,        \* the last answer stored for a vehicle was a success
  sentStopped    \* FixedSteps a runner sent after it was told to stop

loopVars == <<pc, looping, todo, ready>>
ackVars  == <<entry, ack>>
viVars   == <<latest, event, seen, asked, lastOk>>
uiVars   == <<listed, ui, starting>>
netVars  == <<tcpSock, sock, lost>>
rxVars   == <<rx, rxRunner, rxVehicle, rxInfo>>
simVars  == <<owed, acks, queries, infos, step, stepOf>>
vars     == <<loopVars, running, wired, sentStopped, ackVars, viVars, uiVars,
              netVars, rxVars, simVars>>

External == Vehicles # {} /\ Vehicles = Tcp      \* _tcp_external
Steps    == 0..MaxStep                           \* 0: no VehicleInfo (None)
Presend  == {"clear", "register", "send"}
Control  == {"ask", "collect", "infos", "command"}
LoopPc   == {"unborn", "top", "ack", "finish", "done"} \cup Presend \cup Control
Handlers == {"ui", "rx"}

TypeLoop ==
  /\ pc \in [Runners -> LoopPc] /\ looping \in [Runners -> BOOLEAN]
  /\ todo \in [Runners -> SUBSET Vehicles] /\ ready \in [Runners -> SUBSET Vehicles]
  /\ running \in [Runners -> BOOLEAN] /\ wired \in [Runners -> BOOLEAN]
  /\ entry \in [Runners -> BOOLEAN] /\ ack \in [Runners -> BOOLEAN]
  /\ sentStopped \in [Runners -> Nat]
  /\ \A r \in Runners : pc[r] \in {"ask", "collect"} => todo[r] \subseteq Tcp

TypeInfo ==
  /\ latest \in [Runners -> [Vehicles -> Steps]]
  /\ event \in [Runners -> [Vehicles -> BOOLEAN]]
  /\ seen \in [Runners -> SUBSET (Vehicles \ Tcp)]
  /\ asked \in [Runners -> SUBSET Tcp]
  /\ lastOk \in [Runners -> [Vehicles -> BOOLEAN]]

TypeConsole ==
  /\ listed \subseteq Runners /\ ui \in {"idle", "append", "lost"}
  /\ starting \in IF ui = "append" THEN Runners ELSE {NoRunner}
  /\ tcpSock \in BOOLEAN /\ sock \in {"open", "reset", "closed"}
  /\ lost \in [Handlers -> {"no", "null", "release", "stop"}]
  /\ rx \in {"recv", "store", "signal", "lost", "dead"}
  /\ rxRunner \in Runners \cup {NoRunner} /\ rxVehicle \in Tcp \cup {NoRunner}
  /\ rxInfo \in Steps

TypeSim ==
  /\ owed \in [Runners -> Nat] /\ acks \in [Runners -> Nat]
  /\ queries \in [Runners -> SUBSET Tcp]
  /\ infos \in [Runners -> [Vehicles -> Steps]]
  /\ step \in Steps /\ stepOf \in [Runners -> Steps]

TypeOK == TypeLoop /\ TypeInfo /\ TypeConsole /\ TypeSim

Init ==
  /\ pc = [r \in Runners |-> "unborn"] /\ looping = [r \in Runners |-> FALSE]
  /\ todo = [r \in Runners |-> {}] /\ ready = [r \in Runners |-> {}]
  /\ running = [r \in Runners |-> FALSE] /\ wired = [r \in Runners |-> FALSE]
  /\ entry = [r \in Runners |-> FALSE] /\ ack = [r \in Runners |-> FALSE]
  /\ sentStopped = [r \in Runners |-> 0]
  /\ latest = [r \in Runners |-> [v \in Vehicles |-> 0]]
  /\ event = [r \in Runners |-> [v \in Vehicles |-> FALSE]]
  /\ seen = [r \in Runners |-> {}] /\ asked = [r \in Runners |-> {}]
  /\ lastOk = [r \in Runners |-> [v \in Vehicles |-> FALSE]]
  /\ listed = {} /\ ui = "idle" /\ starting = NoRunner
  /\ tcpSock = TRUE /\ sock = "open" /\ lost = [t \in Handlers |-> "no"]
  /\ rx = "recv" /\ rxRunner = NoRunner /\ rxVehicle = NoRunner /\ rxInfo = 0
  /\ owed = [r \in Runners |-> 0] /\ acks = [r \in Runners |-> 0]
  /\ queries = [r \in Runners |-> {}]
  /\ infos = [r \in Runners |-> [v \in Vehicles |-> 0]]
  /\ step = 0 /\ stepOf = [r \in Runners |-> 0]

-----------------------------------------------------------------------------
(* The console: start_step_ad, stop_step_ad, disconnect, _on_disconnect.   *)

\* The runner's threads start before the runner is listed.
Start(r) ==
  /\ ui = "idle" /\ listed = {} /\ pc[r] = "unborn"
  /\ pc' = [pc EXCEPT ![r] = "clear"]
  /\ running' = [running EXCEPT ![r] = TRUE]
  /\ wired' = [wired EXCEPT ![r] = tcpSock]
  /\ ui' = "append" /\ starting' = r
  /\ UNCHANGED <<looping, todo, ready, sentStopped, ackVars, viVars, listed>>
  /\ UNCHANGED <<netVars, rxVars, simVars>>

Append ==
  /\ ui = "append"
  /\ listed' = listed \cup {starting}
  /\ ui' = "idle" /\ starting' = NoRunner
  /\ UNCHANGED <<loopVars, running, wired, sentStopped, ackVars, viVars>>
  /\ UNCHANGED <<netVars, rxVars, simVars>>

\* StepAdRunner.stop, for each runner of the list, and clear the list.  It
\* sets every vi_event but not the event of the FixedStep.
StopListed ==
  /\ running' = [r \in Runners |-> running[r] /\ r \notin listed]
  /\ event' = [r \in Runners |-> [v \in Vehicles |-> event[r][v] \/ r \in listed]]
  /\ listed' = {}

StopStepAd ==
  /\ ui = "idle" /\ listed # {}
  /\ StopListed
  /\ UNCHANGED <<loopVars, wired, sentStopped, ackVars, latest, seen, asked, lastOk>>
  /\ UNCHANGED <<ui, starting, netVars, rxVars, simVars>>

Disconnect ==
  /\ ui = "idle" /\ ui' = "lost"
  /\ sock' = IF tcpSock THEN "closed" ELSE sock
  /\ lost' = [lost EXCEPT !["ui"] = "null"]
  /\ UNCHANGED <<loopVars, running, wired, sentStopped, ackVars, viVars>>
  /\ UNCHANGED <<listed, starting, tcpSock, rxVars, simVars>>

PeerClose ==
  /\ sock = "open" /\ sock' = "reset"
  /\ UNCHANGED <<loopVars, running, wired, sentStopped, ackVars, viVars, uiVars>>
  /\ UNCHANGED <<tcpSock, lost, rxVars, simVars>>

GoLost(t, from, to) == lost[t] = from /\ lost' = [lost EXCEPT ![t] = to]

LostNull(t) ==
  /\ GoLost(t, "null", "release")
  /\ tcpSock' = FALSE
  /\ UNCHANGED <<loopVars, running, wired, sentStopped, ackVars, viVars, uiVars>>
  /\ UNCHANGED <<sock, rxVars, simVars>>

\* Every event of the pending table is set, and the table cleared.
LostRelease(t) ==
  /\ GoLost(t, "release", "stop")
  /\ ack' = [r \in Runners |-> ack[r] \/ entry[r]]
  /\ entry' = [r \in Runners |-> FALSE]
  /\ UNCHANGED <<loopVars, running, wired, sentStopped, viVars, uiVars>>
  /\ UNCHANGED <<tcpSock, sock, rxVars, simVars>>

LostStop(t) ==
  /\ GoLost(t, "stop", "no")
  /\ StopListed
  /\ ui' = IF t = "ui" THEN "idle" ELSE ui
  /\ rx' = IF t = "rx" THEN "dead" ELSE rx
  /\ UNCHANGED <<loopVars, wired, sentStopped, ackVars, latest, seen, asked, lastOk>>
  /\ UNCHANGED <<starting, tcpSock, sock, rxRunner, rxVehicle, rxInfo, simVars>>

LostStep(t) == LostNull(t) \/ LostRelease(t) \/ LostStop(t)

-----------------------------------------------------------------------------
(* The Receiver thread of the console, one message at a time.              *)

RxFail ==
  /\ rx = "recv" /\ sock # "open"
  /\ rx' = "lost" /\ lost' = [lost EXCEPT !["rx"] = "null"]
  /\ UNCHANGED <<loopVars, running, wired, sentStopped, ackVars, viVars, uiVars>>
  /\ UNCHANGED <<tcpSock, sock, rxRunner, rxVehicle, rxInfo, simVars>>

\* disconnect() stopped the Receiver before it closed the socket.
RxQuit ==
  /\ rx = "recv" /\ sock = "closed"
  /\ rx' = "dead"
  /\ UNCHANGED <<loopVars, running, wired, sentStopped, ackVars, viVars, uiVars>>
  /\ UNCHANGED <<netVars, rxRunner, rxVehicle, rxInfo, simVars>>

RxAck(r) ==
  /\ rx = "recv" /\ sock # "closed" /\ acks[r] > 0
  /\ acks' = [acks EXCEPT ![r] = @ - 1]
  /\ ack' = [ack EXCEPT ![r] = @ \/ entry[r]]
  /\ entry' = [entry EXCEPT ![r] = FALSE]
  /\ UNCHANGED <<loopVars, running, wired, sentStopped, viVars, uiVars, netVars>>
  /\ UNCHANGED <<rxVars, owed, queries, infos, step, stepOf>>

\* _on_vehicle_info_response asks the listed runners only; the first that has
\* the request id takes the answer, a success or (as 0) a failure.
RxInfo(r, v, info) ==
  /\ rx = "recv" /\ sock # "closed" /\ infos[r][v] # 0 /\ info \in {infos[r][v], 0}
  /\ infos' = [infos EXCEPT ![r][v] = 0]
  /\ IF r \in listed /\ v \in asked[r]
     THEN /\ asked' = [asked EXCEPT ![r] = @ \ {v}]
          /\ rx' = "store" /\ rxRunner' = r /\ rxVehicle' = v /\ rxInfo' = info
     ELSE UNCHANGED <<asked, rxVars>>
  /\ UNCHANGED <<loopVars, running, wired, sentStopped, ackVars, latest, event, seen>>
  /\ UNCHANGED <<lastOk, uiVars, netVars, owed, acks, queries, step, stepOf>>

RxStore ==
  /\ rx = "store" /\ rx' = "signal"
  /\ latest' = IF rxInfo = 0 THEN latest
               ELSE [latest EXCEPT ![rxRunner][rxVehicle] = rxInfo]
  /\ lastOk' = [lastOk EXCEPT ![rxRunner][rxVehicle] = rxInfo # 0]
  /\ UNCHANGED <<loopVars, running, wired, sentStopped, ackVars, event, seen, asked>>
  /\ UNCHANGED <<uiVars, netVars, rxRunner, rxVehicle, rxInfo, simVars>>

\* The event is set after a failure too.
RxSignal ==
  /\ rx = "signal" /\ rx' = "recv"
  /\ event' = [event EXCEPT ![rxRunner][rxVehicle] = TRUE]
  /\ UNCHANGED <<loopVars, running, wired, sentStopped, ackVars, latest, seen, asked>>
  /\ UNCHANGED <<lastOk, uiVars, netVars, rxRunner, rxVehicle, rxInfo, simVars>>

-----------------------------------------------------------------------------
(* The simulator, and the runner's UDP receive loops.  A datagram describes *)
(* any step executed so far: UDP delays, repeats, reorders and loses.       *)

SimStep(r) ==
  /\ sock = "open" /\ owed[r] > 0 /\ step < MaxStep
  /\ owed' = [owed EXCEPT ![r] = @ - 1] /\ acks' = [acks EXCEPT ![r] = @ + 1]
  /\ step' = step + 1 /\ stepOf' = [stepOf EXCEPT ![r] = step + 1]
  /\ UNCHANGED <<loopVars, running, wired, sentStopped, ackVars, viVars, uiVars>>
  /\ UNCHANGED <<netVars, rxVars, queries, infos>>

SimInfo(r, v) ==
  /\ sock = "open" /\ v \in queries[r] /\ step > 0
  /\ queries' = [queries EXCEPT ![r] = @ \ {v}]
  /\ infos' = [infos EXCEPT ![r][v] = step]
  /\ UNCHANGED <<loopVars, running, wired, sentStopped, ackVars, viVars, uiVars>>
  /\ UNCHANGED <<netVars, rxVars, owed, acks, step, stepOf>>

UdpStore(r, v) ==
  /\ running[r] /\ v \notin Tcp /\ v \notin seen[r]
  /\ \E s \in 1..step : latest' = [latest EXCEPT ![r][v] = s]
  /\ seen' = [seen EXCEPT ![r] = @ \cup {v}]
  /\ UNCHANGED <<loopVars, running, wired, sentStopped, ackVars, event, asked, lastOk>>
  /\ UNCHANGED <<uiVars, netVars, rxVars, simVars>>

UdpSignal(r, v) ==
  /\ v \in seen[r]
  /\ seen' = [seen EXCEPT ![r] = @ \ {v}]
  /\ event' = [event EXCEPT ![r][v] = TRUE]
  /\ UNCHANGED <<loopVars, running, wired, sentStopped, ackVars, latest, asked, lastOk>>
  /\ UNCHANGED <<uiVars, netVars, rxVars, simVars>>

-----------------------------------------------------------------------------
(* _control_loop.                                                          *)

Goto(r, from, to) == pc[r] = from /\ pc' = [pc EXCEPT ![r] = to]

\* _presend_step, its three parts.  No exception of the send is survived.
Clear(r) ==
  /\ Goto(r, "clear", "register")
  /\ event' = [event EXCEPT ![r] = [v \in Vehicles |-> FALSE]]
  /\ UNCHANGED <<looping, todo, ready, running, wired, sentStopped, ackVars>>
  /\ UNCHANGED <<latest, seen, asked, lastOk, uiVars, netVars, rxVars, simVars>>

Register(r) ==
  /\ Goto(r, "register", "send")
  /\ entry' = [entry EXCEPT ![r] = TRUE] /\ ack' = [ack EXCEPT ![r] = FALSE]
  /\ UNCHANGED <<looping, todo, ready, running, wired, sentStopped, viVars>>
  /\ UNCHANGED <<uiVars, netVars, rxVars, simVars>>

CanSend(r)   == wired[r] /\ sock \in {"open", "reset"}
SendFails(r) == wired[r] => sock \in {"reset", "closed"}

Send(r) ==
  /\ \/ /\ CanSend(r) /\ Goto(r, "send", IF looping[r] THEN "top" ELSE "ack")
        /\ owed' = IF sock = "open" THEN [owed EXCEPT ![r] = @ + 1] ELSE owed
        /\ sentStopped' = IF running[r] THEN sentStopped
                          ELSE [sentStopped EXCEPT ![r] = @ + 1]
     \/ /\ SendFails(r) /\ Goto(r, "send", "finish")
        /\ UNCHANGED <<owed, sentStopped>>
  /\ UNCHANGED <<looping, todo, ready, running, wired, ackVars, viVars, uiVars>>
  /\ UNCHANGED <<netVars, rxVars, acks, queries, infos, step, stepOf>>

\* Mutant: while True.
TopAlways(r) ==
  /\ Goto(r, "top", "ack")
  /\ UNCHANGED <<looping, todo, ready, running, wired, sentStopped, ackVars, viVars>>
  /\ UNCHANGED <<uiVars, netVars, rxVars, simVars>>

\* while self._running
Top(r) ==
  /\ Goto(r, "top", IF running[r] THEN "ack" ELSE "finish")
  /\ UNCHANGED <<looping, todo, ready, running, wired, sentStopped, ackVars, viVars>>
  /\ UNCHANGED <<uiVars, netVars, rxVars, simVars>>

\* Mutant: a timeout is logged and the loop goes on.
AckedLate(r) ==
  /\ Goto(r, "ack", "ask") /\ todo' = [todo EXCEPT ![r] = Tcp]
  /\ entry' = [entry EXCEPT ![r] = FALSE]
  /\ UNCHANGED <<looping, ready, running, wired, sentStopped, ack, viVars, uiVars>>
  /\ UNCHANGED <<netVars, rxVars, simVars>>

\* Mutant: ev.wait() without a timeout.
AckedForever(r) ==
  /\ ack[r] /\ Goto(r, "ack", "ask") /\ todo' = [todo EXCEPT ![r] = Tcp]
  /\ entry' = [entry EXCEPT ![r] = FALSE]
  /\ UNCHANGED <<looping, ready, running, wired, sentStopped, ack, viVars, uiVars>>
  /\ UNCHANGED <<netVars, rxVars, simVars>>

\* ev.wait, with its timeout; both outcomes pop the entry.
Acked(r) ==
  /\ \/ ack[r] /\ Goto(r, "ack", "ask") /\ todo' = [todo EXCEPT ![r] = Tcp]
     \/ ~ack[r] /\ Goto(r, "ack", "finish") /\ UNCHANGED todo
  /\ entry' = [entry EXCEPT ![r] = FALSE]
  /\ UNCHANGED <<looping, ready, running, wired, sentStopped, ack, viVars, uiVars>>
  /\ UNCHANGED <<netVars, rxVars, simVars>>

\* Mutant: the event is not cleared.
AskUncleared(r, v) ==
  /\ v \in todo[r] /\ UNCHANGED event
  /\ asked' = [asked EXCEPT ![r] = @ \cup {v}]
  /\ \/ /\ CanSend(r) /\ pc[r] = "ask" /\ UNCHANGED pc
        /\ todo' = [todo EXCEPT ![r] = @ \ {v}]
        /\ queries' = IF sock = "open" THEN [queries EXCEPT ![r] = @ \cup {v}]
                      ELSE queries
     \/ SendFails(r) /\ Goto(r, "ask", "finish") /\ UNCHANGED <<todo, queries>>
  /\ UNCHANGED <<looping, ready, running, wired, sentStopped, ackVars, latest, seen>>
  /\ UNCHANGED <<lastOk, uiVars, netVars, rxVars, owed, acks, infos, step, stepOf>>

\* _request_tcp_vehicle_info, its first loop: clear, register and send.
Ask(r, v) ==
  /\ v \in todo[r]
  /\ event' = [event EXCEPT ![r][v] = FALSE]
  /\ asked' = [asked EXCEPT ![r] = @ \cup {v}]
  /\ \/ /\ CanSend(r) /\ pc[r] = "ask" /\ UNCHANGED pc
        /\ todo' = [todo EXCEPT ![r] = @ \ {v}]
        /\ queries' = IF sock = "open" THEN [queries EXCEPT ![r] = @ \cup {v}]
                      ELSE queries
     \/ SendFails(r) /\ Goto(r, "ask", "finish") /\ UNCHANGED <<todo, queries>>
  /\ UNCHANGED <<looping, ready, running, wired, sentStopped, ackVars, latest, seen>>
  /\ UNCHANGED <<lastOk, uiVars, netVars, rxVars, owed, acks, infos, step, stepOf>>

AskedAll(r) ==
  /\ Goto(r, "ask", "collect") /\ todo[r] = {}
  /\ todo' = [todo EXCEPT ![r] = Tcp] /\ ready' = [ready EXCEPT ![r] = {}]
  /\ UNCHANGED <<looping, running, wired, sentStopped, ackVars, viVars, uiVars>>
  /\ UNCHANGED <<netVars, rxVars, simVars>>

\* Its second loop: the wait ends by the event or by the deadline, and the
\* request id is forgotten, so that a later answer finds no runner.
Collect(r, v) ==
  /\ pc[r] = "collect" /\ v \in todo[r]
  /\ todo' = [todo EXCEPT ![r] = @ \ {v}]
  /\ ready' = IF event[r][v] /\ latest[r][v] # 0
              THEN [ready EXCEPT ![r] = @ \cup {v}] ELSE ready
  /\ asked' = [asked EXCEPT ![r] = @ \ {v}]
  /\ queries' = [queries EXCEPT ![r] = @ \ {v}]
  /\ infos' = [infos EXCEPT ![r][v] = 0]
  /\ UNCHANGED <<pc, looping, running, wired, sentStopped, ackVars, latest, event>>
  /\ UNCHANGED <<seen, lastOk, uiVars, netVars, rxVars, owed, acks, step, stepOf>>

\* All vehicles on TCP: command those that answered.  Otherwise start over
\* with _wait_for_vi, for all the vehicles.
CollectedAll(r) ==
  /\ Goto(r, "collect", IF External THEN "command" ELSE "infos") /\ todo[r] = {}
  /\ todo' = [todo EXCEPT ![r] = IF External THEN ready[r] ELSE Vehicles]
  /\ ready' = [ready EXCEPT ![r] = {}]
  /\ UNCHANGED <<looping, running, wired, sentStopped, ackVars, viVars, uiVars>>
  /\ UNCHANGED <<netVars, rxVars, simVars>>

\* _wait_for_vi: a vehicle without information is skipped, or, in the
\* initial part, ends the loop.
WaitInfo(r, v) ==
  /\ pc[r] = "infos" /\ v \in todo[r]
  /\ todo' = [todo EXCEPT ![r] = @ \ {v}]
  /\ ready' = IF event[r][v] THEN [ready EXCEPT ![r] = @ \cup {v}] ELSE ready
  /\ pc' = IF event[r][v] \/ looping[r] THEN pc ELSE [pc EXCEPT ![r] = "finish"]
  /\ UNCHANGED <<looping, running, wired, sentStopped, ackVars, viVars, uiVars>>
  /\ UNCHANGED <<netVars, rxVars, simVars>>

WaitedAll(r) ==
  /\ Goto(r, "infos", "command") /\ todo[r] = {}
  /\ todo' = [todo EXCEPT ![r] = ready[r]] /\ ready' = [ready EXCEPT ![r] = {}]
  /\ UNCHANGED <<looping, running, wired, sentStopped, ackVars, viVars, uiVars>>
  /\ UNCHANGED <<netVars, rxVars, simVars>>

\* _send_all_cmds.  _send_path_follow survives a failed send, _send_chaser
\* does not; a vehicle without information gets no command.
Command(r, v) ==
  /\ v \in todo[r] /\ pc[r] = "command"
  /\ \/ todo' = [todo EXCEPT ![r] = @ \ {v}] /\ UNCHANGED pc
     \/ /\ v \in Chasers /\ latest[r][v] # 0 /\ SendFails(r)
        /\ pc' = [pc EXCEPT ![r] = "finish"] /\ UNCHANGED todo
  /\ UNCHANGED <<looping, ready, running, wired, sentStopped, ackVars, viVars>>
  /\ UNCHANGED <<uiVars, netVars, rxVars, simVars>>

Commanded(r) ==
  /\ Goto(r, "command", "clear") /\ todo[r] = {}
  /\ looping' = [looping EXCEPT ![r] = TRUE]
  /\ UNCHANGED <<todo, ready, running, wired, sentStopped, ackVars, viVars>>
  /\ UNCHANGED <<uiVars, netVars, rxVars, simVars>>

\* finally: and on_done, which clears the list whoever is on it.
Finish(r) ==
  /\ Goto(r, "finish", "done")
  /\ running' = [running EXCEPT ![r] = FALSE]
  /\ listed' = {}
  /\ UNCHANGED <<looping, todo, ready, wired, sentStopped, ackVars, viVars>>
  /\ UNCHANGED <<ui, starting, netVars, rxVars, simVars>>

LoopStep(r) ==
  \/ Clear(r) \/ Register(r) \/ Send(r) \/ Top(r) \/ Acked(r)
  \/ \E v \in Vehicles : Ask(r, v) \/ Collect(r, v) \/ WaitInfo(r, v) \/ Command(r, v)
  \/ AskedAll(r) \/ CollectedAll(r) \/ WaitedAll(r) \/ Commanded(r) \/ Finish(r)

-----------------------------------------------------------------------------
RxHandle == RxStore \/ RxSignal \/ RxFail \/ RxQuit

Next ==
  \/ \E r \in Runners :
       \/ Start(r) \/ LoopStep(r) \/ RxAck(r) \/ SimStep(r)
       \/ \E v \in Tcp : \/ SimInfo(r, v)
                         \/ \E info \in Steps : RxInfo(r, v, info)
       \/ \E v \in Vehicles : UdpStore(r, v) \/ UdpSignal(r, v)
  \/ Append \/ StopStepAd \/ Disconnect \/ PeerClose
  \/ \E t \in Handlers : LostStep(t)
  \/ RxHandle

\* Every thread of the console that can run is scheduled, and its waits time
\* out; nothing is promised of the user, the simulator or the network.
Fairness ==
  /\ \A r \in Runners : WF_vars(LoopStep(r))
  /\ WF_vars(RxHandle) /\ WF_vars(Append)
  /\ \A t \in Handlers : WF_vars(LostStep(t))

Spec     == Init /\ [][Next]_vars
FairSpec == Spec /\ Fairness

-----------------------------------------------------------------------------
(* Properties.                                                             *)

\* A runner has at most one FixedStep that is not answered yet.
OneStepInFlight == \A r \in Runners : owed[r] + acks[r] <= 1

\* As long as the connection is up, a runner asks for information and sends
\* commands only after the simulator has executed its FixedStep.
StepAnswered ==
  \A r \in Runners : pc[r] \in Control /\ sock = "open" => owed[r] + acks[r] = 0

\* The vehicle that is about to be commanded from TCP information has the
\* information of this step, unless its last request was answered by a
\* failure: no late answer, and no late event, of an earlier step is used.
InfoIsFresh(r, v) == latest[r][v] >= stepOf[r]
InUse(r, v) ==
  /\ pc[r] = "command" /\ v \in todo[r]
  /\ running[r] /\ sock = "open"
TcpInfoFresh ==
  \A r \in Runners, v \in Tcp :
    InUse(r, v) /\ lastOk[r][v] => InfoIsFresh(r, v)

\* A runner that was told to stop sends at most two more FixedSteps, the two
\* of the initial part.
StopsSoon == \A r \in Runners : sentStopped[r] <= 2

\* A control loop that was told to stop, or lost its connection, ends.
LoopEnds ==
  \A r \in Runners :
    pc[r] # "unborn" /\ (~running[r] \/ sock # "open") ~> pc[r] = "done"

-----------------------------------------------------------------------------
(* The inductive invariant behind the safety properties.                   *)

\* The loss of the connection is handled only when it is lost, and a runner
\* without a socket was started after that.
LossIsReal ==
  /\ \A t \in Handlers : lost[t] # "no" => sock # "open"
  /\ lost["ui"] # "no" => ui = "lost"
  /\ ~tcpSock => sock # "open"
  /\ \A r \in Runners : pc[r] # "unborn" /\ ~wired[r] => sock # "open"

\* While the connection is up an event is set by the answer to the FixedStep
\* the runner has sent, and only a runner that waits has one outstanding.
StepAccount ==
  \A r \in Runners :
    /\ owed[r] + acks[r] <= 1
    /\ sock = "open" =>
         /\ pc[r] \in {"unborn"} \cup Presend \cup Control => owed[r] + acks[r] = 0
         /\ pc[r] \in {"top", "ack"} /\ ack[r] => owed[r] + acks[r] = 0
         /\ pc[r] = "send" => ~ack[r]

\* Whatever the Receiver handles for a runner that has seen its step done
\* belongs to that step; queries and their answers never outlive the round.
Stepped(r) == pc[r] \in Control \/ (pc[r] \in {"top", "ack"} /\ ack[r])
AwaitsInfo(r, v) ==
  \/ pc[r] = "ask" /\ v \notin todo[r]
  \/ pc[r] = "collect" /\ v \in todo[r]
AnswersOfThisStep ==
  \A r \in Runners :
    /\ stepOf[r] <= step
    /\ sock = "open" /\ Stepped(r) /\ rx \in {"store", "signal"} /\ rxRunner = r
         => rxInfo = 0 \/ rxInfo >= stepOf[r]
    /\ sock = "open" =>
         \A v \in Tcp :
           /\ infos[r][v] = 0 \/ infos[r][v] >= stepOf[r]
           /\ infos[r][v] # 0 \/ v \in queries[r] => AwaitsInfo(r, v)

\* A handled answer has set lastOk, and stored a success.
StoredMatches ==
  /\ rx \in {"store", "signal"} => rxRunner \in Runners /\ rxVehicle \in Tcp
  /\ rx = "signal" =>
       /\ lastOk[rxRunner][rxVehicle] => rxInfo # 0
       /\ rxInfo # 0 => latest[rxRunner][rxVehicle] = rxInfo

\* An event set since the round's request means fresh information, and only
\* vehicles with their event set are ready.
Answered(r, v) ==
  /\ pc[r] \in Control /\ (pc[r] = "ask" => v \notin todo[r])
  /\ event[r][v] /\ lastOk[r][v]
EventMeansFresh ==
  \A r \in Runners :
    /\ pc[r] \in {"collect", "infos"} => \A v \in ready[r] : event[r][v]
    /\ pc[r] = "command" => \A v \in todo[r] : event[r][v]
    /\ sock = "open" /\ running[r] =>
         \A v \in Tcp : Answered(r, v) => InfoIsFresh(r, v)

\* How many FixedSteps a stopped runner can have sent at each point.
StopAccount ==
  \A r \in Runners :
    /\ running[r] => sentStopped[r] = 0
    /\ pc[r] = "unborn" => sentStopped[r] = 0
    /\ ~looping[r] /\ pc[r] \in Presend => sentStopped[r] = 0
    /\ ~looping[r] /\ pc[r] \in {"ack"} \cup Control => sentStopped[r] <= 1
    /\ looping[r] /\ pc[r] \in {"ack"} \cup Control => sentStopped[r] = 0
    /\ looping[r] /\ pc[r] \in Presend => sentStopped[r] <= 1
    /\ sentStopped[r] <= 2

IInv == /\ TypeOK /\ LossIsReal /\ StepAccount /\ AnswersOfThisStep
        /\ StoredMatches /\ EventMeansFresh /\ StopAccount

-----------------------------------------------------------------------------
(* What the repository says of this code and the code does not keep.       *)

\* docs/lockstep-network-latency.md:59 (in translation) "after the ACK it
\* finishes the VehicleInfo and the control processing of that step, then
\* sends the next FixedStep": a command is computed from this step's
\* information.
InfoOfThisStep ==
  \A r \in Runners, v \in Vehicles : InUse(r, v) => InfoIsFresh(r, v)

\* The same sentence: the simulator does not move while a runner controls.
SimulatorWaits ==
  \A r, q \in Runners :
    pc[r] \in Control /\ sock = "open" => owed[q] + acks[q] = 0

=============================================================================
