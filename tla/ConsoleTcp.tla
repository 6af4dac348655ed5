----------------------------- MODULE ConsoleTcp -----------------------------
(***************************************************************************)
(* The TCP side of the Interface Console: InterfaceConsoleState.connect,   *)
(* disconnect and _on_disconnect, the Receiver threads, the table of       *)
(* pending requests, dispatch(), and the AutoCaller threads that step the  *)
(* simulator and wait on an entry of that table.                           *)
(*                                                                         *)
(* Each call of connect() runs a background thread on a socket of its own, *)
(* so a member of Socks names the socket, the thread that opens it and the *)
(* Receiver that reads from it.  Threads interleave between the points     *)
(* where the code reads or writes shared attributes; what happens under    *)
(* one lock, or touches no shared state, is one step.                      *)
(***************************************************************************)
EXTENDS Naturals

CONSTANTS Socks,      \* sockets (one per connect() that is not refused)
          NoSock,     \* None, as a socket or as a receiver
          Ui,         \* the thread that runs the user interface callbacks
          Callers,    \* AutoCaller instances
          NoCaller,   \* None, as an AutoCaller
          MaxCalls,   \* AutoCaller.max_calls
          MaxDispatch,\* bound: dispatch() starts while the next id is at most this
          MaxRid      \* bound on the request ids a behaviour uses

ASSUME ConsoleAssumption ==
  /\ NoSock \notin Socks /\ Ui \notin Socks /\ NoCaller \notin Callers
  /\ MaxCalls \in Nat /\ MaxRid \in Nat /\ MaxDispatch \in Nat

VARIABLES
  tcp_sock, receiver,                \* None or the current socket / receiver
  connecting, disconnect_requested,  \* the flags guarded by _conn_lock
  sock,          \* each socket: unused, new, open, reset (by the peer), closed
  opener,        \* program counter of each connect() background thread
  rx,            \* program counter of each Receiver thread
  rxRunning,     \* Receiver.running
  answering,     \* the request id whose answer a Receiver is handling
  unanswered,    \* requests written to a socket and not answered yet
  ui,            \* program counter of the user interface thread
  lost,          \* how far a thread is in _on_disconnect
  panel, panelReady,   \* the command panel's cached _tcp_sock, set by init()
  nextRid,       \* RequestIdCounter._value
  pending,       \* keys of the pending table
  ev,            \* per request: no event, clear, set by an answer, set by a loss
  disp, dispRid, \* the dispatch() thread and its request id
  auto_caller,   \* InterfaceConsoleState.auto_caller
  caller,        \* program counter of each AutoCaller
  callerSock, callerRid, calls, stopped, \* its socket, request id, index, stop event
  outcome        \* what its last wait returned for

conn  == <<tcp_sock, receiver, connecting, disconnect_requested, sock, opener>>
rxs   == <<rx, rxRunning, answering>>
table == <<nextRid, pending, ev>>
autos == <<auto_caller, caller, callerSock, callerRid, calls, stopped, outcome>>
disps == <<disp, dispRid>>
views == <<panel, panelReady>>
vars  == <<conn, rxs, unanswered, ui, lost, views, table, disps, autos>>

Rids     == 1..MaxRid
Threads  == Socks \cup {Ui}
OpenerPc == {"none", "seeReceiver", "stopReceiver", "dropReceiver", "seeSocket",
             "closeOld", "dropSocket", "check", "connect", "recheck", "publish",
             "makeReceiver", "startReceiver", "panels", "done", "crashed"}
UiPc     == {"idle", "seeReceiver", "stopReceiver", "dropReceiver", "seeSocket",
             "close", "dropSocket", "lost"}
LostPc   == {"no", "nullSocket", "nullReceiver", "release", "stop"}
CallerPc == {"unborn", "top", "register", "send", "check", "wait", "finish",
             "done", "dead"}
Set      == {"acked", "released"}    \* an Event that wait() returns for

TypeConn ==
  /\ tcp_sock \in Socks \cup {NoSock} /\ receiver \in Socks \cup {NoSock}
  /\ connecting \in BOOLEAN /\ disconnect_requested \in BOOLEAN
  /\ sock \in [Socks -> {"unused", "new", "open", "reset", "closed"}]
  /\ opener \in [Socks -> OpenerPc]

TypeThreads ==
  /\ rx \in [Socks -> {"none", "recv", "resp", "lost", "dead"}]
  /\ rxRunning \in [Socks -> BOOLEAN]
  /\ answering \in [Socks -> 0..MaxRid]
  /\ unanswered \in [Socks -> SUBSET Rids]
  /\ ui \in UiPc
  /\ lost \in [Threads -> LostPc]

TypeTable ==
  /\ nextRid \in 1..(MaxRid + 1)
  /\ pending \subseteq Rids
  /\ ev \in [Rids -> {"none", "clear"} \cup Set]
  /\ panel \in Socks \cup {NoSock} /\ panelReady \in BOOLEAN
  /\ disp \in {"idle", "register", "send"} /\ dispRid \in 0..MaxRid

TypeAutos ==
  /\ auto_caller \in Callers \cup {NoCaller}
  /\ caller \in [Callers -> CallerPc]
  /\ callerSock \in [Callers -> Socks \cup {NoSock}]
  /\ callerRid \in [Callers -> 0..MaxRid]
  /\ calls \in [Callers -> 0..MaxCalls]
  /\ stopped \in [Callers -> BOOLEAN]
  /\ outcome \in [Callers -> {"none"} \cup Set]

TypeOK == TypeConn /\ TypeThreads /\ TypeTable /\ TypeAutos

Init ==
  /\ tcp_sock = NoSock /\ receiver = NoSock
  /\ connecting = FALSE /\ disconnect_requested = FALSE
  /\ sock = [s \in Socks |-> "unused"]
  /\ opener = [s \in Socks |-> "none"]
  /\ rx = [s \in Socks |-> "none"]
  /\ rxRunning = [s \in Socks |-> FALSE]
  /\ answering = [s \in Socks |-> 0]
  /\ unanswered = [s \in Socks |-> {}]
  /\ ui = "idle"
  /\ lost = [t \in Threads |-> "no"]
  /\ panel = NoSock /\ panelReady = FALSE
  /\ nextRid = 1 /\ pending = {} /\ ev = [r \in Rids |-> "none"]
  /\ disp = "idle" /\ dispRid = 0
  /\ auto_caller = NoCaller
  /\ caller = [c \in Callers |-> "unborn"]
  /\ callerSock = [c \in Callers |-> NoSock]
  /\ callerRid = [c \in Callers |-> 0]
  /\ calls = [c \in Callers |-> 0]
  /\ stopped = [c \in Callers |-> FALSE]
  /\ outcome = [c \in Callers |-> "none"]

-----------------------------------------------------------------------------
(* Steps that several threads share.                                       *)

\* self.receiver.stop() and _close_socket(self.tcp_sock) read the attribute a
\* second time, after the test of it; None there is an AttributeError.
StopReceiver ==
  /\ receiver # NoSock
  /\ rxRunning' = [rxRunning EXCEPT ![receiver] = FALSE]
CloseCurrent ==
  /\ tcp_sock # NoSock
  /\ sock' = [sock EXCEPT ![tcp_sock] = "closed"]

\* Mutant: the old Receiver is stopped and stays the current one.
KeepReceiver == UNCHANGED receiver
\* self.receiver = None
DropReceiver == receiver' = NoSock

\* Mutant: the old socket is closed and stays the current one.
KeepSocket == UNCHANGED tcp_sock
\* self.tcp_sock = None
DropSocket == tcp_sock' = NoSock

\* rid.next() and pending_add: the id is fresh, its event is clear.
PendingAdd ==
  /\ nextRid <= MaxRid
  /\ nextRid' = nextRid + 1
  /\ pending' = pending \cup {nextRid}
  /\ ev' = [ev EXCEPT ![nextRid] = "clear"]

\* sendall on socket s.  A socket the peer has reset may still accept one.
Delivered(s, r) ==
  /\ s # NoSock /\ sock[s] = "open"
  /\ unanswered' = [unanswered EXCEPT ![s] = @ \cup {r}]
Swallowed(s)  == s # NoSock /\ sock[s] = "reset" /\ UNCHANGED unanswered
SendRaises(s) ==
  /\ s # NoSock => sock[s] \in {"reset", "closed"}
  /\ UNCHANGED unanswered

-----------------------------------------------------------------------------
(* connect(): the callback takes _connecting and starts the thread; the    *)
(* thread drops the old connection, connects, publishes the socket, starts *)
(* its Receiver and hands the socket to the panels.                        *)

Connect(s) ==
  /\ ui = "idle" /\ ~connecting /\ sock[s] = "unused"
  /\ connecting' = TRUE /\ disconnect_requested' = FALSE
  /\ sock' = [sock EXCEPT ![s] = "new"]
  /\ opener' = [opener EXCEPT ![s] = "seeReceiver"]
  /\ UNCHANGED <<tcp_sock, receiver, rxs, unanswered, ui, lost, views, table, disps, autos>>

\* The first three lines of the thread, each a step.  An AttributeError ends
\* the thread, and _connecting stays set.
OpenSeeReceiver(s) ==
  /\ opener[s] = "seeReceiver"
  /\ opener' = [opener EXCEPT
       ![s] = IF receiver = NoSock THEN "seeSocket" ELSE "stopReceiver"]
  /\ UNCHANGED <<tcp_sock, receiver, connecting, disconnect_requested, sock>>
  /\ UNCHANGED <<rxs, unanswered, ui, lost, views, table, disps, autos>>

OpenStopReceiver(s) ==
  /\ opener[s] = "stopReceiver"
  /\ \/ /\ StopReceiver
        /\ opener' = [opener EXCEPT ![s] = "dropReceiver"]
     \/ /\ receiver = NoSock
        /\ opener' = [opener EXCEPT ![s] = "crashed"]
        /\ UNCHANGED rxRunning
  /\ UNCHANGED <<tcp_sock, receiver, connecting, disconnect_requested, sock>>
  /\ UNCHANGED <<rx, answering, unanswered, ui, lost, views, table, disps, autos>>

OpenDropReceiver(s) ==
  /\ opener[s] = "dropReceiver"
  /\ DropReceiver
  /\ opener' = [opener EXCEPT ![s] = "seeSocket"]
  /\ UNCHANGED <<tcp_sock, connecting, disconnect_requested, sock>>
  /\ UNCHANGED <<rxs, unanswered, ui, lost, views, table, disps, autos>>

\* The same three for the socket.
OpenSeeSocket(s) ==
  /\ opener[s] = "seeSocket"
  /\ opener' = [opener EXCEPT
       ![s] = IF tcp_sock = NoSock THEN "check" ELSE "closeOld"]
  /\ UNCHANGED <<tcp_sock, receiver, connecting, disconnect_requested, sock>>
  /\ UNCHANGED <<rxs, unanswered, ui, lost, views, table, disps, autos>>

OpenCloseOld(s) ==
  /\ opener[s] = "closeOld"
  /\ \/ /\ CloseCurrent
        /\ opener' = [opener EXCEPT ![s] = "dropSocket"]
     \/ /\ tcp_sock = NoSock
        /\ opener' = [opener EXCEPT ![s] = "crashed"]
        /\ UNCHANGED sock
  /\ UNCHANGED <<tcp_sock, receiver, connecting, disconnect_requested>>
  /\ UNCHANGED <<rxs, unanswered, ui, lost, views, table, disps, autos>>

OpenDropSocket(s) ==
  /\ opener[s] = "dropSocket"
  /\ DropSocket
  /\ opener' = [opener EXCEPT ![s] = "check"]
  /\ UNCHANGED <<receiver, connecting, disconnect_requested, sock>>
  /\ UNCHANGED <<rxs, unanswered, ui, lost, views, table, disps, autos>>

\* Mutant: _connecting is released and the loop goes on.
GiveUpAndRetry(s) ==
  /\ sock' = [sock EXCEPT ![s] = "closed"]
  /\ connecting' = FALSE
  /\ opener' = [opener EXCEPT ![s] = "check"]

\* Close the new socket and give up the attempt.
GiveUp(s) ==
  /\ sock' = [sock EXCEPT ![s] = "closed"]
  /\ connecting' = FALSE
  /\ opener' = [opener EXCEPT ![s] = "done"]

\* Both looks at _disconnect_requested, before and after sock.connect.
OpenCheck(s, from, to) ==
  /\ opener[s] = from
  /\ \/ disconnect_requested /\ GiveUp(s)
     \/ /\ ~disconnect_requested
        /\ opener' = [opener EXCEPT ![s] = to]
        /\ UNCHANGED <<sock, connecting>>
  /\ UNCHANGED <<tcp_sock, receiver, disconnect_requested>>
  /\ UNCHANGED <<rxs, unanswered, ui, lost, views, table, disps, autos>>

OpenConnect(s) ==
  /\ opener[s] = "connect"
  /\ \/ GiveUp(s)
     \/ /\ sock' = [sock EXCEPT ![s] = "open"]
        /\ opener' = [opener EXCEPT ![s] = "recheck"]
        /\ UNCHANGED connecting
  /\ UNCHANGED <<tcp_sock, receiver, disconnect_requested>>
  /\ UNCHANGED <<rxs, unanswered, ui, lost, views, table, disps, autos>>

OpenPublish(s) ==
  /\ opener[s] = "publish"
  /\ tcp_sock' = s
  /\ opener' = [opener EXCEPT ![s] = "makeReceiver"]
  /\ UNCHANGED <<receiver, connecting, disconnect_requested, sock>>
  /\ UNCHANGED <<rxs, unanswered, ui, lost, views, table, disps, autos>>

OpenMakeReceiver(s) ==
  /\ opener[s] = "makeReceiver"
  /\ receiver' = s
  /\ rxRunning' = [rxRunning EXCEPT ![s] = TRUE]
  /\ opener' = [opener EXCEPT ![s] = "startReceiver"]
  /\ UNCHANGED <<tcp_sock, connecting, disconnect_requested, sock, rx, answering>>
  /\ UNCHANGED <<unanswered, ui, lost, views, table, disps, autos>>

\* self.receiver.start() raises if the attribute is None again; the handler
\* of connect() then closes the socket.
OpenStartReceiver(s) ==
  /\ opener[s] = "startReceiver"
  /\ \/ /\ receiver = NoSock /\ GiveUp(s)
        /\ UNCHANGED rx
     \/ /\ receiver # NoSock
        /\ rx' = [rx EXCEPT ![receiver] = "recv"]
        /\ opener' = [opener EXCEPT ![s] = "panels"]
        /\ UNCHANGED <<sock, connecting>>
  /\ UNCHANGED <<tcp_sock, receiver, disconnect_requested, rxRunning, answering>>
  /\ UNCHANGED <<unanswered, ui, lost, views, table, disps, autos>>

OpenPanels(s) ==
  /\ opener[s] = "panels"
  /\ panel' = tcp_sock /\ panelReady' = TRUE
  /\ connecting' = FALSE
  /\ opener' = [opener EXCEPT ![s] = "done"]
  /\ UNCHANGED <<tcp_sock, receiver, disconnect_requested, sock>>
  /\ UNCHANGED <<rxs, unanswered, ui, lost, table, disps, autos>>

OpenerStep(s) ==
  \/ OpenSeeReceiver(s) \/ OpenStopReceiver(s) \/ OpenDropReceiver(s)
  \/ OpenSeeSocket(s) \/ OpenCloseOld(s) \/ OpenDropSocket(s)
  \/ OpenCheck(s, "check", "connect") \/ OpenConnect(s)
  \/ OpenCheck(s, "recheck", "publish") \/ OpenPublish(s)
  \/ OpenMakeReceiver(s) \/ OpenStartReceiver(s) \/ OpenPanels(s)

-----------------------------------------------------------------------------
(* disconnect(), run by the user interface thread.                         *)

Disconnect ==
  /\ ui = "idle"
  /\ disconnect_requested' = TRUE
  /\ ui' = "seeReceiver"
  /\ UNCHANGED <<tcp_sock, receiver, connecting, sock, opener>>
  /\ UNCHANGED <<rxs, unanswered, lost, views, table, disps, autos>>

UiSeeReceiver ==
  /\ ui = "seeReceiver"
  /\ ui' = IF receiver = NoSock THEN "seeSocket" ELSE "stopReceiver"
  /\ UNCHANGED <<conn, rxs, unanswered, lost, views, table, disps, autos>>

\* An AttributeError, here or in UiClose, abandons the rest of the callback.
UiStopReceiver ==
  /\ ui = "stopReceiver"
  /\ \/ StopReceiver /\ ui' = "dropReceiver"
     \/ receiver = NoSock /\ ui' = "idle" /\ UNCHANGED rxRunning
  /\ UNCHANGED <<conn, rx, answering, unanswered, lost, views, table, disps, autos>>

UiDropReceiver ==
  /\ ui = "dropReceiver"
  /\ DropReceiver
  /\ ui' = "seeSocket"
  /\ UNCHANGED <<tcp_sock, connecting, disconnect_requested, sock, opener>>
  /\ UNCHANGED <<rxs, unanswered, lost, views, table, disps, autos>>

\* With no socket the callback goes on to _on_disconnect(manual=True).
UiSeeSocket ==
  /\ ui = "seeSocket"
  /\ \/ tcp_sock # NoSock /\ ui' = "close" /\ UNCHANGED lost
     \/ /\ tcp_sock = NoSock
        /\ ui' = "lost" /\ lost' = [lost EXCEPT ![Ui] = "nullSocket"]
  /\ UNCHANGED <<conn, rxs, unanswered, views, table, disps, autos>>

UiClose ==
  /\ ui = "close"
  /\ \/ CloseCurrent /\ ui' = "dropSocket"
     \/ tcp_sock = NoSock /\ ui' = "idle" /\ UNCHANGED sock
  /\ UNCHANGED <<tcp_sock, receiver, connecting, disconnect_requested, opener>>
  /\ UNCHANGED <<rxs, unanswered, lost, views, table, disps, autos>>

UiDropSocket ==
  /\ ui = "dropSocket"
  /\ DropSocket
  /\ ui' = "lost" /\ lost' = [lost EXCEPT ![Ui] = "nullSocket"]
  /\ UNCHANGED <<receiver, connecting, disconnect_requested, sock, opener>>
  /\ UNCHANGED <<rxs, unanswered, views, table, disps, autos>>

-----------------------------------------------------------------------------
(* _on_disconnect, run by the user interface thread or by any Receiver.    *)

\* The two attributes are cleared without a lock, one after the other: a
\* connect() thread may make both its own in between.
LostNullSocket(t) ==
  /\ lost[t] = "nullSocket"
  /\ DropSocket
  /\ lost' = [lost EXCEPT ![t] = "nullReceiver"]
  /\ UNCHANGED <<receiver, connecting, disconnect_requested, sock, opener>>
  /\ UNCHANGED <<rxs, unanswered, ui, views, table, disps, autos>>

LostNullReceiver(t) ==
  /\ lost[t] = "nullReceiver"
  /\ DropReceiver
  /\ lost' = [lost EXCEPT ![t] = "release"]
  /\ UNCHANGED <<tcp_sock, connecting, disconnect_requested, sock, opener>>
  /\ UNCHANGED <<rxs, unanswered, ui, views, table, disps, autos>>

\* Mutant: the table is cleared, the events are not set.
LostClear(t) ==
  /\ lost[t] = "release"
  /\ pending' = {}
  /\ lost' = [lost EXCEPT ![t] = "stop"]
  /\ UNCHANGED <<conn, rxs, unanswered, ui, views, nextRid, ev, disps, autos>>

\* Under the table's lock: set every event, clear the table.
LostRelease(t) ==
  /\ lost[t] = "release"
  /\ ev' = [r \in Rids |-> IF r \in pending THEN "released" ELSE ev[r]]
  /\ pending' = {}
  /\ lost' = [lost EXCEPT ![t] = "stop"]
  /\ UNCHANGED <<conn, rxs, unanswered, ui, views, nextRid, disps, autos>>

\* The thread auto_caller names is stopped if it is alive.  When on_done clears
\* the attribute between the three reads, the AttributeError stops nothing.
Alive == {c \in Callers : caller[c] \notin {"unborn", "done", "dead"}}

LostStop(t) ==
  /\ lost[t] = "stop"
  /\ stopped' = [c \in Callers |-> stopped[c] \/ c \in {auto_caller} \cap Alive]
  /\ lost' = [lost EXCEPT ![t] = "no"]
  /\ ui' = IF t = Ui THEN "idle" ELSE ui
  /\ rx' = IF t = Ui THEN rx ELSE [rx EXCEPT ![t] = "dead"]
  /\ UNCHANGED <<conn, rxRunning, answering, unanswered, views, table, disps>>
  /\ UNCHANGED <<auto_caller, caller, callerSock, callerRid, calls, outcome>>

LostStep(t) ==
  LostNullSocket(t) \/ LostNullReceiver(t) \/ LostRelease(t) \/ LostStop(t)

-----------------------------------------------------------------------------
(* Receiver.run.  stop() is only seen at the top of the loop; a recv that  *)
(* fails always ends in on_disconnect, whoever closed the socket.          *)

\* The simulator's answer to r arrives; answers come in any order.
RxRecv(s, r) ==
  /\ rx[s] = "recv" /\ sock[s] \in {"open", "reset"} /\ r \in unanswered[s]
  /\ unanswered' = [unanswered EXCEPT ![s] = @ \ {r}]
  /\ answering' = [answering EXCEPT ![s] = r]
  /\ rx' = [rx EXCEPT ![s] = "resp"]
  /\ UNCHANGED <<conn, rxRunning, ui, lost, views, table, disps, autos>>

\* Under the table's lock: pop the entry and, if there was one, set its event.
RxResp(s) ==
  /\ rx[s] = "resp"
  /\ pending' = pending \ {answering[s]}
  /\ ev' = [r \in Rids |->
              IF r = answering[s] /\ r \in pending THEN "acked" ELSE ev[r]]
  /\ rx' = [rx EXCEPT ![s] = "recv"]
  /\ answering' = [answering EXCEPT ![s] = 0]
  /\ UNCHANGED <<conn, rxRunning, unanswered, ui, lost, views>>
  /\ UNCHANGED <<nextRid, disps, autos>>

\* Nobody reads what the simulator still answers on this socket.
Unread(s) == unanswered' = [unanswered EXCEPT ![s] = {}]

\* The receive timeout expires, or a packet has been handled, after stop().
RxQuit(s) ==
  /\ rx[s] = "recv" /\ ~rxRunning[s]
  /\ rx' = [rx EXCEPT ![s] = "dead"]
  /\ Unread(s)
  /\ UNCHANGED <<conn, rxRunning, answering, ui, lost, views, table, disps, autos>>

RxFail(s) ==
  /\ rx[s] = "recv" /\ sock[s] \in {"reset", "closed"}
  /\ rxRunning' = [rxRunning EXCEPT ![s] = FALSE]
  /\ rx' = [rx EXCEPT ![s] = "lost"]
  /\ lost' = [lost EXCEPT ![s] = "nullSocket"]
  /\ Unread(s)
  /\ UNCHANGED <<conn, answering, ui, views, table, disps, autos>>

\* The simulator, or the network, ends the connection.
PeerClose(s) ==
  /\ sock[s] = "open"
  /\ sock' = [sock EXCEPT ![s] = "reset"]
  /\ UNCHANGED <<tcp_sock, receiver, connecting, disconnect_requested, opener>>
  /\ UNCHANGED <<rxs, unanswered, ui, lost, views, table, disps, autos>>

-----------------------------------------------------------------------------
(* dispatch(): a guard in the callback, then a thread that registers and   *)
(* sends on the socket the panel has cached.                               *)

Dispatch ==
  /\ ui = "idle" /\ panelReady /\ tcp_sock # NoSock /\ disp = "idle"
  /\ nextRid <= MaxDispatch
  /\ disp' = "register"
  /\ UNCHANGED <<conn, rxs, unanswered, ui, lost, views, table, dispRid, autos>>

DispRegister ==
  /\ disp = "register"
  /\ PendingAdd
  /\ dispRid' = nextRid /\ disp' = "send"
  /\ UNCHANGED <<conn, rxs, unanswered, ui, lost, views, autos>>

\* An OSError is logged; the entry stays in the table.
DispSend ==
  /\ disp = "send"
  /\ Delivered(panel, dispRid) \/ Swallowed(panel) \/ SendRaises(panel)
  /\ disp' = "idle" /\ dispRid' = 0
  /\ UNCHANGED <<conn, rxs, ui, lost, views, table, autos>>

-----------------------------------------------------------------------------
(* toggle_auto and the AutoCaller's run loop (as _patch_auto_caller sets   *)
(* it): one FixedStep per round, then a wait for its event.                *)

ToggleStart(c) ==
  /\ ui = "idle" /\ panelReady /\ caller[c] = "unborn"
  /\ auto_caller \notin Alive
  /\ auto_caller' = c
  /\ caller' = [caller EXCEPT ![c] = "top"]
  /\ callerSock' = [callerSock EXCEPT ![c] = tcp_sock]
  /\ UNCHANGED <<callerRid, calls, stopped, outcome>>
  /\ UNCHANGED <<conn, rxs, unanswered, ui, lost, views, table, disps>>

ToggleStop ==
  /\ ui = "idle" /\ panelReady
  /\ auto_caller \in Alive
  /\ stopped' = [stopped EXCEPT ![auto_caller] = TRUE]
  /\ auto_caller' = NoCaller
  /\ UNCHANGED <<caller, callerSock, callerRid, calls, outcome>>
  /\ UNCHANGED <<conn, rxs, unanswered, ui, lost, views, table, disps>>

Goto(c, from, to) == caller[c] = from /\ caller' = [caller EXCEPT ![c] = to]

CallerTop(c) ==
  /\ IF stopped[c] \/ calls[c] = MaxCalls
     THEN Goto(c, "top", "finish") ELSE Goto(c, "top", "register")
  /\ UNCHANGED <<auto_caller, callerSock, callerRid, calls, stopped, outcome>>
  /\ UNCHANGED <<conn, rxs, unanswered, ui, lost, views, table, disps>>

CallerRegister(c) ==
  /\ Goto(c, "register", "send")
  /\ PendingAdd
  /\ callerRid' = [callerRid EXCEPT ![c] = nextRid]
  /\ UNCHANGED <<auto_caller, callerSock, calls, stopped, outcome>>
  /\ UNCHANGED <<conn, rxs, unanswered, ui, lost, views, disps>>

\* Nothing catches an exception of send_fixed_step: the thread ends there.
CallerSend(c) ==
  /\ \/ /\ Delivered(callerSock[c], callerRid[c]) \/ Swallowed(callerSock[c])
        /\ Goto(c, "send", "check")
     \/ SendRaises(callerSock[c]) /\ Goto(c, "send", "dead")
  /\ UNCHANGED <<auto_caller, callerSock, callerRid, calls, stopped, outcome>>
  /\ UNCHANGED <<conn, rxs, ui, lost, views, table, disps>>

\* The wait gives up: the entry is popped and the loop left.
CallerAbandon(c, from) ==
  /\ Goto(c, from, "finish")
  /\ pending' = pending \ {callerRid[c]}
  /\ UNCHANGED <<nextRid, ev, auto_caller, callerSock, callerRid, calls>>
  /\ UNCHANGED <<stopped, outcome, conn, rxs, unanswered, ui, lost, views, disps>>

\* _wait_or_stop looks at the stop event once, before it blocks.
CallerCheck(c) ==
  \/ stopped[c] /\ CallerAbandon(c, "check")
  \/ /\ ~stopped[c] /\ Goto(c, "check", "wait")
     /\ UNCHANGED <<auto_caller, callerSock, callerRid, calls, stopped, outcome>>
     /\ UNCHANGED <<conn, rxs, unanswered, ui, lost, views, table, disps>>

\* ev.wait returns True; the caller cannot tell an answer from a loss.
CallerWoken(c) ==
  /\ Goto(c, "wait", "top")
  /\ ev[callerRid[c]] \in Set
  /\ pending' = pending \ {callerRid[c]}
  /\ outcome' = [outcome EXCEPT ![c] = ev[callerRid[c]]]
  /\ calls' = [calls EXCEPT ![c] = @ + 1]
  /\ UNCHANGED <<nextRid, ev, auto_caller, callerSock, callerRid, stopped>>
  /\ UNCHANGED <<conn, rxs, unanswered, ui, lost, views, disps>>

\* Mutant: ev.wait() without a timeout.
CallerWaitForever(c) == FALSE

CallerTimeout(c) == CallerAbandon(c, "wait") /\ ev[callerRid[c]] = "clear"

\* on_done clears the owner's reference, whichever caller it names by now.
CallerFinish(c) ==
  /\ Goto(c, "finish", "done")
  /\ auto_caller' = NoCaller
  /\ UNCHANGED <<callerSock, callerRid, calls, stopped, outcome>>
  /\ UNCHANGED <<conn, rxs, unanswered, ui, lost, views, table, disps>>

CallerStep(c) ==
  \/ CallerTop(c) \/ CallerRegister(c) \/ CallerSend(c) \/ CallerCheck(c)
  \/ CallerWoken(c) \/ CallerTimeout(c) \/ CallerFinish(c)

-----------------------------------------------------------------------------
UiStep ==
  \/ UiSeeReceiver \/ UiStopReceiver \/ UiDropReceiver
  \/ UiSeeSocket \/ UiClose \/ UiDropSocket
RxStep(s) == (\E r \in Rids : RxRecv(s, r)) \/ RxResp(s) \/ RxQuit(s) \/ RxFail(s)

Next ==
  \/ \E s \in Socks : Connect(s) \/ OpenerStep(s) \/ RxStep(s) \/ PeerClose(s)
  \/ Disconnect \/ UiStep
  \/ \E t \in Threads : LostStep(t)
  \/ Dispatch \/ DispRegister \/ DispSend
  \/ \E c \in Callers : ToggleStart(c) \/ CallerStep(c)
  \/ ToggleStop

\* Every thread that can run is scheduled; nothing is promised of the user,
\* of the simulator or of the network.
Fairness ==
  /\ \A s \in Socks : WF_vars(OpenerStep(s))
  /\ \A s \in Socks : WF_vars(RxResp(s) \/ RxQuit(s) \/ RxFail(s))
  /\ WF_vars(UiStep)
  /\ \A t \in Threads : WF_vars(LostStep(t))
  /\ WF_vars(DispRegister \/ DispSend)
  /\ \A c \in Callers : WF_vars(CallerStep(c))

Spec     == Init /\ [][Next]_vars
FairSpec == Spec /\ Fairness

-----------------------------------------------------------------------------
(* Properties.                                                             *)

Active(s) == opener[s] \notin {"none", "done", "crashed"}

\* At most one connect() thread runs, and _connecting is set as long as one
\* does (connect 594-604, its exits 615-617, 624-626, 666-670).
OneOpener ==
  /\ \A s, k \in Socks : Active(s) /\ Active(k) => s = k
  /\ \A s \in Socks : Active(s) => connecting

\* Nobody waits on an event that no thread can find: as long as the event of
\* an AutoCaller's request is clear, its entry is in the table, where an
\* answer (Receiver.run) or a loss (_on_disconnect) will set it.
WaiterCovered ==
  \A c \in Callers :
    caller[c] \in {"send", "check", "wait"} /\ ev[callerRid[c]] = "clear"
      => callerRid[c] \in pending

\* The current Receiver, when there is one next to a current socket, reads
\* from that socket: requests and answers never use different connections.
SameConnection ==
  tcp_sock # NoSock /\ receiver # NoSock => tcp_sock = receiver

\* With no connect() or disconnect() under way, the socket a console shows has
\* a live Receiver on it, or one about to report the loss.  One exception: an
\* earlier loss that clears receiver (698) after it cleared tcp_sock (697) makes
\* the next connect() raise at 635, and 669-675 close its socket and leave it
\* in tcp_sock.  Such a socket never had a Receiver and is closed: nothing
\* can be sent on it.
ConnectedIsServed ==
  ui = "idle" /\ (\A s \in Socks : ~Active(s)) /\ tcp_sock # NoSock
    => \/ rx[tcp_sock] \in {"recv", "resp", "lost"}
       \/ rx[tcp_sock] = "none" /\ sock[tcp_sock] = "closed"

\* An event that was set is never set again for another reason: an answer and
\* a connection loss do not both complete one request.
CompletedOnce ==
  [][\A r \in Rids : ev[r] \in Set => ev'[r] = ev[r]]_ev

\* Every AutoCaller ends, by its count, a stop, a timeout or an exception,
\* whatever the simulator and the network do.
CallerEnds ==
  \A c \in Callers :
    caller[c] # "unborn" ~> caller[c] \in {"done", "dead"}

-----------------------------------------------------------------------------
(* The inductive invariant behind OneOpener, WaiterCovered, SameConnection, *)
(* ConnectedIsServed and CompletedOnce.                                     *)

\* Ids are issued once and in order; a request in progress has one, and its
\* caller has rounds left.
RidsIssued ==
  /\ \A c \in Callers :
       /\ callerRid[c] < nextRid
       /\ caller[c] \in {"send", "check", "wait"} => callerRid[c] # 0
       /\ caller[c] \in {"register", "send", "check", "wait"} => calls[c] < MaxCalls
  /\ \A c, d \in Callers : c # d /\ callerRid[c] # 0 => callerRid[c] # callerRid[d]
  /\ disp = "send" => dispRid # 0

\* An id that is not issued has no event, and an entry's event is clear.
EventsMatchTable ==
  /\ \A r \in Rids : r >= nextRid => ev[r] = "none"
  /\ \A r \in pending : ev[r] = "clear"

\* From the moment a connect() thread has dropped the old Receiver until it
\* makes its own there is none, and then the socket is its own or None.
OpenerOwnsReceiver ==
  \A s \in Socks :
    /\ opener[s] \in {"seeSocket", "closeOld", "dropSocket", "check", "connect",
                      "recheck", "publish", "makeReceiver"} => receiver = NoSock
    /\ opener[s] \in {"check", "connect", "recheck", "publish"} => tcp_sock = NoSock
    /\ opener[s] \in {"makeReceiver", "startReceiver"} => tcp_sock \in {s, NoSock}
    /\ opener[s] = "startReceiver" => receiver \in {s, NoSock}
    /\ rx[s] # "none" => opener[s] \in {"panels", "done"}
    /\ sock[s] = "unused" => opener[s] = "none"

\* A thread inside _on_disconnect is where it was called from.
LossHandlers ==
  /\ lost[Ui] # "no" => ui = "lost"
  /\ \A s \in Socks : lost[s] # "no" => rx[s] = "lost"

Stopping     == {"dropReceiver", "seeSocket", "close", "closeOld", "dropSocket"}
StopUnderWay == ui \in Stopping \/ \E k \in Socks : opener[k] \in Stopping

\* How the current socket is served at each point of its life.
CurrentServed ==
  tcp_sock # NoSock =>
    \/ opener[tcp_sock] = "makeReceiver"
    \/ StopUnderWay /\ opener[tcp_sock] \in {"startReceiver", "panels", "done"}
    \/ /\ opener[tcp_sock] = "startReceiver" /\ rx[tcp_sock] = "none"
       /\ receiver = tcp_sock => rxRunning[tcp_sock]
    \/ /\ opener[tcp_sock] = "done" /\ rx[tcp_sock] = "none"
       /\ sock[tcp_sock] = "closed"
    \/ /\ opener[tcp_sock] \in {"panels", "done"}
       /\ \/ rx[tcp_sock] \in {"recv", "resp"} /\ rxRunning[tcp_sock]
          \/ rx[tcp_sock] = "lost" /\ lost[tcp_sock] = "nullSocket"

IInv ==
  /\ TypeOK /\ RidsIssued /\ EventsMatchTable /\ WaiterCovered
  /\ OneOpener /\ OpenerOwnsReceiver /\ LossHandlers /\ SameConnection
  /\ CurrentServed

-----------------------------------------------------------------------------
(* What the repository says of this code and the code does not keep.       *)

\* morai_interface_console_main.py:718 "Click Reconnect to retry": an attempt
\* to connect ends, and the next click can start another one.
AttemptEnds == connecting ~> ~connecting

=============================================================================
