-------------------------- MODULE ConsoleTcpProofs --------------------------
(***************************************************************************)
(* Proofs about ConsoleTcp, for any number of sockets, AutoCallers and     *)
(* requests.  IInv is inductive; each lemma below shows that a step keeps  *)
(* one of its conjuncts, with one case per action that can disturb it and  *)
(* one for every step that leaves the variables it speaks of unchanged.    *)
(***************************************************************************)
EXTENDS ConsoleTcp, TLAPS

\* The connection's attributes, sockets and openers keep their types.
LEMMA StepTypeConn ==
  ASSUME TypeOK, [Next]_vars
  PROVE  TypeConn'
<1> USE DEF TypeOK, TypeConn, conn, rxs, table, autos, disps, views,
        OpenerPc
<1>1. ASSUME NEW s \in Socks, Connect(s) PROVE TypeConn'
  BY <1>1 DEF Connect
<1>2. ASSUME NEW s \in Socks, OpenSeeReceiver(s) PROVE TypeConn'
  BY <1>2 DEF OpenSeeReceiver
<1>3. ASSUME NEW s \in Socks, OpenStopReceiver(s) PROVE TypeConn'
  BY <1>3 DEF OpenStopReceiver, StopReceiver
<1>4. ASSUME NEW s \in Socks, OpenDropReceiver(s) PROVE TypeConn'
  BY <1>4 DEF OpenDropReceiver, DropReceiver
<1>5. ASSUME NEW s \in Socks, OpenSeeSocket(s) PROVE TypeConn'
  BY <1>5 DEF OpenSeeSocket
<1>6. ASSUME NEW s \in Socks, OpenCloseOld(s) PROVE TypeConn'
  BY <1>6 DEF OpenCloseOld, CloseCurrent
<1>7. ASSUME NEW s \in Socks, OpenDropSocket(s) PROVE TypeConn'
  BY <1>7 DEF OpenDropSocket, DropSocket
<1>8. ASSUME NEW s \in Socks, OpenCheck(s, "check", "connect") PROVE TypeConn'
  BY <1>8 DEF OpenCheck, GiveUp
<1>9. ASSUME NEW s \in Socks, OpenConnect(s) PROVE TypeConn'
  BY <1>9 DEF OpenConnect, GiveUp
<1>10. ASSUME NEW s \in Socks, OpenCheck(s, "recheck", "publish") PROVE TypeConn'
  BY <1>10 DEF OpenCheck, GiveUp
<1>11. ASSUME NEW s \in Socks, OpenPublish(s) PROVE TypeConn'
  BY <1>11 DEF OpenPublish
<1>12. ASSUME NEW s \in Socks, OpenMakeReceiver(s) PROVE TypeConn'
  BY <1>12 DEF OpenMakeReceiver
<1>13. ASSUME NEW s \in Socks, OpenStartReceiver(s) PROVE TypeConn'
  BY <1>13 DEF OpenStartReceiver, GiveUp
<1>14. ASSUME NEW s \in Socks, OpenPanels(s) PROVE TypeConn'
  BY <1>14 DEF OpenPanels
<1>15. ASSUME NEW s \in Socks, PeerClose(s) PROVE TypeConn'
  BY <1>15 DEF PeerClose
<1>16. ASSUME Disconnect PROVE TypeConn'
  BY <1>16 DEF Disconnect
<1>17. ASSUME UiStopReceiver PROVE TypeConn'
  BY <1>17 DEF UiStopReceiver, StopReceiver
<1>18. ASSUME UiDropReceiver PROVE TypeConn'
  BY <1>18 DEF UiDropReceiver, DropReceiver
<1>19. ASSUME UiClose PROVE TypeConn'
  BY <1>19 DEF UiClose, CloseCurrent
<1>20. ASSUME UiDropSocket PROVE TypeConn'
  BY <1>20 DEF UiDropSocket, DropSocket
<1>21. ASSUME NEW t \in Threads, LostNullSocket(t) PROVE TypeConn'
  BY <1>21 DEF LostNullSocket, DropSocket
<1>22. ASSUME NEW t \in Threads, LostNullReceiver(t) PROVE TypeConn'
  BY <1>22 DEF LostNullReceiver, DropReceiver
<1>23. CASE UNCHANGED conn
  BY <1>23
<1>. QED
  BY <1>1, <1>2, <1>3, <1>4, <1>5, <1>6, <1>7, <1>8, <1>9, <1>10, <1>11,
     <1>12, <1>13, <1>14, <1>15, <1>16, <1>17, <1>18, <1>19, <1>20, <1>21,
     <1>22, <1>23 DEF Next, OpenerStep, RxStep, UiStep, LostStep, CallerStep,
     RxRecv, RxResp, RxQuit, RxFail, UiSeeReceiver, LostRelease, LostStop,
     Dispatch, DispRegister, DispSend, ToggleStart, ToggleStop, CallerTop,
     CallerRegister, CallerSend, CallerCheck, CallerWoken, CallerTimeout,
     CallerFinish, Goto, CallerAbandon, vars, UiSeeSocket

\* The Receivers', the interface thread's and the losses' states keep theirs.
LEMMA StepTypeThreads ==
  ASSUME TypeOK, RidsIssued, [Next]_vars
  PROVE  TypeThreads'
<1> USE ConsoleAssumption DEF TypeOK, TypeThreads, conn, rxs, table, autos,
        disps, views, Threads, Rids, TypeConn, TypeTable, TypeAutos, UiPc, LostPc
<1>1. ASSUME NEW s \in Socks, OpenStopReceiver(s) PROVE TypeThreads'
  BY <1>1 DEF OpenStopReceiver, StopReceiver
<1>2. ASSUME NEW s \in Socks, OpenMakeReceiver(s) PROVE TypeThreads'
  BY <1>2 DEF OpenMakeReceiver
<1>3. ASSUME NEW s \in Socks, OpenStartReceiver(s) PROVE TypeThreads'
  BY <1>3 DEF OpenStartReceiver, GiveUp
<1>4. ASSUME NEW s \in Socks, NEW r \in Rids, RxRecv(s, r) PROVE TypeThreads'
  BY <1>4 DEF RxRecv
<1>5. ASSUME NEW s \in Socks, RxResp(s) PROVE TypeThreads'
  BY <1>5 DEF RxResp
<1>6. ASSUME NEW s \in Socks, RxQuit(s) PROVE TypeThreads'
  BY <1>6 DEF RxQuit, Unread
<1>7. ASSUME NEW s \in Socks, RxFail(s) PROVE TypeThreads'
  BY <1>7 DEF RxFail, Unread
<1>8. ASSUME Disconnect PROVE TypeThreads'
  BY <1>8 DEF Disconnect
<1>9. ASSUME UiSeeReceiver PROVE TypeThreads'
  BY <1>9 DEF UiSeeReceiver
<1>10. ASSUME UiStopReceiver PROVE TypeThreads'
  BY <1>10 DEF UiStopReceiver, StopReceiver
<1>11. ASSUME UiDropReceiver PROVE TypeThreads'
  BY <1>11 DEF UiDropReceiver, DropReceiver
<1>12. ASSUME UiSeeSocket PROVE TypeThreads'
  BY <1>12 DEF UiSeeSocket
<1>13. ASSUME UiClose PROVE TypeThreads'
  BY <1>13 DEF UiClose, CloseCurrent
<1>14. ASSUME UiDropSocket PROVE TypeThreads'
  BY <1>14 DEF UiDropSocket, DropSocket
<1>15. ASSUME NEW t \in Threads, LostNullSocket(t) PROVE TypeThreads'
  BY <1>15 DEF LostNullSocket, DropSocket
<1>16. ASSUME NEW t \in Threads, LostNullReceiver(t) PROVE TypeThreads'
  BY <1>16 DEF LostNullReceiver, DropReceiver
<1>17. ASSUME NEW t \in Threads, LostRelease(t) PROVE TypeThreads'
  BY <1>17 DEF LostRelease
<1>18. ASSUME NEW t \in Threads, LostStop(t) PROVE TypeThreads'
  BY <1>18 DEF LostStop, Alive
<1>19. ASSUME DispSend PROVE TypeThreads'
  <2>1. CASE UNCHANGED unanswered
    BY <1>19, <2>1 DEF DispSend, Delivered, Swallowed, SendRaises
  <2>2. CASE Delivered(panel, dispRid)
    BY <1>19, <2>2 DEF DispSend, Delivered, Swallowed, SendRaises, RidsIssued
  <2>. QED  BY <1>19, <2>1, <2>2 DEF DispSend, Swallowed, SendRaises
<1>20. ASSUME NEW c \in Callers, CallerSend(c) PROVE TypeThreads'
  <2>1. CASE UNCHANGED unanswered
    BY <1>20, <2>1 DEF CallerSend, Delivered, Swallowed, SendRaises, Goto
  <2>2. CASE Delivered(callerSock[c], callerRid[c])
    BY <1>20, <2>2 DEF CallerSend, Delivered, Swallowed, SendRaises, Goto, RidsIssued
  <2>. QED  BY <1>20, <2>1, <2>2 DEF CallerSend, Swallowed, SendRaises
<1>21. CASE UNCHANGED <<rxs, unanswered, ui, lost>>
  BY <1>21
<1>. QED
  BY <1>1, <1>2, <1>3, <1>4, <1>5, <1>6, <1>7, <1>8, <1>9, <1>10, <1>11,
     <1>12, <1>13, <1>14, <1>15, <1>16, <1>17, <1>18, <1>19, <1>20, <1>21 DEF
     Next, OpenerStep, RxStep, UiStep, LostStep, CallerStep, Connect,
     OpenSeeReceiver, OpenCloseOld, OpenCheck, OpenConnect, OpenPublish,
     OpenPanels, PeerClose, Dispatch, DispRegister, ToggleStart, ToggleStop,
     CallerTop, CallerRegister, CallerCheck, CallerWoken, CallerTimeout,
     CallerFinish, Goto, CallerAbandon, vars, OpenDropReceiver, OpenSeeSocket,
     OpenDropSocket

\* The request table, the panel and the dispatch thread keep theirs.
LEMMA StepTypeTable ==
  ASSUME TypeOK, [Next]_vars
  PROVE  TypeTable'
<1> USE ConsoleAssumption DEF TypeOK, TypeTable, conn, rxs, table, autos,
        disps, views, Threads, Rids, TypeConn, Set
<1>1. ASSUME NEW s \in Socks, OpenPanels(s) PROVE TypeTable'
  BY <1>1 DEF OpenPanels
<1>2. ASSUME NEW s \in Socks, RxResp(s) PROVE TypeTable'
  BY <1>2 DEF RxResp
<1>3. ASSUME NEW t \in Threads, LostRelease(t) PROVE TypeTable'
  BY <1>3 DEF LostRelease
<1>4. ASSUME Dispatch PROVE TypeTable'
  BY <1>4 DEF Dispatch
<1>5. ASSUME DispRegister PROVE TypeTable'
  BY <1>5 DEF DispRegister, PendingAdd
<1>6. ASSUME DispSend PROVE TypeTable'
  BY <1>6 DEF DispSend, Delivered, Swallowed, SendRaises
<1>7. ASSUME NEW c \in Callers, CallerRegister(c) PROVE TypeTable'
  BY <1>7 DEF CallerRegister, PendingAdd, Goto
<1>8. ASSUME NEW c \in Callers, CallerCheck(c) PROVE TypeTable'
  BY <1>8 DEF CallerCheck, CallerAbandon, Goto
<1>9. ASSUME NEW c \in Callers, CallerWoken(c) PROVE TypeTable'
  BY <1>9 DEF CallerWoken, Goto, Set
<1>10. ASSUME NEW c \in Callers, CallerTimeout(c) PROVE TypeTable'
  BY <1>10 DEF CallerTimeout, CallerAbandon, Goto
<1>11. CASE UNCHANGED <<table, views, disps>>
  BY <1>11
<1>. QED
  BY <1>1, <1>2, <1>3, <1>4, <1>5, <1>6, <1>7, <1>8, <1>9, <1>10, <1>11 DEF
     Next, OpenerStep, RxStep, UiStep, LostStep, CallerStep, Connect,
     OpenSeeReceiver, OpenStopReceiver, OpenCloseOld, OpenCheck, OpenConnect,
     OpenPublish, OpenMakeReceiver, OpenStartReceiver, RxRecv, RxQuit, RxFail,
     PeerClose, Disconnect, UiSeeReceiver, UiStopReceiver, UiClose, LostStop,
     ToggleStart, ToggleStop, CallerTop, CallerSend, CallerFinish, Goto, vars,
     OpenDropReceiver, OpenSeeSocket, OpenDropSocket, UiDropReceiver,
     UiSeeSocket, UiDropSocket, LostNullSocket, LostNullReceiver

\* The AutoCallers keep theirs; a caller that waits has rounds left.
LEMMA StepTypeAutos ==
  ASSUME TypeOK, RidsIssued, [Next]_vars
  PROVE  TypeAutos'
<1> USE ConsoleAssumption DEF TypeOK, TypeAutos, conn, rxs, table, autos,
        disps, views, Rids, TypeConn, TypeTable, RidsIssued, CallerPc
<1>1. ASSUME NEW t \in Threads, LostStop(t) PROVE TypeAutos'
  BY <1>1 DEF LostStop, Alive
<1>2. ASSUME NEW c \in Callers, ToggleStart(c) PROVE TypeAutos'
  BY <1>2 DEF ToggleStart, Alive
<1>3. ASSUME ToggleStop PROVE TypeAutos'
  BY <1>3 DEF ToggleStop, Alive
<1>4. ASSUME NEW c \in Callers, CallerTop(c) PROVE TypeAutos'
  BY <1>4 DEF CallerTop, Goto
<1>5. ASSUME NEW c \in Callers, CallerRegister(c) PROVE TypeAutos'
  BY <1>5 DEF CallerRegister, PendingAdd, Goto
<1>6. ASSUME NEW c \in Callers, CallerSend(c) PROVE TypeAutos'
  BY <1>6 DEF CallerSend, Delivered, Swallowed, SendRaises, Goto
<1>7. ASSUME NEW c \in Callers, CallerCheck(c) PROVE TypeAutos'
  BY <1>7 DEF CallerCheck, CallerAbandon, Goto
<1>8. ASSUME NEW c \in Callers, CallerWoken(c) PROVE TypeAutos'
  BY <1>8 DEF CallerWoken, Goto, Set
<1>9. ASSUME NEW c \in Callers, CallerTimeout(c) PROVE TypeAutos'
  BY <1>9 DEF CallerTimeout, CallerAbandon, Goto
<1>10. ASSUME NEW c \in Callers, CallerFinish(c) PROVE TypeAutos'
  BY <1>10 DEF CallerFinish, Goto
<1>11. CASE UNCHANGED autos
  BY <1>11
<1>. QED
  BY <1>1, <1>2, <1>3, <1>4, <1>5, <1>6, <1>7, <1>8, <1>9, <1>10, <1>11 DEF
     Next, OpenerStep, RxStep, UiStep, LostStep, CallerStep, Connect,
     OpenSeeReceiver, OpenStopReceiver, OpenCloseOld, OpenCheck, OpenConnect,
     OpenPublish, OpenMakeReceiver, OpenStartReceiver, OpenPanels, RxRecv,
     RxResp, RxQuit, RxFail, PeerClose, Disconnect, UiSeeReceiver,
     UiStopReceiver, UiClose, LostRelease, Dispatch, DispRegister, DispSend,
     vars, OpenDropReceiver, OpenSeeSocket, OpenDropSocket, UiDropReceiver,
     UiSeeSocket, UiDropSocket, LostNullSocket, LostNullReceiver

\* Request ids stay distinct and below the counter.
LEMMA StepRidsIssued ==
  ASSUME TypeOK, RidsIssued, [Next]_vars
  PROVE  RidsIssued'
<1> USE ConsoleAssumption DEF TypeOK, RidsIssued, conn, rxs, table, autos,
        disps, views, Rids, TypeTable, TypeAutos, CallerPc
<1>1. ASSUME Dispatch PROVE RidsIssued'
  BY <1>1 DEF Dispatch
<1>2. ASSUME DispRegister PROVE RidsIssued'
  BY <1>2 DEF DispRegister, PendingAdd
<1>3. ASSUME DispSend PROVE RidsIssued'
  BY <1>3 DEF DispSend, Delivered, Swallowed, SendRaises
<1>4. ASSUME NEW c \in Callers, ToggleStart(c) PROVE RidsIssued'
  BY <1>4 DEF ToggleStart, Alive
<1>5. ASSUME NEW c \in Callers, CallerTop(c) PROVE RidsIssued'
  BY <1>5 DEF CallerTop, Goto
<1>6. ASSUME NEW c \in Callers, CallerRegister(c) PROVE RidsIssued'
  BY <1>6 DEF CallerRegister, PendingAdd, Goto
<1>7. ASSUME NEW c \in Callers, CallerSend(c) PROVE RidsIssued'
  BY <1>7 DEF CallerSend, Delivered, Swallowed, SendRaises, Goto
<1>8. ASSUME NEW c \in Callers, CallerCheck(c) PROVE RidsIssued'
  BY <1>8 DEF CallerCheck, CallerAbandon, Goto
<1>9. ASSUME NEW c \in Callers, CallerWoken(c) PROVE RidsIssued'
  BY <1>9 DEF CallerWoken, Goto, Set
<1>10. ASSUME NEW c \in Callers, CallerTimeout(c) PROVE RidsIssued'
  BY <1>10 DEF CallerTimeout, CallerAbandon, Goto
<1>11. ASSUME NEW c \in Callers, CallerFinish(c) PROVE RidsIssued'
  BY <1>11 DEF CallerFinish, Goto
<1>12. CASE UNCHANGED <<nextRid, disp, dispRid, caller, callerRid, calls>>
  BY <1>12
<1>. QED
  BY <1>1, <1>2, <1>3, <1>4, <1>5, <1>6, <1>7, <1>8, <1>9, <1>10, <1>11, <1>12
     DEF Next, OpenerStep, RxStep, UiStep, LostStep, CallerStep, Connect,
     OpenSeeReceiver, OpenStopReceiver, OpenCloseOld, OpenCheck, OpenConnect,
     OpenPublish, OpenMakeReceiver, OpenStartReceiver, OpenPanels, RxRecv,
     RxResp, RxQuit, RxFail, PeerClose, Disconnect, UiSeeReceiver,
     UiStopReceiver, UiClose, LostRelease, LostStop, ToggleStop, vars,
     OpenDropReceiver, OpenSeeSocket, OpenDropSocket, UiDropReceiver,
     UiSeeSocket, UiDropSocket, LostNullSocket, LostNullReceiver

\* Entries stay exactly the requests whose event is clear.
LEMMA StepEvents ==
  ASSUME TypeOK, EventsMatchTable, [Next]_vars
  PROVE  EventsMatchTable'
<1> USE ConsoleAssumption DEF TypeOK, EventsMatchTable, conn, rxs, table,
        autos, disps, views, Rids, TypeTable, TypeAutos, Set
<1>1. ASSUME NEW s \in Socks, RxResp(s) PROVE EventsMatchTable'
  BY <1>1 DEF RxResp
<1>2. ASSUME NEW t \in Threads, LostRelease(t) PROVE EventsMatchTable'
  BY <1>2 DEF LostRelease
<1>3. ASSUME DispRegister PROVE EventsMatchTable'
  BY <1>3 DEF DispRegister, PendingAdd
<1>4. ASSUME NEW c \in Callers, CallerRegister(c) PROVE EventsMatchTable'
  BY <1>4 DEF CallerRegister, PendingAdd, Goto
<1>5. ASSUME NEW c \in Callers, CallerCheck(c) PROVE EventsMatchTable'
  BY <1>5 DEF CallerCheck, CallerAbandon, Goto
<1>6. ASSUME NEW c \in Callers, CallerWoken(c) PROVE EventsMatchTable'
  BY <1>6 DEF CallerWoken, Goto, Set
<1>7. ASSUME NEW c \in Callers, CallerTimeout(c) PROVE EventsMatchTable'
  BY <1>7 DEF CallerTimeout, CallerAbandon, Goto
<1>8. CASE UNCHANGED table
  BY <1>8
<1>. QED
  BY <1>1, <1>2, <1>3, <1>4, <1>5, <1>6, <1>7, <1>8 DEF Next, OpenerStep,
     RxStep, UiStep, LostStep, CallerStep, Connect, OpenSeeReceiver,
     OpenStopReceiver, OpenCloseOld, OpenCheck, OpenConnect, OpenPublish,
     OpenMakeReceiver, OpenStartReceiver, OpenPanels, RxRecv, RxQuit, RxFail,
     PeerClose, Disconnect, UiSeeReceiver, UiStopReceiver, UiClose, LostStop,
     Dispatch, DispSend, ToggleStart, ToggleStop, CallerTop, CallerSend,
     CallerFinish, Goto, vars, OpenDropReceiver, OpenSeeSocket,
     OpenDropSocket, UiDropReceiver, UiSeeSocket, UiDropSocket,
     LostNullSocket, LostNullReceiver

\* No step leaves a waiter on an event nobody can set.
LEMMA StepWaiterCovered ==
  ASSUME TypeOK, RidsIssued, EventsMatchTable, WaiterCovered, [Next]_vars
  PROVE  WaiterCovered'
<1> USE ConsoleAssumption DEF TypeOK, WaiterCovered, conn, rxs, table,
        autos, disps, views, Rids, TypeTable, TypeAutos, RidsIssued,
        EventsMatchTable, Set
<1>1. ASSUME NEW s \in Socks, RxResp(s) PROVE WaiterCovered'
  BY <1>1 DEF RxResp
<1>2. ASSUME NEW t \in Threads, LostRelease(t) PROVE WaiterCovered'
  BY <1>2 DEF LostRelease
<1>3. ASSUME DispRegister PROVE WaiterCovered'
  BY <1>3 DEF DispRegister, PendingAdd
<1>4. ASSUME NEW c \in Callers, ToggleStart(c) PROVE WaiterCovered'
  BY <1>4 DEF ToggleStart, Alive
<1>5. ASSUME NEW c \in Callers, CallerTop(c) PROVE WaiterCovered'
  BY <1>5 DEF CallerTop, Goto
<1>6. ASSUME NEW c \in Callers, CallerRegister(c) PROVE WaiterCovered'
  BY <1>6 DEF CallerRegister, PendingAdd, Goto
<1>7. ASSUME NEW c \in Callers, CallerSend(c) PROVE WaiterCovered'
  BY <1>7 DEF CallerSend, Delivered, Swallowed, SendRaises, Goto
<1>8. ASSUME NEW c \in Callers, CallerCheck(c) PROVE WaiterCovered'
  <2>1. CASE CallerAbandon(c, "check")
    BY <1>8, <2>1 DEF CallerCheck, CallerAbandon, Goto
  <2>2. CASE Goto(c, "check", "wait") /\ UNCHANGED <<table, callerRid>>
    BY <1>8, <2>2 DEF CallerCheck, CallerAbandon, Goto
  <2>. QED  BY <1>8, <2>1, <2>2 DEF CallerCheck, table, autos
<1>9. ASSUME NEW c \in Callers, CallerWoken(c) PROVE WaiterCovered'
  BY <1>9 DEF CallerWoken, Goto, Set
<1>10. ASSUME NEW c \in Callers, CallerTimeout(c) PROVE WaiterCovered'
  BY <1>10 DEF CallerTimeout, CallerAbandon, Goto
<1>11. ASSUME NEW c \in Callers, CallerFinish(c) PROVE WaiterCovered'
  BY <1>11 DEF CallerFinish, Goto
<1>12. CASE UNCHANGED <<table, caller, callerRid>>
  BY <1>12
<1>. QED
  BY <1>1, <1>2, <1>3, <1>4, <1>5, <1>6, <1>7, <1>8, <1>9, <1>10, <1>11, <1>12
     DEF Next, OpenerStep, RxStep, UiStep, LostStep, CallerStep, Connect,
     OpenSeeReceiver, OpenStopReceiver, OpenCloseOld, OpenCheck, OpenConnect,
     OpenPublish, OpenMakeReceiver, OpenStartReceiver, OpenPanels, RxRecv,
     RxQuit, RxFail, PeerClose, Disconnect, UiSeeReceiver, UiStopReceiver,
     UiClose, LostStop, Dispatch, DispSend, ToggleStop, vars,
     OpenDropReceiver, OpenSeeSocket, OpenDropSocket, UiDropReceiver,
     UiSeeSocket, UiDropSocket, LostNullSocket, LostNullReceiver

\* connect() threads never overlap.
LEMMA StepOneOpener ==
  ASSUME TypeOK, OneOpener, [Next]_vars
  PROVE  OneOpener'
<1> USE DEF TypeOK, OneOpener, Active, conn, rxs, table, autos, disps,
        views, TypeConn, OpenerPc
<1>1. ASSUME NEW s \in Socks, Connect(s) PROVE OneOpener'
  BY <1>1 DEF Connect
<1>2. ASSUME NEW s \in Socks, OpenSeeReceiver(s) PROVE OneOpener'
  BY <1>2 DEF OpenSeeReceiver
<1>3. ASSUME NEW s \in Socks, OpenStopReceiver(s) PROVE OneOpener'
  BY <1>3 DEF OpenStopReceiver, StopReceiver
<1>4. ASSUME NEW s \in Socks, OpenDropReceiver(s) PROVE OneOpener'
  BY <1>4 DEF OpenDropReceiver, DropReceiver
<1>5. ASSUME NEW s \in Socks, OpenSeeSocket(s) PROVE OneOpener'
  BY <1>5 DEF OpenSeeSocket
<1>6. ASSUME NEW s \in Socks, OpenCloseOld(s) PROVE OneOpener'
  BY <1>6 DEF OpenCloseOld, CloseCurrent
<1>7. ASSUME NEW s \in Socks, OpenDropSocket(s) PROVE OneOpener'
  BY <1>7 DEF OpenDropSocket, DropSocket
<1>8. ASSUME NEW s \in Socks, OpenCheck(s, "check", "connect") PROVE OneOpener'
  BY <1>8 DEF OpenCheck, GiveUp
<1>9. ASSUME NEW s \in Socks, OpenConnect(s) PROVE OneOpener'
  BY <1>9 DEF OpenConnect, GiveUp
<1>10. ASSUME NEW s \in Socks, OpenCheck(s, "recheck", "publish") PROVE OneOpener'
  BY <1>10 DEF OpenCheck, GiveUp
<1>11. ASSUME NEW s \in Socks, OpenPublish(s) PROVE OneOpener'
  BY <1>11 DEF OpenPublish
<1>12. ASSUME NEW s \in Socks, OpenMakeReceiver(s) PROVE OneOpener'
  BY <1>12 DEF OpenMakeReceiver
<1>13. ASSUME NEW s \in Socks, OpenStartReceiver(s) PROVE OneOpener'
  BY <1>13 DEF OpenStartReceiver, GiveUp
<1>14. ASSUME NEW s \in Socks, OpenPanels(s) PROVE OneOpener'
  BY <1>14 DEF OpenPanels
<1>15. CASE UNCHANGED <<connecting, opener>>
  BY <1>15
<1>. QED
  BY <1>1, <1>2, <1>3, <1>4, <1>5, <1>6, <1>7, <1>8, <1>9, <1>10, <1>11,
     <1>12, <1>13, <1>14, <1>15 DEF Next, OpenerStep, RxStep, UiStep,
     LostStep, CallerStep, RxRecv, RxResp, RxQuit, RxFail, PeerClose,
     Disconnect, UiSeeReceiver, UiStopReceiver, UiClose, LostRelease,
     LostStop, Dispatch, DispRegister, DispSend, ToggleStart, ToggleStop,
     CallerTop, CallerRegister, CallerSend, CallerCheck, CallerWoken,
     CallerTimeout, CallerFinish, Goto, CallerAbandon, vars, UiDropReceiver,
     UiSeeSocket, UiDropSocket, LostNullSocket, LostNullReceiver

\* Only the one connect() thread that runs makes a socket or a Receiver current.
LEMMA StepOpenerOwns ==
  ASSUME TypeOK, OneOpener, LossHandlers, OpenerOwnsReceiver, [Next]_vars
  PROVE  OpenerOwnsReceiver'
<1> USE DEF TypeOK, OpenerOwnsReceiver, conn, rxs, table, autos, disps,
        views, TypeConn, TypeThreads, OneOpener, Active, LossHandlers,
        Threads
<1>1. ASSUME NEW s \in Socks, Connect(s) PROVE OpenerOwnsReceiver'
  BY <1>1 DEF Connect
<1>2. ASSUME NEW s \in Socks, OpenSeeReceiver(s) PROVE OpenerOwnsReceiver'
  BY <1>2 DEF OpenSeeReceiver
<1>3. ASSUME NEW s \in Socks, OpenStopReceiver(s) PROVE OpenerOwnsReceiver'
  BY <1>3 DEF OpenStopReceiver, StopReceiver
<1>4. ASSUME NEW s \in Socks, OpenDropReceiver(s) PROVE OpenerOwnsReceiver'
  BY <1>4 DEF OpenDropReceiver, DropReceiver
<1>5. ASSUME NEW s \in Socks, OpenSeeSocket(s) PROVE OpenerOwnsReceiver'
  BY <1>5 DEF OpenSeeSocket
<1>6. ASSUME NEW s \in Socks, OpenCloseOld(s) PROVE OpenerOwnsReceiver'
  BY <1>6 DEF OpenCloseOld, CloseCurrent
<1>7. ASSUME NEW s \in Socks, OpenDropSocket(s) PROVE OpenerOwnsReceiver'
  BY <1>7 DEF OpenDropSocket, DropSocket
<1>8. ASSUME NEW s \in Socks, OpenCheck(s, "check", "connect") PROVE OpenerOwnsReceiver'
  BY <1>8 DEF OpenCheck, GiveUp
<1>9. ASSUME NEW s \in Socks, OpenConnect(s) PROVE OpenerOwnsReceiver'
  BY <1>9 DEF OpenConnect, GiveUp
<1>10. ASSUME NEW s \in Socks, OpenCheck(s, "recheck", "publish") PROVE OpenerOwnsReceiver'
  BY <1>10 DEF OpenCheck, GiveUp
<1>11. ASSUME NEW s \in Socks, OpenPublish(s) PROVE OpenerOwnsReceiver'
  BY <1>11 DEF OpenPublish
<1>12. ASSUME NEW s \in Socks, OpenMakeReceiver(s) PROVE OpenerOwnsReceiver'
  BY <1>12 DEF OpenMakeReceiver
<1>13. ASSUME NEW s \in Socks, OpenStartReceiver(s) PROVE OpenerOwnsReceiver'
  BY <1>13 DEF OpenStartReceiver, GiveUp
<1>14. ASSUME NEW s \in Socks, OpenPanels(s) PROVE OpenerOwnsReceiver'
  BY <1>14 DEF OpenPanels
<1>15. ASSUME NEW s \in Socks, NEW r \in Rids, RxRecv(s, r) PROVE OpenerOwnsReceiver'
  BY <1>15 DEF RxRecv
<1>16. ASSUME NEW s \in Socks, RxResp(s) PROVE OpenerOwnsReceiver'
  BY <1>16 DEF RxResp
<1>17. ASSUME NEW s \in Socks, RxQuit(s) PROVE OpenerOwnsReceiver'
  BY <1>17 DEF RxQuit, Unread
<1>18. ASSUME NEW s \in Socks, RxFail(s) PROVE OpenerOwnsReceiver'
  BY <1>18 DEF RxFail, Unread
<1>19. ASSUME NEW s \in Socks, PeerClose(s) PROVE OpenerOwnsReceiver'
  BY <1>19 DEF PeerClose
<1>20. ASSUME UiStopReceiver PROVE OpenerOwnsReceiver'
  BY <1>20 DEF UiStopReceiver, StopReceiver
<1>21. ASSUME UiDropReceiver PROVE OpenerOwnsReceiver'
  BY <1>21 DEF UiDropReceiver, DropReceiver
<1>22. ASSUME UiClose PROVE OpenerOwnsReceiver'
  BY <1>22 DEF UiClose, CloseCurrent
<1>23. ASSUME UiDropSocket PROVE OpenerOwnsReceiver'
  BY <1>23 DEF UiDropSocket, DropSocket
<1>24. ASSUME NEW t \in Threads, LostNullSocket(t) PROVE OpenerOwnsReceiver'
  BY <1>24 DEF LostNullSocket, DropSocket
<1>25. ASSUME NEW t \in Threads, LostNullReceiver(t) PROVE OpenerOwnsReceiver'
  BY <1>25 DEF LostNullReceiver, DropReceiver
<1>26. ASSUME NEW t \in Threads, LostStop(t) PROVE OpenerOwnsReceiver'
  BY <1>26 DEF LostStop, Alive
<1>27. CASE UNCHANGED <<tcp_sock, receiver, sock, opener, rx>>
  BY <1>27
<1>. QED
  BY <1>1, <1>2, <1>3, <1>4, <1>5, <1>6, <1>7, <1>8, <1>9, <1>10, <1>11,
     <1>12, <1>13, <1>14, <1>15, <1>16, <1>17, <1>18, <1>19, <1>20, <1>21,
     <1>22, <1>23, <1>24, <1>25, <1>26, <1>27 DEF Next, OpenerStep, RxStep,
     UiStep, LostStep, CallerStep, Disconnect, UiSeeReceiver, LostRelease,
     Dispatch, DispRegister, DispSend, ToggleStart, ToggleStop, CallerTop,
     CallerRegister, CallerSend, CallerCheck, CallerWoken, CallerTimeout,
     CallerFinish, Goto, CallerAbandon, vars, UiSeeSocket

\* _on_disconnect runs on the interface thread's or a failed Receiver's behalf.
LEMMA StepLossHandlers ==
  ASSUME TypeOK, OpenerOwnsReceiver, LossHandlers, [Next]_vars
  PROVE  LossHandlers'
<1> USE ConsoleAssumption DEF TypeOK, LossHandlers, conn, rxs, table, autos,
        disps, views, TypeConn, TypeThreads, OpenerOwnsReceiver, Threads
<1>1. ASSUME NEW s \in Socks, OpenStartReceiver(s) PROVE LossHandlers'
  BY <1>1 DEF OpenStartReceiver, GiveUp
<1>2. ASSUME NEW s \in Socks, NEW r \in Rids, RxRecv(s, r) PROVE LossHandlers'
  BY <1>2 DEF RxRecv
<1>3. ASSUME NEW s \in Socks, RxResp(s) PROVE LossHandlers'
  BY <1>3 DEF RxResp
<1>4. ASSUME NEW s \in Socks, RxQuit(s) PROVE LossHandlers'
  BY <1>4 DEF RxQuit, Unread
<1>5. ASSUME NEW s \in Socks, RxFail(s) PROVE LossHandlers'
  BY <1>5 DEF RxFail, Unread
<1>6. ASSUME Disconnect PROVE LossHandlers'
  BY <1>6 DEF Disconnect
<1>7. ASSUME UiSeeReceiver PROVE LossHandlers'
  BY <1>7 DEF UiSeeReceiver
<1>8. ASSUME UiStopReceiver PROVE LossHandlers'
  BY <1>8 DEF UiStopReceiver, StopReceiver
<1>9. ASSUME UiDropReceiver PROVE LossHandlers'
  BY <1>9 DEF UiDropReceiver, DropReceiver
<1>10. ASSUME UiSeeSocket PROVE LossHandlers'
  BY <1>10 DEF UiSeeSocket
<1>11. ASSUME UiClose PROVE LossHandlers'
  BY <1>11 DEF UiClose, CloseCurrent
<1>12. ASSUME UiDropSocket PROVE LossHandlers'
  BY <1>12 DEF UiDropSocket, DropSocket
<1>13. ASSUME NEW t \in Threads, LostNullSocket(t) PROVE LossHandlers'
  BY <1>13 DEF LostNullSocket, DropSocket
<1>14. ASSUME NEW t \in Threads, LostNullReceiver(t) PROVE LossHandlers'
  BY <1>14 DEF LostNullReceiver, DropReceiver
<1>15. ASSUME NEW t \in Threads, LostRelease(t) PROVE LossHandlers'
  BY <1>15 DEF LostRelease
<1>16. ASSUME NEW t \in Threads, LostStop(t) PROVE LossHandlers'
  BY <1>16 DEF LostStop, Alive
<1>17. CASE UNCHANGED <<rx, ui, lost>>
  BY <1>17
<1>. QED
  BY <1>1, <1>2, <1>3, <1>4, <1>5, <1>6, <1>7, <1>8, <1>9, <1>10, <1>11,
     <1>12, <1>13, <1>14, <1>15, <1>16, <1>17 DEF Next, OpenerStep, RxStep,
     UiStep, LostStep, CallerStep, Connect, OpenSeeReceiver, OpenStopReceiver,
     OpenCloseOld, OpenCheck, OpenConnect, OpenPublish, OpenMakeReceiver,
     OpenPanels, PeerClose, Dispatch, DispRegister, DispSend, ToggleStart,
     ToggleStop, CallerTop, CallerRegister, CallerSend, CallerCheck,
     CallerWoken, CallerTimeout, CallerFinish, Goto, CallerAbandon, vars,
     OpenDropReceiver, OpenSeeSocket, OpenDropSocket

\* Nor do they give the console a socket and a Receiver of different connections.
LEMMA StepSameConnection ==
  ASSUME TypeOK, OneOpener, OpenerOwnsReceiver, SameConnection, [Next]_vars
  PROVE  SameConnection'
<1> USE DEF TypeOK, SameConnection, conn, rxs, table, autos, disps, views,
        TypeConn, OpenerOwnsReceiver, OneOpener, Active
<1>1. ASSUME NEW s \in Socks, OpenStopReceiver(s) PROVE SameConnection'
  BY <1>1 DEF OpenStopReceiver, StopReceiver
<1>2. ASSUME NEW s \in Socks, OpenDropReceiver(s) PROVE SameConnection'
  BY <1>2 DEF OpenDropReceiver, DropReceiver
<1>3. ASSUME NEW s \in Socks, OpenCloseOld(s) PROVE SameConnection'
  BY <1>3 DEF OpenCloseOld, CloseCurrent
<1>4. ASSUME NEW s \in Socks, OpenDropSocket(s) PROVE SameConnection'
  BY <1>4 DEF OpenDropSocket, DropSocket
<1>5. ASSUME NEW s \in Socks, OpenPublish(s) PROVE SameConnection'
  BY <1>5 DEF OpenPublish
<1>6. ASSUME NEW s \in Socks, OpenMakeReceiver(s) PROVE SameConnection'
  BY <1>6 DEF OpenMakeReceiver
<1>7. ASSUME UiStopReceiver PROVE SameConnection'
  BY <1>7 DEF UiStopReceiver, StopReceiver
<1>8. ASSUME UiDropReceiver PROVE SameConnection'
  BY <1>8 DEF UiDropReceiver, DropReceiver
<1>9. ASSUME UiClose PROVE SameConnection'
  BY <1>9 DEF UiClose, CloseCurrent
<1>10. ASSUME UiDropSocket PROVE SameConnection'
  BY <1>10 DEF UiDropSocket, DropSocket
<1>11. ASSUME NEW t \in Threads, LostNullSocket(t) PROVE SameConnection'
  BY <1>11 DEF LostNullSocket, DropSocket
<1>12. ASSUME NEW t \in Threads, LostNullReceiver(t) PROVE SameConnection'
  BY <1>12 DEF LostNullReceiver, DropReceiver
<1>13. CASE UNCHANGED <<tcp_sock, receiver>>
  BY <1>13
<1>. QED
  BY <1>1, <1>2, <1>3, <1>4, <1>5, <1>6, <1>7, <1>8, <1>9, <1>10, <1>11,
     <1>12, <1>13 DEF Next, OpenerStep, RxStep, UiStep, LostStep, CallerStep,
     Connect, OpenSeeReceiver, OpenCheck, OpenConnect, OpenStartReceiver,
     OpenPanels, RxRecv, RxResp, RxQuit, RxFail, PeerClose, Disconnect,
     UiSeeReceiver, LostRelease, LostStop, Dispatch, DispRegister, DispSend,
     ToggleStart, ToggleStop, CallerTop, CallerRegister, CallerSend,
     CallerCheck, CallerWoken, CallerTimeout, CallerFinish, Goto,
     CallerAbandon, vars, OpenSeeSocket, UiSeeSocket

\* The current socket keeps its Receiver until the socket is dropped.
LEMMA StepCurrentServed ==
  ASSUME TypeOK, OneOpener, OpenerOwnsReceiver, LossHandlers,
         SameConnection, CurrentServed, [Next]_vars
  PROVE  CurrentServed'
<1> USE ConsoleAssumption DEF TypeOK, CurrentServed, StopUnderWay, Stopping, conn,
        rxs, table, autos, disps, views, TypeConn, TypeThreads,
        OpenerOwnsReceiver, SameConnection, OneOpener, Active, LossHandlers,
        Threads
<1>1. ASSUME NEW s \in Socks, Connect(s) PROVE CurrentServed'
  BY <1>1 DEF Connect
<1>2. ASSUME NEW s \in Socks, OpenSeeReceiver(s) PROVE CurrentServed'
  BY <1>2 DEF OpenSeeReceiver
<1>3. ASSUME NEW s \in Socks, OpenStopReceiver(s) PROVE CurrentServed'
  BY <1>3 DEF OpenStopReceiver, StopReceiver
<1>4. ASSUME NEW s \in Socks, OpenDropReceiver(s) PROVE CurrentServed'
  BY <1>4 DEF OpenDropReceiver, DropReceiver
<1>5. ASSUME NEW s \in Socks, OpenSeeSocket(s) PROVE CurrentServed'
  BY <1>5 DEF OpenSeeSocket
<1>6. ASSUME NEW s \in Socks, OpenCloseOld(s) PROVE CurrentServed'
  BY <1>6 DEF OpenCloseOld, CloseCurrent
<1>7. ASSUME NEW s \in Socks, OpenDropSocket(s) PROVE CurrentServed'
  BY <1>7 DEF OpenDropSocket, DropSocket
<1>8. ASSUME NEW s \in Socks, OpenCheck(s, "check", "connect") PROVE CurrentServed'
  BY <1>8 DEF OpenCheck, GiveUp
<1>9. ASSUME NEW s \in Socks, OpenConnect(s) PROVE CurrentServed'
  BY <1>9 DEF OpenConnect, GiveUp
<1>10. ASSUME NEW s \in Socks, OpenCheck(s, "recheck", "publish") PROVE CurrentServed'
  BY <1>10 DEF OpenCheck, GiveUp
<1>11. ASSUME NEW s \in Socks, OpenPublish(s) PROVE CurrentServed'
  BY <1>11 DEF OpenPublish
<1>12. ASSUME NEW s \in Socks, OpenMakeReceiver(s) PROVE CurrentServed'
  BY <1>12 DEF OpenMakeReceiver
<1>13. ASSUME NEW s \in Socks, OpenStartReceiver(s) PROVE CurrentServed'
  BY <1>13 DEF OpenStartReceiver, GiveUp
<1>14. ASSUME NEW s \in Socks, OpenPanels(s) PROVE CurrentServed'
  BY <1>14 DEF OpenPanels
<1>15. ASSUME NEW s \in Socks, NEW r \in Rids, RxRecv(s, r) PROVE CurrentServed'
  BY <1>15 DEF RxRecv
<1>16. ASSUME NEW s \in Socks, RxResp(s) PROVE CurrentServed'
  BY <1>16 DEF RxResp
<1>17. ASSUME NEW s \in Socks, RxQuit(s) PROVE CurrentServed'
  BY <1>17 DEF RxQuit, Unread
<1>18. ASSUME NEW s \in Socks, RxFail(s) PROVE CurrentServed'
  BY <1>18 DEF RxFail, Unread
<1>19. ASSUME Disconnect PROVE CurrentServed'
  BY <1>19 DEF Disconnect
<1>20. ASSUME UiSeeReceiver PROVE CurrentServed'
  BY <1>20 DEF UiSeeReceiver
<1>21. ASSUME UiStopReceiver PROVE CurrentServed'
  BY <1>21 DEF UiStopReceiver, StopReceiver
<1>22. ASSUME UiDropReceiver PROVE CurrentServed'
  BY <1>22 DEF UiDropReceiver, DropReceiver
<1>23. ASSUME UiSeeSocket PROVE CurrentServed'
  BY <1>23 DEF UiSeeSocket
<1>24. ASSUME UiClose PROVE CurrentServed'
  BY <1>24 DEF UiClose, CloseCurrent
<1>25. ASSUME UiDropSocket PROVE CurrentServed'
  BY <1>25 DEF UiDropSocket, DropSocket
<1>26. ASSUME NEW t \in Threads, LostNullSocket(t) PROVE CurrentServed'
  BY <1>26 DEF LostNullSocket, DropSocket
<1>27. ASSUME NEW t \in Threads, LostNullReceiver(t) PROVE CurrentServed'
  BY <1>27 DEF LostNullReceiver, DropReceiver
<1>28. ASSUME NEW t \in Threads, LostRelease(t) PROVE CurrentServed'
  BY <1>28 DEF LostRelease
<1>29. ASSUME NEW t \in Threads, LostStop(t) PROVE CurrentServed'
  BY <1>29 DEF LostStop, Alive
<1>30. ASSUME NEW s \in Socks, PeerClose(s) PROVE CurrentServed'
  BY <1>30 DEF PeerClose
<1>31. CASE UNCHANGED <<tcp_sock, receiver, sock, opener, rx, rxRunning, ui, lost>>
  BY <1>31
<1>. QED
  BY <1>1, <1>2, <1>3, <1>4, <1>5, <1>6, <1>7, <1>8, <1>9, <1>10, <1>11,
     <1>12, <1>13, <1>14, <1>15, <1>16, <1>17, <1>18, <1>19, <1>20, <1>21,
     <1>22, <1>23, <1>24, <1>25, <1>26, <1>27, <1>28, <1>29, <1>30, <1>31 DEF Next,
     OpenerStep, RxStep, UiStep, LostStep, CallerStep, PeerClose, Dispatch,
     DispRegister, DispSend, ToggleStart, ToggleStop, CallerTop,
     CallerRegister, CallerSend, CallerCheck, CallerWoken, CallerTimeout,
     CallerFinish, Goto, CallerAbandon, vars

\* The initial state satisfies every conjunct.
LEMMA InitIInv == Init => IInv
<1> SUFFICES ASSUME Init PROVE IInv
  OBVIOUS
<1>1. TypeConn
  BY DEF Init, TypeConn, OpenerPc
<1>6. TypeThreads
  BY ConsoleAssumption DEF Init, TypeThreads, Rids, Threads, UiPc, LostPc
<1>7. TypeTable
  <2>1. nextRid \in 1..(MaxRid + 1) /\ dispRid \in 0..MaxRid
    BY ConsoleAssumption DEF Init
  <2>2. ev \in [Rids -> {"none", "clear"} \cup Set] /\ pending \subseteq Rids
    BY DEF Init
  <2>3. panel \in Socks \cup {NoSock} /\ disp \in {"idle", "register", "send"}
    BY DEF Init
  <2>4. panelReady \in BOOLEAN
    BY DEF Init
  <2>. QED  BY <2>1, <2>2, <2>3, <2>4 DEF TypeTable
<1>8. TypeAutos
  BY ConsoleAssumption DEF Init, TypeAutos, Rids, CallerPc, Set
<1>2. RidsIssued /\ EventsMatchTable
  BY ConsoleAssumption DEF Init, RidsIssued, EventsMatchTable, Rids
<1>3. WaiterCovered /\ OneOpener
  BY DEF Init, WaiterCovered, OneOpener, Active
<1>4. OpenerOwnsReceiver /\ SameConnection /\ CurrentServed
  BY DEF Init, OpenerOwnsReceiver, SameConnection, CurrentServed
<1>5. LossHandlers
  BY DEF Init, LossHandlers, Threads
<1>. QED  BY <1>1, <1>2, <1>3, <1>4, <1>5, <1>6, <1>7, <1>8
      DEF IInv, TypeOK

\* The conjuncts of IInv support one another: ids, events and waiters on one
\* side, openers, receivers and loss handlers on the other.
THEOREM InductiveInvariant == Spec => []IInv
<1>1. IInv /\ [Next]_vars => IInv'
  BY StepTypeConn, StepTypeThreads, StepTypeTable, StepTypeAutos, StepRidsIssued,
     StepEvents, StepWaiterCovered, StepOneOpener, StepOpenerOwns, StepLossHandlers,
     StepSameConnection, StepCurrentServed
  DEF IInv, TypeOK
<1>. QED  BY InitIInv, <1>1, PTL DEF Spec

-----------------------------------------------------------------------------
\* Every attribute, thread state and table keeps its type.
THEOREM TypeCorrect == Spec => []TypeOK
<1>1. IInv => TypeOK  BY DEF IInv
<1>. QED  BY InductiveInvariant, <1>1, PTL

\* A second click on Reconnect never starts a second connect() thread.
THEOREM NoOverlappingConnects == Spec => []OneOpener
<1>1. IInv => OneOpener  BY DEF IInv
<1>. QED  BY InductiveInvariant, <1>1, PTL

\* However Receivers, timeouts and losses interleave, a waiting AutoCaller's
\* request is in the table or its event is set.
THEOREM NoOrphanedWaiter == Spec => []WaiterCovered
<1>1. IInv => WaiterCovered  BY DEF IInv
<1>. QED  BY InductiveInvariant, <1>1, PTL

\* The socket requests are written to is the one the Receiver reads from.
THEOREM RequestsAndAnswersMeet == Spec => []SameConnection
<1>1. IInv => SameConnection  BY DEF IInv
<1>. QED  BY InductiveInvariant, <1>1, PTL

\* The socket a console at rest shows has a live Receiver on it, or it is the
\* closed socket of a connect() that raised after publishing it.
THEOREM ConnectionServed == Spec => []ConnectedIsServed
<1>1. IInv => ConnectedIsServed
  BY DEF IInv, ConnectedIsServed, CurrentServed, StopUnderWay, Stopping,
     OneOpener, Active,
     TypeOK, TypeConn
<1>. QED  BY InductiveInvariant, <1>1, PTL

\* A request is completed once: no event is set by an answer and by a loss.
THEOREM NoSecondCompletion == Spec => CompletedOnce
<1>1. IInv /\ [Next]_vars =>
        [\A r \in Rids : ev[r] \in Set => ev'[r] = ev[r]]_ev
  <2> SUFFICES ASSUME IInv, [Next]_vars, NEW r \in Rids, ev[r] \in Set, ev' # ev
               PROVE  ev'[r] = ev[r]
    OBVIOUS
  <2> USE DEF IInv, TypeOK, TypeTable, EventsMatchTable, Rids, Set
  <2>1. ASSUME NEW s \in Socks, RxResp(s) PROVE ev'[r] = ev[r]
    BY <2>1 DEF RxResp
  <2>2. ASSUME NEW t \in Threads, LostRelease(t) PROVE ev'[r] = ev[r]
    BY <2>2 DEF LostRelease
  <2>3. CASE PendingAdd
    BY <2>3, ConsoleAssumption DEF PendingAdd
  <2>. QED
    BY <2>1, <2>2, <2>3 DEF Next, OpenerStep, RxStep, UiStep, LostStep, CallerStep,
       Connect, OpenSeeReceiver, OpenStopReceiver, OpenCloseOld, OpenCheck,
       OpenConnect, OpenPublish, OpenMakeReceiver, OpenStartReceiver,
       OpenPanels, RxRecv, RxQuit, RxFail, PeerClose, Disconnect,
       UiSeeReceiver, UiStopReceiver, UiClose, LostNullSocket, LostNullReceiver, OpenDropReceiver, OpenSeeSocket,
       OpenDropSocket, UiDropReceiver, UiSeeSocket, UiDropSocket, LostStop, Dispatch,
       DispRegister, DispSend, ToggleStart, ToggleStop, CallerTop,
       CallerRegister, CallerSend, CallerCheck, CallerWoken, CallerTimeout,
       CallerFinish, Goto, CallerAbandon, vars, conn, rxs, table, autos,
       disps, views
<1>. QED  BY InductiveInvariant, <1>1, PTL DEF CompletedOnce, Spec

=============================================================================
