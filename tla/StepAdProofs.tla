---------------------------- MODULE StepAdProofs ----------------------------
(***************************************************************************)
(* Proofs about StepAd, for any number of runners, vehicles and steps.     *)
(* IInv is inductive; each lemma below shows that a step keeps one of its  *)
(* conjuncts, with one case per action that can disturb it and one for     *)
(* every step that leaves the variables it speaks of unchanged.            *)
(***************************************************************************)
EXTENDS StepAd, TLAPS

\* Of two numbers that make at most one, one that is positive is the one.
LEMMA OneOfTwo ==
  ASSUME NEW a \in Nat, NEW b \in Nat, a + b <= 1, b > 0
  PROVE  a = 0 /\ b = 1
  OBVIOUS

\* The control loops' state and their FixedStep entries keep their types.
LEMMA StepTypeLoop ==
  ASSUME TypeOK, [Next]_vars
  PROVE  TypeLoop'
<1> USE StepAdAssumption DEF TypeOK, TypeLoop, TypeConsole, LoopPc, Presend,
        Control, loopVars, ackVars, viVars, uiVars, netVars, rxVars, simVars
<1>1. ASSUME NEW r \in Runners, Start(r) PROVE TypeLoop'
  BY <1>1 DEF Start
<1>2. ASSUME StopStepAd PROVE TypeLoop'
  BY <1>2 DEF StopStepAd, StopListed
<1>3. ASSUME NEW t \in Handlers, LostRelease(t) PROVE TypeLoop'
  BY <1>3 DEF LostRelease, GoLost
<1>4. ASSUME NEW t \in Handlers, LostStop(t) PROVE TypeLoop'
  BY <1>4 DEF LostStop, GoLost, StopListed
<1>5. ASSUME NEW r \in Runners, RxAck(r) PROVE TypeLoop'
  BY <1>5 DEF RxAck
<1>6. ASSUME NEW r \in Runners, Clear(r) PROVE TypeLoop'
  BY <1>6 DEF Clear, Goto
<1>7. ASSUME NEW r \in Runners, Register(r) PROVE TypeLoop'
  BY <1>7 DEF Register, Goto
<1>8. ASSUME NEW r \in Runners, Send(r) PROVE TypeLoop'
  BY <1>8 DEF Send, Goto, CanSend, SendFails
<1>9. ASSUME NEW r \in Runners, Top(r) PROVE TypeLoop'
  BY <1>9 DEF Top, Goto
<1>10. ASSUME NEW r \in Runners, Acked(r) PROVE TypeLoop'
  BY <1>10 DEF Acked, Goto
<1>11. ASSUME NEW r \in Runners, NEW v \in Vehicles, Ask(r, v) PROVE
     TypeLoop'
  BY <1>11 DEF Ask, Goto, CanSend, SendFails
<1>12. ASSUME NEW r \in Runners, AskedAll(r) PROVE TypeLoop'
  BY <1>12 DEF AskedAll, Goto
<1>13. ASSUME NEW r \in Runners, NEW v \in Vehicles, Collect(r, v) PROVE
     TypeLoop'
  BY <1>13 DEF Collect
<1>14. ASSUME NEW r \in Runners, CollectedAll(r) PROVE TypeLoop'
  BY <1>14 DEF CollectedAll, Goto
<1>15. ASSUME NEW r \in Runners, NEW v \in Vehicles, WaitInfo(r, v) PROVE
     TypeLoop'
  BY <1>15 DEF WaitInfo
<1>16. ASSUME NEW r \in Runners, WaitedAll(r) PROVE TypeLoop'
  BY <1>16 DEF WaitedAll, Goto
<1>17. ASSUME NEW r \in Runners, NEW v \in Vehicles, Command(r, v) PROVE
     TypeLoop'
  BY <1>17 DEF Command, SendFails
<1>18. ASSUME NEW r \in Runners, Commanded(r) PROVE TypeLoop'
  BY <1>18 DEF Commanded, Goto
<1>19. ASSUME NEW r \in Runners, Finish(r) PROVE TypeLoop'
  BY <1>19 DEF Finish, Goto
<1>20. CASE UNCHANGED <<loopVars, running, wired, sentStopped, ackVars>>
  BY <1>20
<1>. QED
  BY <1>1, <1>2, <1>3, <1>4, <1>5, <1>6, <1>7, <1>8, <1>9, <1>10, <1>11,
     <1>12, <1>13, <1>14, <1>15, <1>16, <1>17, <1>18, <1>19, <1>20 DEF Next,
     LoopStep, RxHandle, LostStep, Append, Disconnect, PeerClose, LostNull,
     GoLost, RxFail, RxQuit, RxInfo, RxStore, RxSignal, SimStep, SimInfo,
     UdpStore, UdpSignal, vars

\* So do the vehicles' information, events and requests.
LEMMA StepTypeInfo ==
  ASSUME TypeOK, StoredMatches, [Next]_vars
  PROVE  TypeInfo'
<1> USE StepAdAssumption DEF TypeOK, TypeInfo, TypeLoop, TypeConsole,
        TypeSim, StoredMatches, Steps, loopVars, ackVars, viVars, uiVars,
        netVars, rxVars, simVars
<1>1. ASSUME StopStepAd PROVE TypeInfo'
  BY <1>1 DEF StopStepAd, StopListed
<1>2. ASSUME NEW t \in Handlers, LostStop(t) PROVE TypeInfo'
  BY <1>2 DEF LostStop, GoLost, StopListed
<1>3. ASSUME NEW r \in Runners, NEW v \in Tcp, NEW info \in Steps, RxInfo(r,
     v, info) PROVE TypeInfo'
  <2>1. asked' \in [Runners -> SUBSET Tcp]
    <3>1. CASE asked' = asked
      BY <3>1
    <3>2. CASE asked' = [asked EXCEPT ![r] = asked[r] \ {v}]
      BY <3>2
    <3>. QED  BY <1>3, <3>1, <3>2 DEF RxInfo
  <2>2. UNCHANGED <<latest, event, seen, lastOk>>
    BY <1>3 DEF RxInfo
  <2>. QED  BY <2>1, <2>2
<1>4. ASSUME RxStore PROVE TypeInfo'
  BY <1>4 DEF RxStore
<1>5. ASSUME RxSignal PROVE TypeInfo'
  BY <1>5 DEF RxSignal
<1>6. ASSUME NEW r \in Runners, NEW v \in Vehicles, UdpStore(r, v) PROVE
     TypeInfo'
  BY <1>6 DEF UdpStore
<1>7. ASSUME NEW r \in Runners, NEW v \in Vehicles, UdpSignal(r, v) PROVE
     TypeInfo'
  BY <1>7 DEF UdpSignal
<1>8. ASSUME NEW r \in Runners, Clear(r) PROVE TypeInfo'
  BY <1>8 DEF Clear, Goto
<1>9. ASSUME NEW r \in Runners, NEW v \in Vehicles, Ask(r, v) PROVE
     TypeInfo'
  BY <1>9 DEF Ask, Goto, CanSend, SendFails
<1>10. ASSUME NEW r \in Runners, NEW v \in Vehicles, Collect(r, v) PROVE
     TypeInfo'
  BY <1>10 DEF Collect
<1>11. CASE UNCHANGED viVars
  BY <1>11
<1>. QED
  BY <1>1, <1>2, <1>3, <1>4, <1>5, <1>6, <1>7, <1>8, <1>9, <1>10, <1>11 DEF
     Next, LoopStep, RxHandle, LostStep, Start, Append, Disconnect,
     PeerClose, LostNull, GoLost, LostRelease, RxFail, RxQuit, RxAck,
     SimStep, SimInfo, Register, Goto, Send, CanSend, SendFails, Top, Acked,
     AskedAll, CollectedAll, WaitInfo, WaitedAll, Command, Commanded,
     Finish, vars

\* So do the user interface, the connection and the Receiver.
LEMMA StepTypeConsole ==
  ASSUME TypeOK, LossIsReal, [Next]_vars
  PROVE  TypeConsole'
<1> USE StepAdAssumption DEF TypeOK, TypeConsole, LossIsReal, Handlers,
        loopVars, ackVars, viVars, uiVars, netVars, rxVars, simVars
<1>1. ASSUME NEW r \in Runners, Start(r) PROVE TypeConsole'
  BY <1>1 DEF Start
<1>2. ASSUME Append PROVE TypeConsole'
  BY <1>2 DEF Append
<1>3. ASSUME StopStepAd PROVE TypeConsole'
  BY <1>3 DEF StopStepAd, StopListed
<1>4. ASSUME Disconnect PROVE TypeConsole'
  BY <1>4 DEF Disconnect
<1>5. ASSUME PeerClose PROVE TypeConsole'
  BY <1>5 DEF PeerClose
<1>6. ASSUME NEW t \in Handlers, LostNull(t) PROVE TypeConsole'
  BY <1>6 DEF LostNull, GoLost
<1>7. ASSUME NEW t \in Handlers, LostRelease(t) PROVE TypeConsole'
  BY <1>7 DEF LostRelease, GoLost
<1>8. ASSUME NEW t \in Handlers, LostStop(t) PROVE TypeConsole'
  BY <1>8 DEF LostStop, GoLost, StopListed
<1>9. ASSUME RxFail PROVE TypeConsole'
  BY <1>9 DEF RxFail
<1>10. ASSUME RxQuit PROVE TypeConsole'
  BY <1>10 DEF RxQuit
<1>11. ASSUME NEW r \in Runners, NEW v \in Tcp, NEW info \in Steps,
     RxInfo(r, v, info) PROVE TypeConsole'
  BY <1>11 DEF RxInfo
<1>12. ASSUME RxStore PROVE TypeConsole'
  BY <1>12 DEF RxStore
<1>13. ASSUME RxSignal PROVE TypeConsole'
  BY <1>13 DEF RxSignal
<1>14. ASSUME NEW r \in Runners, Finish(r) PROVE TypeConsole'
  BY <1>14 DEF Finish, Goto
<1>15. CASE UNCHANGED <<uiVars, netVars, rxVars>>
  BY <1>15
<1>. QED
  BY <1>1, <1>2, <1>3, <1>4, <1>5, <1>6, <1>7, <1>8, <1>9, <1>10, <1>11,
     <1>12, <1>13, <1>14, <1>15 DEF Next, LoopStep, RxHandle, LostStep,
     RxAck, SimStep, SimInfo, UdpStore, UdpSignal, Clear, Goto, Register,
     Send, CanSend, SendFails, Top, Acked, Ask, AskedAll, Collect,
     CollectedAll, WaitInfo, WaitedAll, Command, Commanded, vars

\* So do the simulator and what is on the wire.
LEMMA StepTypeSim ==
  ASSUME TypeOK, StepAccount, [Next]_vars
  PROVE  TypeSim'
<1> USE StepAdAssumption DEF TypeOK, TypeLoop, TypeSim, Steps, loopVars,
        ackVars, viVars, uiVars, netVars, rxVars, simVars
<1>1. ASSUME NEW r \in Runners, RxAck(r) PROVE TypeSim'
  BY <1>1 DEF RxAck
<1>2. ASSUME NEW r \in Runners, NEW v \in Tcp, NEW info \in Steps, RxInfo(r,
     v, info) PROVE TypeSim'
  BY <1>2 DEF RxInfo
<1>3. ASSUME NEW r \in Runners, SimStep(r) PROVE TypeSim'
  BY <1>3 DEF SimStep
<1>4. ASSUME NEW r \in Runners, NEW v \in Tcp, SimInfo(r, v) PROVE TypeSim'
  BY <1>4 DEF SimInfo
<1>5. ASSUME NEW r \in Runners, Send(r) PROVE TypeSim'
  <2>1. owed' \in [Runners -> Nat]
    <3>1. CASE owed' = owed
      BY <3>1
    <3>2. CASE owed' = [owed EXCEPT ![r] = owed[r] + 1]
      BY <3>2
    <3>. QED  BY <1>5, <3>1, <3>2 DEF Send, Goto, CanSend, SendFails
  <2>2. UNCHANGED <<acks, queries, infos, step, stepOf>>
    BY <1>5 DEF Send, Goto, CanSend, SendFails
  <2>. QED  BY <2>1, <2>2
<1>6. ASSUME NEW r \in Runners, NEW v \in Vehicles, Ask(r, v) PROVE TypeSim'
  BY <1>6 DEF Ask, Goto, CanSend, SendFails
<1>7. ASSUME NEW r \in Runners, NEW v \in Vehicles, Collect(r, v) PROVE
     TypeSim'
  BY <1>7 DEF Collect
<1>8. CASE UNCHANGED simVars
  BY <1>8
<1>. QED
  BY <1>1, <1>2, <1>3, <1>4, <1>5, <1>6, <1>7, <1>8 DEF Next, LoopStep,
     RxHandle, LostStep, Start, Append, StopStepAd, StopListed, Disconnect,
     PeerClose, LostNull, GoLost, LostRelease, LostStop, RxFail, RxQuit,
     RxStore, RxSignal, UdpStore, UdpSignal, Clear, Goto, Register, Top,
     Acked, AskedAll, CollectedAll, WaitInfo, WaitedAll, Command, SendFails,
     Commanded, Finish, vars

\* Losses are handled, and socketless runners started, only when the
\* connection is down, and it stays down.
LEMMA StepLossIsReal ==
  ASSUME TypeOK, LossIsReal, [Next]_vars
  PROVE  LossIsReal'
<1> USE DEF TypeOK, TypeLoop, TypeConsole, Handlers, LossIsReal, loopVars,
        ackVars, viVars, uiVars, netVars, rxVars, simVars
<1>1. ASSUME NEW r \in Runners, Start(r) PROVE LossIsReal'
  BY <1>1 DEF Start
<1>2. ASSUME Append PROVE LossIsReal'
  BY <1>2 DEF Append
<1>3. ASSUME Disconnect PROVE LossIsReal'
  BY <1>3 DEF Disconnect
<1>4. ASSUME PeerClose PROVE LossIsReal'
  BY <1>4 DEF PeerClose
<1>5. ASSUME NEW t \in Handlers, LostNull(t) PROVE LossIsReal'
  BY <1>5 DEF LostNull, GoLost
<1>6. ASSUME NEW t \in Handlers, LostRelease(t) PROVE LossIsReal'
  BY <1>6 DEF LostRelease, GoLost
<1>7. ASSUME NEW t \in Handlers, LostStop(t) PROVE LossIsReal'
  BY <1>7 DEF LostStop, GoLost, StopListed
<1>8. ASSUME RxFail PROVE LossIsReal'
  BY <1>8 DEF RxFail
<1>9. ASSUME NEW r \in Runners, Clear(r) PROVE LossIsReal'
  BY <1>9 DEF Clear, Goto
<1>10. ASSUME NEW r \in Runners, Register(r) PROVE LossIsReal'
  BY <1>10 DEF Register, Goto
<1>11. ASSUME NEW r \in Runners, Send(r) PROVE LossIsReal'
  BY <1>11 DEF Send, Goto, CanSend, SendFails
<1>12. ASSUME NEW r \in Runners, Top(r) PROVE LossIsReal'
  BY <1>12 DEF Top, Goto
<1>13. ASSUME NEW r \in Runners, Acked(r) PROVE LossIsReal'
  BY <1>13 DEF Acked, Goto
<1>14. ASSUME NEW r \in Runners, NEW v \in Vehicles, Ask(r, v) PROVE
     LossIsReal'
  BY <1>14 DEF Ask, Goto, CanSend, SendFails
<1>15. ASSUME NEW r \in Runners, AskedAll(r) PROVE LossIsReal'
  BY <1>15 DEF AskedAll, Goto
<1>16. ASSUME NEW r \in Runners, NEW v \in Vehicles, Collect(r, v) PROVE
     LossIsReal'
  BY <1>16 DEF Collect
<1>17. ASSUME NEW r \in Runners, CollectedAll(r) PROVE LossIsReal'
  BY <1>17 DEF CollectedAll, Goto
<1>18. ASSUME NEW r \in Runners, NEW v \in Vehicles, WaitInfo(r, v) PROVE
     LossIsReal'
  BY <1>18 DEF WaitInfo
<1>19. ASSUME NEW r \in Runners, WaitedAll(r) PROVE LossIsReal'
  BY <1>19 DEF WaitedAll, Goto
<1>20. ASSUME NEW r \in Runners, NEW v \in Vehicles, Command(r, v) PROVE
     LossIsReal'
  BY <1>20 DEF Command, SendFails
<1>21. ASSUME NEW r \in Runners, Commanded(r) PROVE LossIsReal'
  BY <1>21 DEF Commanded, Goto
<1>22. ASSUME NEW r \in Runners, Finish(r) PROVE LossIsReal'
  BY <1>22 DEF Finish, Goto
<1>23. CASE UNCHANGED <<pc, wired, ui, tcpSock, sock, lost>>
  BY <1>23
<1>. QED
  BY <1>1, <1>2, <1>3, <1>4, <1>5, <1>6, <1>7, <1>8, <1>9, <1>10, <1>11,
     <1>12, <1>13, <1>14, <1>15, <1>16, <1>17, <1>18, <1>19, <1>20, <1>21,
     <1>22, <1>23 DEF Next, LoopStep, RxHandle, LostStep, StopStepAd,
     StopListed, RxQuit, RxAck, RxInfo, RxStore, RxSignal, SimStep, SimInfo,
     UdpStore, UdpSignal, vars

\* A runner never has a second FixedStep on its way.
LEMMA StepStepAccount ==
  ASSUME TypeOK, LossIsReal, StepAccount, [Next]_vars
  PROVE  StepAccount'
<1> USE DEF TypeOK, TypeLoop, TypeSim, TypeConsole, LossIsReal, Presend,
        Control, Handlers, StepAccount, loopVars, ackVars, viVars, uiVars,
        netVars, rxVars, simVars
<1>1. ASSUME NEW r \in Runners, Start(r) PROVE StepAccount'
  BY <1>1 DEF Start
<1>2. ASSUME Disconnect PROVE StepAccount'
  BY <1>2 DEF Disconnect
<1>3. ASSUME PeerClose PROVE StepAccount'
  BY <1>3 DEF PeerClose
<1>4. ASSUME NEW t \in Handlers, LostRelease(t) PROVE StepAccount'
  BY <1>4 DEF LostRelease, GoLost
<1>5. ASSUME NEW r \in Runners, RxAck(r) PROVE StepAccount'
  <2>1. owed[r] \in Nat /\ acks[r] \in Nat /\ acks[r] > 0
    BY <1>5 DEF RxAck
  <2>2. owed[r] + acks[r] <= 1
    OBVIOUS
  <2>3. owed[r] = 0 /\ acks[r] = 1
    BY <2>1, <2>2, OneOfTwo
  <2>4. owed' = owed /\ acks'[r] = 0 /\ pc' = pc /\ sock' = sock
    BY <1>5, <2>3 DEF RxAck
  <2>5. \A q \in Runners \ {r} : acks'[q] = acks[q] /\ ack'[q] = ack[q]
    BY <1>5 DEF RxAck
  <2>6. pc[r] # "send" \/ sock # "open"
    BY <2>3
  <2>7. \A q \in Runners : owed'[q] + acks'[q] <= owed[q] + acks[q]
    BY <2>3, <2>4, <2>5
  <2>8. owed'[r] + acks'[r] = 0
    BY <2>3, <2>4
  <2>9. \A q \in Runners : owed'[q] \in Nat /\ acks'[q] \in Nat
    BY <2>4, <2>5
  <2>10. \A q \in Runners : owed[q] + acks[q] = 0 => owed'[q] + acks'[q] = 0
    BY <2>7, <2>9, <2>4
  <2>11. \A q \in Runners : owed'[q] + acks'[q] <= 1
    BY <2>4, <2>7, <2>9
  <2>12. \A q \in Runners : sock' = "open" /\ pc'[q] = "send" => ~ack'[q]
    BY <2>4, <2>5, <2>6
  <2>13. \A q \in Runners :
           sock' = "open" /\ pc'[q] \in {"top", "ack"} /\ ack'[q]
             => owed'[q] + acks'[q] = 0
    BY <2>4, <2>5, <2>8, <2>10
  <2>. QED  BY <2>4, <2>10, <2>11, <2>12, <2>13
<1>6. ASSUME NEW r \in Runners, SimStep(r) PROVE StepAccount'
  BY <1>6 DEF SimStep
<1>7. ASSUME NEW r \in Runners, Clear(r) PROVE StepAccount'
  BY <1>7 DEF Clear, Goto
<1>8. ASSUME NEW r \in Runners, Register(r) PROVE StepAccount'
  BY <1>8 DEF Register, Goto
<1>9. ASSUME NEW r \in Runners, Send(r) PROVE StepAccount'
  BY <1>9 DEF Send, Goto, CanSend, SendFails
<1>10. ASSUME NEW r \in Runners, Top(r) PROVE StepAccount'
  BY <1>10 DEF Top, Goto
<1>11. ASSUME NEW r \in Runners, Acked(r) PROVE StepAccount'
  BY <1>11 DEF Acked, Goto
<1>12. ASSUME NEW r \in Runners, NEW v \in Vehicles, Ask(r, v) PROVE
     StepAccount'
  BY <1>12 DEF Ask, Goto, CanSend, SendFails
<1>13. ASSUME NEW r \in Runners, AskedAll(r) PROVE StepAccount'
  BY <1>13 DEF AskedAll, Goto
<1>14. ASSUME NEW r \in Runners, NEW v \in Vehicles, Collect(r, v) PROVE
     StepAccount'
  BY <1>14 DEF Collect
<1>15. ASSUME NEW r \in Runners, CollectedAll(r) PROVE StepAccount'
  BY <1>15 DEF CollectedAll, Goto
<1>16. ASSUME NEW r \in Runners, NEW v \in Vehicles, WaitInfo(r, v) PROVE
     StepAccount'
  BY <1>16 DEF WaitInfo
<1>17. ASSUME NEW r \in Runners, WaitedAll(r) PROVE StepAccount'
  BY <1>17 DEF WaitedAll, Goto
<1>18. ASSUME NEW r \in Runners, NEW v \in Vehicles, Command(r, v) PROVE
     StepAccount'
  BY <1>18 DEF Command, SendFails
<1>19. ASSUME NEW r \in Runners, Commanded(r) PROVE StepAccount'
  BY <1>19 DEF Commanded, Goto
<1>20. ASSUME NEW r \in Runners, Finish(r) PROVE StepAccount'
  BY <1>20 DEF Finish, Goto
<1>21. CASE UNCHANGED <<pc, ack, owed, acks, sock>>
  BY <1>21
<1>. QED
  BY <1>1, <1>2, <1>3, <1>4, <1>5, <1>6, <1>7, <1>8, <1>9, <1>10, <1>11,
     <1>12, <1>13, <1>14, <1>15, <1>16, <1>17, <1>18, <1>19, <1>20, <1>21
     DEF Next, LoopStep, RxHandle, LostStep, Append, StopStepAd, StopListed,
     LostNull, GoLost, LostStop, RxFail, RxQuit, RxInfo, RxStore, RxSignal,
     SimInfo, UdpStore, UdpSignal, vars

\* Nothing of an earlier step is left for the Receiver to deliver.
LEMMA StepAnswers ==
  ASSUME TypeOK, LossIsReal, StepAccount, AnswersOfThisStep, [Next]_vars
  PROVE  AnswersOfThisStep'
<1> USE DEF TypeOK, TypeLoop, TypeSim, TypeInfo, TypeConsole, LossIsReal,
        StepAccount, Presend, Control, Handlers, Steps, Stepped, AwaitsInfo,
        AnswersOfThisStep, loopVars, ackVars, viVars, uiVars, netVars,
        rxVars, simVars
<1>1. ASSUME NEW r \in Runners, Start(r) PROVE AnswersOfThisStep'
  BY <1>1 DEF Start
<1>2. ASSUME Disconnect PROVE AnswersOfThisStep'
  BY <1>2 DEF Disconnect
<1>3. ASSUME PeerClose PROVE AnswersOfThisStep'
  BY <1>3 DEF PeerClose
<1>4. ASSUME NEW t \in Handlers, LostRelease(t) PROVE AnswersOfThisStep'
  BY <1>4 DEF LostRelease, GoLost
<1>5. ASSUME NEW t \in Handlers, LostStop(t) PROVE AnswersOfThisStep'
  BY <1>5 DEF LostStop, GoLost, StopListed
<1>6. ASSUME RxFail PROVE AnswersOfThisStep'
  BY <1>6 DEF RxFail
<1>7. ASSUME RxQuit PROVE AnswersOfThisStep'
  BY <1>7 DEF RxQuit
<1>8. ASSUME NEW r \in Runners, RxAck(r) PROVE AnswersOfThisStep'
  BY <1>8 DEF RxAck
<1>9. ASSUME NEW r \in Runners, NEW v \in Tcp, NEW info \in Steps, RxInfo(r,
     v, info) PROVE AnswersOfThisStep'
  BY <1>9 DEF RxInfo
<1>10. ASSUME RxStore PROVE AnswersOfThisStep'
  BY <1>10 DEF RxStore
<1>11. ASSUME RxSignal PROVE AnswersOfThisStep'
  BY <1>11 DEF RxSignal
<1>12. ASSUME NEW r \in Runners, SimStep(r) PROVE AnswersOfThisStep'
  BY <1>12 DEF SimStep
<1>13. ASSUME NEW r \in Runners, NEW v \in Tcp, SimInfo(r, v) PROVE
     AnswersOfThisStep'
  BY <1>13 DEF SimInfo
<1>14. ASSUME NEW r \in Runners, Clear(r) PROVE AnswersOfThisStep'
  BY <1>14 DEF Clear, Goto
<1>15. ASSUME NEW r \in Runners, Register(r) PROVE AnswersOfThisStep'
  BY <1>15 DEF Register, Goto
<1>16. ASSUME NEW r \in Runners, Send(r) PROVE AnswersOfThisStep'
  BY <1>16 DEF Send, Goto, CanSend, SendFails
<1>17. ASSUME NEW r \in Runners, Top(r) PROVE AnswersOfThisStep'
  BY <1>17 DEF Top, Goto
<1>18. ASSUME NEW r \in Runners, Acked(r) PROVE AnswersOfThisStep'
  <2>1. CASE ack[r]
    BY <1>18, <2>1 DEF Acked, Goto
  <2>2. CASE ~ack[r]
    BY <1>18, <2>2 DEF Acked, Goto
  <2>. QED  BY <1>18, <2>1, <2>2 DEF Acked, Goto
<1>19. ASSUME NEW r \in Runners, NEW v \in Vehicles, Ask(r, v) PROVE
     AnswersOfThisStep'
  <2>1. UNCHANGED <<ack, sock, rx, rxRunner, rxInfo, infos, step, stepOf>>
    BY <1>19 DEF Ask, Goto, CanSend, SendFails
  <2>2. CASE CanSend(r) /\ UNCHANGED pc
    <3>0. pc[r] = "ask" /\ v \in todo[r]
      BY <1>19, <2>2 DEF Ask, Goto, CanSend, SendFails
    <3>1. pc[r] = "ask" /\ v \in Tcp
      BY <3>0
    <3>2. todo' = [todo EXCEPT ![r] = todo[r] \ {v}]
      BY <1>19, <2>2 DEF Ask, Goto, CanSend, SendFails
    <3>3. \A q \in Runners, x \in Tcp :
            x \in queries'[q] => x \in queries[q] \/ (q = r /\ x = v)
      BY <1>19, <2>2 DEF Ask, Goto, CanSend, SendFails
    <3>4. \A q \in Runners, x \in Tcp : AwaitsInfo(q, x) => AwaitsInfo(q, x)'
      BY <2>2, <3>1, <3>2
    <3>5. AwaitsInfo(r, v)'
      BY <2>2, <3>1, <3>2
    <3>. QED  BY <2>1, <2>2, <3>3, <3>4, <3>5
  <2>3. CASE pc' = [pc EXCEPT ![r] = "finish"] /\ SendFails(r)
    BY <1>19, <2>3 DEF Ask, Goto, CanSend, SendFails
  <2>. QED  BY <1>19, <2>2, <2>3 DEF Ask, Goto, CanSend, SendFails
<1>20. ASSUME NEW r \in Runners, AskedAll(r) PROVE AnswersOfThisStep'
  BY <1>20 DEF AskedAll, Goto
<1>21. ASSUME NEW r \in Runners, NEW v \in Vehicles, Collect(r, v) PROVE
     AnswersOfThisStep'
  BY <1>21 DEF Collect
<1>22. ASSUME NEW r \in Runners, CollectedAll(r) PROVE AnswersOfThisStep'
  BY <1>22 DEF CollectedAll, Goto
<1>23. ASSUME NEW r \in Runners, NEW v \in Vehicles, WaitInfo(r, v) PROVE
     AnswersOfThisStep'
  BY <1>23 DEF WaitInfo
<1>24. ASSUME NEW r \in Runners, WaitedAll(r) PROVE AnswersOfThisStep'
  BY <1>24 DEF WaitedAll, Goto
<1>25. ASSUME NEW r \in Runners, NEW v \in Vehicles, Command(r, v) PROVE
     AnswersOfThisStep'
  <2>1. CASE UNCHANGED pc
    BY <1>25, <2>1 DEF Command, SendFails
  <2>2. CASE pc' = [pc EXCEPT ![r] = "finish"] /\ UNCHANGED todo
    BY <1>25, <2>2 DEF Command, SendFails
  <2>. QED  BY <1>25, <2>1, <2>2 DEF Command, SendFails
<1>26. ASSUME NEW r \in Runners, Commanded(r) PROVE AnswersOfThisStep'
  BY <1>26 DEF Commanded, Goto
<1>27. ASSUME NEW r \in Runners, Finish(r) PROVE AnswersOfThisStep'
  BY <1>27 DEF Finish, Goto
<1>28. CASE UNCHANGED <<pc, ack, todo, sock, rx, rxRunner, rxInfo, queries, infos, step, stepOf>>
  BY <1>28
<1>. QED
  BY <1>1, <1>2, <1>3, <1>4, <1>5, <1>6, <1>7, <1>8, <1>9, <1>10, <1>11,
     <1>12, <1>13, <1>14, <1>15, <1>16, <1>17, <1>18, <1>19, <1>20, <1>21,
     <1>22, <1>23, <1>24, <1>25, <1>26, <1>27, <1>28 DEF Next, LoopStep,
     RxHandle, LostStep, Append, StopStepAd, StopListed, LostNull, GoLost,
     UdpStore, UdpSignal, vars

\* What the Receiver has stored is what it handles.
LEMMA StepStored ==
  ASSUME TypeOK, StoredMatches, [Next]_vars
  PROVE  StoredMatches'
<1> USE StepAdAssumption DEF TypeOK, TypeInfo, TypeConsole, StoredMatches,
        loopVars, ackVars, viVars, uiVars, netVars, rxVars, simVars
<1>1. ASSUME NEW t \in Handlers, LostStop(t) PROVE StoredMatches'
  BY <1>1 DEF LostStop, GoLost, StopListed
<1>2. ASSUME RxFail PROVE StoredMatches'
  BY <1>2 DEF RxFail
<1>3. ASSUME RxQuit PROVE StoredMatches'
  BY <1>3 DEF RxQuit
<1>4. ASSUME NEW r \in Runners, NEW v \in Tcp, NEW info \in Steps, RxInfo(r,
     v, info) PROVE StoredMatches'
  BY <1>4 DEF RxInfo
<1>5. ASSUME RxStore PROVE StoredMatches'
  <2>1. rxRunner \in Runners /\ rxVehicle \in Vehicles /\ rxVehicle \in Tcp
    BY <1>5 DEF RxStore
  <2>2. lastOk'[rxRunner][rxVehicle] <=> rxInfo # 0
    BY <1>5, <2>1 DEF RxStore
  <2>3. rxInfo # 0 => latest'[rxRunner][rxVehicle] = rxInfo
    BY <1>5, <2>1 DEF RxStore
  <2>. QED  BY <1>5, <2>1, <2>2, <2>3 DEF RxStore
<1>6. ASSUME RxSignal PROVE StoredMatches'
  BY <1>6 DEF RxSignal
<1>7. ASSUME NEW r \in Runners, NEW v \in Vehicles, UdpStore(r, v) PROVE
     StoredMatches'
  BY <1>7 DEF UdpStore
<1>8. CASE UNCHANGED <<rx, rxRunner, rxVehicle, rxInfo, latest, lastOk>>
  BY <1>8
<1>. QED
  BY <1>1, <1>2, <1>3, <1>4, <1>5, <1>6, <1>7, <1>8 DEF Next, LoopStep,
     RxHandle, LostStep, Start, Append, StopStepAd, StopListed, Disconnect,
     PeerClose, LostNull, GoLost, LostRelease, RxAck, SimStep, SimInfo,
     UdpSignal, Clear, Goto, Register, Send, CanSend, SendFails, Top, Acked,
     Ask, AskedAll, Collect, CollectedAll, WaitInfo, WaitedAll, Command,
     Commanded, Finish, vars

\* No step sets an event for information of an earlier step.
LEMMA StepFresh ==
  ASSUME TypeOK, LossIsReal, StepAccount, AnswersOfThisStep, StoredMatches,
         EventMeansFresh, [Next]_vars
  PROVE  EventMeansFresh'
<1> USE StepAdAssumption DEF TypeOK, TypeLoop, TypeSim, TypeInfo,
        TypeConsole, LossIsReal, StepAccount, AnswersOfThisStep,
        StoredMatches, Stepped, AwaitsInfo, Presend, Control, Handlers,
        Steps, Answered, InfoIsFresh, EventMeansFresh, loopVars, ackVars,
        viVars, uiVars, netVars, rxVars, simVars
<1>1. ASSUME NEW r \in Runners, Start(r) PROVE EventMeansFresh'
  BY <1>1 DEF Start
<1>2. ASSUME StopStepAd PROVE EventMeansFresh'
  BY <1>2 DEF StopStepAd, StopListed
<1>3. ASSUME Disconnect PROVE EventMeansFresh'
  BY <1>3 DEF Disconnect
<1>4. ASSUME PeerClose PROVE EventMeansFresh'
  BY <1>4 DEF PeerClose
<1>5. ASSUME NEW t \in Handlers, LostStop(t) PROVE EventMeansFresh'
  BY <1>5 DEF LostStop, GoLost, StopListed
<1>6. ASSUME RxStore PROVE EventMeansFresh'
  BY <1>6 DEF RxStore
<1>7. ASSUME RxSignal PROVE EventMeansFresh'
  BY <1>7 DEF RxSignal
<1>8. ASSUME NEW r \in Runners, SimStep(r) PROVE EventMeansFresh'
  BY <1>8 DEF SimStep
<1>9. ASSUME NEW r \in Runners, NEW v \in Vehicles, UdpStore(r, v) PROVE
     EventMeansFresh'
  BY <1>9 DEF UdpStore
<1>10. ASSUME NEW r \in Runners, NEW v \in Vehicles, UdpSignal(r, v) PROVE
     EventMeansFresh'
  BY <1>10 DEF UdpSignal
<1>11. ASSUME NEW r \in Runners, Clear(r) PROVE EventMeansFresh'
  BY <1>11 DEF Clear, Goto
<1>12. ASSUME NEW r \in Runners, Register(r) PROVE EventMeansFresh'
  BY <1>12 DEF Register, Goto
<1>13. ASSUME NEW r \in Runners, Send(r) PROVE EventMeansFresh'
  <2>1. CASE pc' = [pc EXCEPT ![r] = IF looping[r] THEN "top" ELSE "ack"] /\ CanSend(r)
    BY <1>13, <2>1 DEF Send, Goto, CanSend, SendFails
  <2>2. CASE pc' = [pc EXCEPT ![r] = "finish"] /\ SendFails(r)
    BY <1>13, <2>2 DEF Send, Goto, CanSend, SendFails
  <2>. QED  BY <1>13, <2>1, <2>2 DEF Send, Goto, CanSend, SendFails
<1>14. ASSUME NEW r \in Runners, Top(r) PROVE EventMeansFresh'
  BY <1>14 DEF Top, Goto
<1>15. ASSUME NEW r \in Runners, Acked(r) PROVE EventMeansFresh'
  <2>1. UNCHANGED <<ready, running, sock, event, latest, lastOk, stepOf>>
    BY <1>15 DEF Acked, Goto
  <2>2. \A q \in Runners, x \in Tcp : Answered(q, x)' => Answered(q, x)
    BY <1>15 DEF Acked, Goto
  <2>3. \A q \in Runners : pc'[q] \in {"collect", "infos", "command"} =>
                             pc'[q] = pc[q]
    BY <1>15 DEF Acked, Goto
  <2>4. \A q \in Runners : pc'[q] = "command" => todo'[q] \subseteq todo[q]
    BY <1>15 DEF Acked, Goto
  <2>. QED  BY <2>1, <2>2, <2>3, <2>4
<1>16. ASSUME NEW r \in Runners, NEW v \in Vehicles, Ask(r, v) PROVE
     EventMeansFresh'
  BY <1>16 DEF Ask, Goto, CanSend, SendFails
<1>17. ASSUME NEW r \in Runners, AskedAll(r) PROVE EventMeansFresh'
  BY <1>17 DEF AskedAll, Goto
<1>18. ASSUME NEW r \in Runners, NEW v \in Vehicles, Collect(r, v) PROVE
     EventMeansFresh'
  BY <1>18 DEF Collect
<1>19. ASSUME NEW r \in Runners, CollectedAll(r) PROVE EventMeansFresh'
  BY <1>19 DEF CollectedAll, Goto
<1>20. ASSUME NEW r \in Runners, NEW v \in Vehicles, WaitInfo(r, v) PROVE
     EventMeansFresh'
  BY <1>20 DEF WaitInfo
<1>21. ASSUME NEW r \in Runners, WaitedAll(r) PROVE EventMeansFresh'
  BY <1>21 DEF WaitedAll, Goto
<1>22. ASSUME NEW r \in Runners, NEW v \in Vehicles, Command(r, v) PROVE
     EventMeansFresh'
  <2>1. UNCHANGED <<ready, running, sock, event, latest, lastOk, stepOf>>
    BY <1>22 DEF Command, SendFails
  <2>2. \A q \in Runners, x \in Tcp : Answered(q, x)' => Answered(q, x)
    BY <1>22 DEF Command, SendFails
  <2>3. \A q \in Runners : pc'[q] \in {"collect", "infos", "command"} =>
                             pc'[q] = pc[q]
    BY <1>22 DEF Command, SendFails
  <2>4. \A q \in Runners : pc'[q] = "command" => todo'[q] \subseteq todo[q]
    <3>1. CASE todo' = [todo EXCEPT ![r] = todo[r] \ {v}]
      BY <3>1
    <3>2. CASE UNCHANGED todo
      BY <3>2
    <3>. QED  BY <1>22, <3>1, <3>2 DEF Command, SendFails
  <2>. QED  BY <2>1, <2>2, <2>3, <2>4
<1>23. ASSUME NEW r \in Runners, Commanded(r) PROVE EventMeansFresh'
  BY <1>23 DEF Commanded, Goto
<1>24. ASSUME NEW r \in Runners, Finish(r) PROVE EventMeansFresh'
  BY <1>24 DEF Finish, Goto
<1>25. CASE UNCHANGED <<pc, todo, ready, running, sock, event, latest, lastOk, stepOf>>
  BY <1>25
<1>. QED
  BY <1>1, <1>2, <1>3, <1>4, <1>5, <1>6, <1>7, <1>8, <1>9, <1>10, <1>11,
     <1>12, <1>13, <1>14, <1>15, <1>16, <1>17, <1>18, <1>19, <1>20, <1>21,
     <1>22, <1>23, <1>24, <1>25 DEF Next, LoopStep, RxHandle, LostStep,
     Append, LostNull, GoLost, LostRelease, RxFail, RxQuit, RxAck, RxInfo,
     SimInfo, vars

\* A stopped runner passes the top of its loop once.
LEMMA StepStopAccount ==
  ASSUME TypeOK, StopAccount, [Next]_vars
  PROVE  StopAccount'
<1> USE DEF TypeOK, TypeLoop, Presend, Control, StopAccount, loopVars,
        ackVars, viVars, uiVars, netVars, rxVars, simVars
<1>1. ASSUME NEW r \in Runners, Start(r) PROVE StopAccount'
  BY <1>1 DEF Start
<1>2. ASSUME StopStepAd PROVE StopAccount'
  BY <1>2 DEF StopStepAd, StopListed
<1>3. ASSUME NEW t \in Handlers, LostStop(t) PROVE StopAccount'
  BY <1>3 DEF LostStop, GoLost, StopListed
<1>4. ASSUME NEW r \in Runners, Clear(r) PROVE StopAccount'
  BY <1>4 DEF Clear, Goto
<1>5. ASSUME NEW r \in Runners, Register(r) PROVE StopAccount'
  BY <1>5 DEF Register, Goto
<1>6. ASSUME NEW r \in Runners, Send(r) PROVE StopAccount'
  BY <1>6 DEF Send, Goto, CanSend, SendFails
<1>7. ASSUME NEW r \in Runners, Top(r) PROVE StopAccount'
  BY <1>7 DEF Top, Goto
<1>8. ASSUME NEW r \in Runners, Acked(r) PROVE StopAccount'
  BY <1>8 DEF Acked, Goto
<1>9. ASSUME NEW r \in Runners, NEW v \in Vehicles, Ask(r, v) PROVE
     StopAccount'
  BY <1>9 DEF Ask, Goto, CanSend, SendFails
<1>10. ASSUME NEW r \in Runners, AskedAll(r) PROVE StopAccount'
  BY <1>10 DEF AskedAll, Goto
<1>11. ASSUME NEW r \in Runners, NEW v \in Vehicles, Collect(r, v) PROVE
     StopAccount'
  BY <1>11 DEF Collect
<1>12. ASSUME NEW r \in Runners, CollectedAll(r) PROVE StopAccount'
  BY <1>12 DEF CollectedAll, Goto
<1>13. ASSUME NEW r \in Runners, NEW v \in Vehicles, WaitInfo(r, v) PROVE
     StopAccount'
  BY <1>13 DEF WaitInfo
<1>14. ASSUME NEW r \in Runners, WaitedAll(r) PROVE StopAccount'
  BY <1>14 DEF WaitedAll, Goto
<1>15. ASSUME NEW r \in Runners, NEW v \in Vehicles, Command(r, v) PROVE
     StopAccount'
  BY <1>15 DEF Command, SendFails
<1>16. ASSUME NEW r \in Runners, Commanded(r) PROVE StopAccount'
  BY <1>16 DEF Commanded, Goto
<1>17. ASSUME NEW r \in Runners, Finish(r) PROVE StopAccount'
  BY <1>17 DEF Finish, Goto
<1>18. CASE UNCHANGED <<pc, looping, running, sentStopped>>
  BY <1>18
<1>. QED
  BY <1>1, <1>2, <1>3, <1>4, <1>5, <1>6, <1>7, <1>8, <1>9, <1>10, <1>11,
     <1>12, <1>13, <1>14, <1>15, <1>16, <1>17, <1>18 DEF Next, LoopStep,
     RxHandle, LostStep, Append, Disconnect, PeerClose, LostNull, GoLost,
     LostRelease, RxFail, RxQuit, RxAck, RxInfo, RxStore, RxSignal, SimStep,
     SimInfo, UdpStore, UdpSignal, vars

\* The initial state satisfies every conjunct.
LEMMA InitIInv == Init => IInv
<1> SUFFICES ASSUME Init PROVE IInv
  OBVIOUS
<1>1. TypeLoop
  BY DEF Init, TypeLoop, LoopPc
<1>2. TypeInfo
  BY StepAdAssumption DEF Init, TypeInfo, Steps
<1>3. TypeConsole
  BY StepAdAssumption DEF Init, TypeConsole, Handlers, Steps
<1>4. TypeSim
  BY StepAdAssumption DEF Init, TypeSim, Steps
<1>5. LossIsReal /\ StoredMatches
  BY DEF Init, LossIsReal, StoredMatches, Handlers
<1>6. StepAccount /\ StopAccount
  BY DEF Init, StepAccount, StopAccount, Presend, Control
<1>7. AnswersOfThisStep
  <2>1. \A r \in Runners : stepOf[r] = 0 /\ step = 0 /\ pc[r] = "unborn"
    BY DEF Init
  <2>2. \A r \in Runners, v \in Tcp : infos[r][v] = 0 /\ v \notin queries[r]
    BY StepAdAssumption DEF Init
  <2>3. \A r \in Runners : ~Stepped(r)
    BY <2>1 DEF Stepped, Control
  <2>4. \A r \in Runners : stepOf[r] <= step
    <3>. 0 <= 0  OBVIOUS
    <3>. QED  BY <2>1
  <2>. QED  BY <2>2, <2>3, <2>4 DEF AnswersOfThisStep
<1>8. EventMeansFresh
  BY StepAdAssumption DEF Init, EventMeansFresh, Answered, Control
<1>. QED  BY <1>1, <1>2, <1>3, <1>4, <1>5, <1>6, <1>7, <1>8
  DEF IInv, TypeOK

\* The account of FixedSteps carries the freshness of the information: while a
\* runner waits for its step, the Receiver that will set the step's event can
\* deliver nothing older.
THEOREM InductiveInvariant == Spec => []IInv
<1>1. IInv /\ [Next]_vars => IInv'
  BY StepTypeLoop, StepTypeInfo, StepTypeConsole, StepTypeSim, StepLossIsReal,
     StepStepAccount, StepAnswers, StepStored, StepFresh, StepStopAccount
  DEF IInv, TypeOK
<1>. QED  BY InitIInv, <1>1, PTL DEF Spec

-----------------------------------------------------------------------------
\* A runner waits for the answer to a FixedStep before it sends another.
THEOREM OneFixedStepAtATime == Spec => []OneStepInFlight
<1>1. IInv => OneStepInFlight  BY DEF IInv, StepAccount, OneStepInFlight
<1>. QED  BY InductiveInvariant, <1>1, PTL

\* Vehicles are asked for and commanded only after the step was executed.
THEOREM ControlFollowsStep == Spec => []StepAnswered
<1>1. IInv => StepAnswered
  BY DEF IInv, StepAccount, StepAnswered, TypeOK, TypeLoop
<1>. QED  BY InductiveInvariant, <1>1, PTL

\* A vehicle is never commanded from TCP information of an earlier step,
\* unless its request failed.
THEOREM TcpCommandsAreFresh == Spec => []TcpInfoFresh
<1>1. IInv => TcpInfoFresh
  BY DEF IInv, EventMeansFresh, Answered, TcpInfoFresh, InUse, Control
<1>. QED  BY InductiveInvariant, <1>1, PTL

\* A stopped runner moves the simulation by two more steps at most.
THEOREM AtMostTwoAfterStop == Spec => []StopsSoon
<1>1. IInv => StopsSoon  BY DEF IInv, StopAccount, StopsSoon
<1>. QED  BY InductiveInvariant, <1>1, PTL

=============================================================================
