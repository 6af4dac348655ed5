-------------------------- MODULE DemoSessionProofs -------------------------
(***************************************************************************)
(* Proofs about DemoSession, for any number of connections, callers and    *)
(* requests: IInv is inductive, the table properties follow from it, and   *)
(* every step of the session is a step of RequestReply or leaves it alone. *)
(***************************************************************************)
EXTENDS DemoSession, TLAPS

\* _socket, _running, _receiver, the links and close() keep their types.
LEMMA StepTypeSession ==
  ASSUME TypeOK, [Next]_vars
  PROVE  TypeSession'
<1> USE DEF TypeOK, TypeSession, TypeLoops, TypeCalls, Socks, sess, conns,
        loops, closing, table, replies, calls
<1>1. ASSUME NEW k \in Conns, Connect(k) PROVE TypeSession'
  BY <1>1 DEF Connect, GoOpener, IsConnected
<1>2. ASSUME NEW k \in Conns, Dial(k) PROVE TypeSession'
  BY <1>2 DEF Dial, GoOpener
<1>3. ASSUME NEW k \in Conns, Publish(k) PROVE TypeSession'
  BY <1>3 DEF Publish, GoOpener
<1>4. ASSUME NEW k \in Conns, SetRunning(k) PROVE TypeSession'
  BY <1>4 DEF SetRunning, GoOpener
<1>5. ASSUME NEW k \in Conns, MakeReceiver(k) PROVE TypeSession'
  BY <1>5 DEF MakeReceiver, GoOpener
<1>6. ASSUME NEW k \in Conns, StartReceiver(k) PROVE TypeSession'
  BY <1>6 DEF StartReceiver, GoOpener
<1>7. ASSUME NEW k \in Conns, PeerClose(k) PROVE TypeSession'
  BY <1>7 DEF PeerClose
<1>8. ASSUME NEW k \in Conns, RxFail(k) PROVE TypeSession'
  BY <1>8 DEF RxFail, GoRx, Keeps
<1>8a. ASSUME NEW k \in Conns, RxClear(k) PROVE TypeSession'
  BY <1>8a DEF RxClear, GoRx
<1>9. ASSUME NEW k \in Conns, RxNull(k) PROVE TypeSession'
  BY <1>9 DEF RxNull, GoRx
<1>10. ASSUME NEW k \in Conns, RxShut(k) PROVE TypeSession'
  BY <1>10 DEF RxShut, GoRx, CloseLink
<1>11. ASSUME CloseClear PROVE TypeSession'
  BY <1>11 DEF CloseClear, GoCloser
<1>12. ASSUME CloseTake PROVE TypeSession'
  BY <1>12 DEF CloseTake, GoCloser
<1>13. ASSUME CloseNull PROVE TypeSession'
  BY <1>13 DEF CloseNull, GoCloser
<1>14. ASSUME CloseShut PROVE TypeSession'
  BY <1>14 DEF CloseShut, GoCloser, CloseLink
<1>15. ASSUME CloseReceiver PROVE TypeSession'
  BY <1>15 DEF CloseReceiver, GoCloser
<1>16. ASSUME CloseJoin PROVE TypeSession'
  <2>1. deserted' \subseteq deserted \cup pend /\ UNCHANGED <<socket, running, receiver, link, opener>>
        /\ closer' \in {"grab", "idle"} /\ closeSock' \in {closeSock, NoConn} /\ closeRx' \in {closeRx, NoConn}
    BY <1>16 DEF CloseJoin, GoCloser
  <2>2. pend \subseteq Rids
    BY DEF TypeRequests
  <2>. QED  BY <2>1, <2>2
<1>17. ASSUME CloseGrab PROVE TypeSession'
  BY <1>17 DEF CloseGrab, GoCloser, Grab
<1>18. ASSUME CloseFail PROVE TypeSession'
  BY <1>18 DEF CloseFail, GoCloser, FailHeld
<1>19. CASE UNCHANGED <<sess, link, opener, closing>>
  BY <1>19
<1>. QED
  BY <1>1, <1>2, <1>3, <1>4, <1>5, <1>6, <1>7, <1>8, <1>8a, <1>9, <1>10, <1>11,
     <1>12, <1>13, <1>14, <1>15, <1>16, <1>17, <1>18, <1>19 DEF Next,
     OpenerStep, RxStep, CloserStep, ClientStep, RxEntry, RxLoop, RxRecv,
     RxPop, RxReply, RxSignal, RxLost, RxGrab, RxFailAll, Request, Register,
     Send, SendRaises, Woken, Expire, Unregister, GoRx, Grab, FailHeld, GoClient, vars

\* The receive loops keep theirs.
LEMMA StepTypeLoops ==
  ASSUME TypeOK, IdsIssued, LoopsStarted, [Next]_vars
  PROVE  TypeLoops'
<1> USE SessionAssumption DEF TypeOK, TypeSession, TypeLoops, TypeCalls,
        IdsIssued, InCall, Rids, Socks, sess, conns, loops, closing, table,
        replies, calls
<1>1. ASSUME NEW k \in Conns, StartReceiver(k) PROVE TypeLoops'
  BY <1>1 DEF StartReceiver, GoOpener
<1>2. ASSUME NEW k \in Conns, RxEntry(k) PROVE TypeLoops'
  BY <1>2 DEF RxEntry, GoRx
<1>3. ASSUME NEW k \in Conns, RxLoop(k) PROVE TypeLoops'
  BY <1>3 DEF RxLoop, GoRx, Keeps
<1>4. ASSUME NEW k \in Conns, NEW r \in Rids, RxRecv(k, r) PROVE TypeLoops'
  <2>1. owed' \in [Conns -> SUBSET Rids]
    <3>1. rxSock[k] \in Conns
      BY <1>4 DEF RxRecv, GoRx, LoopsStarted
    <3>. QED  BY <1>4, <3>1 DEF RxRecv, GoRx
  <2>2. /\ rx' = [rx EXCEPT ![k] = "pop"] /\ answer' = [answer EXCEPT ![k] = r]
        /\ heard' = heard \cup {r} /\ UNCHANGED rxSock
    BY <1>4 DEF RxRecv, GoRx
  <2>3. answer' \in [Conns -> 0..MaxRid]
    <3>1. r \in 0..MaxRid
      OBVIOUS
    <3>. QED  BY ONLY <2>2, <3>1, answer \in [Conns -> 0..MaxRid]
  <2>4. rx' \in [Conns -> {"none", "entry", "loop", "recv", "pop", "reply", "signal",
                       "clear", "lost", "null", "shut", "grab", "fail", "dead"}]
    BY <2>2
  <2>. QED  BY <2>1, <2>2, <2>3, <2>4
<1>5. ASSUME NEW k \in Conns, RxPop(k) PROVE TypeLoops'
  <2>1. rx' = [rx EXCEPT ![k] = IF answer[k] \in pend THEN "reply" ELSE "loop"]
    BY <1>5 DEF RxPop, GoRx
  <2>2. PICK a \in {answer[k], 0} : answer' = [answer EXCEPT ![k] = a]
    BY <1>5 DEF RxPop
  <2>3. a \in 0..MaxRid
    BY <2>2
  <2>4. answer' \in [Conns -> 0..MaxRid]
    BY ONLY <2>2, <2>3, answer \in [Conns -> 0..MaxRid]
  <2>5. UNCHANGED <<owed, rxSock, heard>>
    BY <1>5 DEF RxPop
  <2>. QED  BY <2>1, <2>4, <2>5
<1>6. ASSUME NEW k \in Conns, RxReply(k) PROVE TypeLoops'
  BY <1>6 DEF RxReply, GoRx
<1>7. ASSUME NEW k \in Conns, RxSignal(k) PROVE TypeLoops'
  BY <1>7 DEF RxSignal, GoRx
<1>8. ASSUME NEW k \in Conns, RxFail(k) PROVE TypeLoops'
  BY <1>8 DEF RxFail, GoRx, Keeps
<1>8a. ASSUME NEW k \in Conns, RxClear(k) PROVE TypeLoops'
  BY <1>8a DEF RxClear, GoRx
<1>9. ASSUME NEW k \in Conns, RxLost(k) PROVE TypeLoops'
  BY <1>9 DEF RxLost, GoRx
<1>10. ASSUME NEW k \in Conns, RxNull(k) PROVE TypeLoops'
  BY <1>10 DEF RxNull, GoRx
<1>11. ASSUME NEW k \in Conns, RxShut(k) PROVE TypeLoops'
  BY <1>11 DEF RxShut, GoRx, CloseLink
<1>12. ASSUME NEW k \in Conns, RxGrab(k) PROVE TypeLoops'
  BY <1>12 DEF RxGrab, GoRx, Grab
<1>13. ASSUME NEW k \in Conns, RxFailAll(k) PROVE TypeLoops'
  BY <1>13 DEF RxFailAll, GoRx, Keeps, FailHeld
<1>14. ASSUME NEW c \in Clients, Send(c) PROVE TypeLoops'
  <2>1. cRid[c] \in Rids
    BY <1>14 DEF Send, GoClient
  <2>2. owed' \in [Conns -> SUBSET Rids]
    <3>1. CASE UNCHANGED owed
      BY <3>1
    <3>2. CASE owed' = [owed EXCEPT ![cSock[c]] = @ \cup {cRid[c]}]
      <4>1. owed' = [j \in Conns |-> owed'[j]]
        BY <3>2
      <4>2. \A j \in Conns : owed'[j] \in {owed[j], owed[j] \cup {cRid[c]}}
        BY <3>2
      <4>3. \A j \in Conns :
              owed[j] \in SUBSET Rids /\ owed[j] \cup {cRid[c]} \in SUBSET Rids
        BY <2>1
      <4>4. ASSUME NEW j \in Conns PROVE owed'[j] \in SUBSET Rids
        <5>1. owed'[j] = owed[j] \/ owed'[j] = owed[j] \cup {cRid[c]}
          BY <4>2
        <5>. QED  BY <4>3, <5>1
      <4>. QED  BY <4>1, <4>4
    <3>. QED  BY <1>14, <3>1, <3>2 DEF Send, GoClient
  <2>. QED  BY <1>14, <2>2 DEF Send, GoClient
<1>15. CASE UNCHANGED <<loops, owed, heard>>
  BY <1>15
<1>. QED
  BY <1>1, <1>2, <1>3, <1>4, <1>5, <1>6, <1>7, <1>8, <1>8a, <1>9, <1>10, <1>11,
     <1>12, <1>13, <1>14, <1>15 DEF Next, OpenerStep, RxStep, CloserStep,
     ClientStep, Connect, Dial, Publish, SetRunning, MakeReceiver,
     PeerClose, CloseClear, CloseTake, CloseNull, CloseShut, CloseReceiver,
     CloseJoin, CloseGrab, CloseFail, Request, Register, SendRaises, Woken, Expire,
     Unregister, GoCloser, Grab, FailHeld, GoClient, vars

\* The table of pending requests and their results keep theirs.
LEMMA StepTypeRequests ==
  ASSUME TypeOK, HeldMatches, [Next]_vars
  PROVE  TypeRequests'
<1> USE SessionAssumption DEF TypeOK, HeldMatches, TypeLoops, TypeRequests,
        TypeCalls, Rids, Completers, sess, conns, loops, closing, table,
        replies, calls
<1>1. ASSUME NEW k \in Conns, RxPop(k) PROVE TypeRequests'
  BY <1>1 DEF RxPop, GoRx
<1>2. ASSUME NEW k \in Conns, RxReply(k) PROVE TypeRequests'
  BY <1>2 DEF RxReply, GoRx
<1>3. ASSUME NEW k \in Conns, RxSignal(k) PROVE TypeRequests'
  BY <1>3 DEF RxSignal, GoRx
<1>4. ASSUME NEW k \in Conns, RxGrab(k) PROVE TypeRequests'
  BY <1>4 DEF RxGrab, GoRx, Grab
<1>5. ASSUME NEW k \in Conns, RxFailAll(k) PROVE TypeRequests'
  BY <1>5 DEF RxFailAll, GoRx, Keeps, FailHeld
<1>6. ASSUME CloseGrab PROVE TypeRequests'
  BY <1>6 DEF CloseGrab, GoCloser, Grab
<1>7. ASSUME CloseFail PROVE TypeRequests'
  BY <1>7 DEF CloseFail, GoCloser, FailHeld
<1>8. ASSUME NEW c \in Clients, Register(c) PROVE TypeRequests'
  BY <1>8 DEF Register, GoClient
<1>9. ASSUME NEW c \in Clients, Unregister(c, "unsent", "failed") PROVE TypeRequests'
  BY <1>9 DEF Unregister, GoClient, Returns
<1>10. ASSUME NEW c \in Clients, Unregister(c, "expired", "timedout") PROVE TypeRequests'
  BY <1>10 DEF Unregister, GoClient, Returns
<1>11. CASE UNCHANGED <<table, reply, signalled>>
  BY <1>11
<1>. QED
  BY <1>1, <1>2, <1>3, <1>4, <1>5, <1>6, <1>7, <1>8, <1>9, <1>10, <1>11 DEF
     Next, OpenerStep, RxStep, CloserStep, ClientStep, Connect, Dial,
     Publish, SetRunning, MakeReceiver, StartReceiver, PeerClose, RxEntry,
     RxLoop, RxRecv, RxFail, RxClear, RxLost, RxNull, RxShut, CloseClear, CloseTake,
     CloseNull, CloseShut, CloseReceiver, CloseJoin, Request, Send, SendRaises, Woken,
     Expire, GoRx, GoCloser, GoClient, vars

\* The calls keep theirs.
LEMMA StepTypeCalls ==
  ASSUME TypeOK, [Next]_vars
  PROVE  TypeCalls'
<1> USE SessionAssumption DEF TypeOK, TypeSession, TypeRequests, TypeCalls,
        Rids, Socks, sess, conns, loops, closing, table, replies, calls
<1>1. ASSUME NEW c \in Clients, Request(c) PROVE TypeCalls'
  BY <1>1 DEF Request, GoClient, IsConnected
<1>2. ASSUME NEW c \in Clients, Register(c) PROVE TypeCalls'
  BY <1>2 DEF Register, GoClient
<1>3. ASSUME NEW c \in Clients, Send(c) PROVE TypeCalls'
  BY <1>3 DEF Send, GoClient
<1>3a. ASSUME NEW c \in Clients, SendRaises(c) PROVE TypeCalls'
  BY <1>3a DEF SendRaises, GoClient, Returns
<1>4. ASSUME NEW c \in Clients, Woken(c) PROVE TypeCalls'
  BY <1>4 DEF Woken, GoClient, Returns
<1>5. ASSUME NEW c \in Clients, Expire(c) PROVE TypeCalls'
  BY <1>5 DEF Expire, GoClient
<1>6. ASSUME NEW c \in Clients, Unregister(c, "unsent", "failed") PROVE TypeCalls'
  BY <1>6 DEF Unregister, GoClient, Returns
<1>7. ASSUME NEW c \in Clients, Unregister(c, "expired", "timedout") PROVE TypeCalls'
  BY <1>7 DEF Unregister, GoClient, Returns
<1>8. CASE UNCHANGED calls
  BY <1>8
<1>. QED
  BY <1>1, <1>2, <1>3, <1>3a, <1>4, <1>5, <1>6, <1>7, <1>8 DEF Next, OpenerStep,
     RxStep, CloserStep, ClientStep, Connect, Dial, Publish, SetRunning,
     MakeReceiver, StartReceiver, PeerClose, RxEntry, RxLoop, RxRecv, RxPop,
     RxReply, RxSignal, RxFail, RxClear, RxLost, RxNull, RxShut, RxGrab, RxFailAll,
     CloseClear, CloseTake, CloseNull, CloseShut, CloseReceiver, CloseJoin,
     CloseGrab, CloseFail, GoRx, Grab, FailHeld, GoCloser, vars

\* A new id is nobody else's, and an open call returns once.
LEMMA StepIds ==
  ASSUME TypeOK, IdsIssued, HeldMatches, [Next]_vars
  PROVE  IdsIssued'
<1> USE SessionAssumption DEF TypeOK, TypeRequests, TypeCalls, TypeLoops,
        IdsIssued, InCall, HeldMatches, Rids, Completers, sess, conns,
        loops, closing, table, replies, calls
<1>1. ASSUME NEW k \in Conns, NEW r \in Rids, RxRecv(k, r) PROVE IdsIssued'
  <2>1. UNCHANGED <<result, nextRid, pend, signalled, held, client, cRid>>
    BY <1>1 DEF RxRecv
  <2>2. \A j \in Conns : owed'[j] \subseteq owed[j]
    BY <1>1 DEF RxRecv
  <2>. QED  BY <2>1, <2>2
<1>2. ASSUME NEW k \in Conns, RxPop(k) PROVE IdsIssued'
  <2>1. pend' \subseteq pend /\ UNCHANGED <<result, nextRid, signalled, owed, client, cRid>>
    BY <1>2 DEF RxPop
  <2>2. \A t \in Completers : held'[t] \subseteq held[t] \cup pend
    BY <1>2 DEF RxPop
  <2>. QED  BY <2>1, <2>2
<1>3. ASSUME NEW k \in Conns, RxSignal(k) PROVE IdsIssued'
  BY <1>3 DEF RxSignal, GoRx
<1>4. ASSUME NEW k \in Conns, RxGrab(k) PROVE IdsIssued'
  BY <1>4 DEF RxGrab, GoRx, Grab
<1>5. ASSUME NEW k \in Conns, RxFailAll(k) PROVE IdsIssued'
  BY <1>5 DEF RxFailAll, GoRx, Keeps, FailHeld
<1>6. ASSUME CloseGrab PROVE IdsIssued'
  BY <1>6 DEF CloseGrab, GoCloser, Grab
<1>7. ASSUME CloseFail PROVE IdsIssued'
  BY <1>7 DEF CloseFail, GoCloser, FailHeld
<1>8. ASSUME NEW c \in Clients, Request(c) PROVE IdsIssued'
  BY <1>8 DEF Request, GoClient, IsConnected
<1>9. ASSUME NEW c \in Clients, Register(c) PROVE IdsIssued'
  BY <1>9 DEF Register, GoClient
<1>10. ASSUME NEW c \in Clients, Send(c) PROVE IdsIssued'
  <2>1. UNCHANGED <<nextRid, pend, held, signalled, cRid, result>>
    BY <1>10 DEF Send, GoClient
  <2>2. /\ client[c] = "send"
        /\ \E pc \in {"wait", "unsent"} : client' = [client EXCEPT ![c] = pc]
    BY <1>10 DEF Send, GoClient
  <2>3. \A k \in Conns : owed'[k] \subseteq owed[k] \cup {cRid[c]}
    <3>1. CASE UNCHANGED owed
      BY <3>1
    <3>2. CASE owed' = [owed EXCEPT ![cSock[c]] = @ \cup {cRid[c]}]
      BY <3>2
    <3>. QED  BY <1>10, <3>1, <3>2 DEF Send, GoClient
  <2>. QED  BY <2>1, <2>2, <2>3
<1>10a. ASSUME NEW c \in Clients, SendRaises(c) PROVE IdsIssued'
  BY <1>10a DEF SendRaises, GoClient, Returns
<1>11. ASSUME NEW c \in Clients, Woken(c) PROVE IdsIssued'
  BY <1>11 DEF Woken, GoClient, Returns
<1>12. ASSUME NEW c \in Clients, Expire(c) PROVE IdsIssued'
  BY <1>12 DEF Expire, GoClient
<1>13. ASSUME NEW c \in Clients, Unregister(c, "unsent", "failed") PROVE IdsIssued'
  BY <1>13 DEF Unregister, GoClient, Returns
<1>14. ASSUME NEW c \in Clients, Unregister(c, "expired", "timedout") PROVE IdsIssued'
  BY <1>14 DEF Unregister, GoClient, Returns
<1>15. CASE UNCHANGED <<nextRid, pend, held, signalled, owed, client, cRid, result>>
  BY <1>15
<1>. QED
  BY <1>1, <1>2, <1>3, <1>4, <1>5, <1>6, <1>7, <1>8, <1>9, <1>10, <1>10a, <1>11,
     <1>12, <1>13, <1>14, <1>15 DEF Next, OpenerStep, RxStep, CloserStep,
     ClientStep, Connect, Dial, Publish, SetRunning, MakeReceiver,
     StartReceiver, PeerClose, RxEntry, RxLoop, RxReply, RxFail, RxClear, RxLost,
     RxNull, RxShut, CloseClear, CloseTake, CloseNull, CloseShut,
     CloseReceiver, CloseJoin, GoRx, GoCloser, vars

\* An entry leaves the table before its call returns.
LEMMA StepNoLeak ==
  ASSUME TypeOK, IdsIssued, NoLeakedEntry, OneCompleter, [Next]_vars
  PROVE  NoLeakedEntry'
<1> USE SessionAssumption DEF TypeOK, TypeRequests, TypeCalls, IdsIssued,
        InCall, NoLeakedEntry, OneCompleter, Rids, sess, conns, loops,
        closing, table, replies, calls
<1>1. ASSUME NEW k \in Conns, RxPop(k) PROVE NoLeakedEntry'
  BY <1>1 DEF RxPop, GoRx
<1>2. ASSUME NEW k \in Conns, RxGrab(k) PROVE NoLeakedEntry'
  BY <1>2 DEF RxGrab, GoRx, Grab
<1>3. ASSUME CloseGrab PROVE NoLeakedEntry'
  BY <1>3 DEF CloseGrab, GoCloser, Grab
<1>4. ASSUME NEW c \in Clients, Request(c) PROVE NoLeakedEntry'
  BY <1>4 DEF Request, GoClient, IsConnected
<1>5. ASSUME NEW c \in Clients, Register(c) PROVE NoLeakedEntry'
  <2> SUFFICES ASSUME NEW r \in pend'
                PROVE  \/ result'[r] = "raised"
                       \/ \E d \in Clients : cRid'[d] = r /\ InCall(d)'
    OBVIOUS
  <2>1. CASE r = nextRid
    BY <1>5, <2>1 DEF Register, GoClient
  <2>2. CASE r \in pend
    <3>1. CASE result[r] = "raised"
      BY <1>5, <2>2, <3>1 DEF Register
    <3>2. ASSUME NEW d \in Clients, cRid[d] = r, InCall(d)
          PROVE  cRid'[d] = r /\ InCall(d)'
      <4>1. d # c
        BY <1>5, <3>2 DEF Register, GoClient
      <4>. QED  BY <1>5, <3>2, <4>1 DEF Register, GoClient
    <3>. QED  BY <2>2, <3>1, <3>2
  <2>. QED  BY <1>5, <2>1, <2>2 DEF Register, GoClient
<1>6. ASSUME NEW c \in Clients, Send(c) PROVE NoLeakedEntry'
  <2>1. /\ client[c] = "send" /\ UNCHANGED <<pend, cRid, result>>
        /\ \E pc \in {"wait", "unsent"} : client' = [client EXCEPT ![c] = pc]
    BY <1>6 DEF Send, GoClient
  <2>. QED  BY <2>1
<1>6a. ASSUME NEW c \in Clients, SendRaises(c) PROVE NoLeakedEntry'
  BY <1>6a DEF SendRaises, GoClient, Returns
<1>7. ASSUME NEW c \in Clients, Woken(c) PROVE NoLeakedEntry'
  BY <1>7 DEF Woken, GoClient, Returns
<1>8. ASSUME NEW c \in Clients, Expire(c) PROVE NoLeakedEntry'
  BY <1>8 DEF Expire, GoClient
<1>9. ASSUME NEW c \in Clients, Unregister(c, "unsent", "failed") PROVE NoLeakedEntry'
  BY <1>9 DEF Unregister, GoClient, Returns
<1>10. ASSUME NEW c \in Clients, Unregister(c, "expired", "timedout") PROVE NoLeakedEntry'
  BY <1>10 DEF Unregister, GoClient, Returns
<1>11. CASE UNCHANGED <<pend, client, cRid, result>>
  BY <1>11
<1>. QED
  BY <1>1, <1>2, <1>3, <1>4, <1>5, <1>6, <1>6a, <1>7, <1>8, <1>9, <1>10, <1>11 DEF
     Next, OpenerStep, RxStep, CloserStep, ClientStep, Connect, Dial,
     Publish, SetRunning, MakeReceiver, StartReceiver, PeerClose, RxEntry,
     RxLoop, RxRecv, RxReply, RxSignal, RxFail, RxClear, RxLost, RxNull, RxShut,
     RxFailAll, CloseClear, CloseTake, CloseNull, CloseShut, CloseReceiver,
     CloseJoin, CloseFail, GoRx, FailHeld, GoCloser, vars

\* Entries pass from the table to one thread, and from it to the set events.
LEMMA StepOneCompleter ==
  ASSUME TypeOK, IdsIssued, HeldMatches, OneCompleter, [Next]_vars
  PROVE  OneCompleter'
<1> USE SessionAssumption DEF TypeOK, TypeLoops, TypeRequests, IdsIssued,
        HeldMatches, OneCompleter, Rids, Completers, sess, conns, loops,
        closing, table, replies, calls
<1>1. ASSUME NEW k \in Conns, RxPop(k) PROVE OneCompleter'
  BY <1>1 DEF RxPop, GoRx
<1>2. ASSUME NEW k \in Conns, RxSignal(k) PROVE OneCompleter'
  <2>1. /\ held[k] = {answer[k]} /\ held' = [held EXCEPT ![k] = {}]
        /\ signalled' = signalled \cup {answer[k]} /\ UNCHANGED pend
    BY <1>2 DEF RxSignal, GoRx
  <2>2. \A t \in Completers : t # k => answer[k] \notin held[t]
    BY <2>1
  <2>3. answer[k] \notin pend
    BY <2>1
  <2>4. \A t \in Completers : held'[t] = IF t = k THEN {} ELSE held[t]
    BY <2>1
  <2>. QED  BY <2>1, <2>2, <2>3, <2>4
<1>3. ASSUME NEW k \in Conns, RxGrab(k) PROVE OneCompleter'
  BY <1>3 DEF RxGrab, GoRx, Grab
<1>4. ASSUME NEW k \in Conns, RxFailAll(k) PROVE OneCompleter'
  BY <1>4 DEF RxFailAll, GoRx, Keeps, FailHeld
<1>5. ASSUME CloseGrab PROVE OneCompleter'
  <2>1. \A t \in Completers : held'[t] = IF t = Closer THEN pend ELSE held[t]
    BY <1>5 DEF CloseGrab, GoCloser, Grab
  <2>2. pend' = {} /\ UNCHANGED signalled
    BY <1>5 DEF CloseGrab, GoCloser, Grab
  <2>. QED  BY <2>1, <2>2
<1>6. ASSUME CloseFail PROVE OneCompleter'
  <2>1. \A t \in Completers : held'[t] = IF t = Closer THEN {} ELSE held[t]
    BY <1>6 DEF CloseFail, GoCloser, FailHeld
  <2>2. UNCHANGED pend /\ signalled' = signalled \cup held[Closer]
    BY <1>6 DEF CloseFail, GoCloser, FailHeld
  <2>3. held[Closer] \cap pend = {}
    OBVIOUS
  <2>4. \A t \in Completers : t # Closer => held[t] \cap held[Closer] = {}
    OBVIOUS
  <2>. QED  BY <2>1, <2>2, <2>3, <2>4
<1>7. ASSUME NEW c \in Clients, Register(c) PROVE OneCompleter'
  BY <1>7 DEF Register, GoClient
<1>8. ASSUME NEW c \in Clients, Unregister(c, "unsent", "failed") PROVE OneCompleter'
  BY <1>8 DEF Unregister, GoClient, Returns
<1>9. ASSUME NEW c \in Clients, Unregister(c, "expired", "timedout") PROVE OneCompleter'
  BY <1>9 DEF Unregister, GoClient, Returns
<1>10. CASE UNCHANGED <<pend, held, signalled>>
  BY <1>10
<1>. QED
  BY <1>1, <1>2, <1>3, <1>4, <1>5, <1>6, <1>7, <1>8, <1>9, <1>10 DEF Next,
     OpenerStep, RxStep, CloserStep, ClientStep, Connect, Dial, Publish,
     SetRunning, MakeReceiver, StartReceiver, PeerClose, RxEntry, RxLoop,
     RxRecv, RxReply, RxFail, RxClear, RxLost, RxNull, RxShut, CloseClear, CloseTake,
     CloseNull, CloseShut, CloseReceiver, CloseJoin, Request, Send, SendRaises, Woken,
     Expire, GoRx, GoCloser, GoClient, vars

\* No step leaves a call waiting for an event that nobody will set.
LEMMA StepCallCovered ==
  ASSUME TypeOK, IdsIssued, HeldMatches, CallCovered, [Next]_vars
  PROVE  CallCovered'
<1> USE SessionAssumption DEF TypeOK, TypeLoops, TypeRequests, TypeCalls,
        IdsIssued, InCall, HeldMatches, CallCovered, Rids, Completers, sess,
        conns, loops, closing, table, replies, calls
<1>1. ASSUME NEW k \in Conns, RxPop(k) PROVE CallCovered'
  BY <1>1 DEF RxPop, GoRx
<1>2. ASSUME NEW k \in Conns, RxSignal(k) PROVE CallCovered'
  <2>1. /\ held[k] = {answer[k]} /\ held' = [held EXCEPT ![k] = {}]
        /\ signalled' = signalled \cup {answer[k]}
        /\ UNCHANGED <<pend, client, cRid>>
    BY <1>2 DEF RxSignal, GoRx
  <2>2. \A t \in Completers : held'[t] = IF t = k THEN {} ELSE held[t]
    BY <2>1
  <2>. QED  BY <2>1, <2>2
<1>3. ASSUME NEW k \in Conns, RxGrab(k) PROVE CallCovered'
  BY <1>3 DEF RxGrab, GoRx, Grab
<1>4. ASSUME NEW k \in Conns, RxFailAll(k) PROVE CallCovered'
  BY <1>4 DEF RxFailAll, GoRx, Keeps, FailHeld
<1>5. ASSUME CloseGrab PROVE CallCovered'
  BY <1>5 DEF CloseGrab, GoCloser, Grab
<1>6. ASSUME CloseFail PROVE CallCovered'
  BY <1>6 DEF CloseFail, GoCloser, FailHeld
<1>7. ASSUME NEW c \in Clients, Request(c) PROVE CallCovered'
  BY <1>7 DEF Request, GoClient, IsConnected
<1>8. ASSUME NEW c \in Clients, Register(c) PROVE CallCovered'
  BY <1>8 DEF Register, GoClient
<1>9. ASSUME NEW c \in Clients, Send(c) PROVE CallCovered'
  <2>1. /\ client[c] = "send" /\ UNCHANGED <<pend, held, signalled, cRid>>
        /\ \E pc \in {"wait", "unsent"} : client' = [client EXCEPT ![c] = pc]
    BY <1>9 DEF Send, GoClient
  <2>. QED  BY <2>1
<1>9a. ASSUME NEW c \in Clients, SendRaises(c) PROVE CallCovered'
  BY <1>9a DEF SendRaises, GoClient, Returns
<1>10. ASSUME NEW c \in Clients, Woken(c) PROVE CallCovered'
  BY <1>10 DEF Woken, GoClient, Returns
<1>11. ASSUME NEW c \in Clients, Expire(c) PROVE CallCovered'
  BY <1>11 DEF Expire, GoClient
<1>12. ASSUME NEW c \in Clients, Unregister(c, "unsent", "failed") PROVE CallCovered'
  BY <1>12 DEF Unregister, GoClient, Returns
<1>13. ASSUME NEW c \in Clients, Unregister(c, "expired", "timedout") PROVE CallCovered'
  BY <1>13 DEF Unregister, GoClient, Returns
<1>14. CASE UNCHANGED <<pend, held, signalled, client, cRid>>
  BY <1>14
<1>. QED
  BY <1>1, <1>2, <1>3, <1>4, <1>5, <1>6, <1>7, <1>8, <1>9, <1>9a, <1>10, <1>11,
     <1>12, <1>13, <1>14 DEF Next, OpenerStep, RxStep, CloserStep,
     ClientStep, Connect, Dial, Publish, SetRunning, MakeReceiver,
     StartReceiver, PeerClose, RxEntry, RxLoop, RxRecv, RxReply, RxFail, RxClear,
     RxLost, RxNull, RxShut, CloseClear, CloseTake, CloseNull, CloseShut,
     CloseReceiver, CloseJoin, GoRx, GoCloser, vars

\* connect() starts the receiver thread with its last step.
LEMMA StepStarted ==
  ASSUME TypeOK, LoopsStarted, [Next]_vars
  PROVE  LoopsStarted'
<1> USE DEF TypeOK, TypeSession, TypeLoops, LoopsStarted, Socks, sess,
        conns, loops, closing, table, replies, calls
<1>1. ASSUME NEW k \in Conns, Connect(k) PROVE LoopsStarted'
  BY <1>1 DEF Connect, GoOpener, IsConnected
<1>2. ASSUME NEW k \in Conns, Dial(k) PROVE LoopsStarted'
  BY <1>2 DEF Dial, GoOpener
<1>3. ASSUME NEW k \in Conns, Publish(k) PROVE LoopsStarted'
  BY <1>3 DEF Publish, GoOpener
<1>4. ASSUME NEW k \in Conns, SetRunning(k) PROVE LoopsStarted'
  BY <1>4 DEF SetRunning, GoOpener
<1>5. ASSUME NEW k \in Conns, MakeReceiver(k) PROVE LoopsStarted'
  BY <1>5 DEF MakeReceiver, GoOpener
<1>6. ASSUME NEW k \in Conns, StartReceiver(k) PROVE LoopsStarted'
  BY <1>6 DEF StartReceiver, GoOpener
<1>7. ASSUME NEW k \in Conns, RxEntry(k) PROVE LoopsStarted'
  BY <1>7 DEF RxEntry, GoRx
<1>8. ASSUME NEW k \in Conns, RxLoop(k) PROVE LoopsStarted'
  BY <1>8 DEF RxLoop, GoRx, Keeps
<1>9. ASSUME NEW k \in Conns, NEW r \in Rids, RxRecv(k, r) PROVE LoopsStarted'
  BY <1>9 DEF RxRecv, GoRx
<1>10. ASSUME NEW k \in Conns, RxPop(k) PROVE LoopsStarted'
  BY <1>10 DEF RxPop, GoRx
<1>11. ASSUME NEW k \in Conns, RxReply(k) PROVE LoopsStarted'
  BY <1>11 DEF RxReply, GoRx
<1>12. ASSUME NEW k \in Conns, RxSignal(k) PROVE LoopsStarted'
  BY <1>12 DEF RxSignal, GoRx
<1>13. ASSUME NEW k \in Conns, RxFail(k) PROVE LoopsStarted'
  BY <1>13 DEF RxFail, GoRx, Keeps
<1>13a. ASSUME NEW k \in Conns, RxClear(k) PROVE LoopsStarted'
  BY <1>13a DEF RxClear, GoRx
<1>14. ASSUME NEW k \in Conns, RxLost(k) PROVE LoopsStarted'
  BY <1>14 DEF RxLost, GoRx
<1>15. ASSUME NEW k \in Conns, RxNull(k) PROVE LoopsStarted'
  BY <1>15 DEF RxNull, GoRx
<1>16. ASSUME NEW k \in Conns, RxShut(k) PROVE LoopsStarted'
  BY <1>16 DEF RxShut, GoRx, CloseLink
<1>17. ASSUME NEW k \in Conns, RxGrab(k) PROVE LoopsStarted'
  BY <1>17 DEF RxGrab, GoRx, Grab
<1>18. ASSUME NEW k \in Conns, RxFailAll(k) PROVE LoopsStarted'
  BY <1>18 DEF RxFailAll, GoRx, Keeps, FailHeld
<1>19. CASE UNCHANGED <<opener, rx, rxSock>>
  BY <1>19
<1>. QED
  BY <1>1, <1>2, <1>3, <1>4, <1>5, <1>6, <1>7, <1>8, <1>9, <1>10, <1>11,
     <1>12, <1>13, <1>13a, <1>14, <1>15, <1>16, <1>17, <1>18, <1>19 DEF Next,
     OpenerStep, RxStep, CloserStep, ClientStep, PeerClose, CloseClear,
     CloseTake, CloseNull, CloseShut, CloseReceiver, CloseJoin, CloseGrab,
     CloseFail, Request, Register, Send, SendRaises, Woken, Expire, Unregister,
     GoCloser, Grab, FailHeld, GoClient, vars

\* A thread holds what it is about to complete and nothing else.
LEMMA StepHeld ==
  ASSUME TypeOK, LoopsStarted, HeldMatches, [Next]_vars
  PROVE  HeldMatches'
<1> USE SessionAssumption DEF TypeOK, TypeSession, LoopsStarted, TypeLoops,
        TypeRequests, HeldMatches, Rids, Completers, sess, conns, loops,
        closing, table, replies, calls
<1>1. ASSUME NEW k \in Conns, StartReceiver(k) PROVE HeldMatches'
  <2>1. \A j \in Conns : rx'[j] \in {rx[j], "entry"}
    BY <1>1 DEF StartReceiver, GoOpener
  <2>2. \A j \in Conns : rx'[j] = "entry" => held[j] = {}
    BY <1>1 DEF StartReceiver, GoOpener
  <2>. QED  BY <1>1, <2>1, <2>2 DEF StartReceiver, GoOpener
<1>2. ASSUME NEW k \in Conns, RxEntry(k) PROVE HeldMatches'
  BY <1>2 DEF RxEntry, GoRx
<1>3. ASSUME NEW k \in Conns, RxLoop(k) PROVE HeldMatches'
  BY <1>3 DEF RxLoop, GoRx, Keeps
<1>4. ASSUME NEW k \in Conns, NEW r \in Rids, RxRecv(k, r) PROVE HeldMatches'
  BY <1>4 DEF RxRecv, GoRx
<1>5. ASSUME NEW k \in Conns, RxPop(k) PROVE HeldMatches'
  BY <1>5 DEF RxPop, GoRx
<1>6. ASSUME NEW k \in Conns, RxReply(k) PROVE HeldMatches'
  BY <1>6 DEF RxReply, GoRx
<1>7. ASSUME NEW k \in Conns, RxSignal(k) PROVE HeldMatches'
  BY <1>7 DEF RxSignal, GoRx
<1>8. ASSUME NEW k \in Conns, RxFail(k) PROVE HeldMatches'
  BY <1>8 DEF RxFail, GoRx, Keeps
<1>8a. ASSUME NEW k \in Conns, RxClear(k) PROVE HeldMatches'
  BY <1>8a DEF RxClear, GoRx
<1>9. ASSUME NEW k \in Conns, RxLost(k) PROVE HeldMatches'
  BY <1>9 DEF RxLost, GoRx
<1>10. ASSUME NEW k \in Conns, RxNull(k) PROVE HeldMatches'
  BY <1>10 DEF RxNull, GoRx
<1>11. ASSUME NEW k \in Conns, RxShut(k) PROVE HeldMatches'
  BY <1>11 DEF RxShut, GoRx, CloseLink
<1>12. ASSUME NEW k \in Conns, RxGrab(k) PROVE HeldMatches'
  BY <1>12 DEF RxGrab, GoRx, Grab
<1>13. ASSUME NEW k \in Conns, RxFailAll(k) PROVE HeldMatches'
  BY <1>13 DEF RxFailAll, GoRx, Keeps, FailHeld
<1>14. ASSUME CloseClear PROVE HeldMatches'
  BY <1>14 DEF CloseClear, GoCloser
<1>15. ASSUME CloseTake PROVE HeldMatches'
  BY <1>15 DEF CloseTake, GoCloser
<1>16. ASSUME CloseNull PROVE HeldMatches'
  BY <1>16 DEF CloseNull, GoCloser
<1>17. ASSUME CloseShut PROVE HeldMatches'
  BY <1>17 DEF CloseShut, GoCloser, CloseLink
<1>18. ASSUME CloseReceiver PROVE HeldMatches'
  BY <1>18 DEF CloseReceiver, GoCloser
<1>19. ASSUME CloseJoin PROVE HeldMatches'
  BY <1>19 DEF CloseJoin, GoCloser
<1>20. ASSUME CloseGrab PROVE HeldMatches'
  BY <1>20 DEF CloseGrab, GoCloser, Grab
<1>21. ASSUME CloseFail PROVE HeldMatches'
  BY <1>21 DEF CloseFail, GoCloser, FailHeld
<1>22. CASE UNCHANGED <<rx, held, answer, heard, closer>>
  BY <1>22
<1>. QED
  BY <1>1, <1>2, <1>3, <1>4, <1>5, <1>6, <1>7, <1>8, <1>8a, <1>9, <1>10, <1>11,
     <1>12, <1>13, <1>14, <1>15, <1>16, <1>17, <1>18, <1>19, <1>20, <1>21,
     <1>22 DEF Next, OpenerStep, RxStep, CloserStep, ClientStep, Connect,
     Dial, Publish, SetRunning, MakeReceiver, PeerClose, Request, Register,
     Send, SendRaises, Woken, Expire, Unregister, Returns, GoClient, vars

\* Nothing is stored in a request whose event is set.
LEMMA StepReply ==
  ASSUME TypeOK, OneCompleter, HeldMatches, ReplyBeforeSignal, [Next]_vars
  PROVE  ReplyBeforeSignal'
<1> USE SessionAssumption DEF TypeOK, TypeLoops, TypeRequests, OneCompleter,
        HeldMatches, ReplyBeforeSignal, Rids, Completers, sess, conns,
        loops, closing, table, replies, calls
<1>1. ASSUME NEW k \in Conns, StartReceiver(k) PROVE ReplyBeforeSignal'
  BY <1>1 DEF StartReceiver, GoOpener
<1>2. ASSUME NEW k \in Conns, RxEntry(k) PROVE ReplyBeforeSignal'
  BY <1>2 DEF RxEntry, GoRx
<1>3. ASSUME NEW k \in Conns, RxLoop(k) PROVE ReplyBeforeSignal'
  BY <1>3 DEF RxLoop, GoRx, Keeps
<1>4. ASSUME NEW k \in Conns, NEW r \in Rids, RxRecv(k, r) PROVE ReplyBeforeSignal'
  BY <1>4 DEF RxRecv, GoRx
<1>5. ASSUME NEW k \in Conns, RxPop(k) PROVE ReplyBeforeSignal'
  BY <1>5 DEF RxPop, GoRx
<1>6. ASSUME NEW k \in Conns, RxReply(k) PROVE ReplyBeforeSignal'
  BY <1>6 DEF RxReply, GoRx
<1>7. ASSUME NEW k \in Conns, RxSignal(k) PROVE ReplyBeforeSignal'
  BY <1>7 DEF RxSignal, GoRx
<1>8. ASSUME NEW k \in Conns, RxFail(k) PROVE ReplyBeforeSignal'
  BY <1>8 DEF RxFail, GoRx, Keeps
<1>8a. ASSUME NEW k \in Conns, RxClear(k) PROVE ReplyBeforeSignal'
  BY <1>8a DEF RxClear, GoRx
<1>9. ASSUME NEW k \in Conns, RxLost(k) PROVE ReplyBeforeSignal'
  BY <1>9 DEF RxLost, GoRx
<1>10. ASSUME NEW k \in Conns, RxNull(k) PROVE ReplyBeforeSignal'
  BY <1>10 DEF RxNull, GoRx
<1>11. ASSUME NEW k \in Conns, RxShut(k) PROVE ReplyBeforeSignal'
  BY <1>11 DEF RxShut, GoRx, CloseLink
<1>12. ASSUME NEW k \in Conns, RxGrab(k) PROVE ReplyBeforeSignal'
  BY <1>12 DEF RxGrab, GoRx, Grab
<1>13. ASSUME NEW k \in Conns, RxFailAll(k) PROVE ReplyBeforeSignal'
  BY <1>13 DEF RxFailAll, GoRx, Keeps, FailHeld
<1>14. ASSUME CloseFail PROVE ReplyBeforeSignal'
  BY <1>14 DEF CloseFail, GoCloser, FailHeld
<1>15. CASE UNCHANGED <<rx, answer, heard, reply, signalled>>
  BY <1>15
<1>. QED
  BY <1>1, <1>2, <1>3, <1>4, <1>5, <1>6, <1>7, <1>8, <1>8a, <1>9, <1>10, <1>11,
     <1>12, <1>13, <1>14, <1>15 DEF Next, OpenerStep, RxStep, CloserStep,
     ClientStep, Connect, Dial, Publish, SetRunning, MakeReceiver,
     PeerClose, CloseClear, CloseTake, CloseNull, CloseShut, CloseReceiver,
     CloseJoin, CloseGrab, Request, Register, Send, SendRaises, Woken, Expire,
     Unregister, GoCloser, Grab, GoClient, vars

\* The initial state satisfies every conjunct.
LEMMA InitIInv == Init => IInv
<1> SUFFICES ASSUME Init PROVE IInv
  OBVIOUS
<1>1. TypeSession
  BY DEF Init, TypeSession, Socks
<1>5. TypeLoops
  BY SessionAssumption DEF Init, TypeLoops, Socks, Rids
<1>2. TypeRequests /\ TypeCalls
  BY SessionAssumption DEF Init, TypeRequests, TypeCalls, Socks, Rids, Completers
<1>3. IdsIssued /\ NoLeakedEntry /\ OneCompleter
  BY SessionAssumption
  DEF Init, IdsIssued, InCall, NoLeakedEntry, OneCompleter, Rids, Completers
<1>4. CallCovered /\ LoopsStarted /\ HeldMatches /\ ReplyBeforeSignal
  BY DEF Init, CallCovered, LoopsStarted, HeldMatches, ReplyBeforeSignal, Completers
<1>. QED  BY <1>1, <1>2, <1>3, <1>4, <1>5 DEF IInv, TypeOK

\* The lemmas above, put together.
LEMMA StepIInv == IInv /\ [Next]_vars => IInv'
  BY StepTypeSession, StepTypeLoops, StepTypeRequests, StepTypeCalls, StepIds,
     StepNoLeak, StepOneCompleter, StepCallCovered, StepStarted, StepHeld,
     StepReply
  DEF IInv, TypeOK

\* Ids, the table, the threads that complete requests and the calls support
\* one another through every step of connect, close, loss, answer and timeout.
THEOREM InductiveInvariant == Spec => []IInv
  BY InitIInv, StepIInv, PTL DEF Spec

-----------------------------------------------------------------------------
\* No path out of _request, and no loss or close, leaves an entry behind.
THEOREM EntriesNeverLeak == Spec => []NoLeakedEntry
<1>1. IInv => NoLeakedEntry  BY DEF IInv
<1>. QED  BY InductiveInvariant, <1>1, PTL

\* An answer, a loss and a close never complete the same request twice.
THEOREM CompletedByOneThread == Spec => []OneCompleter
<1>1. IInv => OneCompleter  BY DEF IInv
<1>. QED  BY InductiveInvariant, <1>1, PTL

\* Whoever waits for an event, some thread can still set it.
THEOREM EveryWaiterCovered == Spec => []WaiterCovered
<1>1. IInv => WaiterCovered  BY DEF IInv, CallCovered, WaiterCovered
<1>. QED  BY InductiveInvariant, <1>1, PTL

-----------------------------------------------------------------------------
\* A call that returns a response was answered: its event is set only after a
\* received response or an error was stored.
LEMMA WokenReturns ==
  ASSUME IInv, NEW c \in Clients, Woken(c)
  PROVE  \E how \in RR!Returned : RR!Return(cRid[c], how)
<1> DEFINE r == cRid[c]
<1> USE DEF IInv, TypeOK, TypeLoops, TypeRequests, TypeCalls, IdsIssued, InCall,
        ReplyBeforeSignal
<1>1. r \in Rids /\ r \in signalled /\ result[r] = "open"
  BY DEF Woken, GoClient, Returns
<1>2. CASE reply[r] = "response"
  <2>1. r \in heard /\ UNCHANGED heard /\ result' = [result EXCEPT ![r] = "response"]
    BY <1>1, <1>2 DEF Woken, replies
  <2>. QED  BY <1>1, <2>1 DEF RR!Return, RR!Returned
<1>3. CASE reply[r] = "error"
  <2>1. UNCHANGED heard /\ result' = [result EXCEPT ![r] = "failed"]
    BY <1>1, <1>3 DEF Woken, replies
  <2>. QED  BY <1>1, <2>1 DEF RR!Return, RR!Returned
<1>. QED  BY <1>1, <1>2, <1>3

\* A call that gives up returns too.
LEMMA UnregisterReturns ==
  ASSUME IInv, NEW c \in Clients, NEW from, NEW how \in {"failed", "timedout"},
         from \in {"unsent", "expired"}, Unregister(c, from, how)
  PROVE  RR!Return(cRid[c], how)
  BY DEF IInv, IdsIssued, InCall, Unregister, GoClient, replies, RR!Return

\* Every other step issues a request, receives an answer or changes neither
\* result nor heard.
LEMMA StepRefines ==
  ASSUME IInv, [Next]_vars
  PROVE  [RR!Next]_(RR!vars)
<1> USE SessionAssumption
    DEF IInv, TypeOK, TypeCalls, TypeRequests, IdsIssued, Rids, RR!Next, RR!vars
<1>1. ASSUME NEW c \in Clients, Register(c) PROVE RR!Next
  <2>1. nextRid \in Rids
    BY <1>1 DEF Register
  <2>2. result[nextRid] = "new" /\ UNCHANGED heard
    BY <1>1, <2>1 DEF Register, replies
  <2>. QED  BY <1>1, <2>1, <2>2 DEF Register, RR!Issue
<1>2. ASSUME NEW k \in Conns, NEW r \in Rids, RxRecv(k, r)
      PROVE  RR!Next \/ UNCHANGED RR!vars
  <2>1. CASE r \in heard
    BY <1>2, <2>1 DEF RxRecv, calls
  <2>2. CASE r \notin heard
    <3>1. r \in owed[rxSock[k]]
      BY <1>2 DEF RxRecv
    <3>2. rxSock[k] \in Conns
      BY <1>2 DEF RxRecv, GoRx, LoopsStarted
    <3>3. result[r] # "new"
      BY <3>1, <3>2, <1>2 DEF TypeLoops
    <3>. QED  BY <1>2, <2>2, <3>3 DEF RxRecv, calls, RR!Answer
  <2>. QED  BY <2>1, <2>2
<1>3. ASSUME NEW c \in Clients, Woken(c) PROVE RR!Next
  <2>1. cRid[c] \in Rids
    BY <1>3 DEF Woken, GoClient, Returns, InCall
  <2>. QED  BY <1>3, <2>1, WokenReturns
<1>4. ASSUME NEW c \in Clients, Unregister(c, "unsent", "failed") PROVE RR!Next
  <2>1. cRid[c] \in Rids
    BY <1>4 DEF Unregister, GoClient, Returns, InCall
  <2>. QED  BY <1>4, <2>1, UnregisterReturns DEF RR!Returned
<1>5. ASSUME NEW c \in Clients, Unregister(c, "expired", "timedout") PROVE RR!Next
  <2>1. cRid[c] \in Rids
    BY <1>5 DEF Unregister, GoClient, Returns, InCall
  <2>. QED  BY <1>5, <2>1, UnregisterReturns DEF RR!Returned
<1>6. ASSUME NEW c \in Clients, SendRaises(c) PROVE RR!Next
  <2>1. cRid[c] \in Rids
    BY <1>6 DEF SendRaises, GoClient, Returns, InCall
  <2>2. RR!Return(cRid[c], "raised")
    BY <1>6, <2>1 DEF SendRaises, GoClient, Returns, InCall, replies, RR!Return
  <2>. QED  BY <2>1, <2>2 DEF RR!Returned
<1>7. CASE UNCHANGED <<result, heard>>
  BY <1>7
<1>. QED
  BY <1>1, <1>2, <1>3, <1>4, <1>5, <1>6, <1>7
  DEF Next, OpenerStep, RxStep, CloserStep, ClientStep, Connect, Dial, Publish,
      SetRunning, MakeReceiver, StartReceiver, PeerClose, RxEntry, RxLoop,
      RxPop, RxReply, RxSignal, RxFail, RxClear, RxLost, RxNull, RxShut, RxGrab,
      RxFailAll, CloseClear, CloseTake, CloseNull, CloseShut, CloseReceiver,
      CloseJoin, CloseGrab, CloseFail, Request, Send, Expire, Grab, FailHeld,
      replies, calls, vars

\* Whatever connects, closes, answers and expires meanwhile, a call returns
\* once: with the answer to its own request, an error or a timeout.
THEOREM SessionKeepsPromise == Spec => ImplementsRequestReply
<1>1. Init => RR!Init  BY DEF Init, RR!Init
<1>2. IInv /\ [Next]_vars => [RR!Next]_(RR!vars)  BY StepRefines
<1>. QED
  BY InductiveInvariant, <1>1, <1>2, PTL DEF ImplementsRequestReply, Spec, RR!Spec

-----------------------------------------------------------------------------
(* No call waits on a closed link that nobody reports.                     *)

\* What the session or a call under way uses was dialled, and whoever has closed
\* the link of a call that waits has yet to take its entry.
Dialled(k) == opener[k] \notin {"none", "dial"}
LinkInv ==
  /\ socket # NoConn => Dialled(socket)
  /\ \A c \in Clients : client[c] # "idle" => cSock[c] \in Conns /\ Dialled(cSock[c])
  /\ ClosedLinkReported

\* Dialling, and the choice of the request id, close no link in use.
LEMMA LinkDials ==
  ASSUME IInv, LinkInv, NEW k \in Conns, Connect(k) \/ OpenerStep(k)
  PROVE  LinkInv'
<1>. SessionAssumption /\ TypeSession /\ TypeLoops /\ TypeCalls
  BY SessionAssumption DEF IInv, TypeOK
<1>. USE DEF TypeSession, Socks
<1>0. UNCHANGED <<client, cSock, cRid, pend, closer, deserted>>
  BY DEF Connect, OpenerStep, Dial, Publish, SetRunning, MakeReceiver, StartReceiver, table, calls, closing
<1>1. \A j \in Conns : Dialled(j) => Dialled(j)'
  BY DEF Connect, OpenerStep, Dial, Publish, SetRunning, MakeReceiver, StartReceiver, GoOpener, Dialled
<1>2. socket' # NoConn => Dialled(socket)'
  <2>1. CASE Publish(k)
    BY <2>1, SessionAssumption DEF Publish, GoOpener, Dialled
  <2>2. CASE ~Publish(k)
    <3>1. socket' = socket
      BY <2>2 DEF Connect, OpenerStep, Dial, SetRunning, MakeReceiver, StartReceiver, sess
    <3>. QED  BY <1>1, <3>1 DEF LinkInv, Dialled
  <2>. QED  BY <2>1, <2>2
<1>3. \A j \in Conns : Dialled(j) => link'[j] = link[j]
  BY DEF Connect, OpenerStep, Dial, Publish, SetRunning, MakeReceiver, StartReceiver, GoOpener, Dialled, conns
<1>4. \A j \in Conns : rx[j] = "grab" => rx'[j] = "grab"
  <2>1. CASE StartReceiver(k)
    BY <2>1 DEF StartReceiver, GoOpener, IInv, LoopsStarted, TypeLoops
  <2>2. CASE ~StartReceiver(k)
    BY <2>2 DEF Connect, OpenerStep, Dial, Publish, SetRunning, MakeReceiver, loops
  <2>. QED  BY <2>1, <2>2
<1>5. ClosedLinkReported'
  BY <1>0, <1>3, <1>4 DEF LinkInv, ClosedLinkReported
<1>6. \A c \in Clients : client'[c] # "idle" => cSock'[c] \in Conns /\ Dialled(cSock[c])'
  BY <1>0, <1>1 DEF LinkInv, Dialled
<1>. QED  BY <1>2, <1>5, <1>6 DEF LinkInv

\* A call, its answer and its timeout use the link they were made on.
LEMMA LinkCalls ==
  ASSUME IInv, LinkInv, NEW c \in Clients, Request(c) \/ ClientStep(c)
  PROVE  LinkInv'
<1>. SessionAssumption /\ TypeSession /\ TypeLoops /\ TypeCalls
  BY SessionAssumption DEF IInv, TypeOK
<1>0. UNCHANGED <<socket, opener, link, rx, closer, deserted>> /\ \A d \in Clients : d # c => client'[d] = client[d] /\ cSock'[d] = cSock[d] /\ cRid'[d] = cRid[d]
  BY DEF Request, ClientStep, Register, Send, SendRaises, Woken, Expire, Unregister, Returns, GoClient, sess, conns, loops, closing, calls, TypeCalls
<1>1. client'[c] # "idle" => cSock'[c] \in Conns /\ Dialled(cSock'[c])
  <2>1. CASE Request(c)
    BY <2>1 DEF Request, GoClient, IsConnected, LinkInv, TypeCalls, TypeSession, Socks
  <2>2. CASE ClientStep(c)
    BY <2>2 DEF ClientStep, Register, Send, SendRaises, Woken, Expire, Unregister, Returns, GoClient, LinkInv, TypeCalls, calls
  <2>. QED  BY <2>1, <2>2
<1>2. client'[c] = "wait" => client[c] = "send" /\ link[cSock[c]] # "closed" /\ UNCHANGED <<cSock, cRid, pend>>
  BY DEF Request, ClientStep, Register, Send, SendRaises, Woken, Expire, Unregister, Returns, GoClient, TypeCalls, table, calls
<1>3. \A d \in Clients : d # c /\ client[d] = "wait" /\ cRid[d] \in pend' => cRid[d] \in pend
  <2>1. CASE Register(c)
    <3>1. \A d \in Clients : cRid[d] < nextRid /\ cRid[d] \in 0..MaxRid
      BY DEF IInv, IdsIssued, TypeCalls
    <3>. QED  BY <2>1, <3>1 DEF Register, IInv, TypeOK, TypeRequests
  <2>2. CASE ~Register(c)
    BY <2>2 DEF Request, ClientStep, Send, SendRaises, Woken, Expire, Unregister, table
  <2>. QED  BY <2>1, <2>2
<1>4. ClosedLinkReported'
  BY <1>0, <1>2, <1>3 DEF LinkInv, ClosedLinkReported
<1>. QED  BY <1>0, <1>1, <1>4 DEF LinkInv, Dialled

\* The receivers and close() take the table after they have closed a link.
LEMMA LinkCloses ==
  ASSUME IInv, LinkInv,
         \/ \E k \in Conns : PeerClose(k) \/ RxStep(k) \/ RxFail(k) \/ \E r \in Rids : RxRecv(k, r)
         \/ CloseClear \/ CloserStep
  PROVE  LinkInv'
<1>. SessionAssumption /\ TypeSession /\ TypeLoops /\ TypeCalls
  BY SessionAssumption DEF IInv, TypeOK
<1>0. UNCHANGED <<opener, client, cSock, cRid>>
  BY DEF PeerClose, RxStep, RxRecv, RxEntry, RxLoop, RxPop, RxReply, RxSignal, RxFail, RxClear, RxLost, RxNull, RxShut, RxGrab, RxFailAll,
     CloseClear, CloserStep, CloseTake, CloseNull, CloseShut, CloseReceiver, CloseJoin, CloseGrab, CloseFail, calls, conns
<1>1. socket' \in {socket, NoConn}
  BY DEF PeerClose, RxStep, RxRecv, RxEntry, RxLoop, RxPop, RxReply, RxSignal, RxFail, RxClear, RxLost, RxNull, RxShut, RxGrab, RxFailAll,
     CloseClear, CloserStep, CloseTake, CloseNull, CloseShut, CloseReceiver, CloseJoin, CloseGrab, CloseFail, sess
<1>. DEFINE Late == closer \in {"receiver", "join", "grab"} \/ \E k \in Conns : rx[k] = "grab"
<1>. DEFINE Stranded(c) == client[c] = "wait" /\ cRid[c] \in pend /\ link[cSock[c]] = "closed"
<1>. DEFINE Left == (Late => Late') /\ pend' \subseteq pend
<1>2. \/ Late' \/ pend' = {}
      \/ Left /\ \A j \in Conns : link'[j] = "closed" => link[j] = "closed"
      \/ /\ pend' = pend /\ link' = link
         /\ \A c \in Clients : Stranded(c) => cRid[c] \in deserted'
  <2>1. ASSUME NEW k \in Conns, PeerClose(k)
        PROVE  Left /\ \A j \in Conns : link'[j] = "closed" => link[j] = "closed"
    BY <2>1 DEF PeerClose, loops, closing, table, TypeSession
  <2>2. ASSUME NEW k \in Conns, RxShut(k) PROVE Late'
    BY <2>2 DEF RxShut, GoRx, TypeLoops
  <2>3. ASSUME NEW k \in Conns, RxGrab(k) PROVE pend' = {}
    BY <2>3 DEF RxGrab, Grab
  <2>4. ASSUME NEW k \in Conns,
               RxStep(k) \/ RxFail(k) \/ \E r \in Rids : RxRecv(k, r),
               ~RxShut(k), ~RxGrab(k)
        PROVE  Left /\ link' = link
    BY <2>4 DEF RxStep, RxRecv, RxEntry, RxLoop, RxPop, RxReply, RxSignal, RxFail,
                RxClear, RxLost, RxNull, RxFailAll, FailHeld, GoRx, TypeLoops, conns,
                closing, table
  <2>5. CASE CloseShut
    BY <2>5 DEF CloseShut, GoCloser
  <2>6. CASE CloseGrab
    BY <2>6 DEF CloseGrab, Grab
  <2>7. CASE CloseJoin
    <3>1. \/ closer = "join" /\ closer' = "grab"
          \/ \A c \in Clients : Stranded(c) => cRid[c] \in deserted'
      BY <2>7 DEF CloseJoin, GoCloser
    <3>2. link' = link /\ pend' = pend
      BY <2>7 DEF CloseJoin, conns, table
    <3>. QED  BY <3>1, <3>2
  <2>8. ASSUME CloseClear \/ CloserStep, ~CloseShut, ~CloseGrab, ~CloseJoin
        PROVE  Left /\ link' = link
    BY <2>8 DEF CloseClear, CloserStep, CloseTake, CloseNull, CloseReceiver, CloseFail,
                FailHeld, GoCloser, conns, loops, table
  <2>. QED  BY <2>1, <2>2, <2>3, <2>4, <2>5, <2>6, <2>7, <2>8
<1>4. deserted \subseteq deserted'
  BY DEF PeerClose, RxStep, RxRecv, RxEntry, RxLoop, RxPop, RxReply, RxSignal, RxFail,
     RxClear, RxLost, RxNull, RxShut, RxGrab, RxFailAll, CloseClear, CloserStep,
     CloseTake, CloseNull, CloseShut, CloseReceiver, CloseJoin, CloseGrab, CloseFail,
     closing
<1>3. ClosedLinkReported'
  BY <1>0, <1>2, <1>4 DEF LinkInv, ClosedLinkReported
<1>. QED  BY <1>0, <1>1, <1>3 DEF LinkInv, Dialled

\* Whoever closes the connection of a call that waits fails it afterwards, but for a
\* close() that raises before (139): no other caller waits for nobody (101-141, 359-378).
THEOREM ClosedLinksReported == Spec => []ClosedLinkReported
<1>1. Init => LinkInv
  BY DEF Init, LinkInv, ClosedLinkReported
<1>2. IInv /\ LinkInv /\ [Next]_vars => LinkInv'
  <2>. SUFFICES ASSUME IInv, LinkInv, [Next]_vars PROVE LinkInv'
    OBVIOUS
  <2>1. CASE UNCHANGED vars
    BY <2>1 DEF vars, sess, conns, loops, closing, table, calls, LinkInv, ClosedLinkReported, Dialled
  <2>. QED  BY <2>1, LinkDials, LinkCalls, LinkCloses DEF Next
<1>3. LinkInv => ClosedLinkReported
  BY DEF LinkInv
<1>. QED  BY <1>1, <1>2, <1>3, InductiveInvariant, PTL DEF Spec

============================================================================
