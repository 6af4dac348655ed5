---------------------------- MODULE DemoSession -----------------------------
(***************************************************************************)
(* DemoSession, the synchronous client of MORAI Simulation Control: any    *)
(* number of threads call request methods on one session while one thread  *)
(* connects it, another closes it and a receiver thread owns the reads.    *)
(*                                                                         *)
(* Each successful connect() makes a socket and a receiver thread; a       *)
(* member of Conns names both, and the connect() call itself.  _running,   *)
(* _socket and _receiver are read and written without a lock, so every     *)
(* such access is a step; what happens under _request_lock is one step.    *)
(***************************************************************************)
EXTENDS Naturals

CONSTANTS Conns,    \* connections the session opens
          NoConn,   \* None
          Closer,   \* the thread that calls close()
          Clients,  \* threads that call request methods
          MaxRid    \* bound on the request ids a behaviour uses

ASSUME SessionAssumption ==
  /\ NoConn \notin Conns /\ Closer \notin Conns
  /\ MaxRid \in Nat

VARIABLES
  socket, running, receiver,  \* _socket, _running and _receiver
  link,          \* each socket: unused, open, reset (by the peer), closed
  owed,          \* requests sent on it that the simulator has not answered
  opener,        \* program counter of the connect() call
  rx, rxSock,    \* program counter of the receiver thread, and its socket
  answer,        \* the request id whose answer it is handling
  closer, closeSock, closeRx,  \* close(): program counter and local variables
  deserted,      \* history: requests on a closed link when a close() raised
  nextRid, pend, \* _next_request_id and the keys of _pending
  held,          \* requests a thread has taken from _pending to complete
  reply, signalled, \* _PendingRequest.response/.error, and the events set
  heard,         \* requests whose answer was received (not in the code)
  client, cSock, cRid,         \* a request call: program counter, locals
  result         \* each request: new, open, or how its call returned

sess    == <<socket, running, receiver>>
conns   == <<link, owed, opener>>
loops   == <<rx, rxSock, answer>>
closing == <<closer, closeSock, closeRx, deserted>>
table   == <<nextRid, pend, held>>
replies == <<reply, signalled, heard>>
calls   == <<client, cSock, cRid, result>>
vars    == <<sess, conns, loops, closing, table, replies, calls>>

Rids  == 1..MaxRid
Socks == Conns \cup {NoConn}
Completers == Conns \cup {Closer}   \* threads that complete requests

TypeSession ==
  /\ socket \in Socks /\ running \in BOOLEAN /\ receiver \in Socks
  /\ link \in [Conns -> {"unused", "open", "reset", "closed"}]
  /\ opener \in [Conns -> {"none", "dial", "publish", "run", "thread", "start", "done"}]
  /\ closer \in {"idle", "take", "null", "shut", "receiver", "join", "grab", "fail"}
  /\ closeSock \in Socks /\ closeRx \in Socks /\ deserted \subseteq Rids

TypeLoops ==
  /\ owed \in [Conns -> SUBSET Rids]
  /\ rx \in [Conns -> {"none", "entry", "loop", "recv", "pop", "reply", "signal",
                       "clear", "lost", "null", "shut", "grab", "fail", "dead"}]
  /\ rxSock \in [Conns -> Socks]
  /\ answer \in [Conns -> 0..MaxRid]
  /\ heard \subseteq Rids

TypeRequests ==
  /\ nextRid \in 1..(MaxRid + 1) /\ pend \subseteq Rids
  /\ held \in [Completers -> SUBSET Rids]
  /\ reply \in [Rids -> {"none", "response", "error"}]
  /\ signalled \subseteq Rids

TypeCalls ==
  /\ client \in [Clients -> {"idle", "register", "send", "unsent", "wait", "expired"}]
  /\ cSock \in [Clients -> Socks]
  /\ cRid \in [Clients -> 0..MaxRid]
  /\ result \in [Rids -> {"new", "open", "response", "failed", "empty", "timedout",
                          "raised"}]

TypeOK == TypeSession /\ TypeLoops /\ TypeRequests /\ TypeCalls

Init ==
  /\ socket = NoConn /\ running = FALSE /\ receiver = NoConn
  /\ link = [k \in Conns |-> "unused"]
  /\ owed = [k \in Conns |-> {}]
  /\ opener = [k \in Conns |-> "none"]
  /\ rx = [k \in Conns |-> "none"]
  /\ rxSock = [k \in Conns |-> NoConn]
  /\ answer = [k \in Conns |-> 0]
  /\ closer = "idle" /\ closeSock = NoConn /\ closeRx = NoConn /\ deserted = {}
  /\ nextRid = 1 /\ pend = {}
  /\ held = [t \in Completers |-> {}]
  /\ reply = [r \in Rids |-> "none"]
  /\ signalled = {} /\ heard = {}
  /\ client = [c \in Clients |-> "idle"]
  /\ cSock = [c \in Clients |-> NoConn]
  /\ cRid = [c \in Clients |-> 0]
  /\ result = [r \in Rids |-> "new"]

IsConnected == running /\ socket # NoConn

-----------------------------------------------------------------------------
(* connect(), by one thread at a time.                                     *)

GoOpener(k, from, to) ==
  opener[k] = from /\ opener' = [opener EXCEPT ![k] = to]

Connect(k) ==
  /\ ~IsConnected
  /\ \A j \in Conns : opener[j] \in {"none", "done"}
  /\ GoOpener(k, "none", "dial")
  /\ UNCHANGED <<sess, link, owed, loops, closing, table, replies, calls>>

\* sock.connect: a failure is a DemoSessionConnectionError and changes nothing.
Dial(k) ==
  /\ \/ /\ GoOpener(k, "dial", "publish")
        /\ link' = [link EXCEPT ![k] = "open"]
     \/ /\ GoOpener(k, "dial", "done")
        /\ link' = [link EXCEPT ![k] = "closed"]
  /\ UNCHANGED <<sess, owed, loops, closing, table, replies, calls>>

Publish(k) ==
  /\ GoOpener(k, "publish", "run")
  /\ socket' = k
  /\ UNCHANGED <<running, receiver, link, owed, loops, closing, table, replies, calls>>

SetRunning(k) ==
  /\ GoOpener(k, "run", "thread")
  /\ running' = TRUE
  /\ UNCHANGED <<socket, receiver, link, owed, loops, closing, table, replies, calls>>

MakeReceiver(k) ==
  /\ GoOpener(k, "thread", "start")
  /\ receiver' = k
  /\ UNCHANGED <<socket, running, link, owed, loops, closing, table, replies, calls>>

\* self._receiver.start(): an AttributeError if close() has taken it since.
StartReceiver(k) ==
  /\ GoOpener(k, "start", "done")
  /\ rx' = IF receiver = NoConn THEN rx ELSE [rx EXCEPT ![k] = "entry"]
  /\ UNCHANGED <<sess, link, owed, rxSock, answer, closing, table, replies, calls>>

OpenerStep(k) ==
  Dial(k) \/ Publish(k) \/ SetRunning(k) \/ MakeReceiver(k) \/ StartReceiver(k)

-----------------------------------------------------------------------------
(* close().                                                                *)

GoCloser(from, to) == closer = from /\ closer' = to

CloseClear ==
  /\ GoCloser("idle", "take")
  /\ running' = FALSE
  /\ UNCHANGED <<socket, receiver, conns, loops, closeSock, closeRx, deserted,
                 table, replies, calls>>

CloseTake ==
  /\ GoCloser("take", "null")
  /\ closeSock' = socket
  /\ UNCHANGED <<sess, conns, loops, closeRx, deserted, table, replies, calls>>

CloseNull ==
  /\ GoCloser("null", "shut")
  /\ socket' = NoConn
  /\ UNCHANGED <<running, receiver, conns, loops, closeSock, closeRx, deserted,
                 table, replies, calls>>

\* shutdown and close of a socket wake the thread that reads from it.
CloseLink(k) == link' = IF k = NoConn THEN link ELSE [link EXCEPT ![k] = "closed"]

CloseShut ==
  /\ GoCloser("shut", "receiver")
  /\ CloseLink(closeSock)
  /\ UNCHANGED <<sess, owed, opener, loops, closeSock, closeRx, deserted,
                 table, replies, calls>>

CloseReceiver ==
  /\ GoCloser("receiver", "join")
  /\ closeRx' = receiver /\ receiver' = NoConn
  /\ UNCHANGED <<socket, running, conns, loops, closeSock, deserted,
                 table, replies, calls>>

\* join(timeout=1.0) returns when the thread has ended or the second is over.
\* For a thread that was made and not started it raises RuntimeError: close()
\* ends there and fails nothing.
CloseJoin ==
  \/ /\ closeRx # NoConn => rx[closeRx] # "none"
     /\ GoCloser("join", "grab")
     /\ UNCHANGED <<sess, conns, loops, closeSock, closeRx, deserted,
                    table, replies, calls>>
  \/ /\ closeRx # NoConn /\ rx[closeRx] = "none"
     /\ GoCloser("join", "idle")
     /\ closeSock' = NoConn /\ closeRx' = NoConn
     /\ deserted' = deserted \cup {r \in pend : \E c \in Clients :
                        cRid[c] = r /\ client[c] = "wait" /\ link[cSock[c]] = "closed"}
     /\ UNCHANGED <<sess, conns, loops, table, replies, calls>>

\* _fail_all_pending: take every entry under the lock, then complete each.
Grab(t) ==
  /\ held' = [held EXCEPT ![t] = pend]
  /\ pend' = {}
  /\ UNCHANGED nextRid

\* Mutant: the errors are stored, the events are not set.
FailHeldQuiet(t) ==
  /\ reply' = [r \in Rids |-> IF r \in held[t] THEN "error" ELSE reply[r]]
  /\ held' = [held EXCEPT ![t] = {}]
  /\ UNCHANGED <<nextRid, pend, signalled, heard>>

FailHeld(t) ==
  /\ reply' = [r \in Rids |-> IF r \in held[t] THEN "error" ELSE reply[r]]
  /\ signalled' = signalled \cup held[t]
  /\ held' = [held EXCEPT ![t] = {}]
  /\ UNCHANGED <<nextRid, pend, heard>>

CloseGrab ==
  /\ GoCloser("grab", "fail")
  /\ Grab(Closer)
  /\ UNCHANGED <<sess, conns, loops, closeSock, closeRx, deserted, replies, calls>>

CloseFail ==
  /\ GoCloser("fail", "idle")
  /\ FailHeld(Closer)
  /\ closeSock' = NoConn /\ closeRx' = NoConn
  /\ UNCHANGED <<sess, conns, loops, deserted, calls>>

CloserStep ==
  CloseTake \/ CloseNull \/ CloseShut \/ CloseReceiver \/ CloseJoin
  \/ CloseGrab \/ CloseFail

-----------------------------------------------------------------------------
(* _receive_loop, _handle_response and the loss path.                      *)

\* A thread that ends takes its variable sock with it.
GoRx(k, from, to) == rx[k] = from /\ rx' = [rx EXCEPT ![k] = to]
Keeps(k) == rxSock' = IF rx'[k] = "dead" THEN [rxSock EXCEPT ![k] = NoConn] ELSE rxSock

\* The loop reads the socket from the session, which may have lost it.
RxEntry(k) ==
  /\ GoRx(k, "entry", IF socket = NoConn THEN "dead" ELSE "loop")
  /\ rxSock' = [rxSock EXCEPT ![k] = socket]
  /\ UNCHANGED <<sess, conns, answer, closing, table, replies, calls>>

RxLoop(k) ==
  /\ GoRx(k, "loop", IF running THEN "recv" ELSE "dead")
  /\ Keeps(k) /\ UNCHANGED <<sess, conns, answer, closing, table, replies, calls>>

RxRecv(k, r) ==
  /\ GoRx(k, "recv", "pop")
  /\ link[rxSock[k]] \in {"open", "reset"} /\ r \in owed[rxSock[k]]
  /\ owed' = [owed EXCEPT ![rxSock[k]] = @ \ {r}]
  /\ answer' = [answer EXCEPT ![k] = r]
  /\ heard' = heard \cup {r}
  /\ UNCHANGED <<sess, link, opener, rxSock, closing, table, reply, signalled, calls>>

\* Under the lock; a request that has returned meanwhile has no entry.
RxPop(k) ==
  /\ GoRx(k, "pop", IF answer[k] \in pend THEN "reply" ELSE "loop")
  /\ held' = [held EXCEPT ![k] = {answer[k]} \cap pend]
  /\ pend' = pend \ {answer[k]}
  /\ answer' = [answer EXCEPT ![k] = IF @ \in pend THEN @ ELSE 0]
  /\ UNCHANGED <<sess, conns, rxSock, closing, nextRid, replies, calls>>

\* Mutant: the event is set and the response is not stored yet.
RxReplyLate(k) ==
  /\ GoRx(k, "reply", "signal")
  /\ UNCHANGED <<sess, conns, rxSock, answer, closing, table, replies, calls>>

\* A payload that does not parse completes the request with an error.
RxReply(k) ==
  /\ GoRx(k, "reply", "signal")
  /\ \E kind \in {"response", "error"} : reply' = [reply EXCEPT ![answer[k]] = kind]
  /\ UNCHANGED <<sess, conns, rxSock, answer, closing, table, signalled, heard, calls>>

RxSignal(k) ==
  /\ GoRx(k, "signal", "loop")
  /\ signalled' = signalled \cup {answer[k]} /\ answer' = [answer EXCEPT ![k] = 0]
  /\ held' = [held EXCEPT ![k] = {}]
  /\ UNCHANGED <<sess, conns, rxSock, closing, nextRid, pend, reply, heard, calls>>

\* recv fails, or a header is refused on any link.  Only a thread that finds
\* _running set reports the loss.
RxFail(k) ==
  /\ GoRx(k, "recv", IF running THEN "clear" ELSE "dead")
  /\ Keeps(k) /\ UNCHANGED <<sess, conns, answer, closing, table, replies, calls>>

\* The flag it clears may be that of a newer connection.
RxClear(k) ==
  /\ GoRx(k, "clear", "lost")
  /\ running' = FALSE
  /\ UNCHANGED <<socket, receiver, conns, rxSock, answer, closing, table, replies, calls>>

RxLost(k) ==
  /\ GoRx(k, "lost", IF socket = rxSock[k] THEN "null" ELSE "shut")
  /\ UNCHANGED <<sess, conns, rxSock, answer, closing, table, replies, calls>>

RxNull(k) ==
  /\ GoRx(k, "null", "shut")
  /\ socket' = NoConn
  /\ UNCHANGED <<running, receiver, conns, rxSock, answer, closing, table, replies, calls>>

\* Mutant: the loss path ends before it fails the pending requests.
RxShutOnly(k) ==
  /\ GoRx(k, "shut", "dead")
  /\ CloseLink(rxSock[k])
  /\ UNCHANGED <<sess, owed, opener, rxSock, answer, closing, table, replies, calls>>

RxShut(k) ==
  /\ GoRx(k, "shut", "grab")
  /\ CloseLink(rxSock[k])
  /\ UNCHANGED <<sess, owed, opener, rxSock, answer, closing, table, replies, calls>>

RxGrab(k) ==
  /\ GoRx(k, "grab", "fail")
  /\ Grab(k)
  /\ UNCHANGED <<sess, conns, rxSock, answer, closing, replies, calls>>

RxFailAll(k) ==
  /\ GoRx(k, "fail", "dead")
  /\ FailHeld(k)
  /\ Keeps(k) /\ UNCHANGED <<sess, conns, answer, closing, calls>>

\* What the loop does without waiting for the simulator.
RxStep(k) ==
  \/ RxEntry(k) \/ RxLoop(k) \/ RxPop(k) \/ RxReply(k) \/ RxSignal(k)
  \/ RxFail(k) /\ link[rxSock[k]] \in {"reset", "closed"}
  \/ RxClear(k) \/ RxLost(k) \/ RxNull(k) \/ RxShut(k) \/ RxGrab(k) \/ RxFailAll(k)

\* The simulator, or the network, ends a connection.
PeerClose(k) ==
  /\ link[k] = "open"
  /\ link' = [link EXCEPT ![k] = "reset"]
  /\ UNCHANGED <<sess, owed, opener, loops, closing, table, replies, calls>>

-----------------------------------------------------------------------------
(* _request.                                                               *)

GoClient(c, from, to) ==
  client[c] = from /\ client' = [client EXCEPT ![c] = to]

\* A call that returns takes its variable sock with it.
Returns(c) == cSock' = [cSock EXCEPT ![c] = NoConn]

\* The call is refused unless the session is connected.
Request(c) ==
  /\ GoClient(c, "idle", "register") /\ nextRid <= MaxRid
  /\ IsConnected /\ cSock' = [cSock EXCEPT ![c] = socket]
  /\ UNCHANGED <<sess, conns, loops, closing, table, replies, cRid, result>>

Register(c) ==
  /\ GoClient(c, "register", "send")
  /\ nextRid <= MaxRid
  /\ nextRid' = nextRid + 1
  /\ pend' = pend \cup {nextRid}
  /\ cRid' = [cRid EXCEPT ![c] = nextRid]
  /\ result' = [result EXCEPT ![nextRid] = "open"]
  /\ UNCHANGED <<sess, conns, loops, closing, held, replies, cSock>>

\* send_lock makes the sends of different threads follow one another.  A
\* socket the peer has reset may still accept one.  The entry is taken back for
\* the OSError of a link that is gone and for a ValueError, which a value may
\* cause on any link before anything is written.
Send(c) ==
  /\ \/ /\ GoClient(c, "send", "wait") /\ link[cSock[c]] \in {"open", "reset"}
        /\ owed' = IF link[cSock[c]] = "reset" THEN owed
                   ELSE [owed EXCEPT ![cSock[c]] = @ \cup {cRid[c]}]
     \/ GoClient(c, "send", "unsent") /\ UNCHANGED owed
  /\ UNCHANGED <<sess, link, opener, loops, closing, table, replies, cSock, cRid, result>>

\* A value that does not fit its field is a struct.error, which nothing
\* catches: the call raises it and its entry stays in the table.
SendRaises(c) ==
  /\ GoClient(c, "send", "idle")
  /\ result' = [result EXCEPT ![cRid[c]] = "raised"]
  /\ Returns(c) /\ UNCHANGED <<sess, conns, loops, closing, table, replies, cRid>>

\* event.wait returned True.
Woken(c) ==
  /\ GoClient(c, "wait", "idle")
  /\ cRid[c] \in signalled
  /\ result' = [result EXCEPT ![cRid[c]] =
       CASE reply[cRid[c]] = "error"    -> "failed"
         [] reply[cRid[c]] = "response" -> "response"
         [] OTHER                       -> "empty"]
  /\ Returns(c) /\ UNCHANGED <<sess, conns, loops, closing, table, replies, cRid>>

\* Mutant: event.wait() without a timeout.
ExpireNever(c) == FALSE

\* event.wait returned False.
Expire(c) ==
  /\ GoClient(c, "wait", "expired")
  /\ cRid[c] \notin signalled
  /\ UNCHANGED <<sess, conns, loops, closing, table, replies, cSock, cRid, result>>

\* Mutant: the call raises and its entry stays.
UnregisterNot(c, from, how) ==
  /\ GoClient(c, from, "idle")
  /\ result' = [result EXCEPT ![cRid[c]] = how]
  /\ Returns(c) /\ UNCHANGED <<sess, conns, loops, closing, table, replies, cRid>>

\* A send that failed and a wait that expired both pop the entry and raise.
Unregister(c, from, how) ==
  /\ GoClient(c, from, "idle")
  /\ pend' = pend \ {cRid[c]}
  /\ result' = [result EXCEPT ![cRid[c]] = how]
  /\ Returns(c) /\ UNCHANGED <<sess, conns, loops, closing, nextRid, held, replies, cRid>>

ClientStep(c) ==
  \/ Register(c) \/ Send(c) \/ SendRaises(c) \/ Woken(c) \/ Expire(c)
  \/ Unregister(c, "unsent", "failed") \/ Unregister(c, "expired", "timedout")

-----------------------------------------------------------------------------
Next ==
  \/ \E k \in Conns : \/ Connect(k) \/ OpenerStep(k) \/ PeerClose(k)
                      \/ RxStep(k) \/ RxFail(k) \/ \E r \in Rids : RxRecv(k, r)
  \/ CloseClear \/ CloserStep
  \/ \E c \in Clients : Request(c) \/ ClientStep(c)

\* Every thread that can run is scheduled; nothing is promised of the user,
\* of the simulator or of the network.
Fairness ==
  /\ \A k \in Conns : WF_vars(OpenerStep(k)) /\ WF_vars(RxStep(k))
  /\ WF_vars(CloserStep)
  /\ \A c \in Clients : WF_vars(ClientStep(c))

Spec     == Init /\ [][Next]_vars
FairSpec == Spec /\ Fairness

-----------------------------------------------------------------------------
(* Properties.                                                             *)

\* The table holds only the requests of calls that are still under way, and
\* those whose send raised what _request does not catch (struct.error, from a
\* value out of range; 335 names OSError and ValueError).  These stay until a
\* loss or a close takes the table.
NoLeakedEntry ==
  \A r \in pend :
    \/ result[r] = "raised"
    \/ \E c \in Clients :
         cRid[c] = r /\ client[c] \in {"send", "unsent", "wait", "expired"}

\* One thread completes a request: whoever takes its entry, and it completes
\* nothing whose event is set already.
OneCompleter ==
  \A r \in Rids :
    /\ \A t, u \in Completers : r \in held[t] /\ r \in held[u] => t = u
    /\ \A t \in Completers : r \in held[t] => r \notin pend \cup signalled
    /\ r \in pend => r \notin signalled

\* A call that waits will be woken by someone: its entry is in the table, or
\* a thread has taken it and not completed it yet.
WaiterCovered ==
  \A c \in Clients :
    client[c] = "wait" /\ cRid[c] \notin signalled
      => cRid[c] \in pend \/ \E t \in Completers : cRid[c] \in held[t]

\* A call that waits on a closed connection is still to be failed by the close()
\* or the receiver that closed it, unless a close() has raised then: one that
\* meets a receiver made and not started raises at 139, before it fails the
\* pending requests at 141, and they run into their timeouts.
ClosedLinkReported ==
  \A c \in Clients :
    client[c] = "wait" /\ cRid[c] \in pend /\ link[cSock[c]] = "closed"
      => \/ closer \in {"receiver", "join", "grab"}
         \/ \E k \in Conns : rx[k] = "grab"
         \/ cRid[c] \in deserted

\* DemoSession keeps the promise of RequestReply: a call returns once, with
\* the answer to its own request, an error or a timeout, and never empty-handed.
RR == INSTANCE RequestReply
        WITH Requests <- Rids, status <- result, answered <- heard
ImplementsRequestReply == RR!Spec

\* Every request call returns, whatever the simulator and the network do.
EveryCallReturns == \A r \in Rids : result[r] = "open" ~> result[r] # "open"

-----------------------------------------------------------------------------
(* The inductive invariant behind the safety properties.                   *)

InCall(c) == client[c] \in {"send", "unsent", "wait", "expired"}

\* Ids are issued in order, and each call under way has one of its own.
IdsIssued ==
  /\ \A r \in Rids : result[r] = "new" <=> r >= nextRid
  /\ \A r \in Rids : r >= nextRid =>
       /\ r \notin pend \cup signalled
       /\ \A k \in Conns : r \notin owed[k]
       /\ \A t \in Completers : r \notin held[t]
  /\ \A c \in Clients :
       /\ cRid[c] < nextRid
       /\ InCall(c) => cRid[c] # 0 /\ result[cRid[c]] = "open"
  /\ \A c, d \in Clients : c # d /\ cRid[c] # 0 => cRid[c] # cRid[d]

\* A call's event is unset only while someone can still set it.
CallCovered ==
  \A c \in Clients :
    client[c] \in {"send", "wait"} /\ cRid[c] \notin signalled
      => cRid[c] \in pend \/ \E t \in Completers : cRid[c] \in held[t]

\* A receiver thread runs only after connect() has done its part, and reads
\* from a socket.
LoopsStarted ==
  \A k \in Conns :
    /\ opener[k] # "done" => rx[k] = "none"
    /\ rx[k] \notin {"none", "entry", "dead"} => rxSock[k] \in Conns

\* What a thread holds is what it is about to complete.
HeldMatches ==
  /\ \A k \in Conns :
       /\ rx[k] \in {"reply", "signal"} => held[k] = {answer[k]}
       /\ rx[k] \notin {"reply", "signal", "fail"} => held[k] = {}
       /\ rx[k] \in {"pop", "reply", "signal"} => answer[k] \in heard
  /\ closer # "fail" => held[Closer] = {}

\* A response or error is stored before its event is set, and a stored
\* response was received.
ReplyBeforeSignal ==
  /\ \A r \in signalled : reply[r] # "none"
  /\ \A k \in Conns : rx[k] = "signal" => reply[answer[k]] # "none"
  /\ \A r \in Rids : reply[r] = "response" => r \in heard

IInv == /\ TypeOK /\ IdsIssued /\ NoLeakedEntry /\ OneCompleter
        /\ CallCovered /\ LoopsStarted /\ HeldMatches /\ ReplyBeforeSignal

=============================================================================
