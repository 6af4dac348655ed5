---------------------------- MODULE ProtoClient ----------------------------
(***************************************************************************)
(* ProtoClient of proto_client.py, used by one thread: call() sends a      *)
(* request and reads until its answer comes, send() only sends, receive()  *)
(* reads until the answer to one of the sent requests comes.  Each read    *)
(* has the socket's timeout; one inside a frame leaves the client in the   *)
(* middle of the stream, where what it reads next is no header (that it    *)
(* looks like one is left out).                                            *)
(*                                                                         *)
(* The simulator answers each request when it finishes, in any order, and  *)
(* sends notifications in between.  A request is its id; of a frame, its   *)
(* class, its id and whether the result is success matter.                 *)
(***************************************************************************)
EXTENDS Naturals, Sequences, FiniteSets

CONSTANTS MaxRequests,    \* bound on the requests of a behaviour
          MaxNotes,       \* bound on the notifications on the wire at a time
          MaxConnections  \* bound on the connections

ASSUME ProtoAssumption == MaxRequests \in Nat /\ MaxNotes \in Nat /\ MaxConnections \in Nat

Ids == 1..MaxRequests
NoId == 0

VARIABLES
  socket,     \* "none", "open", or "ended" by the peer
  schemaLoaded,     \* opcodes is not empty: load_schema() succeeded
  nextId,     \* _next_request_id
  owed,       \* _pending: sent by send() and not answered yet
  wire,       \* the frames the simulator has sent, in order
  here, begun,  \* how many of them have arrived, and has a part of the next?
  synced,     \* is the next byte the client reads the first of a frame?
  asked,      \* the requests the simulator works on
  client,     \* "idle", "schema" and "info" in load_schema(), "call", "receive"
  calling,    \* the request that is waited for
  returned,   \* history: what was returned, <<request, id of its answer>>
  gone,       \* history: owed answers a call() skipped, or of an old connection
  connections

wireVars == <<wire, here, begun, synced, asked>>
protoVars == <<socket, schemaLoaded, nextId, owed, wireVars, client, calling, returned, gone, connections>>

ProtoTypeOK ==
  /\ socket \in {"none", "open", "ended"} /\ schemaLoaded \in BOOLEAN /\ nextId \in 1..(MaxRequests + 1)
  /\ owed \subseteq Ids /\ asked \subseteq Ids /\ gone \subseteq Ids
  /\ here \in 0..Len(wire) /\ begun \in BOOLEAN /\ synced \in BOOLEAN
  /\ client \in {"idle", "schema", "info", "call", "receive"}
  /\ calling \in Ids \cup {NoId} /\ returned \subseteq Ids \X Ids

ProtoInit ==
  /\ socket = "none" /\ schemaLoaded = FALSE /\ nextId = 1 /\ owed = {}
  /\ wire = << >> /\ here = 0 /\ begun = FALSE /\ synced = TRUE /\ asked = {}
  /\ client = "idle" /\ calling = NoId /\ returned = {} /\ gone = {}
  /\ connections = 0

-----------------------------------------------------------------------------
(* The caller's side.                                                      *)

\* connect() starts a new stream; _pending keeps what it has.
OpenStream ==
  /\ client = "idle" /\ socket = "none" /\ connections < MaxConnections
  /\ connections' = connections + 1 /\ socket' = "open"
  /\ wire' = << >> /\ here' = 0 /\ begun' = FALSE /\ synced' = TRUE /\ asked' = {}
  /\ gone' = gone \cup owed
  /\ UNCHANGED <<schemaLoaded, nextId, owed, client, calling, returned>>

CloseStream ==
  /\ client = "idle" /\ socket # "none" /\ socket' = "none"
  /\ UNCHANGED <<schemaLoaded, nextId, owed, wireVars, client, calling, returned, gone, connections>>

\* _send_frame takes the id before it sends.  Once the peer has ended the
\* connection the bytes go nowhere, or it raises.
Left(n) == nextId + n <= MaxRequests + 1
SendFrame(then) ==
  /\ nextId' = nextId + 1
  /\ \/ client' = then /\ calling' = nextId
        /\ asked' = IF socket = "open" THEN asked \cup {nextId} ELSE asked
     \/ socket = "ended" /\ client' = "idle" /\ calling' = NoId /\ UNCHANGED asked

LoadSchema ==
  /\ Left(2) /\ client = "idle" /\ socket # "none" /\ SendFrame("schema")
  /\ UNCHANGED <<socket, schemaLoaded, owed, wire, here, begun, synced, returned, gone, connections>>

Call ==
  /\ Left(1) /\ client = "idle" /\ socket # "none" /\ schemaLoaded /\ SendFrame("call")
  /\ UNCHANGED <<socket, schemaLoaded, owed, wire, here, begun, synced, returned, gone, connections>>

\* send() notes the request once it is sent.
Send ==
  /\ Left(1) /\ client = "idle" /\ socket # "none" /\ schemaLoaded /\ nextId' = nextId + 1
  /\ \/ owed' = owed \cup {nextId} /\ asked' = IF socket = "open" THEN asked \cup {nextId} ELSE asked
     \/ socket = "ended" /\ UNCHANGED <<owed, asked>>
  /\ UNCHANGED <<socket, schemaLoaded, wire, here, begun, synced, client, calling, returned, gone, connections>>

Receive ==
  /\ client = "idle" /\ socket # "none" /\ owed # {} /\ client' = "receive"
  /\ UNCHANGED <<socket, schemaLoaded, nextId, owed, wireVars, calling, returned, gone, connections>>

-----------------------------------------------------------------------------
(* Reading: _recv_packet and the loops of request() and receive().         *)

Reading == client # "idle"
Next1 == Head(wire)
Popped == wire' = Tail(wire) /\ here' = here - 1 /\ UNCHANGED <<begun, synced>>
CanRead == Reading /\ socket # "none" /\ synced /\ here > 0

\* Mutant: the answer to any request is taken.
IsMineAnyId(frame) == frame.class = "RESP" /\ calling # NoId
IsMine(frame) == frame.class = "RESP" /\ frame.id = calling

IsOwed(frame) == frame.class = "RESP" /\ frame.id \in owed

\* Another frame is skipped, the answer to a send() by call() included.
SkipFrame ==
  /\ CanRead /\ IF client = "receive" THEN ~IsOwed(Next1) ELSE ~IsMine(Next1)
  /\ Popped /\ gone' = gone \cup ({Next1.id} \cap owed)
  /\ UNCHANGED <<socket, schemaLoaded, nextId, owed, asked, client, calling, returned, connections>>

\* The answer to call(), or to the first request of load_schema(), which goes
\* on with the second; a result that is no success raises.
TakeAnswer ==
  /\ CanRead /\ client # "receive" /\ IsMine(Next1) /\ Popped
  /\ returned' = returned \cup {<<calling, Next1.id>>}
  /\ IF client = "schema" /\ Next1.ok THEN SendFrame("info")
     ELSE client' = "idle" /\ calling' = NoId /\ UNCHANGED <<nextId, asked>>
  /\ schemaLoaded' = (schemaLoaded \/ (client = "info" /\ Next1.ok))
  /\ UNCHANGED <<socket, owed, gone, connections>>

\* The answer to a send().
TakeOwed ==
  /\ CanRead /\ client = "receive" /\ IsOwed(Next1) /\ Popped
  /\ owed' = owed \ {Next1.id} /\ returned' = returned \cup {<<Next1.id, Next1.id>>}
  /\ client' = "idle"
  /\ UNCHANGED <<socket, schemaLoaded, nextId, asked, calling, gone, connections>>

\* What reading may raise: a timeout, of select() or of the socket, in which
\* the first bytes of a frame are lost; the end of the connection; a header
\* that is none.
Stops == client' = "idle" /\ calling' = NoId
ReadTimesOut ==
  /\ Reading /\ socket = "open" /\ synced /\ here = 0 /\ Stops /\ synced' = ~begun
  /\ UNCHANGED <<socket, schemaLoaded, nextId, owed, wire, here, begun, asked, returned, gone, connections>>
ReadFails ==
  /\ Reading /\ ((socket = "ended" /\ here = 0) \/ ~synced) /\ Stops
  /\ UNCHANGED <<socket, schemaLoaded, nextId, owed, wireVars, returned, gone, connections>>

-----------------------------------------------------------------------------
(* The simulator and the network.                                          *)

Answer(r, ok) ==
  /\ socket = "open" /\ r \in asked /\ asked' = asked \ {r}
  /\ wire' = Append(wire, [class |-> "RESP", id |-> r, ok |-> ok])
  /\ UNCHANGED <<socket, schemaLoaded, nextId, owed, here, begun, synced, client, calling, returned, gone, connections>>
Notify2 ==
  /\ socket = "open" /\ Cardinality({k \in DOMAIN wire : wire[k].class = "NOTI"}) < MaxNotes
  /\ wire' = Append(wire, [class |-> "NOTI", id |-> NoId, ok |-> TRUE])
  /\ UNCHANGED <<socket, schemaLoaded, nextId, owed, here, begun, synced, asked, client, calling, returned, gone, connections>>

\* A frame arrives in two parts.
ArriveSome ==
  /\ here < Len(wire) /\ begun' = ~begun
  /\ here' = IF begun THEN here + 1 ELSE here
  /\ UNCHANGED <<socket, schemaLoaded, nextId, owed, wire, synced, asked, client, calling, returned, gone, connections>>

\* The peer ends the connection; frames that have not arrived are lost.
PeerEnds ==
  /\ socket = "open" /\ socket' = "ended" /\ wire' = SubSeq(wire, 1, here) /\ begun' = FALSE
  /\ asked' = {}
  /\ UNCHANGED <<schemaLoaded, nextId, owed, here, synced, client, calling, returned, gone, connections>>

ReadStep == SkipFrame \/ TakeAnswer \/ TakeOwed \/ ReadTimesOut \/ ReadFails
ProtoNext ==
  \/ OpenStream \/ CloseStream \/ LoadSchema \/ Call \/ Send \/ Receive \/ ReadStep
  \/ \E r \in Ids, ok \in BOOLEAN : Answer(r, ok)
  \/ Notify2 \/ ArriveSome \/ PeerEnds

\* A read comes to an end: it has a timeout.
ProtoSpec == ProtoInit /\ [][ProtoNext]_protoVars /\ WF_protoVars(ReadStep)

-----------------------------------------------------------------------------
(* Properties.                                                             *)

\* What call() and receive() return is the answer to the request they return
\* it for, however late the answers to requests that timed out.
AnswersMatch == \A pair \in returned : pair[1] = pair[2]

\* While the connection is up and in step, receive() can be answered: each owed
\* request is with the simulator or its answer on the wire, but for those a
\* call() skipped and those of an earlier connection; none was returned.
OwedIsComing ==
  /\ owed \cap {pair[1] : pair \in returned} = {}
  /\ (socket = "open" /\ synced) => \A r \in owed \ gone :
       r \in asked \/ \E k \in DOMAIN wire : wire[k].id = r

\* Each answer is returned once, to the request it answers, as long as it comes.
AnswersKept == AnswersMatch /\ OwedIsComing

\* A call that was started returns or raises, unless notifications keep coming:
\* each restarts the timeout of the socket, and there is no other deadline.
NotesKeepComing == []<><<Notify2>>_protoVars
CallsReturn == (Reading ~> client = "idle") \/ NotesKeepComing
=============================================================================
