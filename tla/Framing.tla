------------------------------ MODULE Framing ------------------------------
(***************************************************************************)
(* recv_packet of tcp_transport.py as the Receiver calls it: packets are   *)
(* cut from the bytes of a TCP connection, a header at a time, and a byte  *)
(* that cannot begin a header is skipped.  The socket has a timeout, which *)
(* the Receiver takes for "nothing came": what was read of a packet by     *)
(* then is lost.                                                           *)
(*                                                                         *)
(* A header is abstracted to four bytes instead of 16: the first byte, the *)
(* class and type, the payload size, and the request id, which stands for  *)
(* the flag behind it too.  Size, id and payload may hold any byte.        *)
(*                                                                         *)
(* The second part is the other thing the console puts together of pieces: *)
(* the pictures of a camera, from their datagrams.                         *)
(***************************************************************************)
EXTENDS Integers, Sequences, FiniteSets, SequencesExt

CONSTANTS Magic,        \* proto.MAGIC
          Valid,        \* what VALID_MSG_CLASSES and VALID_MSG_TYPES accept
          MaxSize,      \* the largest payload_size accepted
          Streams,      \* the sequences of packets a simulator may send
          MaxTimeouts   \* bound on the timeouts of a behaviour

HeaderSize == 4
\* A packet is its request id, followed by its payload.
ASSUME FramingAssumption ==
  /\ Magic \in Nat /\ Valid \subseteq Nat /\ Valid # {} /\ MaxSize \in Nat /\ MaxTimeouts \in Nat
  /\ Streams \subseteq Seq(Seq(Nat))
  /\ \A s \in Streams : \A k \in DOMAIN s : Len(s[k]) \in 1..(MaxSize + 1)

VARIABLES
  packets,    \* the packets of this connection
  sent,       \* how many bytes of the connection have arrived
  offset,     \* how many have been taken from the socket
  buf,        \* the header and payload bytes of the packet being read
  delivered,  \* the packets recv_packet has returned
  cuts,       \* history: how many bytes had been taken at each timeout
  timeouts    \* how many timeouts there were

frameVars == <<packets, sent, offset, buf, delivered, cuts, timeouts>>

\* The bytes of a packet, and of the whole connection (external: the simulator
\* sends what build_header and a payload make).
Kind == CHOOSE v \in Valid : TRUE
Bytes(packet) == <<Magic, Kind, Len(packet) - 1>> \o packet
Connection == FlattenSeq([k \in DOMAIN packets |-> Bytes(packets[k])])
Begin(k) == Len(FlattenSeq([j \in 1..(k - 1) |-> Bytes(packets[j])]))
End(k) == Begin(k) + Len(Bytes(packets[k]))

FramingInit ==
  /\ packets \in Streams /\ sent = 0 /\ offset = 0 /\ buf = << >>
  /\ delivered = << >> /\ cuts = {} /\ timeouts = 0

\* The network delivers the next byte.
Arrive ==
  /\ sent < Len(Connection) /\ sent' = sent + 1
  /\ UNCHANGED <<packets, offset, buf, delivered, cuts, timeouts>>

\* recv_header_synced: the header is accepted or dropped as a whole.
Accepted(header) == header[2] \in Valid /\ header[3] <= MaxSize
Complete(bytes) == Len(bytes) >= HeaderSize /\ Len(bytes) = HeaderSize + bytes[3]

\* The next byte is read by recv_exact: skipped, or part of a header, or of a
\* payload; a complete packet is returned.
ReadByte ==
  LET byte == Connection[offset + 1]
      next == IF buf = << >> /\ byte # Magic THEN << >> ELSE Append(buf, byte)
  IN /\ offset < sent /\ offset' = offset + 1
     /\ IF Len(next) = HeaderSize /\ ~Accepted(next) THEN buf' = << >> /\ UNCHANGED delivered
        ELSE IF Complete(next)
        THEN buf' = << >> /\ delivered' = Append(delivered, SubSeq(next, HeaderSize, Len(next)))
        ELSE buf' = next /\ UNCHANGED delivered
     /\ UNCHANGED <<packets, sent, cuts, timeouts>>

\* Mutant: what was read of a payload by then is returned.
TimeoutShort ==
  /\ offset = sent /\ timeouts < MaxTimeouts /\ timeouts' = timeouts + 1
  /\ buf' = << >>
  /\ delivered' = IF Len(buf) < HeaderSize THEN delivered
                  ELSE Append(delivered, SubSeq(buf, HeaderSize, Len(buf)))
  /\ cuts' = cuts \cup {offset}
  /\ UNCHANGED <<packets, sent, offset>>

\* socket.timeout: nothing more has arrived for five seconds.
Timeout ==
  /\ offset = sent /\ timeouts < MaxTimeouts /\ timeouts' = timeouts + 1
  /\ buf' = << >>
  /\ cuts' = cuts \cup {offset}
  /\ UNCHANGED <<packets, sent, offset, delivered>>

FramingNext == Arrive \/ ReadByte \/ Timeout
FramingSpec == FramingInit /\ [][FramingNext]_frameVars

-----------------------------------------------------------------------------
(* Properties.                                                             *)

\* The packets a timeout has cut in two.
Torn == {k \in DOMAIN packets : \E t \in cuts : Begin(k) < t /\ t < End(k)}

\* No byte of a packet behind a timeout in it is the first byte of a header: no
\* byte of the payload, and of the header none of the size and the request id.
Clean == \A k \in DOMAIN packets : \A t \in cuts :
           Begin(k) < t => \A i \in (t + 1)..End(k) : Connection[i] # Magic

\* The packets that no timeout has cut and whose bytes have been read.
Uncut(k) == k \notin Torn /\ End(k) <= offset
UncutUpTo ==
  LET upTo[k \in 0..Len(packets)] ==
        IF k = 0 THEN << >> ELSE IF Uncut(k) THEN Append(upTo[k - 1], packets[k]) ELSE upTo[k - 1]
  IN upTo

\* The stream is read as it was written, whatever bytes it holds.  A timeout costs
\* the packet it cuts and no other: once their bytes have been read, every other
\* packet has been returned, and nothing else, unless what was left of a cut
\* packet, of its header or its payload, holds the first byte of a header.
StreamKept == Clean => delivered = UncutUpTo[Len(packets)]

-----------------------------------------------------------------------------
(***************************************************************************)
(* How a camera receiver (RGB, depth, semantic and instance, boxes) puts   *)
(* the datagrams of a picture together: _is_chunked, _handle_chunked and   *)
(* _AssemblyState, the same in the four modules.  A chunk stands for the   *)
(* picture it is of.  Unlike the LiDAR receiver it delivers whole pictures *)
(* only.                                                                   *)
(***************************************************************************)
CONSTANTS Totals,      \* the chunks of each picture the simulator sends
          PacketIds,   \* its packet id: a simulator started anew counts anew
          MaxTwice     \* bound on the datagrams that arrive twice
ASSUME ChunkAssumption == /\ Totals \in Seq(Nat \ {0}) /\ PacketIds \in Seq(Nat \ {0})
                          /\ Len(Totals) = Len(PacketIds) /\ MaxTwice \in Nat

VARIABLES
  path,         \* "ordered" or "any": the network
  toSend,       \* the datagrams still to be sent, in order
  onTheWay,     \* those that were sent and may arrive
  chunksHere,   \* those that arrived
  twice,        \* how many arrived a second time
  asm,          \* _AssemblyState: packet id, number of chunks, the chunks; is it older than 5 s?
  given,        \* the pictures delivered, each as the sequence of its chunks
  waited        \* history: did 5 s pass during an assembly?

chunkVars == <<path, toSend, onTheWay, chunksHere, twice, asm, given, waited>>

Pics == DOMAIN Totals
ChunksOf(f) == {<<f, k>> : k \in 0..(Totals[f] - 1)}
NoAssembly == [id |-> 0, total |-> 0, chunks |-> << >>, old |-> FALSE]
\* The chunks of a picture in a row; a chunk stands for its picture.
WholePicture(f) == [k \in 1..Totals[f] |-> f]

\* The datagrams of the pictures from f on.
Datagrams[f \in 1..(Len(Totals) + 1)] ==
  IF f > Len(Totals) THEN << >>
  ELSE [k \in 1..Totals[f] |-> <<f, k - 1>>] \o Datagrams[f + 1]

ChunkInit ==
  /\ path \in {"ordered", "any"}
  /\ toSend = Datagrams[1] /\ onTheWay = {} /\ chunksHere = {} /\ twice = 0
  /\ asm = NoAssembly /\ given = << >> /\ waited = FALSE

SendChunk ==
  /\ toSend # << >> /\ (path = "ordered" => onTheWay = {})
  /\ onTheWay' = onTheWay \cup {Head(toSend)} /\ toSend' = Tail(toSend)
  /\ UNCHANGED <<path, chunksHere, twice, asm, given, waited>>
LoseChunk ==
  /\ \E d \in onTheWay : onTheWay' = onTheWay \ {d}
  /\ UNCHANGED <<path, toSend, chunksHere, twice, asm, given, waited>>

\* With a chunk, what is assembled; [given] holds a picture when it is whole.
Filled(a, k, f) ==
  LET chunks == [j \in DOMAIN a.chunks \cup {k} |-> IF j = k THEN f ELSE a.chunks[j]]
      full   == Cardinality(DOMAIN chunks) >= a.total
  IN [asm |-> IF full THEN NoAssembly ELSE [a EXCEPT !.chunks = chunks],
      picture |-> IF full /\ DOMAIN chunks = 0..(a.total - 1)
                  THEN <<[j \in 1..a.total |-> chunks[j - 1]]>> ELSE << >>]

\* Mutant: the chunks of the picture before are kept.
HandleKeeping(f, k) ==
  LET here == IF asm.id = PacketIds[f] THEN asm
              ELSE [asm EXCEPT !.id = PacketIds[f], !.total = Totals[f], !.old = FALSE]
      next == Filled(here, k, f)
  IN IF here.old THEN asm' = NoAssembly /\ UNCHANGED given
     ELSE asm' = next.asm /\ given' = given \o next.picture

\* _handle_chunked: another packet id discards what there is; too old an
\* assembly is discarded with the chunk that finds it.
Handle(f, k) ==
  LET here == IF asm.id = PacketIds[f] THEN asm
              ELSE [NoAssembly EXCEPT !.id = PacketIds[f], !.total = Totals[f]]
      next == Filled(here, k, f)
  IN IF here.old THEN asm' = NoAssembly /\ UNCHANGED given
     ELSE asm' = next.asm /\ given' = given \o next.picture

ChunkArrives ==
  /\ \E d \in onTheWay :
       /\ Handle(d[1], d[2]) /\ chunksHere' = chunksHere \cup {d}
       /\ \/ onTheWay' = onTheWay \ {d} /\ UNCHANGED twice
          \/ path = "any" /\ twice < MaxTwice /\ twice' = twice + 1 /\ UNCHANGED onTheWay
  /\ UNCHANGED <<path, toSend, waited>>
AssemblyAges ==
  /\ asm.id # 0 /\ ~asm.old /\ asm' = [asm EXCEPT !.old = TRUE] /\ waited' = TRUE
  /\ UNCHANGED <<path, toSend, onTheWay, chunksHere, twice, given>>

ChunkNext == SendChunk \/ LoseChunk \/ ChunkArrives \/ AssemblyAges
ChunkSpec == ChunkInit /\ [][ChunkNext]_chunkVars

-----------------------------------------------------------------------------
(* Properties.                                                             *)

Unique(f) == \A g \in Pics : PacketIds[g] = PacketIds[f] => g = f

\* What is delivered is one picture, whole and in order; only pictures of one
\* packet id can be mixed, and only if the id was used twice.
NoMixture ==
  \A n \in DOMAIN given : \E f \in Pics :
    \/ given[n] = WholePicture(f)
    \/ ~Unique(f) /\ \A k \in DOMAIN given[n] : PacketIds[given[n][k]] = PacketIds[f]

\* On a network that keeps the order, a lost chunk costs no picture but its
\* own: all pictures that arrived whole are delivered, and once, unless the
\* assembly waited, or the picture that arrived before had the same id.
Before(f) == {g \in Pics : g < f /\ ChunksOf(g) \cap chunksHere # {}}
AfterATwin(f) == \E g \in Before(f) : PacketIds[g] = PacketIds[f] /\ \A h \in Before(f) : h <= g
LossIsLocal ==
  path = "ordered" /\ ~waited =>
    \A f \in Pics : ChunksOf(f) \subseteq chunksHere /\ ~AfterATwin(f) =>
      Cardinality({n \in DOMAIN given : given[n] = WholePicture(f)}) = 1

PicturesWhole == NoMixture /\ LossIsLocal

\* What the simulator sends in pieces is put together as it was: the packets of a
\* TCP connection from its bytes, the pictures of a camera from their datagrams.
PiecesJoined == StreamKept /\ PicturesWhole
=============================================================================
