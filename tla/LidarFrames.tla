---------------------------- MODULE LidarFrames -----------------------------
(***************************************************************************)
(* LidarReceiver: a LiDAR frame arrives as numbered UDP chunks, which are  *)
(* assembled until they are complete, until a chunk of another frame comes *)
(* or until they are too old; whatever was collected is then published,    *)
(* as the whole points that lie inside the received runs of bytes.         *)
(*                                                                         *)
(* A frame is its number (packet_id).  Its payload is a header, Width      *)
(* points of Stride bytes and one more byte; bytes are known by position,  *)
(* so a point is right when it is read from its own position.              *)
(***************************************************************************)
EXTENDS Integers, Sequences, FiniteSets, Functions

CONSTANTS Sizes,     \* for each frame, in order, the sizes of its chunks
          Width,     \* for each frame the number of points it reports
          Plain,     \* the frames sent as one datagram without chunk header
          Header,    \* bytes of the header
          Stride,    \* bytes of a point
          MaxPoints, \* max_points: points shown of a frame
          MaxDatagrams  \* bound on the datagrams that arrive

Frames       == DOMAIN Sizes
Size(f, i)   == Sizes[f][i + 1]
LastIndex(f) == Len(Sizes[f]) - 1
Chunks(f)    == 0..LastIndex(f)
\* The position of the first byte of chunk i.
Starts(f)    == LET at[i \in 0..Len(Sizes[f])] == IF i = 0 THEN 0 ELSE at[i - 1] + Size(f, i - 1) IN at
Start(f, i)  == Starts(f)[i]

ASSUME LidarAssumption ==
  /\ Stride \in Nat \ {0} /\ Header \in Nat \ {0} /\ MaxPoints \in Nat
  /\ MaxDatagrams \in Nat /\ Plain \subseteq Frames /\ Sizes \in Seq(Seq(Nat \ {0}))
  /\ \A f \in Frames :
       /\ LastIndex(f) >= 0 /\ Width[f] \in Nat
       /\ Start(f, LastIndex(f) + 1) = Header + Width[f] * Stride + 1

VARIABLES
  frame, chunks,  \* _AssemblyState: packet_id (0: None), the chunks' indices
  published,      \* the packets given to on_packet, in order
  network,        \* what this behaviour's network may do to datagrams
  arrived,        \* the chunks that have arrived, <<frame, index>>
  datagrams,      \* how many datagrams have arrived
  aged            \* the frames an assembly of which was too old

vars == <<frame, chunks, published, network, arrived, datagrams, aged>>

TypeOK ==
  /\ frame \in Frames \cup {0}
  /\ IF frame = 0 THEN chunks = {} ELSE chunks \subseteq Chunks(frame)
  /\ \A n \in DOMAIN published :
       LET p == published[n] IN
       /\ p.frame \in Frames /\ p.chunks \subseteq Chunks(p.frame)
       /\ p.points \subseteq (0..(Width[p.frame] - 1)) \X Nat
  /\ network \in {"ordered", "reordering", "duplicating"}
  /\ \A c \in arrived : c[1] \in Frames /\ c[2] \in Chunks(c[1])
  /\ datagrams \in 0..MaxDatagrams
  /\ aged \subseteq Frames

Init ==
  /\ frame = 0 /\ chunks = {} /\ published = << >>
  /\ network \in {"ordered", "reordering", "duplicating"}
  /\ arrived = {} /\ datagrams = 0 /\ aged = {}

-----------------------------------------------------------------------------
(* _chunk_runs and _parse_runs.                                            *)

\* The received chunks whose position is taken as known: all of them if they
\* have the size of chunk 0 (the last may differ), or else the prefix without
\* a gap in which they have.
UsedChunks(f, got) ==
  LET asChunk0(i) == i = LastIndex(f) \/ Size(f, i) = Size(f, 0)
  IN IF 0 \notin got THEN {}
     ELSE IF \A i \in got : asChunk0(i) THEN got
     ELSE {i \in got : \A k \in 0..i : k \in got /\ asChunk0(k)}

\* A run is a maximal block of consecutive chunks; its offset is computed from
\* the index of its first chunk and the size of chunk 0.
Run(f, i, used) ==
  LET end == CHOOSE k \in used : i <= k /\ i..k \subseteq used /\ k + 1 \notin used
  IN [first |-> i, offset |-> i * Size(f, 0), length |-> Start(f, end + 1) - Start(f, i)]
Runs(f, got) ==
  LET used == UsedChunks(f, got)
  IN {Run(f, i, used) : i \in {k \in used : k - 1 \notin used}}

\* Mutant: the point that straddles the start of a run is not skipped.
RunPointsFloor(f, run) ==
  LET lo    == IF run.offset > Header THEN run.offset ELSE Header
      first == (lo - Header) \div Stride
      shown == IF Width[f] < MaxPoints THEN Width[f] ELSE MaxPoints
      whole == (run.offset + run.length - Header) \div Stride
      last  == IF whole < shown THEN whole ELSE shown
  IN first..(last - 1)

\* The whole points inside a run.
RunPoints(f, run) ==
  LET lo    == IF run.offset > Header THEN run.offset ELSE Header
      first == -((-(lo - Header)) \div Stride)
      shown == IF Width[f] < MaxPoints THEN Width[f] ELSE MaxPoints
      whole == (run.offset + run.length - Header) \div Stride
      last  == IF whole < shown THEN whole ELSE shown
  IN first..(last - 1)

\* A recovered point, with the position in the frame its bytes come from.
Recovered(f, run) ==
  {<<j, Header + j * Stride - run.offset + Start(f, run.first)>> : j \in RunPoints(f, run)}

\* No packet without the whole header in the run that starts at 0.
Parsed(f, got) ==
  IF \E run \in Runs(f, got) : run.offset = 0 /\ run.length >= Header
  THEN <<[frame |-> f, chunks |-> got,
          points |-> UNION {Recovered(f, run) : run \in Runs(f, got)}]>>
  ELSE << >>

-----------------------------------------------------------------------------
(* _handle_chunked and _deliver.                                           *)

\* _flush_partial
Flushed == IF chunks = {} THEN << >> ELSE Parsed(frame, chunks)

Arrives(f, i) ==
  /\ datagrams < MaxDatagrams /\ datagrams' = datagrams + 1
  /\ network # "duplicating" => <<f, i>> \notin arrived
  /\ network = "ordered" =>
       \A c \in arrived : c[1] < f \/ (c[1] = f /\ c[2] < i)
  /\ arrived' = arrived \cup {<<f, i>>}
  /\ UNCHANGED network

\* The chunk joins the assembly of got chunks; if that completes it, the
\* frame is published and the assembly reset.
Join(f, i, got, before) ==
  IF got \cup {i} = Chunks(f)
  THEN /\ published' = published \o before \o Parsed(f, got \cup {i})
       /\ frame' = 0 /\ chunks' = {}
  ELSE /\ published' = published \o before
       /\ frame' = f /\ chunks' = got \cup {i}

\* A chunk of another frame ends the current assembly.
StartFrame(f, i) ==
  /\ f \notin Plain /\ frame # f /\ Arrives(f, i)
  /\ Join(f, i, {}, Flushed)
  /\ UNCHANGED aged

AddChunk(f, i) ==
  /\ frame = f /\ Arrives(f, i)
  /\ Join(f, i, chunks, << >>)
  /\ UNCHANGED aged

\* Mutant: the partial frame is published and the assembly goes on.
TooOldKept(f, i) ==
  /\ frame = f /\ Arrives(f, i)
  /\ published' = published \o Flushed
  /\ chunks' = chunks \cup {i} /\ aged' = aged \cup {f}
  /\ UNCHANGED frame

\* An assembly older than the timeout is published and the chunk dropped.
TooOld(f, i) ==
  /\ frame = f /\ Arrives(f, i)
  /\ published' = published \o Flushed
  /\ frame' = 0 /\ chunks' = {} /\ aged' = aged \cup {f}

\* A datagram without a chunk header is a frame of its own.
Deliver(f) ==
  /\ f \in Plain /\ Arrives(f, 0)
  /\ published' = published \o Parsed(f, {0})
  /\ UNCHANGED <<frame, chunks, aged>>

Next == \E f \in Frames :
  \/ Deliver(f)
  \/ \E i \in Chunks(f) : StartFrame(f, i) \/ AddChunk(f, i) \/ TooOld(f, i)

Spec == Init /\ [][Next]_vars

-----------------------------------------------------------------------------
(* Properties.                                                             *)

\* The bytes of point j lie in chunks that have been received.
Whole(f, got, j) ==
  \A b \in (Header + j * Stride)..(Header + (j + 1) * Stride - 1) :
    \E i \in got : Start(f, i) <= b /\ b < Start(f, i + 1)
HeaderReceived(f, got) ==
  \A b \in 0..(Header - 1) : \E i \in got : Start(f, i) <= b /\ b < Start(f, i + 1)

Uniform(f) == \A i \in Chunks(f) \ {LastIndex(f)} : Size(f, i) = Size(f, 0)

\* Every point of a packet is read from its own position in the frame, as long
\* as each chunk that is missing below a received one has the size of chunk 0;
\* and when the chunks have one size, the packet has every point, up to
\* max_points, of which all bytes were received (_chunk_runs, _parse_runs).
Right(p) == \A pt \in p.points : pt[2] = Header + pt[1] * Stride
AllPoints(p) ==
  {pt[1] : pt \in p.points} =
    {j \in 0..(Width[p.frame] - 1) : j < MaxPoints /\ Whole(p.frame, p.chunks, j)}
PointsRecovered ==
  \A n \in DOMAIN published :
    LET p == published[n]
        missing == {i \in Chunks(p.frame) \ p.chunks : \E k \in p.chunks : i < k}
    IN /\ (\A i \in missing : Size(p.frame, i) = Size(p.frame, 0)) => Right(p)
       /\ Uniform(p.frame) => AllPoints(p)

\* Unless the network duplicates datagrams, no chunk is published twice.
NoChunkTwice ==
  network # "duplicating" =>
    \A m, n \in DOMAIN published :
      m # n /\ published[m].frame = published[n].frame
        => published[m].chunks \cap published[n].chunks = {}

\* The inductive invariant behind it: the chunks published and assembled have
\* arrived, and what is assembled is in no packet.
Fine(packets, got) ==
  /\ packets \in Seq(Range(packets))
  /\ \A n \in DOMAIN packets : \A i \in packets[n].chunks : <<packets[n].frame, i>> \in got
  /\ \A m, n \in DOMAIN packets :
       m # n /\ packets[m].frame = packets[n].frame
         => packets[m].chunks \cap packets[n].chunks = {}
Apart(packets, f, is) ==
  \A n \in DOMAIN packets : packets[n].frame = f => packets[n].chunks \cap is = {}
IInv ==
  network # "duplicating" =>
    /\ Fine(published, arrived)
    /\ Apart(published, frame, chunks)
    /\ \A i \in chunks : <<frame, i>> \in arrived

\* With a network that keeps the order, and unless it was too old, a frame is
\* published once, with every chunk of it that arrived, as soon as it is
\* complete or another frame starts, if its header arrived (_handle_chunked).
Got(f) == {i \in Chunks(f) : <<f, i>> \in arrived}
PublishedAsReceived ==
  network = "ordered" =>
    \A f \in Frames \ (Plain \cup aged) :
      LET packets == {n \in DOMAIN published : published[n].frame = f} IN
      /\ f = frame => packets = {} /\ Got(f) # Chunks(f)
      /\ f # frame /\ Uniform(f) /\ HeaderReceived(f, Got(f)) => Cardinality(packets) = 1
      /\ \A n \in packets : published[n].chunks = Got(f)

\* What is published is what was received: whole, once, with right points.
FramesKept == PointsRecovered /\ PublishedAsReceived
=============================================================================
