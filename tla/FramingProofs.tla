--------------------------- MODULE FramingProofs ----------------------------
(***************************************************************************)
(* Proofs about what the simulator sends in pieces: the packets of a TCP   *)
(* connection, whose bytes may pause in the middle of one, and the         *)
(* pictures of a camera, whose datagrams may be lost or come again.  Where *)
(* a packet begins and what is read up to it are recursive functions of    *)
(* its number: ReadersProofs has the lemmas on induction.                  *)
(***************************************************************************)
EXTENDS Framing, ReadersProofs

-----------------------------------------------------------------------------
(* Framing.  The packets of a TCP connection.                              *)

LEMMA Concat ==
  ASSUME NEW S, NEW x \in Seq(S), NEW y \in Seq(S)
  PROVE  /\ x \o y \in Seq(S) /\ Len(x) \in Nat /\ Len(y) \in Nat /\ Len(x \o y) = Len(x) + Len(y)
         /\ (\A i \in 1..Len(x) : i \in 1..Len(x \o y) /\ (x \o y)[i] = x[i])
         /\ (\A i \in 1..Len(y) : Len(x) + i \in 1..Len(x \o y) /\ (x \o y)[Len(x) + i] = y[i])
  OBVIOUS
LEMMA ConcatEmpty ==
  ASSUME NEW S, NEW x \in Seq(S)
  PROVE  << >> \o x = x /\ x \o << >> = x
  OBVIOUS

\* The first n sequences of b one after the other.
UpTo(b, n) == FlattenSeq([j \in 1..n |-> b[j]])
\* h is what they are for every n.
Joined(h, b, S) ==
  /\ h[0] = << >>
  /\ \A k \in Nat : h[k] \in Seq(S) /\ b[k + 1] \in Seq(S) /\ h[k + 1] = h[k] \o b[k + 1]

LEMMA JoinedIs ==
  ASSUME NEW S, NEW b, \A k \in Nat : b[k] \in Seq(S)
  PROVE  \E h : Joined(h, b, S)
<1>. DEFINE Q == Seq(S)
            step == [k \in Nat |-> [x \in Q |-> x \o b[k]]]
<1>1. StepsIn(Q, << >>, step)
  <2>1. << >> \in Q
    OBVIOUS
  <2>2. ASSUME NEW k \in Nat, NEW x \in Q PROVE step[k][x] = x \o b[k] /\ x \o b[k] \in Q
    BY Concat
  <2>3. \A k \in Nat \ {0} : \A x \in Q : step[k][x] \in Q
    <3>. HIDE DEF step
    <3>. QED  BY <2>2
  <2>. HIDE DEF Q, step
  <2>. QED  BY <2>1, <2>3 DEF StepsIn
<1>2. ASSUME NEW k \in Nat, NEW x \in Q PROVE step[k][x] = x \o b[k]
  OBVIOUS
<1>. HIDE DEF step, Q
<1>3. PICK q, e, st : q = Q /\ e = << >> /\ st = step
  OBVIOUS
<1>4. StepsIn(q, e, st)
  BY <1>1, <1>3
<1>5. PICK h \in [Nat -> q] : h[0] = e /\ \A n \in Nat : h[n + 1] = st[n + 1][h[n]]
  BY ONLY <1>4, Recursion
<1>6. \A k \in Nat : k + 1 \in Nat
  OBVIOUS
<1>7. ASSUME NEW k \in Nat PROVE h[k] \in Seq(S) /\ b[k + 1] \in Seq(S) /\ h[k + 1] = h[k] \o b[k + 1]
  <2>1. h[k] \in Q
    BY Zenon, <1>5, <1>3
  <2>2. step[k + 1][h[k]] = h[k] \o b[k + 1]
    BY Zenon, <1>2, <1>6, <2>1
  <2>. QED  BY Zenon, <1>3, <1>5, <1>6, <2>1, <2>2 DEF Q
<1>8. Joined(h, b, S)
  BY Zenon, <1>3, <1>5, <1>7 DEF Joined
<1>. QED  BY <1>8

LEMMA UpToIsJoined ==
  ASSUME NEW S, NEW b, NEW h, Joined(h, b, S), NEW n \in Nat
  PROVE  UpTo(b, n) = h[n]
<1>. DEFINE B == [j \in 1..n |-> b[j]]
            f == CHOOSE g : g = [i \in 1..Len(B) |-> IF i = 1 THEN B[i] ELSE g[i - 1] \o B[i]]
<1>1. \A j \in 1..n : b[j] \in Seq(S)
  <2>1. ASSUME NEW j \in 1..n PROVE b[j] \in Seq(S)
    <3>1. j - 1 \in Nat /\ (j - 1) + 1 = j
      OBVIOUS
    <3>. QED  BY Zenon, <3>1 DEF Joined
  <2>. QED  BY <2>1
<1>2. Len(B) = n /\ DOMAIN B = 1..n /\ \A j \in 1..n : B[j] = b[j]
  <2>. DEFINE Q == Seq(S)
  <2>. HIDE DEF Q
  <2>1. B \in [1..n -> Q]
    BY Zenon, <1>1 DEF Q
  <2>2. B \in Seq(Q) /\ Len(B) = n
    <3>. HIDE DEF B
    <3>. QED  BY <2>1
  <2>. QED  BY <2>2
<1>3. UpTo(b, n) = FlattenSeq(B)
  BY Zenon DEF UpTo
<1>4. CASE n = 0
  <2>1. B = << >>
    BY <1>4
  <2>2. FlattenSeq(B) = B
    <3>1. Len(B) = 0
      BY <1>2, <1>4
    <3>. HIDE DEF B
    <3>. QED  BY <3>1 DEF FlattenSeq
  <2>. HIDE DEF B
  <2>. QED  BY Zenon, <1>3, <1>4, <2>1, <2>2 DEF Joined
<1>5. CASE n # 0
  <2>1. FlattenSeq(B) = f[n]
    BY <1>2, <1>5 DEF FlattenSeq
  <2>. DEFINE g == [i \in 1..n |-> h[i]]
  <2>. HIDE DEF B
  <2>2. ASSUME NEW i \in 1..n, i # 1 PROVE h[i] = h[i - 1] \o B[i] /\ i - 1 \in 1..n
    <3>1. i - 1 \in Nat /\ (i - 1) + 1 = i /\ i - 1 \in 1..n
      BY <2>2
    <3>. QED  BY Zenon, <3>1, <1>2 DEF Joined
  <2>3. h[1] = B[1]
    <3>1. 0 \in Nat /\ 0 + 1 = 1 /\ 1 \in 1..n
      BY <1>5
    <3>2. h[1] = h[0] \o b[1] /\ h[0] = << >> /\ b[1] \in Seq(S)
      BY Zenon, <3>1 DEF Joined
    <3>3. << >> \o b[1] = b[1]
      BY Zenon, <3>2, ConcatEmpty
    <3>. QED  BY Zenon, <3>1, <3>2, <3>3, <1>2
  <2>4. g = [i \in 1..Len(B) |-> IF i = 1 THEN B[i] ELSE g[i - 1] \o B[i]]
    <3>1. ASSUME NEW i \in 1..n PROVE h[i] = IF i = 1 THEN B[i] ELSE g[i - 1] \o B[i]
      <4>1. CASE i = 1
        BY Zenon, <2>3, <4>1
      <4>2. CASE i # 1
        BY Zenon, <2>2, <4>2
      <4>. QED  BY <4>1, <4>2
    <3>. QED  BY Zenon, <3>1, <1>2
  <2>5. f = [i \in 1..Len(B) |-> IF i = 1 THEN B[i] ELSE f[i - 1] \o B[i]]
    <3>. HIDE DEF g
    <3>. QED  BY Zenon, <2>4
  <2>. HIDE DEF f, g
  <2>6. \A i \in 1..n : f[i] = IF i = 1 THEN B[i] ELSE f[i - 1] \o B[i]
    BY Zenon, <2>5, <1>2
  <2>. DEFINE T == {i \in Nat : i + 1 <= n => f[i + 1] = h[i + 1]}
  <2>7. 0 \in T
    <3>1. 1 \in 1..n /\ 0 + 1 = 1
      BY <1>5
    <3>2. f[1] = h[1]
      BY Zenon, <3>1, <2>6, <2>3
    <3>. QED  BY <3>1, <3>2
  <2>8. ASSUME NEW i \in Nat, i \in T PROVE i + 1 \in T
    <3>1. CASE (i + 1) + 1 <= n
      <4>1. (i + 1) + 1 \in 1..n /\ (i + 1) + 1 # 1 /\ ((i + 1) + 1) - 1 = i + 1 /\ i + 1 <= n
        BY <3>1
      <4>2. f[(i + 1) + 1] = f[i + 1] \o B[(i + 1) + 1]
        BY Zenon, <4>1, <2>6
      <4>3. h[(i + 1) + 1] = h[i + 1] \o B[(i + 1) + 1]
        BY Zenon, <4>1, <2>2
      <4>4. f[(i + 1) + 1] = h[(i + 1) + 1]
        BY Zenon, <2>8, <4>1, <4>2, <4>3
      <4>. QED  BY <4>4
    <3>. QED  BY <3>1
  <2>. HIDE DEF T
  <2>9. n - 1 \in Nat /\ (n - 1) + 1 = n /\ (n - 1) + 1 <= n
    BY <1>5
  <2>10. n - 1 \in T
    BY <2>7, <2>8, <2>9, Induct
  <2>11. f[(n - 1) + 1] = h[(n - 1) + 1]
    BY Zenon, <2>9, <2>10 DEF T
  <2>. QED  BY Zenon, <1>3, <2>1, <2>9, <2>11
<1>. QED  BY <1>4, <1>5

LEMMA Flattened ==
  ASSUME NEW S, NEW b, \A k \in Nat : b[k] \in Seq(S)
  PROVE  /\ UpTo(b, 0) = << >>
         /\ \A n \in Nat : UpTo(b, n) \in Seq(S) /\ b[n + 1] \in Seq(S) /\ UpTo(b, n + 1) = UpTo(b, n) \o b[n + 1]
<1>1. PICK h : Joined(h, b, S)
  BY JoinedIs
<1>2. \A n \in Nat : UpTo(b, n) = h[n]
  BY <1>1, UpToIsJoined
<1>3. 0 \in Nat /\ \A n \in Nat : n + 1 \in Nat
  OBVIOUS
<1>. QED  BY Zenon, <1>1, <1>2, <1>3 DEF Joined

\* y begins as x.
Continues(x, y) == Len(x) <= Len(y) /\ \A i \in 1..Len(x) : y[i] = x[i]
\* What was joined before stays where it is.
LEMMA JoinedBefore ==
  ASSUME NEW S, NEW b, \A k \in Nat : b[k] \in Seq(S), NEW n \in Nat, NEW k \in 0..n
  PROVE  Continues(UpTo(b, k), UpTo(b, n))
<1>. DEFINE T == {m \in Nat : Continues(UpTo(b, k), UpTo(b, k + m))}
<1>1. \A j \in Nat : UpTo(b, j) \in Seq(S) /\ b[j + 1] \in Seq(S) /\ UpTo(b, j + 1) = UpTo(b, j) \o b[j + 1]
  BY Zenon, Flattened
<1>2. k \in Nat /\ \A j \in Nat : k + j \in Nat /\ j + 1 \in Nat
  OBVIOUS
<1>3. 0 \in T
  <2>1. k + 0 = k /\ 0 \in Nat
    OBVIOUS
  <2>2. PICK x : x = UpTo(b, k)
    OBVIOUS
  <2>3. x \in Seq(S)
    BY Zenon, <1>1, <1>2, <2>2
  <2>4. Continues(x, x)
    BY <2>3 DEF Continues
  <2>. QED  BY Zenon, <2>1, <2>2, <2>4
<1>4. ASSUME NEW m \in Nat, m \in T PROVE m + 1 \in T
  <2>1. PICK j \in Nat : j = k + m /\ j + 1 = k + (m + 1)
    OBVIOUS
  <2>2. PICK x, y, z : x = UpTo(b, k) /\ y = UpTo(b, j) /\ z = b[j + 1]
    OBVIOUS
  <2>3. x \in Seq(S) /\ y \in Seq(S) /\ z \in Seq(S) /\ UpTo(b, j + 1) = y \o z
    BY Zenon, <1>1, <1>2, <2>2
  <2>4. Continues(x, y)
    BY Zenon, <1>4, <2>1, <2>2
  <2>5. Continues(x, y \o z)
    BY ONLY <2>3, <2>4, Concat DEF Continues
  <2>. QED  BY Zenon, <1>2, <2>1, <2>2, <2>3, <2>5
<1>. HIDE DEF T
<1>5. n - k \in Nat /\ k + (n - k) = n
  OBVIOUS
<1>6. n - k \in T
  BY <1>3, <1>4, <1>5, Induct
<1>7. Continues(UpTo(b, k), UpTo(b, n))
  BY Zenon, <1>5, <1>6 DEF T
<1>. QED  BY <1>7

LEMMA BehindThree ==
  ASSUME NEW q \in Seq(Nat), NEW l \in Nat, Len(q) = 3 + l
  PROVE  /\ SubSeq(q, 4, 3 + l) \in Seq(Nat) /\ Len(SubSeq(q, 4, 3 + l)) = l
         /\ \A j \in 1..l : SubSeq(q, 4, 3 + l)[j] = q[3 + j]
  OBVIOUS
\* The bytes of a packet.
LEMMA BytesAre ==
  ASSUME NEW p \in Seq(Nat), Len(p) >= 1
  PROVE  /\ Bytes(p) \in Seq(Nat) /\ Len(Bytes(p)) = 3 + Len(p)
         /\ Bytes(p)[1] = Magic /\ Bytes(p)[2] = Kind /\ Bytes(p)[3] = Len(p) - 1
         /\ \A i \in 1..Len(p) : Bytes(p)[3 + i] = p[i]
         /\ Kind \in Valid
<1>1. Kind \in Valid /\ Kind \in Nat /\ Magic \in Nat /\ Len(p) - 1 \in Nat
  <2>1. Kind \in Valid /\ Kind \in Nat /\ Magic \in Nat
    BY FramingAssumption DEF Kind
  <2>2. PICK l : l = Len(p)
    OBVIOUS
  <2>3. l \in Nat /\ l >= 1
    BY <2>2
  <2>4. l - 1 \in Nat
    BY ONLY <2>3
  <2>. QED  BY Zenon, <2>1, <2>2, <2>4
<1>2. PICK h : h = <<Magic, Kind, Len(p) - 1>>
  OBVIOUS
<1>3. h \in Seq(Nat) /\ Len(h) = 3 /\ h[1] = Magic /\ h[2] = Kind /\ h[3] = Len(p) - 1
  BY <1>1, <1>2
<1>4. Bytes(p) = h \o p
  BY <1>2 DEF Bytes
<1>5. /\ h \o p \in Seq(Nat) /\ Len(h \o p) = 3 + Len(p)
      /\ (\A i \in 1..3 : (h \o p)[i] = h[i]) /\ \A i \in 1..Len(p) : (h \o p)[3 + i] = p[i]
  <2>0. h \in Seq(Nat) /\ p \in Seq(Nat)
    BY <1>3
  <2>1. /\ h \o p \in Seq(Nat) /\ Len(h \o p) = Len(h) + Len(p)
        /\ (\A i \in 1..Len(h) : (h \o p)[i] = h[i]) /\ \A i \in 1..Len(p) : (h \o p)[Len(h) + i] = p[i]
    BY ONLY <2>0, Concat
  <2>. QED  BY Zenon, <2>1, <1>3
<1>6. 1 \in 1..3 /\ 2 \in 1..3 /\ 3 \in 1..3
  OBVIOUS
<1>7. (h \o p)[1] = Magic /\ (h \o p)[2] = Kind /\ (h \o p)[3] = Len(p) - 1
  BY Zenon, <1>3, <1>5, <1>6
<1>. QED  BY Zenon, <1>1, <1>4, <1>5, <1>7

\* Where the packets begin and end in the bytes of the connection, and what these are.
PacketCount == Len(packets)
LEMMA StreamIs ==
  ASSUME packets \in Streams
  PROVE  /\ packets \in Seq(Seq(Nat)) /\ PacketCount \in Nat /\ Connection \in Seq(Nat)
         /\ Begin(1) = 0 /\ \A k \in 1..PacketCount : Begin(k) \in Nat /\ Begin(k + 1) = End(k)
         /\ Len(Connection) = Begin(PacketCount + 1)
         /\ \A k \in 1..PacketCount : \A i \in 1..(3 + Len(packets[k])) :
              Begin(k) + i <= Len(Connection) /\ Connection[Begin(k) + i] = Bytes(packets[k])[i]
<1>1. packets \in Seq(Seq(Nat)) /\ PacketCount \in Nat /\ DOMAIN packets = 1..PacketCount
  BY FramingAssumption DEF PacketCount
<1>0. \A k \in 1..PacketCount : packets[k] \in Seq(Nat) /\ Len(packets[k]) >= 1
  BY <1>1, FramingAssumption
<1>2. Kind \in Nat /\ Magic \in Nat
  BY FramingAssumption DEF Kind
<1>3. \A p \in Seq(Nat) : Len(p) >= 1 => Bytes(p) \in Seq(Nat) /\ Len(Bytes(p)) = 3 + Len(p)
  BY Zenon, BytesAre
<1>4. PICK b : (\A k \in Nat : b[k] \in Seq(Nat)) /\ \A k \in 1..PacketCount : b[k] = Bytes(packets[k])
  <2>. DEFINE b == [k \in Nat |-> IF k \in 1..PacketCount THEN Bytes(packets[k]) ELSE << >>]
  <2>1. (\A k \in Nat : b[k] \in Seq(Nat)) /\ \A k \in 1..PacketCount : b[k] = Bytes(packets[k])
    <3>1. \A k \in 1..PacketCount : Bytes(packets[k]) \in Seq(Nat)
      BY Zenon, <1>0, <1>3
    <3>2. << >> \in Seq(Nat)
      OBVIOUS
    <3>3. 1..PacketCount \subseteq Nat
      BY <1>1
    <3>4. \A k \in Nat : b[k] = IF k \in 1..PacketCount THEN Bytes(packets[k]) ELSE << >>
      OBVIOUS
    <3>. HIDE DEF b
    <3>. QED  BY Zenon, <3>1, <3>2, <3>3, <3>4
  <2>. QED  BY <2>1
<1>5. UpTo(b, 0) = << >> /\ \A n \in Nat : UpTo(b, n) \in Seq(Nat) /\ b[n + 1] \in Seq(Nat) /\ UpTo(b, n + 1) = UpTo(b, n) \o b[n + 1]
  BY Zenon, <1>4, Flattened
<1>6. Connection = UpTo(b, PacketCount)
  <2>1. [k \in DOMAIN packets |-> Bytes(packets[k])] = [j \in 1..PacketCount |-> b[j]]
    BY Zenon, <1>1, <1>4
  <2>. QED  BY Zenon, <2>1, <1>1 DEF Connection, UpTo
<1>7. \A k \in 1..(PacketCount + 1) : Begin(k) = Len(UpTo(b, k - 1))
  <2>1. ASSUME NEW k \in 1..(PacketCount + 1) PROVE Begin(k) = Len(UpTo(b, k - 1))
    <3>1. \A j \in 1..(k - 1) : j \in 1..PacketCount
      BY <1>1
    <3>2. [j \in 1..(k - 1) |-> Bytes(packets[j])] = [j \in 1..(k - 1) |-> b[j]]
      BY Zenon, <3>1, <1>4
    <3>. QED  BY Zenon, <3>2 DEF Begin, UpTo
  <2>. QED  BY <2>1
<1>9. ASSUME NEW k \in 1..PacketCount
      PROVE  /\ Begin(k) \in Nat /\ Begin(k + 1) = End(k)
             /\ \A i \in 1..(3 + Len(packets[k])) :
                  Begin(k) + i <= Len(Connection) /\ Connection[Begin(k) + i] = Bytes(packets[k])[i]
  <2>1. k - 1 \in Nat /\ (k - 1) + 1 = k /\ k \in 1..(PacketCount + 1) /\ k + 1 \in 1..(PacketCount + 1) /\ (k + 1) - 1 = k /\ k \in 0..PacketCount
    BY <1>1
  <2>2. PICK before, own, all, p : before = UpTo(b, k - 1) /\ own = b[k] /\ all = Connection /\ p = packets[k]
    OBVIOUS
  <2>3. before \in Seq(Nat) /\ own \in Seq(Nat) /\ UpTo(b, k) = before \o own
    BY Zenon, <1>5, <2>1, <2>2
  <2>4. own = Bytes(p) /\ p \in Seq(Nat) /\ Len(p) >= 1
    BY Zenon, <1>0, <1>4, <2>2
  <2>5. Len(own) = 3 + Len(p) /\ Len(p) \in Nat
    <3>1. Len(own) = 3 + Len(p)
      BY Zenon, <2>4, <1>3
    <3>. QED  BY <3>1, <2>4
  <2>6. Begin(k) = Len(before) /\ Begin(k + 1) = Len(before \o own)
    BY Zenon, <1>7, <2>1, <2>2, <2>3
  <2>7. /\ Len(before) \in Nat /\ Len(own) \in Nat /\ Len(before \o own) = Len(before) + Len(own)
        /\ \A i \in 1..Len(own) : Len(before) + i \in 1..Len(before \o own) /\ (before \o own)[Len(before) + i] = own[i]
    BY ONLY <2>3, Concat
  <2>8. /\ Len(before \o own) <= Len(all)
        /\ \A i \in 1..Len(before \o own) : all[i] = (before \o own)[i]
    <3>1. Continues(UpTo(b, k), UpTo(b, PacketCount))
      BY Zenon, <1>1, <1>4, <2>1, JoinedBefore
    <3>2. Continues(before \o own, all)
      BY Zenon, <3>1, <1>6, <2>2, <2>3
    <3>. QED  BY <3>2 DEF Continues
  <2>9. all \in Seq(Nat) /\ Len(all) \in Nat
    <3>1. all \in Seq(Nat)
      BY Zenon, <1>1, <1>5, <1>6, <2>2
    <3>. QED  BY <3>1
  <2>10. Begin(k) \in Nat /\ Begin(k + 1) = End(k)
    <3>1. End(k) = Begin(k) + Len(own)
      BY Zenon, <2>2, <2>4 DEF End
    <3>. QED  BY <3>1, <2>5, <2>6, <2>7
  <2>11. ASSUME NEW i \in 1..(3 + Len(p))
        PROVE  Begin(k) + i <= Len(all) /\ all[Begin(k) + i] = Bytes(p)[i]
    <3>1. i \in 1..Len(own)
      BY <2>5
    <3>2. Len(before) + i \in 1..Len(before \o own) /\ (before \o own)[Len(before) + i] = own[i]
      BY Zenon, <2>7, <3>1
    <3>3. all[Len(before) + i] = own[i]
      BY Zenon, <2>8, <3>2
    <3>4. Len(before) + i <= Len(all)
      BY <2>7, <2>8, <2>9, <3>2
    <3>. QED  BY Zenon, <2>4, <2>6, <3>3, <3>4
  <2>. QED  BY Zenon, <2>2, <2>10, <2>11
<1>10. Begin(1) = 0
  <2>1. 1 \in 1..(PacketCount + 1) /\ 1 - 1 = 0
    BY <1>1
  <2>2. Begin(1) = Len(UpTo(b, 0))
    BY Zenon, <2>1, <1>7
  <2>. QED  BY <2>2, <1>5
<1>11. Len(Connection) = Begin(PacketCount + 1)
  <2>1. PacketCount + 1 \in 1..(PacketCount + 1) /\ (PacketCount + 1) - 1 = PacketCount
    BY <1>1
  <2>. QED  BY Zenon, <2>1, <1>6, <1>7
<1>12. Connection \in Seq(Nat)
  BY Zenon, <1>1, <1>5, <1>6
<1>. QED  BY Zenon, <1>1, <1>9, <1>10, <1>11, <1>12

\* f[n] holds those of the first n elements of p whose number is in W, in order.
Picks(f, p, W, N) ==
  f[0] = << >> /\ \A k \in 1..N : f[k] = IF k \in W THEN Append(f[k - 1], p[k]) ELSE f[k - 1]

PicksRunOf(g, p, W, N) ==
  g = [k \in 0..N |-> IF k = 0 THEN << >> ELSE IF k \in W THEN Append(g[k - 1], p[k]) ELSE g[k - 1]]
LEMMA PicksRun ==
  ASSUME NEW S, NEW N \in Nat, NEW p, \A k \in 1..N : p[k] \in S, NEW W
  PROVE  \E g : PicksRunOf(g, p, W, N)
<1>. DEFINE Q == Seq(S)
            step == [k \in Nat |-> [x \in Q |-> IF k \in 1..N /\ k \in W THEN Append(x, p[k]) ELSE x]]
<1>1. \A k \in Nat : \A x \in Q : step[k][x] = IF k \in 1..N /\ k \in W THEN Append(x, p[k]) ELSE x
  OBVIOUS
<1>. HIDE DEF step
<1>2. StepsIn(Q, << >>, step)
  <2>1. << >> \in Q
    OBVIOUS
  <2>2. ASSUME NEW k \in Nat, NEW x \in Q PROVE step[k][x] \in Q
    <3>1. k \in 1..N => Append(x, p[k]) \in Q
      <4>1. ASSUME NEW y \in S PROVE Append(x, y) \in Seq(S)
        OBVIOUS
      <4>. QED  BY <4>1
    <3>. HIDE DEF Q
    <3>. QED  BY Zenon, <3>1, <1>1
  <2>. HIDE DEF Q
  <2>. QED  BY <2>1, <2>2 DEF StepsIn
<1>. HIDE DEF Q
<1>3. PICK q, e, st : q = Q /\ e = << >> /\ st = step
  OBVIOUS
<1>4. StepsIn(q, e, st)
  BY <1>2, <1>3
<1>5. PICK g : RunsTo(g, q, e, N, st)
  BY ONLY <1>4, N \in Nat, RecursionUpTo
<1>6. g \in [0..N -> q] /\ g = [k \in 0..N |-> IF k = 0 THEN e ELSE st[k][g[k - 1]]]
  BY <1>5 DEF RunsTo
<1>7. \A k \in 0..N : g[k] \in Q
  BY Zenon, <1>3, <1>6
<1>8. ASSUME NEW k \in 0..N
      PROVE  (IF k = 0 THEN e ELSE st[k][g[k - 1]])
               = IF k = 0 THEN << >> ELSE IF k \in W THEN Append(g[k - 1], p[k]) ELSE g[k - 1]
  <2>1. CASE k = 0
    BY Zenon, <2>1, <1>3
  <2>2. CASE k # 0
    <3>1. k \in Nat /\ k \in 1..N /\ k - 1 \in 0..N
      BY <2>2
    <3>. QED  BY Zenon, <2>2, <3>1, <1>1, <1>3, <1>7
  <2>. QED  BY <2>1, <2>2
<1>9. g = [k \in 0..N |-> IF k = 0 THEN << >> ELSE IF k \in W THEN Append(g[k - 1], p[k]) ELSE g[k - 1]]
  BY Zenon, <1>6, <1>8
<1>. QED  BY <1>9 DEF PicksRunOf

LEMMA PicksAgree ==
  ASSUME NEW N \in Nat, NEW p, NEW V, NEW W, NEW f, NEW g, Picks(f, p, V, N), Picks(g, p, W, N),
         NEW n \in 0..N, \A k \in 1..n : k \in V <=> k \in W
  PROVE  f[n] = g[n]
<1>. DEFINE T == {k \in Nat : k <= n => f[k] = g[k]}
<1>1. 0 \in T
  BY DEF Picks
<1>2. ASSUME NEW k \in Nat, k \in T PROVE k + 1 \in T
  <2>1. CASE k + 1 <= n
    <3>1. k <= n /\ k + 1 \in 1..n /\ k + 1 \in 1..N /\ (k + 1) - 1 = k
      BY <2>1
    <3>2. f[k] = g[k]
      BY <1>2, <3>1
    <3>3. f[k + 1] = IF k + 1 \in V THEN Append(f[k], p[k + 1]) ELSE f[k]
      BY Zenon, <3>1 DEF Picks
    <3>4. g[k + 1] = IF k + 1 \in W THEN Append(g[k], p[k + 1]) ELSE g[k]
      BY Zenon, <3>1 DEF Picks
    <3>5. k + 1 \in V <=> k + 1 \in W
      BY Zenon, <3>1
    <3>6. f[k + 1] = g[k + 1]
      BY Zenon, <3>2, <3>3, <3>4, <3>5
    <3>. QED  BY <3>6
  <2>. QED  BY <2>1
<1>. HIDE DEF T
<1>3. n \in T /\ n <= n
  BY <1>1, <1>2, Induct
<1>. QED  BY Zenon, <1>3 DEF T

\* None of the later ones is picked.
LEMMA PicksNoMore ==
  ASSUME NEW N \in Nat, NEW p, NEW W, NEW f, Picks(f, p, W, N),
         NEW n \in 0..N, \A k \in (n + 1)..N : k \notin W
  PROVE  f[N] = f[n]
<1>. DEFINE T == {m \in Nat : n + m <= N => f[n + m] = f[n]}
<1>1. 0 \in T
  <2>1. n + 0 = n
    OBVIOUS
  <2>. QED  BY <2>1
<1>2. ASSUME NEW m \in Nat, m \in T PROVE m + 1 \in T
  <2>1. CASE n + (m + 1) <= N
    <3>1. PICK j \in Nat : j = n + m /\ j + 1 = n + (m + 1) /\ j + 1 \in (n + 1)..N /\ j + 1 \in 1..N /\ (j + 1) - 1 = j /\ n + m <= N
      BY <2>1
    <3>2. f[j] = f[n]
      BY <1>2, <3>1
    <3>3. f[j + 1] = IF j + 1 \in W THEN Append(f[j], p[j + 1]) ELSE f[j]
      BY Zenon, <3>1 DEF Picks
    <3>4. f[j + 1] = f[n]
      BY Zenon, <3>1, <3>2, <3>3
    <3>. QED  BY <3>1, <3>4
  <2>. QED  BY <2>1
<1>. HIDE DEF T
<1>3. N - n \in Nat /\ n + (N - n) = N /\ n + (N - n) <= N
  OBVIOUS
<1>4. N - n \in T
  BY <1>1, <1>2, <1>3, Induct
<1>. QED  BY Zenon, <1>3, <1>4 DEF T

-----------------------------------------------------------------------------
WholeSet == {k \in 1..PacketCount : Uncut(k)}

LEMMA PacketIs ==
  ASSUME packets \in Streams, NEW k \in 1..PacketCount
  PROVE  /\ packets[k] \in Seq(Nat) /\ Len(packets[k]) \in Nat
         /\ Len(packets[k]) - 1 <= MaxSize /\ Len(packets[k]) >= 1
         /\ Begin(k) \in Nat /\ Begin(k + 1) = End(k) /\ End(k) = Begin(k) + (3 + Len(packets[k]))
<1>1. k \in DOMAIN packets /\ packets[k] \in Seq(Nat)
  BY FramingAssumption DEF PacketCount
<1>2. PICK p : p = packets[k]
  OBVIOUS
<1>3. Len(p) \in 1..(MaxSize + 1)
  BY Zenon, <1>1, <1>2, FramingAssumption
<1>4. Len(p) \in Nat /\ Len(p) >= 1 /\ Len(p) - 1 <= MaxSize
  BY ONLY <1>3, FramingAssumption
<1>5. Begin(k) \in Nat /\ Begin(k + 1) = End(k)
  BY Zenon, StreamIs
<1>6. End(k) = Begin(k) + (3 + Len(p))
  BY Zenon, <1>1, <1>2, <1>4, BytesAre DEF End
<1>. QED  BY Zenon, <1>1, <1>2, <1>3, <1>4, <1>5, <1>6

WholeKept == packets \in Streams => Picks(UncutUpTo, packets, WholeSet, PacketCount)
LEMMA WholePicks == WholeKept
<1>. SUFFICES ASSUME packets \in Streams PROVE Picks(UncutUpTo, packets, WholeSet, PacketCount)
  BY DEF WholeKept
<1>1. PacketCount \in Nat /\ \A k \in 1..PacketCount : packets[k] \in Seq(Nat)
  BY StreamIs, PacketIs
<1>. DEFINE f == CHOOSE g : g = [k \in 0..Len(packets) |->
                  IF k = 0 THEN << >> ELSE IF Uncut(k) THEN Append(g[k - 1], packets[k]) ELSE g[k - 1]]
<1>2. PICK g : g = [k \in 0..PacketCount |-> IF k = 0 THEN << >> ELSE IF k \in WholeSet THEN Append(g[k - 1], packets[k]) ELSE g[k - 1]]
  <2>1. PICK n, p, S : n = PacketCount /\ p = packets /\ S = Seq(Nat)
    OBVIOUS
  <2>2. n \in Nat /\ \A k \in 1..n : p[k] \in S
    BY Zenon, <1>1, <2>1
  <2>3. PICK W : W = WholeSet
    OBVIOUS
  <2>4. \E g : PicksRunOf(g, p, W, n)
    BY ONLY <2>2, PicksRun
  <2>. QED  BY Zenon, <2>1, <2>3, <2>4 DEF PicksRunOf
<1>3. ASSUME NEW k \in 0..PacketCount
      PROVE  (IF k = 0 THEN << >> ELSE IF k \in WholeSet THEN Append(g[k - 1], packets[k]) ELSE g[k - 1])
                = IF k = 0 THEN << >> ELSE IF Uncut(k) THEN Append(g[k - 1], packets[k]) ELSE g[k - 1]
  <2>1. k = 0 \/ k \in 1..PacketCount
    BY <1>1
  <2>. QED  BY Zenon, <2>1 DEF WholeSet
<1>4. g = [k \in 0..Len(packets) |-> IF k = 0 THEN << >> ELSE IF Uncut(k) THEN Append(g[k - 1], packets[k]) ELSE g[k - 1]]
  BY Zenon, <1>2, <1>3 DEF PacketCount
<1>5. f = [k \in 0..Len(packets) |-> IF k = 0 THEN << >> ELSE IF Uncut(k) THEN Append(f[k - 1], packets[k]) ELSE f[k - 1]]
  BY Zenon, <1>4
<1>6. UncutUpTo = f
  BY DEF UncutUpTo
<1>. HIDE DEF f
<1>7. 0 \in 0..PacketCount /\ \A k \in 1..PacketCount : k \in 0..PacketCount /\ k # 0
  BY <1>1
<1>8. \A k \in 0..PacketCount : f[k] = IF k = 0 THEN << >> ELSE IF Uncut(k) THEN Append(f[k - 1], packets[k]) ELSE f[k - 1]
  BY Zenon, <1>5 DEF PacketCount
<1>9. f[0] = << >>
  BY Zenon, <1>7, <1>8
<1>10. ASSUME NEW k \in 1..PacketCount PROVE f[k] = IF k \in WholeSet THEN Append(f[k - 1], packets[k]) ELSE f[k - 1]
  BY Zenon, <1>7, <1>8 DEF WholeSet
<1>. QED  BY Zenon, <1>6, <1>9, <1>10 DEF Picks

LEMMA WholePicksAfter == WholeKept'
<1>. QED  BY WholePicks, PTL

\* A packet ends before a later one begins.
LEMMA EndsBefore ==
  ASSUME packets \in Streams, NEW j \in 1..PacketCount, NEW k \in (j + 1)..(PacketCount + 1)
  PROVE  End(j) <= Begin(k) /\ Begin(k) \in Nat
<1>1. PacketCount \in Nat
  BY StreamIs
<1>2. \A i \in 1..PacketCount : Begin(i) \in Nat /\ Begin(i + 1) = End(i) /\ Begin(i) + 3 <= End(i) /\ End(i) \in Nat
  <2>1. ASSUME NEW i \in 1..PacketCount PROVE Begin(i) \in Nat /\ Begin(i + 1) = End(i) /\ Begin(i) + 3 <= End(i) /\ End(i) \in Nat
    <3>1. PICK p : p = packets[i]
      OBVIOUS
    <3>2. Len(p) \in Nat /\ Begin(i) \in Nat /\ Begin(i + 1) = End(i) /\ End(i) = Begin(i) + (3 + Len(p))
      BY Zenon, <3>1, PacketIs
    <3>. QED  BY <3>2
  <2>. QED  BY <2>1
<1>. DEFINE T == {m \in Nat : j + (m + 1) <= PacketCount + 1 => End(j) <= Begin(j + (m + 1)) /\ Begin(j + (m + 1)) \in Nat}
<1>3. 0 \in T
  <2>1. j + (0 + 1) = j + 1
    OBVIOUS
  <2>2. End(j) <= Begin(j + 1) /\ Begin(j + 1) \in Nat
    BY <1>2
  <2>. QED  BY <2>1, <2>2
<1>4. ASSUME NEW m \in Nat, m \in T PROVE m + 1 \in T
  <2>1. CASE j + ((m + 1) + 1) <= PacketCount + 1
    <3>1. PICK i \in 1..PacketCount : i = j + (m + 1) /\ i + 1 = j + ((m + 1) + 1)
      BY <2>1, <1>1
    <3>2. End(j) <= Begin(i)
      BY <1>4, <3>1, <1>1
    <3>3. End(j) <= Begin(i + 1) /\ Begin(i + 1) \in Nat
      BY <1>2, <3>2
    <3>. QED  BY <3>1, <3>3
  <2>. QED  BY <2>1
<1>. HIDE DEF T
<1>5. PICK m \in Nat : m = (k - j) - 1 /\ j + (m + 1) = k /\ j + (m + 1) <= PacketCount + 1
  BY <1>1
<1>6. m \in T
  BY <1>3, <1>4, Induct
<1>. QED  BY Zenon, <1>5, <1>6 DEF T

-----------------------------------------------------------------------------
\* Packet n + 1 is the one the next byte belongs to; all of its bytes so far are
\* in buf, or a timeout has cut it and they are skipped.
Between(n) ==
  /\ Torn \subseteq 1..(n + 1) /\ Begin(n + 1) <= offset
  /\ n = PacketCount => offset = Begin(n + 1)
  /\ n < PacketCount => offset < End(n + 1)
InPacket(n) ==
  /\ n + 1 \notin Torn /\ Len(buf) = offset - Begin(n + 1)
  /\ \A i \in 1..Len(buf) : buf[i] = Bytes(packets[n + 1])[i]
InTorn(n) == n < PacketCount /\ n + 1 \in Torn /\ Clean /\ Begin(n + 1) < offset /\ buf = << >>
\* What is in c lies at n or before.
UpToHere(c, n) == c \subseteq Nat /\ \A t \in c : t <= n
ReadType ==
  /\ packets \in Streams /\ sent \in Nat /\ sent <= Len(Connection) /\ offset \in Nat /\ offset <= sent
  /\ buf \in Seq(Nat) /\ UpToHere(cuts, offset)
ReadKept ==
  Clean =>
    delivered = UncutUpTo[PacketCount] /\ \E n \in 0..PacketCount : Between(n) /\ (InPacket(n) \/ InTorn(n))
ReadInv == ReadType /\ ReadKept

WholeIsBefore ==
  packets \in Streams /\ offset \in Nat =>
    \A n \in 0..PacketCount : Between(n) => \A k \in 1..PacketCount : k \in WholeSet <=> k <= n /\ k \notin Torn
LEMMA WholeBefore == WholeIsBefore
<1>. SUFFICES ASSUME packets \in Streams, offset \in Nat, NEW n \in 0..PacketCount, Between(n), NEW k \in 1..PacketCount
     PROVE  k \in WholeSet <=> k <= n /\ k \notin Torn
  BY Zenon DEF WholeIsBefore
<1>1. PacketCount \in Nat
  BY StreamIs
<1>2. k \in WholeSet <=> k \notin Torn /\ End(k) <= offset
  BY DEF WholeSet, Uncut
<1>3. CASE k <= n
  <2>1. n + 1 \in (k + 1)..(PacketCount + 1)
    BY <1>1, <1>3
  <2>2. End(k) <= Begin(n + 1) /\ Begin(n + 1) \in Nat
    BY Zenon, <2>1, EndsBefore
  <2>3. End(k) \in Nat /\ Begin(n + 1) <= offset
    <3>1. PICK l \in Nat : End(k) = Begin(k) + (3 + l) /\ Begin(k) \in Nat
      BY Zenon, PacketIs
    <3>. QED  BY <3>1 DEF Between
  <2>4. End(k) <= offset
    BY <2>2, <2>3
  <2>. QED  BY <1>2, <1>3, <2>4
<1>4. CASE k = n + 1
  <2>1. n < PacketCount
    BY <1>1, <1>4
  <2>2. offset < End(n + 1)
    BY <2>1 DEF Between
  <2>3. PICK l \in Nat : End(k) = Begin(k) + (3 + l) /\ Begin(k) \in Nat
    BY Zenon, PacketIs
  <2>4. ~(End(k) <= offset) /\ ~(k <= n)
    BY <2>2, <2>3, <1>4
  <2>. QED  BY Zenon, <1>2, <2>4
<1>5. CASE k > n + 1
  <2>1. n < PacketCount /\ n + 1 \in 1..PacketCount /\ k \in ((n + 1) + 1)..(PacketCount + 1)
    BY <1>1, <1>5
  <2>2. offset < End(n + 1)
    BY <2>1 DEF Between
  <2>3. End(n + 1) <= Begin(k)
    BY Zenon, <2>1, EndsBefore
  <2>4. PICK l \in Nat : End(k) = Begin(k) + (3 + l) /\ Begin(k) \in Nat
    BY Zenon, PacketIs
  <2>5. PICK m \in Nat : End(n + 1) = Begin(n + 1) + (3 + m) /\ Begin(n + 1) \in Nat
    BY Zenon, <2>1, PacketIs
  <2>6. ~(End(k) <= offset) /\ ~(k <= n)
    BY <2>2, <2>3, <2>4, <2>5, <1>5
  <2>. QED  BY Zenon, <1>2, <2>6
<1>6. k <= n \/ k = n + 1 \/ k > n + 1
  BY <1>1
<1>. QED  BY <1>3, <1>4, <1>5, <1>6
LEMMA WholeBeforeAfter == WholeIsBefore'
<1>. QED  BY WholeBefore, PTL

LEMMA SameLayout ==
  ASSUME packets' = packets
  PROVE  /\ PacketCount' = PacketCount /\ Connection' = Connection
         /\ \A k : Begin(k)' = Begin(k) /\ End(k)' = End(k)
         /\ cuts' = cuts => Clean' = Clean /\ Torn' = Torn
<1>1. PacketCount' = PacketCount /\ Connection' = Connection
  BY DEF PacketCount, Connection
<1>2. \A k : Begin(k)' = Begin(k)
  BY DEF Begin
<1>3. \A k : End(k)' = End(k)
  BY <1>2 DEF End, Bytes
<1>4. ASSUME cuts' = cuts PROVE Clean' = Clean /\ Torn' = Torn
  BY Zenon, <1>1, <1>2, <1>3, <1>4 DEF Clean, Torn
<1>. QED  BY Zenon, <1>1, <1>2, <1>3, <1>4

LEMMA SameWhole ==
  ASSUME packets \in Streams, packets' = packets, \A k \in 1..PacketCount : k \in WholeSet' <=> k \in WholeSet
  PROVE  UncutUpTo'[PacketCount'] = UncutUpTo[PacketCount]
<1>1. PacketCount \in Nat /\ PacketCount' = PacketCount
  BY StreamIs, SameLayout
<1>2. PICK f, g, V, W, p, n : /\ f = UncutUpTo /\ g = UncutUpTo' /\ V = WholeSet /\ W = WholeSet'
                              /\ p = packets /\ n = PacketCount
  OBVIOUS
<1>3. Picks(f, p, V, n)
  BY Zenon, <1>2, WholePicks DEF WholeKept
<1>4. Picks(g, p, W, n)
  BY Zenon, <1>1, <1>2, WholePicksAfter DEF WholeKept
<1>5. n \in Nat /\ n \in 0..n /\ \A k \in 1..n : k \in V <=> k \in W
  BY <1>1, <1>2
<1>6. f[n] = g[n]
  BY ONLY <1>3, <1>4, <1>5, PicksAgree
<1>. QED  BY Zenon, <1>1, <1>2, <1>6

LEMMA OneMoreWhole ==
  ASSUME packets \in Streams, packets' = packets, NEW n \in Nat, n < PacketCount,
         \A k \in 1..n : k \in WholeSet' <=> k \in WholeSet,
         \A k \in (n + 1)..PacketCount : k \notin WholeSet,
         n + 1 \in WholeSet', \A k \in (n + 2)..PacketCount : k \notin WholeSet'
  PROVE  UncutUpTo'[PacketCount'] = Append(UncutUpTo[PacketCount], packets[n + 1])
<1>1. PacketCount \in Nat /\ PacketCount' = PacketCount
  BY StreamIs, SameLayout
<1>2. PICK f, g, V, W, p, N : /\ f = UncutUpTo /\ g = UncutUpTo' /\ V = WholeSet /\ W = WholeSet'
                              /\ p = packets /\ N = PacketCount
  OBVIOUS
<1>3. Picks(f, p, V, N)
  BY Zenon, <1>2, WholePicks DEF WholeKept
<1>4. Picks(g, p, W, N)
  BY Zenon, <1>1, <1>2, WholePicksAfter DEF WholeKept
<1>5. /\ N \in Nat /\ n \in 0..N /\ n + 1 \in 0..N /\ n + 1 \in 1..N /\ (n + 1) - 1 = n /\ (n + 1) + 1 = n + 2
      /\ (\A k \in 1..n : k \in V <=> k \in W) /\ (\A k \in (n + 1)..N : k \notin V)
      /\ (\A k \in ((n + 1) + 1)..N : k \notin W) /\ n + 1 \in W
  BY <1>1, <1>2
<1>6. f[n] = g[n]
  BY ONLY <1>3, <1>4, <1>5, PicksAgree
<1>7. f[N] = f[n]
  BY ONLY <1>3, <1>5, PicksNoMore
<1>8. g[N] = g[n + 1]
  BY ONLY <1>4, <1>5, PicksNoMore
<1>9. g[n + 1] = Append(g[n], p[n + 1])
  <2>1. g[n + 1] = IF n + 1 \in W THEN Append(g[(n + 1) - 1], p[n + 1]) ELSE g[(n + 1) - 1]
    BY Zenon, <1>4, <1>5 DEF Picks
  <2>. QED  BY Zenon, <2>1, <1>5
<1>. QED  BY Zenon, <1>1, <1>2, <1>6, <1>7, <1>8, <1>9

-----------------------------------------------------------------------------
LEMMA ReadStart == FramingInit => ReadInv
<1>. SUFFICES ASSUME FramingInit PROVE ReadInv
  OBVIOUS
<1>0. packets \in Streams /\ sent = 0 /\ offset = 0 /\ buf = << >> /\ delivered = << >> /\ cuts = {} /\ Torn = {}
  BY DEF FramingInit, Torn
<1>1. PacketCount \in Nat /\ Connection \in Seq(Nat) /\ Begin(1) = 0
  BY <1>0, StreamIs
<1>2. ReadType
  <2>1. UpToHere(cuts, offset)
    BY <1>0 DEF UpToHere
  <2>. QED  BY <2>1, <1>0, <1>1 DEF ReadType
<1>3. Between(0) /\ InPacket(0)
  <2>1. 0 < PacketCount => 0 < End(1)
    <3>1. CASE 0 < PacketCount
      <4>1. 1 \in 1..PacketCount
        BY <1>1, <3>1
      <4>2. PICK l \in Nat : End(1) = Begin(1) + (3 + l)
        BY Zenon, <4>1, <1>0, PacketIs
      <4>. QED  BY <4>2, <1>1
    <3>. QED  BY <3>1
  <2>2. 0 + 1 = 1
    OBVIOUS
  <2>3. Between(0)
    BY <1>0, <1>1, <2>1, <2>2 DEF Between
  <2>4. InPacket(0)
    BY <1>0, <1>1, <2>2 DEF InPacket
  <2>. QED  BY <2>3, <2>4
<1>4. delivered = UncutUpTo[PacketCount]
  <2>1. \A k \in (0 + 1)..PacketCount : k \notin WholeSet
    <3>1. ASSUME NEW k \in (0 + 1)..PacketCount PROVE k \notin WholeSet
      <4>1. k \in 1..PacketCount /\ ~(k <= 0) /\ 0 \in 0..PacketCount /\ offset \in Nat
        BY <1>0, <1>1
      <4>. QED  BY Zenon, <4>1, <1>0, <1>3, WholeBefore DEF WholeIsBefore
    <3>. QED  BY <3>1
  <2>2. PICK f, W, p, N : f = UncutUpTo /\ W = WholeSet /\ p = packets /\ N = PacketCount
    OBVIOUS
  <2>3. Picks(f, p, W, N)
    BY Zenon, <1>0, <2>2, WholePicks DEF WholeKept
  <2>4. N \in Nat /\ 0 \in 0..N /\ \A k \in (0 + 1)..N : k \notin W
    BY <1>1, <2>1, <2>2
  <2>5. f[N] = f[0]
    BY ONLY <2>3, <2>4, PicksNoMore
  <2>. QED  BY Zenon, <1>0, <2>2, <2>3, <2>5 DEF Picks
<1>5. ReadKept
  <2>1. 0 \in 0..PacketCount
    BY <1>1
  <2>. QED  BY <2>1, <1>3, <1>4 DEF ReadKept
<1>. QED  BY <1>2, <1>5 DEF ReadInv

LEMMA ArriveStep == ReadInv /\ Arrive => ReadInv'
<1>. SUFFICES ASSUME ReadInv, Arrive PROVE ReadInv'
  OBVIOUS
<1>1. /\ packets' = packets /\ offset' = offset /\ buf' = buf /\ delivered' = delivered /\ cuts' = cuts /\ Torn' = Torn
      /\ sent' = sent + 1 /\ sent < Len(Connection)
  BY SameLayout DEF Arrive
<1>2. Connection \in Seq(Nat)
  BY StreamIs DEF ReadInv, ReadType
<1>3. ReadType'
  <2>1. Connection' = Connection
    BY <1>1, SameLayout
  <2>2. Len(Connection) \in Nat
    BY <1>2
  <2>. QED  BY <1>1, <2>1, <2>2 DEF ReadInv, ReadType
<1>4. ReadKept'
  <2>1. PacketCount' = PacketCount /\ Clean' = Clean /\ \A k : Begin(k)' = Begin(k) /\ End(k)' = End(k)
    BY <1>1, SameLayout
  <2>2. UncutUpTo'[PacketCount'] = UncutUpTo[PacketCount]
    <3>1. \A k \in 1..PacketCount : k \in WholeSet' <=> k \in WholeSet
      BY <1>1, <2>1 DEF WholeSet, Uncut
    <3>. QED  BY <3>1, <1>1, SameWhole DEF ReadInv, ReadType
  <2>3. \A n : (Between(n)' <=> Between(n)) /\ (InTorn(n)' <=> InTorn(n))
    BY Zenon, <1>1, <2>1 DEF Between, InTorn
  <2>4. \A n : InPacket(n)' <=> InPacket(n)
    BY Zenon, <1>1, <2>1 DEF InPacket, Bytes
  <2>. QED  BY Zenon, <1>1, <2>1, <2>2, <2>3, <2>4 DEF ReadInv, ReadKept
<1>. QED  BY <1>3, <1>4 DEF ReadInv

LEMMA WithinPacket ==
  ASSUME NEW at \in Nat, NEW start \in Nat, start <= at, NEW l \in Nat, (at + 1) - start \in 1..(3 + l),
         (at + 1) - start # 3 + l
  PROVE  start <= at + 1 /\ at + 1 < start + (3 + l)
  OBVIOUS

\* The next byte is one of the packet it belongs to.
LEMMA NextByte ==
  ASSUME ReadType, NEW n \in 0..PacketCount, Between(n), offset < sent
  PROVE  /\ n < PacketCount /\ n + 1 \in 1..PacketCount /\ packets[n + 1] \in Seq(Nat)
         /\ End(n + 1) = Begin(n + 1) + (3 + Len(packets[n + 1])) /\ Begin(n + 1) \in Nat
         /\ (offset + 1) - Begin(n + 1) \in 1..(3 + Len(packets[n + 1]))
         /\ Connection[offset + 1] = Bytes(packets[n + 1])[(offset + 1) - Begin(n + 1)]
         /\ Connection[offset + 1] \in Nat
<1>0. packets \in Streams /\ sent \in Nat /\ sent <= Len(Connection) /\ offset \in Nat
  BY Zenon DEF ReadType
<1>1. PacketCount \in Nat /\ Connection \in Seq(Nat) /\ Len(Connection) = Begin(PacketCount + 1)
  BY Zenon, <1>0, StreamIs
<1>2. n < PacketCount
  BY <1>0, <1>1 DEF Between
<1>3. n + 1 \in 1..PacketCount
  BY <1>1, <1>2
<1>4. PICK p : p = packets[n + 1]
  OBVIOUS
<1>5. p \in Seq(Nat) /\ Len(p) \in Nat /\ Begin(n + 1) \in Nat /\ End(n + 1) = Begin(n + 1) + (3 + Len(p))
  BY Zenon, <1>0, <1>3, <1>4, PacketIs
<1>6. PICK i : i = (offset + 1) - Begin(n + 1)
  OBVIOUS
<1>7. i \in 1..(3 + Len(p)) /\ Begin(n + 1) + i = offset + 1
  <2>1. PICK l, start : l = Len(p) /\ start = Begin(n + 1)
    OBVIOUS
  <2>2. start <= offset /\ offset < start + (3 + l) /\ l \in Nat /\ start \in Nat /\ i = (offset + 1) - start
    BY Zenon, <1>2, <1>5, <1>6, <2>1 DEF Between
  <2>3. i \in 1..(3 + l) /\ start + i = offset + 1
    BY ONLY <2>2, <1>0
  <2>. QED  BY Zenon, <2>1, <2>3
<1>8. 3 + Len(packets[n + 1]) = 3 + Len(p)
  BY Zenon, <1>4 DEF HeaderSize
<1>9. Connection[Begin(n + 1) + i] = Bytes(packets[n + 1])[i]
  BY Zenon, <1>0, <1>3, <1>7, <1>8, StreamIs
<1>11. Connection[offset + 1] \in Nat
  BY <1>0, <1>1
<1>. QED  BY Zenon, <1>2, <1>3, <1>4, <1>5, <1>6, <1>7, <1>9, <1>11

LEMMA ReadByteType == ReadInv /\ ReadByte => ReadType'
<1>. SUFFICES ASSUME ReadInv, ReadByte PROVE ReadType'
  OBVIOUS
<1>. DEFINE byte == Connection[offset + 1]
            next == IF buf = << >> /\ byte # Magic THEN << >> ELSE Append(buf, byte)
<1>1. /\ offset < sent /\ offset' = offset + 1 /\ packets' = packets /\ sent' = sent /\ cuts' = cuts
      /\ buf' = << >> \/ buf' = next
  BY DEF ReadByte
<1>2. Connection \in Seq(Nat) /\ Connection' = Connection /\ Len(Connection) \in Nat
  <2>1. Connection \in Seq(Nat)
    BY StreamIs DEF ReadInv, ReadType
  <2>. QED  BY <2>1, <1>1, SameLayout
<1>3. byte \in Nat
  <2>1. sent \in Nat /\ sent <= Len(Connection) /\ offset \in Nat
    BY Zenon DEF ReadInv, ReadType
  <2>. QED  BY <2>1, <1>1, <1>2
<1>. HIDE DEF byte
<1>4. next \in Seq(Nat) /\ << >> \in Seq(Nat)
  BY <1>3 DEF ReadInv, ReadType
<1>. HIDE DEF next
<1>5. buf' \in Seq(Nat)
  BY Zenon, <1>1, <1>4
<1>6. sent' \in Nat /\ sent' <= Len(Connection') /\ offset' \in Nat /\ offset' <= sent' /\ packets' \in Streams
  BY <1>1, <1>2 DEF ReadInv, ReadType
<1>7. UpToHere(cuts', offset')
  BY <1>1 DEF ReadInv, ReadType, UpToHere
<1>. QED  BY <1>5, <1>6, <1>7 DEF ReadType

\* A byte of a packet of which nothing is lost.
LEMMA ReadWhole ==
  ASSUME ReadInv, ReadByte, Clean, NEW n \in 0..PacketCount, Between(n), InPacket(n)
  PROVE  ReadKept'
<1>0. ReadType /\ delivered = UncutUpTo[PacketCount]
  BY DEF ReadInv, ReadKept
<1>1. /\ offset < sent /\ offset' = offset + 1 /\ packets' = packets /\ cuts' = cuts /\ Torn' = Torn
      /\ packets \in Streams /\ offset \in Nat /\ offset + 1 \in Nat /\ buf \in Seq(Nat)
  BY <1>0, SameLayout DEF ReadByte, ReadType
<1>2. PICK p, i, start : p = packets[n + 1] /\ start = Begin(n + 1) /\ i = (offset + 1) - start
  OBVIOUS
<1>3. /\ n < PacketCount /\ n + 1 \in 1..PacketCount /\ p \in Seq(Nat) /\ End(n + 1) = start + (3 + Len(p)) /\ start \in Nat
      /\ i \in 1..(3 + Len(p)) /\ Connection[offset + 1] = Bytes(p)[i]
  BY Zenon, <1>0, <1>1, <1>2, NextByte
<1>4. Len(p) \in Nat /\ Len(p) >= 1 /\ Len(p) - 1 <= MaxSize /\ PacketCount \in Nat /\ n \in Nat
  <2>1. Len(p) \in Nat /\ Len(p) >= 1 /\ Len(p) - 1 <= MaxSize
    BY Zenon, <1>1, <1>2, <1>3, PacketIs
  <2>2. PacketCount \in Nat
    BY <1>1, StreamIs
  <2>. QED  BY <2>1, <2>2
<1>5. PICK B : B = Bytes(p)
  OBVIOUS
<1>6. /\ B \in Seq(Nat) /\ Len(B) = 3 + Len(p) /\ B[1] = Magic /\ B[2] = Kind /\ B[3] = Len(p) - 1
      /\ (\A j \in 1..Len(p) : B[3 + j] = p[j]) /\ Kind \in Valid
  BY Zenon, <1>3, <1>4, <1>5, BytesAre
<1>7. /\ n + 1 \notin Torn /\ Len(buf) = offset - start /\ Len(buf) = i - 1 /\ start <= offset
      /\ \A j \in 1..Len(buf) : buf[j] = B[j]
  <2>1. n + 1 \notin Torn /\ Len(buf) = offset - start /\ start <= offset
    BY Zenon, <1>2 DEF InPacket, Between
  <2>2. \A j \in 1..Len(buf) : buf[j] = B[j]
    BY Zenon, <1>2, <1>5 DEF InPacket
  <2>3. Len(buf) = i - 1
    <3>1. offset - start = i - 1
      BY ONLY <1>1, <1>2, <1>3
    <3>. QED  BY ONLY <2>1, <3>1
  <2>. QED  BY Zenon, <2>1, <2>2, <2>3
<1>. DEFINE byte == Connection[offset + 1]
            next == IF buf = << >> /\ byte # Magic THEN << >> ELSE Append(buf, byte)
<1>8. next = Append(buf, B[i]) /\ byte = B[i] /\ B[i] \in Nat
  <2>1. byte = B[i] /\ B[i] \in Nat
    BY <1>3, <1>5, <1>6
  <2>2. buf = << >> => i = 1
    BY <1>3, <1>7
  <2>. QED  BY <2>1, <2>2, <1>6
<1>9. next \in Seq(Nat) /\ Len(next) = i /\ \A j \in 1..i : next[j] = B[j]
  <2>1. next \in Seq(Nat) /\ Len(next) = i
    BY <1>1, <1>7, <1>8, <1>3
  <2>2. ASSUME NEW j \in 1..i PROVE next[j] = B[j]
    <3>1. j <= i - 1 => j \in 1..Len(buf)
      BY <1>3, <1>7
    <3>2. PICK x : x = B[i]
      OBVIOUS
    <3>3. Append(buf, x)[j] = IF j <= i - 1 THEN buf[j] ELSE x
      BY <1>1, <1>3, <1>7, <1>8, <3>2
    <3>4. j <= i - 1 \/ j = i
      BY <1>3
    <3>. QED  BY Zenon, <3>1, <3>2, <3>3, <3>4, <1>7, <1>8
  <2>. QED  BY <2>1, <2>2
<1>10. /\ IF Len(next) = HeaderSize /\ ~Accepted(next) THEN buf' = << >> /\ delivered' = delivered
          ELSE IF Complete(next)
          THEN buf' = << >> /\ delivered' = Append(delivered, SubSeq(next, HeaderSize, Len(next)))
          ELSE buf' = next /\ delivered' = delivered
  BY Zenon DEF ReadByte
<1>. HIDE DEF next, byte
<1>11. ~(Len(next) = HeaderSize /\ ~Accepted(next))
  <2>1. CASE i = 4
    <3>1. 2 \in 1..i /\ 3 \in 1..i
      BY <2>1
    <3>2. next[2] = Kind /\ next[3] = Len(p) - 1
      BY Zenon, <3>1, <1>6, <1>9
    <3>. QED  BY <3>2, <1>4, <1>6 DEF Accepted
  <2>. QED  BY <2>1, <1>9 DEF HeaderSize
<1>12. Complete(next) <=> i = 3 + Len(p)
  <2>1. CASE i >= 4
    <3>1. 3 \in 1..i
      BY <2>1, <1>3
    <3>2. next[3] = Len(p) - 1
      BY Zenon, <3>1, <1>6, <1>9
    <3>. QED  BY <2>1, <3>2, <1>4, <1>9 DEF Complete, HeaderSize
  <2>. QED  BY <2>1, <1>9, <1>3, <1>4 DEF Complete, HeaderSize
<1>13. /\ PacketCount' = PacketCount /\ Clean' = Clean /\ \A k : Begin(k)' = Begin(k) /\ End(k)' = End(k)
  BY Zenon, <1>1, SameLayout
<1>14. Torn \subseteq 1..(n + 1)
  BY DEF Between
<1>15. CASE i = 3 + Len(p)
  <2>1. buf' = << >> /\ delivered' = Append(delivered, SubSeq(next, HeaderSize, Len(next)))
    BY Zenon, <1>10, <1>11, <1>12, <1>15
  <2>2. SubSeq(next, HeaderSize, Len(next)) = p
    <3>1. \A j \in 1..Len(p) : 3 + j \in 1..i
      BY <1>4, <1>15
    <3>2. \A j \in 1..Len(p) : next[3 + j] = p[j]
      BY Zenon, <3>1, <1>6, <1>9
    <3>3. PICK s : s = SubSeq(next, 4, i)
      OBVIOUS
    <3>4. s \in Seq(Nat) /\ Len(s) = Len(p) /\ \A j \in 1..Len(p) : s[j] = next[3 + j]
      <4>1. PICK l, q : l = Len(p) /\ q = next
        OBVIOUS
      <4>2. q \in Seq(Nat) /\ Len(q) = i /\ s = SubSeq(q, 4, i) /\ i = 3 + l /\ l \in Nat
        BY Zenon, <4>1, <3>3, <1>9, <1>15, <1>4
      <4>3. Len(q) = 3 + l /\ s = SubSeq(q, 4, 3 + l)
        BY Zenon, <4>2
      <4>5. s \in Seq(Nat) /\ Len(s) = l /\ \A j \in 1..l : s[j] = q[3 + j]
        BY ONLY <4>2, <4>3, BehindThree
      <4>. QED  BY Zenon, <4>1, <4>5
    <3>5. s = p
      <4>1. \A j \in 1..Len(p) : s[j] = p[j]
        BY Zenon, <3>2, <3>4
      <4>2. Len(s) = Len(p) /\ s \in Seq(Nat) /\ p \in Seq(Nat)
        BY Zenon, <3>4, <1>3
      <4>. QED  BY ONLY <4>1, <4>2
    <3>. QED  BY <3>3, <3>5, <1>9 DEF HeaderSize
  <2>3. offset' = Begin(n + 2) /\ Begin(n + 2) = End(n + 1) /\ (n + 1) + 1 = n + 2 /\ n + 1 \in 0..PacketCount
    <3>1. Begin((n + 1) + 1) = End(n + 1)
      BY Zenon, <1>1, <1>3, PacketIs
    <3>2. (n + 1) + 1 = n + 2 /\ n + 1 \in 0..PacketCount
      BY <1>3, <1>4
    <3>3. offset + 1 = End(n + 1)
      <4>1. PICK l, end : l = Len(p) /\ end = End(n + 1)
        OBVIOUS
      <4>2. /\ i = (offset + 1) - start /\ i = 3 + l /\ end = start + (3 + l)
            /\ offset \in Nat /\ start \in Nat /\ l \in Nat
        BY Zenon, <4>1, <1>1, <1>2, <1>3, <1>4, <1>15
      <4>3. offset + 1 = end
        BY ONLY <4>2
      <4>. QED  BY Zenon, <4>1, <4>3
    <3>. QED  BY <1>1, <3>1, <3>2, <3>3
  <2>4. Between(n + 1)'
    <3>1. Torn \subseteq 1..(n + 2)
      BY <1>14, <1>4
    <3>2. n + 1 < PacketCount => offset' < End(n + 2)
      <4>1. CASE n + 1 < PacketCount
        <5>1. n + 2 \in 1..PacketCount
          BY <4>1, <1>4
        <5>2. PICK l \in Nat : End(n + 2) = Begin(n + 2) + (3 + l) /\ Begin(n + 2) \in Nat
          BY Zenon, <5>1, <1>1, PacketIs
        <5>. QED  BY <5>2, <2>3
      <4>. QED  BY <4>1
    <3>3. Begin(n + 2) <= offset'
      BY <1>1, <2>3
    <3>. QED  BY Zenon, <1>1, <1>13, <2>3, <3>1, <3>2, <3>3 DEF Between
  <2>5. InPacket(n + 1)'
    <3>1. n + 2 \notin Torn
      BY <1>14, <1>4
    <3>2. Len(buf') = offset' - Begin(n + 2)
      BY <1>1, <2>1, <2>3
    <3>3. \A j \in 1..Len(buf') : FALSE
      BY <2>1
    <3>. QED  BY Zenon, <1>1, <1>13, <2>3, <3>1, <3>2, <3>3 DEF InPacket
  <2>6. delivered' = UncutUpTo'[PacketCount']
    <3>1. \A k \in 1..PacketCount : k \in WholeSet <=> k <= n /\ k \notin Torn
      BY Zenon, <1>1, WholeBefore DEF WholeIsBefore
    <3>2. \A k \in 1..PacketCount : k \in WholeSet' <=> k <= n + 1 /\ k \notin Torn
      BY Zenon, <1>1, <1>13, <2>3, <2>4, WholeBeforeAfter DEF WholeIsBefore
    <3>3. /\ \A k \in 1..n : k \in WholeSet' <=> k \in WholeSet
          /\ \A k \in (n + 1)..PacketCount : k \notin WholeSet
          /\ n + 1 \in WholeSet' /\ \A k \in (n + 2)..PacketCount : k \notin WholeSet'
      <4>1. PICK W, V, t, N : W = WholeSet /\ V = WholeSet' /\ t = Torn /\ N = PacketCount
        OBVIOUS
      <4>2. /\ \A k \in 1..N : k \in W <=> k <= n /\ k \notin t
            /\ \A k \in 1..N : k \in V <=> k <= n + 1 /\ k \notin t
            /\ n + 1 \in 1..N /\ n + 1 \notin t /\ n \in Nat /\ N \in Nat
        BY Zenon, <4>1, <3>1, <3>2, <1>3, <1>4, <1>7
      <4>3. /\ \A k \in 1..n : k \in V <=> k \in W
            /\ \A k \in (n + 1)..N : k \notin W
            /\ n + 1 \in V /\ \A k \in (n + 2)..N : k \notin V
        BY ONLY <4>2
      <4>. QED  BY Zenon, <4>1, <4>3
    <3>4. UncutUpTo'[PacketCount'] = Append(UncutUpTo[PacketCount], p)
      BY Zenon, <3>3, <1>1, <1>2, <1>3, <1>4, OneMoreWhole
    <3>. QED  BY Zenon, <3>4, <1>0, <2>1, <2>2
  <2>. QED  BY Zenon, <1>13, <2>3, <2>4, <2>5, <2>6 DEF ReadKept
<1>16. CASE i # 3 + Len(p)
  <2>1. buf' = next /\ delivered' = delivered
    BY Zenon, <1>10, <1>11, <1>12, <1>16
  <2>2. Between(n)'
    <3>1. Begin(n + 1) <= offset' /\ offset' < End(n + 1) /\ n # PacketCount
      <4>1. PICK l \in Nat : l = Len(p)
        BY <1>4
      <4>2. start <= offset' /\ offset' < start + (3 + l)
        BY Zenon, <1>1, <1>2, <1>3, <1>7, <1>16, <4>1, WithinPacket
      <4>3. n # PacketCount
        BY <1>3, <1>4
      <4>. QED  BY Zenon, <1>2, <1>3, <4>1, <4>2, <4>3
    <3>. QED  BY Zenon, <1>1, <1>13, <1>14, <3>1 DEF Between
  <2>3. InPacket(n)'
    <3>1. Len(buf') = offset' - Begin(n + 1)
      BY <1>1, <1>2, <1>9, <2>1
    <3>2. \A j \in 1..Len(buf') : buf'[j] = Bytes(packets[n + 1])[j]
      BY Zenon, <1>2, <1>5, <1>9, <2>1
    <3>3. \A q : Bytes(q)' = Bytes(q)
      BY DEF Bytes
    <3>. QED  BY Zenon, <1>1, <1>7, <1>13, <3>1, <3>2 DEF InPacket, Bytes
  <2>4. delivered' = UncutUpTo'[PacketCount']
    <3>1. \A k \in 1..PacketCount : k \in WholeSet <=> k <= n /\ k \notin Torn
      BY Zenon, <1>1, WholeBefore DEF WholeIsBefore
    <3>2. \A k \in 1..PacketCount : k \in WholeSet' <=> k <= n /\ k \notin Torn
      BY Zenon, <1>1, <1>13, <2>2, WholeBeforeAfter DEF WholeIsBefore
    <3>3. UncutUpTo'[PacketCount'] = UncutUpTo[PacketCount]
      BY Zenon, <3>1, <3>2, <1>1, SameWhole
    <3>. QED  BY Zenon, <3>3, <1>0, <2>1
  <2>. QED  BY Zenon, <1>13, <2>2, <2>3, <2>4 DEF ReadKept
<1>. QED  BY <1>15, <1>16

\* A byte of a packet that a timeout has cut.
LEMMA ReadTorn ==
  ASSUME ReadInv, ReadByte, NEW n \in 0..PacketCount, Between(n), InTorn(n)
  PROVE  ReadKept'
<1>0. ReadType /\ delivered = UncutUpTo[PacketCount]
  BY DEF ReadInv, ReadKept, InTorn
<1>1. /\ offset < sent /\ offset' = offset + 1 /\ packets' = packets /\ cuts' = cuts /\ Torn' = Torn
      /\ packets \in Streams /\ offset \in Nat /\ offset + 1 \in Nat
  BY <1>0, SameLayout DEF ReadByte, ReadType
<1>2. PICK p, i, start : p = packets[n + 1] /\ start = Begin(n + 1) /\ i = (offset + 1) - start
  OBVIOUS
<1>3. /\ n < PacketCount /\ n + 1 \in 1..PacketCount /\ p \in Seq(Nat) /\ End(n + 1) = start + (3 + Len(p)) /\ start \in Nat
      /\ i \in 1..(3 + Len(p)) /\ Connection[offset + 1] = Bytes(p)[i]
  BY Zenon, <1>0, <1>1, <1>2, NextByte
<1>4. Len(p) \in Nat /\ PacketCount \in Nat /\ n \in Nat
  <2>1. Len(p) \in Nat
    BY Zenon, <1>1, <1>2, <1>3, PacketIs
  <2>2. PacketCount \in Nat
    BY <1>1, StreamIs
  <2>. QED  BY <2>1, <2>2
<1>5. n + 1 \in Torn /\ Clean /\ start < offset /\ buf = << >> /\ i > 1
  BY <1>1, <1>2, <1>3 DEF InTorn
<1>6. Connection[offset + 1] # Magic
  <2>1. PICK t \in cuts : start < t
    BY Zenon, <1>2, <1>5 DEF Torn
  <2>2. t \in Nat /\ t <= offset
    BY Zenon, <1>0, <2>1 DEF ReadType, UpToHere
  <2>3. n + 1 \in DOMAIN packets
    BY Zenon, <1>5 DEF Torn
  <2>4. offset + 1 \in (t + 1)..End(n + 1)
    BY <1>1, <1>2, <1>3, <1>4, <2>2
  <2>. QED  BY Zenon, <1>2, <1>5, <2>1, <2>3, <2>4 DEF Clean
<1>7. buf' = << >> /\ delivered' = delivered
  <2>. DEFINE next == IF buf = << >> /\ Connection[offset + 1] # Magic THEN << >> ELSE Append(buf, Connection[offset + 1])
  <2>1. next = << >>
    BY Zenon, <1>5, <1>6
  <2>2. /\ IF Len(next) = HeaderSize /\ ~Accepted(next) THEN buf' = << >> /\ delivered' = delivered
           ELSE IF Complete(next)
           THEN buf' = << >> /\ delivered' = Append(delivered, SubSeq(next, HeaderSize, Len(next)))
           ELSE buf' = next /\ delivered' = delivered
    BY Zenon DEF ReadByte
  <2>. HIDE DEF next
  <2>3. Len(next) = 0
    BY <2>1
  <2>4. ~(Len(next) = HeaderSize) /\ ~Complete(next)
    BY <2>3 DEF Complete, HeaderSize
  <2>. QED  BY Zenon, <2>1, <2>2, <2>4
<1>8. /\ PacketCount' = PacketCount /\ Clean' = Clean /\ \A k : Begin(k)' = Begin(k) /\ End(k)' = End(k)
  BY Zenon, <1>1, SameLayout
<1>9. Torn \subseteq 1..(n + 1)
  BY DEF Between
<1>10. \A k \in 1..PacketCount : k \in WholeSet <=> k <= n /\ k \notin Torn
  BY Zenon, <1>1, WholeBefore DEF WholeIsBefore
<1>11. CASE i = 3 + Len(p)
  <2>1. offset' = Begin(n + 2) /\ Begin(n + 2) = End(n + 1) /\ (n + 1) + 1 = n + 2 /\ n + 1 \in 0..PacketCount
    <3>1. Begin((n + 1) + 1) = End(n + 1)
      BY Zenon, <1>1, <1>3, PacketIs
    <3>2. (n + 1) + 1 = n + 2 /\ n + 1 \in 0..PacketCount
      BY <1>3, <1>4
    <3>3. offset + 1 = End(n + 1)
      BY <1>1, <1>2, <1>3, <1>4, <1>11
    <3>. QED  BY <1>1, <3>1, <3>2, <3>3
  <2>2. Between(n + 1)'
    <3>1. Torn \subseteq 1..(n + 2)
      BY <1>9, <1>4
    <3>2. n + 1 < PacketCount => offset' < End(n + 2)
      <4>1. CASE n + 1 < PacketCount
        <5>1. n + 2 \in 1..PacketCount
          BY <4>1, <1>4
        <5>2. PICK l \in Nat : End(n + 2) = Begin(n + 2) + (3 + l) /\ Begin(n + 2) \in Nat
          BY Zenon, <5>1, <1>1, PacketIs
        <5>. QED  BY <5>2, <2>1
      <4>. QED  BY <4>1
    <3>3. Begin(n + 2) <= offset'
      BY <1>1, <2>1
    <3>. QED  BY Zenon, <1>1, <1>8, <2>1, <3>1, <3>2, <3>3 DEF Between
  <2>3. InPacket(n + 1)'
    <3>1. n + 2 \notin Torn
      BY <1>9, <1>4
    <3>2. Len(buf') = offset' - Begin(n + 2)
      BY <1>1, <1>7, <2>1
    <3>3. \A j \in 1..Len(buf') : FALSE
      BY <1>7
    <3>. QED  BY Zenon, <1>1, <1>8, <2>1, <3>1, <3>2, <3>3 DEF InPacket
  <2>4. delivered' = UncutUpTo'[PacketCount']
    <3>1. \A k \in 1..PacketCount : k \in WholeSet' <=> k <= n + 1 /\ k \notin Torn
      BY Zenon, <1>1, <1>8, <2>1, <2>2, WholeBeforeAfter DEF WholeIsBefore
    <3>2. \A k \in 1..PacketCount : k \in WholeSet' <=> k \in WholeSet
      BY <3>1, <1>4, <1>5, <1>10
    <3>3. UncutUpTo'[PacketCount'] = UncutUpTo[PacketCount]
      BY Zenon, <3>2, <1>1, SameWhole
    <3>. QED  BY Zenon, <3>3, <1>0, <1>7
  <2>. QED  BY Zenon, <1>8, <2>1, <2>2, <2>3, <2>4 DEF ReadKept
<1>12. CASE i # 3 + Len(p)
  <2>1. Begin(n + 1) < offset' /\ Begin(n + 1) <= offset' /\ offset' < End(n + 1) /\ n # PacketCount
    BY <1>1, <1>2, <1>3, <1>4, <1>5, <1>12
  <2>2. Between(n)'
    BY Zenon, <1>1, <1>8, <1>9, <2>1 DEF Between
  <2>3. InTorn(n)'
    BY Zenon, <1>1, <1>3, <1>5, <1>7, <1>8, <2>1 DEF InTorn
  <2>4. delivered' = UncutUpTo'[PacketCount']
    <3>1. \A k \in 1..PacketCount : k \in WholeSet' <=> k <= n /\ k \notin Torn
      BY Zenon, <1>1, <1>8, <2>2, WholeBeforeAfter DEF WholeIsBefore
    <3>2. UncutUpTo'[PacketCount'] = UncutUpTo[PacketCount]
      BY Zenon, <3>1, <1>10, <1>1, SameWhole
    <3>. QED  BY Zenon, <3>2, <1>0, <1>7
  <2>. QED  BY Zenon, <1>8, <2>2, <2>3, <2>4 DEF ReadKept
<1>. QED  BY <1>11, <1>12

LEMMA ReadByteStep == ReadInv /\ ReadByte => ReadInv'
<1>. SUFFICES ASSUME ReadInv, ReadByte PROVE ReadInv'
  OBVIOUS
<1>1. ReadType'
  BY ReadByteType
<1>2. ReadKept'
  <2>1. Clean' = Clean
    BY SameLayout DEF ReadByte
  <2>2. CASE Clean
    <3>1. PICK n \in 0..PacketCount : Between(n) /\ (InPacket(n) \/ InTorn(n))
      BY Zenon, <2>2 DEF ReadInv, ReadKept
    <3>. QED  BY Zenon, <2>2, <3>1, ReadWhole, ReadTorn
  <2>3. CASE ~Clean
    BY Zenon, <2>1, <2>3 DEF ReadKept
  <2>. QED  BY <2>2, <2>3
<1>. QED  BY <1>1, <1>2 DEF ReadInv

LEMMA TimeoutStep == ReadInv /\ Timeout => ReadInv'
<1>. SUFFICES ASSUME ReadInv, Timeout PROVE ReadInv'
  OBVIOUS
<1>0. ReadType
  BY DEF ReadInv
<1>1. /\ packets' = packets /\ sent' = sent /\ offset' = offset /\ delivered' = delivered /\ buf' = << >>
      /\ cuts' = cuts \cup {offset} /\ packets \in Streams /\ offset \in Nat
  BY <1>0 DEF Timeout, ReadType
<1>2. /\ PacketCount' = PacketCount /\ Connection' = Connection /\ \A k : Begin(k)' = Begin(k) /\ End(k)' = End(k)
  BY Zenon, <1>1, SameLayout
<1>6. Clean' => Clean
  <2>1. \A t \in cuts : t \in cuts'
    BY <1>1
  <2>. QED  BY Zenon, <1>1, <1>2, <2>1 DEF Clean
<1>7. Torn' = Torn \cup {k \in DOMAIN packets : Begin(k) < offset /\ offset < End(k)}
  <2>1. \A k : k \in Torn' <=> k \in DOMAIN packets /\ \E t \in cuts' : Begin(k) < t /\ t < End(k)
    BY Zenon, <1>1, <1>2 DEF Torn
  <2>2. \A k : k \in Torn <=> k \in DOMAIN packets /\ \E t \in cuts : Begin(k) < t /\ t < End(k)
    BY Zenon DEF Torn
  <2>. QED  BY <1>1, <2>1, <2>2
<1>3. PacketCount \in Nat /\ DOMAIN packets = 1..PacketCount
  <2>1. PacketCount \in Nat /\ packets \in Seq(Seq(Nat))
    BY <1>1, StreamIs
  <2>. QED  BY <2>1 DEF PacketCount
<1>4. ReadType'
  <2>1. UpToHere(cuts', offset')
    BY <1>0, <1>1 DEF ReadType, UpToHere
  <2>. QED  BY <2>1, <1>0, <1>1, <1>2 DEF ReadType
<1>5. ReadKept'
  <2>1. SUFFICES ASSUME Clean'
        PROVE  delivered' = UncutUpTo'[PacketCount'] /\ \E n \in 0..PacketCount : Between(n)' /\ (InPacket(n)' \/ InTorn(n)')
    BY Zenon, <1>2 DEF ReadKept
  <2>2. Clean
    BY <1>6, <2>1
  <2>3. delivered = UncutUpTo[PacketCount]
    BY Zenon, <2>2 DEF ReadInv, ReadKept
  <2>4. PICK n \in 0..PacketCount : Between(n) /\ (InPacket(n) \/ InTorn(n))
    BY Zenon, <2>2 DEF ReadInv, ReadKept
  <2>5. n \in Nat
    BY <1>3
  <2>6. ASSUME NEW k \in 1..PacketCount, Begin(k) < offset, offset < End(k)
        PROVE  k = n + 1 /\ n < PacketCount
    <3>1. PICK l \in Nat : End(k) = Begin(k) + (3 + l) /\ Begin(k) \in Nat
      BY Zenon, <1>1, PacketIs
    <3>2. CASE k <= n
      <4>1. n + 1 \in (k + 1)..(PacketCount + 1)
        BY <1>3, <3>2
      <4>2. End(k) <= Begin(n + 1) /\ Begin(n + 1) \in Nat
        BY Zenon, <1>1, <4>1, EndsBefore
      <4>3. Begin(n + 1) <= offset
        BY <2>4 DEF Between
      <4>. QED  BY <4>2, <4>3, <3>1, <2>6, <1>1
    <3>3. CASE k > n + 1
      <4>1. n < PacketCount /\ n + 1 \in 1..PacketCount /\ k \in ((n + 1) + 1)..(PacketCount + 1)
        BY <1>3, <3>3, <2>5
      <4>2. End(n + 1) <= Begin(k)
        BY Zenon, <1>1, <4>1, EndsBefore
      <4>3. offset < End(n + 1)
        BY <4>1, <2>4 DEF Between
      <4>4. PICK m \in Nat : End(n + 1) = Begin(n + 1) + (3 + m) /\ Begin(n + 1) \in Nat
        BY Zenon, <1>1, <4>1, PacketIs
      <4>. QED  BY <4>2, <4>3, <4>4, <3>1, <2>6, <1>1
    <3>4. k <= n \/ k > n + 1 \/ k = n + 1
      BY <2>5
    <3>. QED  BY <3>2, <3>3, <3>4, <2>5, <1>3
  <2>7. Torn \subseteq Torn' /\ Torn' \subseteq Torn \cup {n + 1}
    BY <1>7, <1>3, <2>6
  <2>8. Between(n)'
    <3>1. Torn' \subseteq 1..(n + 1)
      <4>1. Torn \subseteq 1..(n + 1) /\ n + 1 \in 1..(n + 1)
        BY <2>4, <2>5 DEF Between
      <4>. QED  BY <4>1, <2>7
    <3>. QED  BY Zenon, <1>1, <1>2, <2>4, <3>1 DEF Between
  <2>9. InPacket(n)' \/ InTorn(n)'
    <3>1. CASE InTorn(n)
      <4>1. n + 1 \in Torn'
        BY <3>1, <2>7 DEF InTorn
      <4>. QED  BY Zenon, <2>1, <3>1, <4>1, <1>1, <1>2 DEF InTorn
    <3>2. CASE InPacket(n) /\ Begin(n + 1) = offset
      <4>1. n + 1 \notin Torn'
        <5>1. n + 1 \notin Torn
          BY <3>2 DEF InPacket
        <5>2. ~(Begin(n + 1) < offset)
          BY <3>2, <1>1
        <5>. QED  BY <5>1, <5>2, <1>7
      <4>2. Len(buf') = offset' - Begin(n + 1) /\ \A j \in 1..Len(buf') : FALSE
        BY <1>1, <3>2
      <4>. QED  BY Zenon, <4>1, <4>2, <1>1, <1>2 DEF InPacket
    <3>3. CASE InPacket(n) /\ Begin(n + 1) # offset
      <4>1. n # PacketCount
        BY Zenon, <3>3, <2>4 DEF Between
      <4>2. n < PacketCount /\ n + 1 \in 1..PacketCount
        BY <4>1, <1>3, <2>5
      <4>3. Begin(n + 1) <= offset /\ offset < End(n + 1)
        BY <4>2, <2>4 DEF Between
      <4>4. Begin(n + 1) \in Nat
        BY Zenon, <4>2, <1>1, PacketIs
      <4>5. Begin(n + 1) < offset
        BY <4>3, <4>4, <3>3, <1>1
      <4>6. n + 1 \in Torn'
        BY <4>2, <4>3, <4>5, <1>3, <1>7
      <4>. QED  BY Zenon, <2>1, <4>2, <4>5, <4>6, <1>1, <1>2 DEF InTorn
    <3>. QED  BY Zenon, <2>4, <3>1, <3>2, <3>3
  <2>10. delivered' = UncutUpTo'[PacketCount']
    <3>1. \A k \in 1..PacketCount : k \in WholeSet <=> k <= n /\ k \notin Torn
      BY Zenon, <1>1, <2>4, WholeBefore DEF WholeIsBefore
    <3>2. \A k \in 1..PacketCount : k \in WholeSet' <=> k <= n /\ k \notin Torn'
      BY Zenon, <1>1, <1>2, <2>8, WholeBeforeAfter DEF WholeIsBefore
    <3>3. \A k \in 1..PacketCount : k \in WholeSet' <=> k \in WholeSet
      BY <3>1, <3>2, <2>5, <2>7
    <3>4. UncutUpTo'[PacketCount'] = UncutUpTo[PacketCount]
      BY Zenon, <3>3, <1>1, SameWhole
    <3>. QED  BY Zenon, <3>4, <1>1, <2>3
  <2>. QED  BY Zenon, <2>8, <2>9, <2>10
<1>. QED  BY <1>4, <1>5 DEF ReadInv

LEMMA ReadInvHolds == FramingSpec => []ReadInv
<1>1. ReadInv /\ UNCHANGED frameVars => ReadInv'
  <2>. SUFFICES ASSUME ReadInv, UNCHANGED frameVars PROVE ReadInv'
    OBVIOUS
  <2>1. /\ packets' = packets /\ sent' = sent /\ offset' = offset /\ buf' = buf /\ delivered' = delivered /\ cuts' = cuts
    BY DEF frameVars
  <2>2. ReadType'
    BY Zenon, <2>1, SameLayout DEF ReadInv, ReadType
  <2>3. ReadKept'
    <3>1. /\ PacketCount' = PacketCount /\ Clean' = Clean /\ Torn' = Torn
          /\ \A k : Begin(k)' = Begin(k) /\ End(k)' = End(k)
      BY <2>1, SameLayout
    <3>2. UncutUpTo'[PacketCount'] = UncutUpTo[PacketCount]
      <4>1. \A k \in 1..PacketCount : k \in WholeSet' <=> k \in WholeSet
        BY <2>1, <3>1 DEF WholeSet, Uncut
      <4>. QED  BY <4>1, <2>1, SameWhole DEF ReadInv, ReadType
    <3>3. \A n : (Between(n)' <=> Between(n)) /\ (InTorn(n)' <=> InTorn(n))
      BY Zenon, <2>1, <3>1 DEF Between, InTorn
    <3>4. \A n : InPacket(n)' <=> InPacket(n)
      BY Zenon, <2>1, <3>1 DEF InPacket, Bytes
    <3>. QED  BY Zenon, <2>1, <3>1, <3>2, <3>3, <3>4 DEF ReadInv, ReadKept
  <2>. QED  BY <2>2, <2>3 DEF ReadInv
<1>2. ReadInv /\ [FramingNext]_frameVars => ReadInv'
  BY <1>1, ArriveStep, ReadByteStep, TimeoutStep DEF FramingNext
<1>. QED  BY <1>2, ReadStart, PTL DEF FramingSpec

LEMMA ReadIsKept == ReadInv => StreamKept
  BY Zenon DEF ReadInv, ReadKept, StreamKept, PacketCount

\* The packets of the stream are returned as they were sent, but for those that a timeout cuts.
THEOREM StreamStaysKept == FramingSpec => []StreamKept
BY ReadInvHolds, ReadIsKept, PTL

-----------------------------------------------------------------------------
(* Framing.  The pictures of the cameras.                                  *)

NPics == Len(Totals)
Pieces == {d \in Pics \X Nat : d[2] < Totals[d[1]]}
LEMMA PicsAre ==
  /\ NPics \in Nat /\ Pics = 1..NPics
  /\ \A f \in Pics : Totals[f] \in Nat \ {0} /\ PacketIds[f] \in Nat \ {0}
BY ChunkAssumption DEF NPics, Pics

\* The order of the datagrams the simulator sends.
Sooner(d, e) == d[1] < e[1] \/ (d[1] = e[1] /\ d[2] < e[2])
InTurn(s) == \A i, j \in 1..Len(s) : i < j => Sooner(s[i], s[j])
\* The datagrams of pictures from f on.
Later(s, f) == s \in Seq(Pieces) /\ InTurn(s) /\ \A i \in 1..Len(s) : s[i][1] >= f
PiecesOf(f) == [k \in 1..Totals[f] |-> <<f, k - 1>>]

LEMMA PiecesOfAre ==
  ASSUME NEW f \in Pics
  PROVE  PiecesOf(f) \in Seq(Pieces) /\ InTurn(PiecesOf(f)) /\ \A i \in 1..Len(PiecesOf(f)) : PiecesOf(f)[i][1] = f
<1>1. PICK n \in Nat : n = Totals[f] /\ f \in Int
  BY PicsAre
<1>2. \A k \in 1..n : <<f, k - 1>> \in Pieces
  BY <1>1 DEF Pieces
<1>3. PICK s : s = PiecesOf(f)
  OBVIOUS
<1>4. s = [k \in 1..n |-> <<f, k - 1>>]
  BY <1>1, <1>3 DEF PiecesOf
<1>5. s \in [1..n -> Pieces]
  BY <1>2, <1>4
<1>6. s \in Seq(Pieces) /\ Len(s) = n
  BY <1>5
<1>7. \A i \in 1..n : s[i] = <<f, i - 1>>
  BY <1>4
<1>8. \A i \in 1..n : s[i][1] = f /\ s[i][2] = i - 1
  BY <1>7
<1>9. InTurn(s)
  BY <1>1, <1>6, <1>8 DEF InTurn, Sooner
<1>. QED  BY <1>3, <1>6, <1>8, <1>9

LEMMA OneMorePicture ==
  ASSUME NEW f \in Pics, NEW s, Later(s, f + 1)
  PROVE  Later(PiecesOf(f) \o s, f)
<1>1. PICK p : p = PiecesOf(f)
  OBVIOUS
<1>2. p \in Seq(Pieces) /\ InTurn(p) /\ \A i \in 1..Len(p) : p[i][1] = f
  BY <1>1, PiecesOfAre
<1>3. s \in Seq(Pieces) /\ InTurn(s) /\ (\A i \in 1..Len(s) : s[i][1] >= f + 1) /\ f \in Int
  BY PicsAre DEF Later
<1>4. /\ p \o s \in Seq(Pieces) /\ Len(p) \in Nat /\ Len(s) \in Nat /\ Len(p \o s) = Len(p) + Len(s)
      /\ (\A i \in 1..Len(p) : (p \o s)[i] = p[i])
      /\ (\A i \in 1..Len(s) : (p \o s)[Len(p) + i] = s[i])
  BY ONLY <1>2, <1>3, Concat
<1>5. PICK t, a, b : t = p \o s /\ a = Len(p) /\ b = Len(s)
  OBVIOUS
<1>6. ASSUME NEW i \in 1..(a + b), i > a PROVE i - a \in 1..b /\ t[i] = s[i - a]
  <2>1. i - a \in 1..b /\ a + (i - a) = i
    BY <1>4, <1>5, <1>6
  <2>. QED  BY Zenon, <2>1, <1>4, <1>5
<1>7. ASSUME NEW i \in 1..(a + b), i <= a PROVE i \in 1..a /\ t[i] = p[i]
  <2>1. i \in 1..a
    BY <1>4, <1>5, <1>7
  <2>. QED  BY Zenon, <2>1, <1>4, <1>5
<1>8. \A i \in 1..(a + b) : t[i] \in Pieces
  BY ONLY <1>4, <1>5
<1>9. \A d \in Pieces : d[1] \in Int
  BY PicsAre DEF Pieces
<1>10. InTurn(t)
  <2>1. ASSUME NEW i \in 1..(a + b), NEW j \in 1..(a + b), i < j PROVE Sooner(t[i], t[j])
    <3>1. CASE j <= a
      <4>1. i <= a
        BY <2>1, <3>1, <1>4, <1>5
      <4>2. i \in 1..Len(p) /\ j \in 1..Len(p) /\ t[i] = p[i] /\ t[j] = p[j]
        BY Zenon, <3>1, <4>1, <1>5, <1>7
      <4>. QED  BY Zenon, <2>1, <4>2, <1>2 DEF InTurn
    <3>2. CASE i > a
      <4>1. j > a /\ i - a < j - a
        BY <2>1, <3>2, <1>4, <1>5
      <4>2. i - a \in 1..Len(s) /\ j - a \in 1..Len(s) /\ t[i] = s[i - a] /\ t[j] = s[j - a]
        BY Zenon, <3>2, <4>1, <1>5, <1>6
      <4>. QED  BY Zenon, <4>1, <4>2, <1>3 DEF InTurn
    <3>3. CASE i <= a /\ j > a
      <4>1. t[i][1] = f
        BY Zenon, <3>3, <1>2, <1>5, <1>7
      <4>2. t[j][1] >= f + 1
        BY Zenon, <3>3, <1>3, <1>5, <1>6
      <4>3. t[j][1] \in Int
        BY Zenon, <1>8, <1>9
      <4>. QED  BY <4>1, <4>2, <4>3, <1>3 DEF Sooner
    <3>4. j <= a \/ i > a \/ (i <= a /\ j > a)
      BY <1>4, <1>5
    <3>. QED  BY <3>1, <3>2, <3>3, <3>4
  <2>. QED  BY <2>1, <1>4, <1>5 DEF InTurn
<1>11. \A i \in 1..(a + b) : t[i][1] >= f
  <2>1. ASSUME NEW i \in 1..(a + b) PROVE t[i][1] >= f
    <3>1. CASE i <= a
      <4>1. t[i][1] = f
        BY Zenon, <3>1, <1>2, <1>5, <1>7
      <4>. QED  BY <4>1, <1>3
    <3>2. CASE i > a
      <4>1. t[i][1] >= f + 1
        BY Zenon, <3>2, <1>3, <1>5, <1>6
      <4>2. t[i][1] \in Int
        BY Zenon, <1>8, <1>9
      <4>. QED  BY <4>1, <4>2, <1>3
    <3>3. i <= a \/ i > a
      BY <1>4, <1>5
    <3>. QED  BY <3>1, <3>2, <3>3
  <2>. QED  BY <2>1
<1>. QED  BY Zenon, <1>1, <1>4, <1>5, <1>10, <1>11 DEF Later

\* What the simulator sends: the datagrams of all pictures, in turn.
LEMMA DatagramsInTurn == Later(Datagrams[1], 1)
<1>. DEFINE N == NPics
            Q == Seq(Pieces)
            step == [k \in Nat |-> [x \in Q |-> IF k \in 1..N THEN PiecesOf((N + 1) - k) \o x ELSE x]]
<1>1. N \in Nat /\ Pics = 1..N
  BY PicsAre
<1>. HIDE DEF N
<1>2. \A k \in Nat : \A x \in Q : step[k][x] = IF k \in 1..N THEN PiecesOf((N + 1) - k) \o x ELSE x
  OBVIOUS
<1>. HIDE DEF step
<1>3. StepsIn(Q, << >>, step)
  <2>1. << >> \in Q
    OBVIOUS
  <2>2. ASSUME NEW k \in Nat, NEW x \in Q PROVE step[k][x] \in Q
    <3>1. ASSUME k \in 1..N PROVE PiecesOf((N + 1) - k) \o x \in Q
      <4>1. (N + 1) - k \in Pics
        BY <1>1, <3>1
      <4>2. PiecesOf((N + 1) - k) \in Seq(Pieces)
        BY Zenon, <4>1, PiecesOfAre
      <4>. QED  BY Zenon, <4>2, Concat
    <3>. HIDE DEF Q
    <3>. QED  BY Zenon, <3>1, <1>2
  <2>. HIDE DEF Q
  <2>. QED  BY <2>1, <2>2 DEF StepsIn
<1>. HIDE DEF Q
<1>4. PICK q, e, st : q = Q /\ e = << >> /\ st = step
  OBVIOUS
<1>5. StepsIn(q, e, st)
  BY <1>3, <1>4
<1>6. PICK h \in [Nat -> q] : h[0] = e /\ \A n \in Nat : h[n + 1] = st[n + 1][h[n]]
  BY ONLY <1>5, Recursion
<1>7. ASSUME NEW n \in Nat, n < N PROVE h[n + 1] = PiecesOf(N - n) \o h[n]
  <2>1. n + 1 \in 1..N /\ n + 1 \in Nat /\ (N + 1) - (n + 1) = N - n
    BY <1>1, <1>7
  <2>2. h[n] \in Q
    BY Zenon, <1>4, <1>6
  <2>. QED  BY Zenon, <2>1, <2>2, <1>2, <1>4, <1>6
<1>. DEFINE g == [f \in 1..(N + 1) |-> h[(N + 1) - f]]
<1>8. ASSUME NEW f \in 1..(N + 1)
      PROVE  g[f] = IF f > N THEN << >> ELSE [k \in 1..Totals[f] |-> <<f, k - 1>>] \o g[f + 1]
  <2>1. CASE f > N
    <3>1. f = N + 1 /\ (N + 1) - f = 0
      BY <1>1, <2>1
    <3>. QED  BY Zenon, <2>1, <3>1, <1>4, <1>6
  <2>2. CASE ~(f > N)
    <3>1. PICK n \in Nat : n = N - f /\ n < N /\ N - n = f /\ (N + 1) - f = n + 1 /\ (N + 1) - (f + 1) = n /\ f + 1 \in 1..(N + 1)
      BY <1>1, <2>2
    <3>2. g[f] = h[n + 1] /\ g[f + 1] = h[n]
      BY Zenon, <3>1
    <3>3. h[n + 1] = PiecesOf(f) \o h[n]
      BY Zenon, <3>1, <1>7
    <3>. HIDE DEF g
    <3>. QED  BY Zenon, <2>2, <3>2, <3>3 DEF PiecesOf
  <2>. QED  BY <2>1, <2>2
<1>. DEFINE D == CHOOSE x : x = [f \in 1..(Len(Totals) + 1) |->
                    IF f > Len(Totals) THEN << >> ELSE [k \in 1..Totals[f] |-> <<f, k - 1>>] \o x[f + 1]]
<1>9. D = [f \in 1..(Len(Totals) + 1) |->
             IF f > Len(Totals) THEN << >> ELSE [k \in 1..Totals[f] |-> <<f, k - 1>>] \o D[f + 1]]
  <2>1. g = [f \in 1..(N + 1) |-> IF f > N THEN << >> ELSE [k \in 1..Totals[f] |-> <<f, k - 1>>] \o g[f + 1]]
    BY Zenon, <1>8
  <2>. HIDE DEF g
  <2>2. g = [f \in 1..(Len(Totals) + 1) |->
               IF f > Len(Totals) THEN << >> ELSE [k \in 1..Totals[f] |-> <<f, k - 1>>] \o g[f + 1]]
    BY Zenon, <2>1 DEF N, NPics
  <2>. QED  BY Zenon, <2>2
<1>10. Datagrams = D
  BY DEF Datagrams
<1>. HIDE DEF D, g
<1>11. \A f \in 1..(N + 1) : D[f] = IF f > N THEN << >> ELSE [k \in 1..Totals[f] |-> <<f, k - 1>>] \o D[f + 1]
  BY Zenon, <1>9 DEF N, NPics
<1>. DEFINE T == {n \in Nat : n <= N => Later(D[(N + 1) - n], (N + 1) - n)}
<1>12. 0 \in T
  <2>1. (N + 1) - 0 = N + 1 /\ N + 1 \in 1..(N + 1) /\ N + 1 > N
    BY <1>1
  <2>2. D[N + 1] = << >>
    BY Zenon, <2>1, <1>11
  <2>3. Later(<< >>, N + 1)
    <3>1. PICK x : x = << >>
      OBVIOUS
    <3>2. x \in Seq(Pieces) /\ Len(x) = 0
      BY <3>1
    <3>3. \A i \in 1..Len(x) : FALSE
      BY <3>2
    <3>. QED  BY Zenon, <3>1, <3>2, <3>3 DEF Later, InTurn
  <2>. QED  BY <2>1, <2>2, <2>3
<1>13. ASSUME NEW n \in Nat, n \in T PROVE n + 1 \in T
  <2>1. CASE n + 1 <= N
    <3>1. PICK f \in 1..N : f = (N + 1) - (n + 1) /\ f + 1 = (N + 1) - n /\ n <= N /\ f \in 1..(N + 1) /\ ~(f > N)
      BY <1>1, <2>1
    <3>2. Later(D[f + 1], f + 1)
      BY Zenon, <1>13, <3>1
    <3>3. D[f] = PiecesOf(f) \o D[f + 1]
      BY Zenon, <3>1, <1>11 DEF PiecesOf
    <3>4. Later(D[f], f)
      BY Zenon, <1>1, <3>2, <3>3, OneMorePicture
    <3>. QED  BY <3>1, <3>4
  <2>. QED  BY <2>1
<1>. HIDE DEF T
<1>14. N \in T /\ N <= N /\ (N + 1) - N = 1
  BY <1>1, <1>12, <1>13, Induct
<1>15. Later(D[(N + 1) - N], (N + 1) - N)
  BY Zenon, <1>14 DEF T
<1>. QED  BY <1>10, <1>14, <1>15

\* The network: what may arrive was sent.  If it keeps the order, there is at most
\* one datagram on its way, after those that arrived and before those to be sent.
NetworkIs(p, unsent, coming, here) ==
  /\ p \in {"ordered", "any"} /\ unsent \in Seq(Pieces) /\ InTurn(unsent)
  /\ coming \subseteq Pieces /\ here \subseteq Pieces
  /\ p = "ordered" =>
       /\ \A d, e \in coming : d = e
       /\ \A d \in coming : \A i \in 1..Len(unsent) : Sooner(d, unsent[i])
       /\ \A d \in here : \A i \in 1..Len(unsent) : Sooner(d, unsent[i])
       /\ \A d \in here : \A e \in coming : Sooner(d, e)
NetworkInv == NetworkIs(path, toSend, onTheWay, chunksHere)

\* What is assembled is of one packet id.
OfOneId(id, total, cs) ==
  /\ \E g \in Pics : id = PacketIds[g] /\ total = Totals[g]
  /\ \A j \in DOMAIN cs : cs[j] \in Pics /\ PacketIds[cs[j]] = id
AsmInv ==
  /\ asm = [id |-> asm.id, total |-> asm.total, chunks |-> asm.chunks, old |-> asm.old]
  /\ asm.old \in BOOLEAN
  /\ asm.id # 0 => OfOneId(asm.id, asm.total, asm.chunks)
  /\ given \in Seq(Seq(Pics)) /\ NoMixture

All(f) == 0..(Totals[f] - 1)
Came(here, f) == {k \in All(f) : <<f, k>> \in here}
Times(pictures, f) == {n \in DOMAIN pictures : pictures[n] = WholePicture(f)}
Latest(here, f) == \A d \in here : d[1] <= f
TwinBefore(here, f) ==
  \E g \in Pics : /\ g < f /\ Came(here, g) # {} /\ PacketIds[g] = PacketIds[f]
                  /\ \A h \in Pics : h < f /\ Came(here, h) # {} => h <= g
\* Of a picture of which chunks arrived, and not after a twin: it was delivered
\* once if it is whole, and else not; the latest one is the one assembled.
PictureIs(here, pictures, a, f) ==
  /\ Came(here, f) = All(f) => \E n : Times(pictures, f) = {n}
  /\ Came(here, f) # All(f) => Times(pictures, f) = {}
  /\ Came(here, f) # All(f) /\ Latest(here, f) =>
       a.id = PacketIds[f] /\ a.total = Totals[f] /\ a.chunks = [k \in Came(here, f) |-> f]
OrderedIs(here, pictures, a) ==
  /\ ~a.old
  /\ a.id # 0 => \E g \in Pics : Came(here, g) # {} /\ a.id = PacketIds[g] /\ Latest(here, g)
  /\ \A f \in Pics : Came(here, f) = {} => Times(pictures, f) = {}
  /\ \A f \in Pics : Came(here, f) # {} /\ ~TwinBefore(here, f) => PictureIs(here, pictures, a, f)
OrderedInv == OrderedIs(chunksHere, given, asm)

ChunkInv == NetworkInv /\ AsmInv /\ (path = "ordered" /\ ~waited => OrderedInv)

-----------------------------------------------------------------------------
NotMixed(q) ==
  \E f \in Pics : q = WholePicture(f) \/ (~Unique(f) /\ \A k \in DOMAIN q : PacketIds[q[k]] = PacketIds[f])

\* The assembly with a chunk more, and what is delivered.
WithChunk(before, f, k) == [j \in DOMAIN before \cup {k} |-> IF j = k THEN f ELSE before[j]]
Joins(total, before, f, k) ==
  IF Cardinality(DOMAIN WithChunk(before, f, k)) >= total
  THEN /\ asm' = NoAssembly
       /\ IF DOMAIN WithChunk(before, f, k) = 0..(total - 1)
          THEN given' = Append(given, [j \in 1..total |-> WithChunk(before, f, k)[j - 1]]) ELSE given' = given
  ELSE /\ asm' = [id |-> PacketIds[f], total |-> total, chunks |-> WithChunk(before, f, k), old |-> FALSE]
       /\ given' = given

LEMMA FilledIs ==
  ASSUME NEW a, NEW id, NEW total, NEW cs, NEW old, a = [id |-> id, total |-> total, chunks |-> cs, old |-> old],
         NEW f, NEW k, NEW c, c = WithChunk(cs, f, k)
  PROVE  /\ Cardinality(DOMAIN c) >= total => Filled(a, k, f).asm = NoAssembly
         /\ ~(Cardinality(DOMAIN c) >= total) => Filled(a, k, f).asm = [id |-> id, total |-> total, chunks |-> c, old |-> old]
         /\ Cardinality(DOMAIN c) >= total /\ DOMAIN c = 0..(total - 1) => Filled(a, k, f).picture = <<[j \in 1..total |-> c[j - 1]]>>
         /\ ~(Cardinality(DOMAIN c) >= total /\ DOMAIN c = 0..(total - 1)) => Filled(a, k, f).picture = << >>
<1>1. a.chunks = cs /\ a.total = total
  OBVIOUS
<1>2. [a EXCEPT !.chunks = c] = [id |-> id, total |-> total, chunks |-> c, old |-> old]
  OBVIOUS
<1>. DEFINE d == [j \in DOMAIN a.chunks \cup {k} |-> IF j = k THEN f ELSE a.chunks[j]]
<1>3. d = c
  BY Zenon, <1>1 DEF WithChunk
<1>. DEFINE full == Cardinality(DOMAIN d) >= a.total
            r == [asm |-> IF full THEN NoAssembly ELSE [a EXCEPT !.chunks = d],
                  picture |-> IF full /\ DOMAIN d = 0..(a.total - 1) THEN <<[j \in 1..a.total |-> d[j - 1]]>> ELSE << >>]
<1>4. Filled(a, k, f) = r
  BY DEF Filled
<1>5. r.asm = (IF full THEN NoAssembly ELSE [a EXCEPT !.chunks = d])
  OBVIOUS
<1>6. r.picture = (IF full /\ DOMAIN d = 0..(a.total - 1) THEN <<[j \in 1..a.total |-> d[j - 1]]>> ELSE << >>)
  OBVIOUS
<1>. HIDE DEF d, r
<1>7. CASE full
  BY Zenon, <1>1, <1>2, <1>3, <1>4, <1>5, <1>6, <1>7
<1>8. CASE ~full
  BY Zenon, <1>1, <1>2, <1>3, <1>4, <1>5, <1>6, <1>8
<1>. QED  BY Zenon, <1>7, <1>8

LEMMA JoinsIs ==
  ASSUME given \in Seq(Seq(Pics)), NEW a, NEW total, NEW cs, NEW f, NEW k,
         a = [id |-> PacketIds[f], total |-> total, chunks |-> cs, old |-> FALSE],
         asm' = Filled(a, k, f).asm, given' = given \o Filled(a, k, f).picture
  PROVE  Joins(total, cs, f, k)
<1>. DEFINE full == Cardinality(DOMAIN WithChunk(cs, f, k)) >= total
            whole == DOMAIN WithChunk(cs, f, k) = 0..(total - 1)
<1>0. PICK id, old : id = PacketIds[f] /\ old = FALSE /\ a = [id |-> id, total |-> total, chunks |-> cs, old |-> old]
  OBVIOUS
<1>1. PICK q, c : q = [j \in 1..total |-> WithChunk(cs, f, k)[j - 1]] /\ c = WithChunk(cs, f, k)
  OBVIOUS
<1>2. /\ Cardinality(DOMAIN c) >= total => Filled(a, k, f).asm = NoAssembly
      /\ ~(Cardinality(DOMAIN c) >= total) => Filled(a, k, f).asm = [id |-> id, total |-> total, chunks |-> c, old |-> old]
      /\ Cardinality(DOMAIN c) >= total /\ DOMAIN c = 0..(total - 1) => Filled(a, k, f).picture = <<[j \in 1..total |-> c[j - 1]]>>
      /\ ~(Cardinality(DOMAIN c) >= total /\ DOMAIN c = 0..(total - 1)) => Filled(a, k, f).picture = << >>
  BY ONLY <1>0, <1>1, FilledIs
<1>3. given \o <<q>> = Append(given, q) /\ given \o << >> = given
  <2>1. PICK g : g = given /\ g \in Seq(Seq(Pics))
    OBVIOUS
  <2>2. g \o <<q>> = Append(g, q) /\ g \o << >> = g
    BY ONLY <2>1
  <2>. QED  BY Zenon, <2>1, <2>2
<1>4. q = [j \in 1..total |-> c[j - 1]]
  BY Zenon, <1>1
<1>5. CASE full
  <2>1. asm' = NoAssembly
    BY Zenon, <1>1, <1>2, <1>5
  <2>2. CASE whole
    BY Zenon, <1>1, <1>2, <1>3, <1>4, <1>5, <2>1, <2>2 DEF Joins
  <2>3. CASE ~whole
    BY Zenon, <1>1, <1>2, <1>3, <1>5, <2>1, <2>3 DEF Joins
  <2>. QED  BY Zenon, <2>2, <2>3
<1>6. CASE ~full
  BY Zenon, <1>0, <1>1, <1>2, <1>3, <1>6 DEF Joins
<1>. QED  BY Zenon, <1>5, <1>6

\* What _handle_chunked does with a chunk.
LEMMA HandleIs ==
  ASSUME AsmInv, NEW f \in Pics, NEW k, Handle(f, k)
  PROVE  \/ asm.id = PacketIds[f] /\ asm.old /\ asm' = NoAssembly /\ given' = given
         \/ asm.id = PacketIds[f] /\ ~asm.old /\ Joins(asm.total, asm.chunks, f, k)
         \/ asm.id # PacketIds[f] /\ Joins(Totals[f], << >>, f, k)
<1>. DEFINE here == IF asm.id = PacketIds[f] THEN asm
                    ELSE [NoAssembly EXCEPT !.id = PacketIds[f], !.total = Totals[f]]
<1>1. IF here.old THEN asm' = NoAssembly /\ given' = given
      ELSE asm' = Filled(here, k, f).asm /\ given' = given \o Filled(here, k, f).picture
  BY Zenon DEF Handle
<1>2. given \in Seq(Seq(Pics))
  BY DEF AsmInv
<1>3. CASE asm.id = PacketIds[f]
  <2>1. here = asm
    BY <1>3
  <2>. HIDE DEF here
  <2>2. CASE asm.old
    BY Zenon, <1>1, <1>3, <2>1, <2>2
  <2>3. CASE ~asm.old
    <3>1. asm.old = FALSE
      BY <2>3 DEF AsmInv
    <3>2. asm = [id |-> PacketIds[f], total |-> asm.total, chunks |-> asm.chunks, old |-> FALSE]
      BY Zenon, <3>1, <1>3 DEF AsmInv
    <3>3. Joins(asm.total, asm.chunks, f, k)
      BY Zenon, <3>2, <1>1, <1>2, <2>1, <2>3, JoinsIs
    <3>. QED  BY Zenon, <3>3, <1>3, <2>3
  <2>. QED  BY <2>2, <2>3
<1>4. CASE asm.id # PacketIds[f]
  <2>1. here = [id |-> PacketIds[f], total |-> Totals[f], chunks |-> << >>, old |-> FALSE]
    BY <1>4 DEF NoAssembly
  <2>. HIDE DEF here
  <2>2. ~here.old
    BY <2>1
  <2>3. Joins(Totals[f], << >>, f, k)
    BY Zenon, <2>1, <2>2, <1>1, <1>2, JoinsIs
  <2>. QED  BY Zenon, <2>3, <1>4
<1>. QED  BY <1>3, <1>4

LEMMA JoinsApart ==
  ASSUME AsmInv, NEW f \in Pics, NEW k \in Nat, NEW total, NEW before,
         OfOneId(PacketIds[f], total, before), Joins(total, before, f, k)
  PROVE  AsmInv'
<1>1. PICK g \in Pics : PacketIds[f] = PacketIds[g] /\ total = Totals[g]
  BY DEF OfOneId
<1>2. PICK cs : cs = WithChunk(before, f, k)
  OBVIOUS
<1>3. DOMAIN cs = DOMAIN before \cup {k} /\ \A j \in DOMAIN cs : cs[j] = IF j = k THEN f ELSE before[j]
  BY <1>2 DEF WithChunk
<1>4. \A j \in DOMAIN cs : cs[j] \in Pics /\ PacketIds[cs[j]] = PacketIds[f]
  BY Zenon, <1>3 DEF OfOneId
<1>5. OfOneId(PacketIds[f], total, cs)
  BY Zenon, <1>1, <1>4 DEF OfOneId
<1>6. total \in Nat /\ PacketIds[f] # 0
  BY <1>1, PicsAre
<1>7. /\ asm' = [id |-> asm'.id, total |-> asm'.total, chunks |-> asm'.chunks, old |-> asm'.old]
      /\ asm'.old \in BOOLEAN /\ (asm'.id # 0 => OfOneId(asm'.id, asm'.total, asm'.chunks))
  <2>1. CASE asm' = NoAssembly
    BY <2>1 DEF NoAssembly
  <2>2. CASE asm' = [id |-> PacketIds[f], total |-> total, chunks |-> cs, old |-> FALSE]
    <3>1. asm'.id = PacketIds[f] /\ asm'.total = total /\ asm'.chunks = cs /\ asm'.old = FALSE
      BY <2>2
    <3>. QED  BY <2>2, <3>1, <1>5
  <2>. QED  BY Zenon, <2>1, <2>2, <1>2 DEF Joins
<1>. DEFINE q == [j \in 1..total |-> cs[j - 1]]
<1>8. given' = given \/ (DOMAIN cs = 0..(total - 1) /\ given' = Append(given, q))
  BY Zenon, <1>2 DEF Joins
<1>9. ASSUME DOMAIN cs = 0..(total - 1) PROVE q \in Seq(Pics) /\ NotMixed(q)
  <2>1. ASSUME NEW j \in 1..total PROVE cs[j - 1] \in Pics /\ PacketIds[cs[j - 1]] = PacketIds[f]
    <3>1. j - 1 \in DOMAIN cs
      BY <1>6, <1>9
    <3>. QED  BY Zenon, <3>1, <1>4
  <2>2. q \in [1..total -> Pics]
    BY Zenon, <2>1
  <2>3. q \in Seq(Pics) /\ DOMAIN q = 1..total
    <3>. HIDE DEF q
    <3>. QED  BY <2>2, <1>6
  <2>4. CASE Unique(f)
    <3>1. g = f
      BY Zenon, <1>1, <2>4 DEF Unique
    <3>2. \A j \in 1..total : cs[j - 1] = f
      BY Zenon, <2>1, <2>4 DEF Unique
    <3>3. q = [j \in 1..total |-> f]
      BY Zenon, <3>2
    <3>4. q = WholePicture(f)
      BY Zenon, <3>1, <3>3, <1>1 DEF WholePicture
    <3>. QED  BY Zenon, <2>3, <3>4 DEF NotMixed
  <2>5. CASE ~Unique(f)
    <3>1. \A j \in DOMAIN q : PacketIds[q[j]] = PacketIds[f]
      BY Zenon, <2>1, <2>3
    <3>. QED  BY Zenon, <2>3, <2>5, <3>1 DEF NotMixed
  <2>. QED  BY <2>4, <2>5
<1>. HIDE DEF q
<1>10. given \in Seq(Seq(Pics)) /\ \A n \in DOMAIN given : NotMixed(given[n])
  BY Zenon DEF AsmInv, NoMixture, NotMixed
<1>11. given' \in Seq(Seq(Pics)) /\ \A n \in DOMAIN given' : NotMixed(given'[n])
  <2>1. PICK g0 : g0 = given
    OBVIOUS
  <2>2. ASSUME q \in Seq(Pics), NotMixed(q)
        PROVE  Append(g0, q) \in Seq(Seq(Pics)) /\ \A n \in DOMAIN Append(g0, q) : NotMixed(Append(g0, q)[n])
    <3>1. g0 \in Seq(Seq(Pics)) /\ \A n \in DOMAIN g0 : NotMixed(g0[n])
      BY Zenon, <2>1, <1>10
    <3>2. Append(g0, q) \in Seq(Seq(Pics)) /\ DOMAIN Append(g0, q) = 1..(Len(g0) + 1) /\ DOMAIN g0 = 1..Len(g0)
      BY <3>1, <2>2
    <3>3. ASSUME NEW n \in 1..(Len(g0) + 1) PROVE NotMixed(Append(g0, q)[n])
      <4>1. n \in 1..Len(g0) => Append(g0, q)[n] = g0[n]
        BY <3>1
      <4>2. n = Len(g0) + 1 => Append(g0, q)[n] = q
        BY <3>1
      <4>3. n \in 1..Len(g0) \/ n = Len(g0) + 1
        BY <3>1
      <4>. QED  BY Zenon, <4>1, <4>2, <4>3, <3>1, <3>2, <2>2
    <3>. QED  BY Zenon, <3>2, <3>3
  <2>. QED  BY Zenon, <2>1, <2>2, <1>8, <1>9, <1>10
<1>12. NoMixture'
  BY Zenon, <1>11 DEF NoMixture, NotMixed, WholePicture, Unique
<1>. QED  BY Zenon, <1>7, <1>11, <1>12 DEF AsmInv

LEMMA HandleApart ==
  ASSUME AsmInv, NEW f \in Pics, NEW k \in Nat, Handle(f, k)
  PROVE  AsmInv'
<1>1. CASE asm' = NoAssembly /\ given' = given
  <2>1. NoMixture
    BY DEF AsmInv
  <2>4. \A n \in DOMAIN given : NotMixed(given[n])
    BY Zenon, <2>1 DEF NoMixture, NotMixed
  <2>3. \A n \in DOMAIN given' : NotMixed(given'[n])
    BY <1>1, <2>4
  <2>2. NoMixture'
    BY Zenon, <2>3 DEF NoMixture, NotMixed, WholePicture, Unique
  <2>. QED  BY <1>1, <2>2 DEF AsmInv, NoAssembly
<1>2. CASE asm.id = PacketIds[f] /\ Joins(asm.total, asm.chunks, f, k)
  <2>1. asm.id # 0
    BY <1>2, PicsAre
  <2>2. OfOneId(PacketIds[f], asm.total, asm.chunks)
    BY Zenon, <1>2, <2>1 DEF AsmInv
  <2>. QED  BY Zenon, <1>2, <2>2, JoinsApart
<1>3. CASE Joins(Totals[f], << >>, f, k)
  <2>1. DOMAIN << >> = {}
    OBVIOUS
  <2>2. OfOneId(PacketIds[f], Totals[f], << >>)
    BY Zenon, <2>1 DEF OfOneId
  <2>. QED  BY Zenon, <1>3, <2>2, JoinsApart
<1>. QED  BY Zenon, <1>1, <1>2, <1>3, HandleIs

LEMMA NetworkStart == ChunkInit => NetworkInv
<1>1. Datagrams[1] \in Seq(Pieces) /\ InTurn(Datagrams[1])
  BY DatagramsInTurn DEF Later
<1>2. ASSUME ChunkInit PROVE NetworkInv
  BY Zenon, <1>1, <1>2 DEF ChunkInit, NetworkInv, NetworkIs
<1>. QED  BY <1>2

LEMMA SendStep ==
  ASSUME NetworkInv, SendChunk
  PROVE  NetworkInv'
<1>1. PICK s, t, n : s = toSend /\ t = toSend' /\ n = Len(s)
  OBVIOUS
<1>2. s \in Seq(Pieces) /\ s # << >> /\ t = Tail(s) /\ InTurn(s)
  BY <1>1 DEF NetworkInv, NetworkIs, SendChunk
<1>3. n \in Nat \ {0} /\ Head(s) = s[1] /\ s[1] \in Pieces /\ t \in Seq(Pieces) /\ Len(t) = n - 1
  BY <1>1, <1>2
<1>4. \A i \in 1..(n - 1) : t[i] = s[i + 1] /\ i + 1 \in 1..n
  BY <1>1, <1>2
<1>5. 1 \in 1..n /\ \A i \in 1..(n - 1) : 1 < i + 1
  BY <1>3
<1>6. \A i \in 1..(n - 1) : Sooner(s[1], t[i])
  BY Zenon, <1>1, <1>2, <1>4, <1>5 DEF InTurn
<1>7. InTurn(t)
  <2>1. \A i, j \in 1..(n - 1) : i < j => i + 1 < j + 1
    BY <1>3
  <2>2. \A i, j \in 1..(n - 1) : i < j => Sooner(t[i], t[j])
    <3>1. ASSUME NEW i \in 1..(n - 1), NEW j \in 1..(n - 1), i < j PROVE Sooner(t[i], t[j])
      <4>1. i + 1 \in 1..n /\ j + 1 \in 1..n /\ i + 1 < j + 1 /\ t[i] = s[i + 1] /\ t[j] = s[j + 1]
        BY Zenon, <2>1, <1>4, <3>1
      <4>2. Sooner(s[i + 1], s[j + 1])
        BY Zenon, <4>1, <1>1, <1>2 DEF InTurn
      <4>. QED  BY Zenon, <4>1, <4>2
    <3>. QED  BY Zenon, <3>1
  <2>. QED  BY Zenon, <2>2, <1>3 DEF InTurn
<1>8. onTheWay' = onTheWay \cup {s[1]} /\ (path = "ordered" => onTheWay = {}) /\ path' = path /\ chunksHere' = chunksHere
  BY <1>1, <1>3 DEF SendChunk
<1>9. onTheWay' \subseteq Pieces /\ chunksHere' \subseteq Pieces /\ path' \in {"ordered", "any"}
  BY <1>3, <1>8 DEF NetworkInv, NetworkIs
<1>10. ASSUME path = "ordered"
       PROVE  /\ \A d, e \in onTheWay' : d = e
              /\ \A d \in onTheWay' : \A i \in 1..Len(t) : Sooner(d, t[i])
              /\ \A d \in chunksHere' : \A i \in 1..Len(t) : Sooner(d, t[i])
              /\ \A d \in chunksHere' : \A e \in onTheWay' : Sooner(d, e)
  <2>1. onTheWay' = {s[1]}
    BY <1>8, <1>10
  <2>2. \A d \in chunksHere : \A i \in 1..n : Sooner(d, s[i])
    BY Zenon, <1>10, <1>1 DEF NetworkInv, NetworkIs
  <2>3. \A d, e \in onTheWay' : d = e
    BY <2>1
  <2>4. \A d \in onTheWay' : \A i \in 1..(n - 1) : Sooner(d, t[i])
    BY <2>1, <1>6
  <2>5. \A d \in chunksHere' : \A i \in 1..(n - 1) : Sooner(d, t[i])
    BY Zenon, <2>2, <1>4, <1>8
  <2>6. \A d \in chunksHere' : \A e \in onTheWay' : Sooner(d, e)
    BY <2>1, <2>2, <1>5, <1>8
  <2>. QED  BY Zenon, <2>3, <2>4, <2>5, <2>6, <1>3
<1>20. NetworkIs(path', toSend', onTheWay', chunksHere')
  BY Zenon, <1>1, <1>3, <1>7, <1>8, <1>9, <1>10 DEF NetworkInv, NetworkIs
<1>. QED  BY Zenon, <1>20 DEF NetworkInv

LEMMA LoseStep ==
  ASSUME NetworkInv, LoseChunk
  PROVE  NetworkInv'
<1>1. /\ onTheWay' \subseteq onTheWay /\ path' = path /\ toSend' = toSend /\ chunksHere' = chunksHere
  BY DEF LoseChunk
<1>20. NetworkIs(path', toSend', onTheWay', chunksHere')
  BY Zenon, <1>1 DEF NetworkInv, NetworkIs
<1>. QED  BY Zenon, <1>20 DEF NetworkInv

\* On a network that keeps the order a datagram that arrives was the only one on
\* its way, and all that arrived before were sent before it.
LEMMA ArrivesStep ==
  ASSUME NetworkInv, ChunkArrives
  PROVE  NetworkInv'
<1>1. PICK d \in onTheWay :
        /\ chunksHere' = chunksHere \cup {d}
        /\ onTheWay' = onTheWay \ {d} \/ (path = "any" /\ onTheWay' = onTheWay)
  BY DEF ChunkArrives
<1>2. path' = path /\ toSend' = toSend
  BY DEF ChunkArrives
<1>3. onTheWay' \subseteq Pieces /\ chunksHere' \subseteq Pieces
  BY <1>1 DEF NetworkInv, NetworkIs
<1>4. ASSUME path = "ordered"
      PROVE  onTheWay' = {} /\ \A e \in chunksHere' : \A i \in 1..Len(toSend) : Sooner(e, toSend[i])
  <2>1. onTheWay' = onTheWay \ {d}
    BY <1>1, <1>4
  <2>2. \A e \in onTheWay : e = d
    BY <1>4 DEF NetworkInv, NetworkIs
  <2>3. \A e \in chunksHere : \A i \in 1..Len(toSend) : Sooner(e, toSend[i])
    BY Zenon, <1>4 DEF NetworkInv, NetworkIs
  <2>4. \A i \in 1..Len(toSend) : Sooner(d, toSend[i])
    BY Zenon, <1>4 DEF NetworkInv, NetworkIs
  <2>. QED  BY <1>1, <2>1, <2>2, <2>3, <2>4
<1>5. ASSUME path = "ordered"
      PROVE  /\ \A e, h \in onTheWay' : e = h
             /\ \A e \in onTheWay' : \A i \in 1..Len(toSend') : Sooner(e, toSend'[i])
             /\ \A e \in chunksHere' : \A i \in 1..Len(toSend') : Sooner(e, toSend'[i])
             /\ \A e \in chunksHere' : \A h \in onTheWay' : Sooner(e, h)
  BY <1>2, <1>4, <1>5
<1>20. NetworkIs(path', toSend', onTheWay', chunksHere')
  BY Zenon, <1>2, <1>3, <1>5 DEF NetworkInv, NetworkIs
<1>. QED  BY Zenon, <1>20 DEF NetworkInv

LEMMA AgesStep ==
  ASSUME NetworkInv, AsmInv, AssemblyAges
  PROVE  NetworkInv' /\ AsmInv' /\ waited'
<1>1. NetworkInv' /\ waited'
  <2>1. waited' /\ path' = path /\ toSend' = toSend /\ onTheWay' = onTheWay /\ chunksHere' = chunksHere
    BY DEF AssemblyAges
  <2>2. NetworkIs(path', toSend', onTheWay', chunksHere')
    BY Zenon, <2>1 DEF NetworkInv
  <2>. QED  BY Zenon, <2>1, <2>2 DEF NetworkInv
<1>2. asm' = [id |-> asm.id, total |-> asm.total, chunks |-> asm.chunks, old |-> TRUE]
  <2>1. asm = [id |-> asm.id, total |-> asm.total, chunks |-> asm.chunks, old |-> asm.old]
    BY DEF AsmInv
  <2>2. asm' = [asm EXCEPT !.old = TRUE]
    BY DEF AssemblyAges
  <2>. QED  BY ONLY <2>1, <2>2
<1>3. asm'.id = asm.id /\ asm'.total = asm.total /\ asm'.chunks = asm.chunks /\ asm'.old = TRUE
  BY ONLY <1>2
<1>4. given' = given /\ NoMixture
  BY DEF AssemblyAges, AsmInv
<1>5. NoMixture'
  <2>1. \A n \in DOMAIN given : NotMixed(given[n])
    BY Zenon, <1>4 DEF NoMixture, NotMixed
  <2>2. \A n \in DOMAIN given' : NotMixed(given'[n])
    BY <1>4, <2>1
  <2>. QED  BY Zenon, <2>2 DEF NoMixture, NotMixed, WholePicture, Unique
<1>6. AsmInv'
  <2>1. given' \in Seq(Seq(Pics))
    BY <1>4 DEF AsmInv
  <2>2. asm' = [id |-> asm'.id, total |-> asm'.total, chunks |-> asm'.chunks, old |-> asm'.old] /\ asm'.old \in BOOLEAN
    BY <1>2, <1>3
  <2>3. asm'.id # 0 => OfOneId(asm'.id, asm'.total, asm'.chunks)
    BY Zenon, <1>3 DEF AsmInv
  <2>. QED  BY Zenon, <2>1, <2>2, <2>3, <1>5 DEF AsmInv, OfOneId
<1>. QED  BY <1>1, <1>6

\* The next datagram that arrives is sent after all that have arrived.
NextPiece(here, f, k) == f \in Pics /\ k \in All(f) /\ here \subseteq Pieces /\ \A e \in here : Sooner(e, <<f, k>>)

OneMore(here, next, f, k) ==
  /\ Came(next, f) = Came(here, f) \cup {k} /\ k \notin Came(here, f)
  /\ \A h \in Pics : h # f => Came(next, h) = Came(here, h)
  /\ \A h \in Pics : Came(here, h) # {} => h <= f
  /\ Latest(here, f) /\ Latest(next, f)
  /\ \A h \in Pics : Latest(next, h) => f <= h
LEMMA GotIs ==
  ASSUME NEW here, NEW f, NEW k, NextPiece(here, f, k), NEW next, next = here \cup {<<f, k>>}
  PROVE  OneMore(here, next, f, k)
<1>1. f \in Pics /\ k \in All(f) /\ \A e \in here : e \in Pieces /\ Sooner(e, <<f, k>>)
  BY DEF NextPiece
<1>2. Pics \subseteq Int /\ \A h \in Pics : All(h) \subseteq Int
  BY PicsAre DEF All
<1>3. <<f, k>>[1] = f /\ <<f, k>>[2] = k
  OBVIOUS
<1>4. \A e \in here : e[1] <= f
  <2>1. ASSUME NEW e \in here PROVE e[1] <= f
    <3>1. e[1] \in Int /\ f \in Int
      BY <1>1, <1>2 DEF Pieces
    <3>2. e[1] < f \/ e[1] = f
      BY Zenon, <1>1, <1>3 DEF Sooner
    <3>. QED  BY <3>1, <3>2
  <2>. QED  BY <2>1
<1>5. <<f, k>> \notin here
  <2>1. f \in Int /\ k \in Int
    BY <1>1, <1>2
  <2>2. ~(f < f) /\ ~(k < k)
    BY <2>1
  <2>3. ~Sooner(<<f, k>>, <<f, k>>)
    BY Zenon, <2>2, <1>3 DEF Sooner
  <2>. QED  BY Zenon, <2>3, <1>1
<1>6. Came(next, f) = Came(here, f) \cup {k} /\ k \notin Came(here, f)
  BY <1>1, <1>5 DEF Came
<1>7. ASSUME NEW h \in Pics, h # f PROVE Came(next, h) = Came(here, h)
  BY <1>7 DEF Came
<1>8. ASSUME NEW h \in Pics, Came(here, h) # {} PROVE h <= f
  <2>1. PICK j : <<h, j>> \in here
    BY <1>8 DEF Came
  <2>2. <<h, j>>[1] = h
    OBVIOUS
  <2>. QED  BY Zenon, <2>1, <2>2, <1>4
<1>9. Latest(here, f) /\ Latest(next, f)
  <2>1. f <= f
    BY <1>1, <1>2
  <2>2. \A e \in next : e \in here \/ e = <<f, k>>
    OBVIOUS
  <2>. QED  BY Zenon, <2>1, <2>2, <1>3, <1>4 DEF Latest
<1>10. \A h \in Pics : Latest(next, h) => f <= h
  <2>1. <<f, k>> \in next
    OBVIOUS
  <2>. QED  BY Zenon, <2>1, <1>3 DEF Latest
<1>. QED  BY Zenon, <1>6, <1>7, <1>8, <1>9, <1>10 DEF OneMore

LEMMA TwinStays ==
  ASSUME NEW here, NEW f, NEW k, NextPiece(here, f, k), NEW next, next = here \cup {<<f, k>>},
         NEW h \in Pics, h <= f
  PROVE  TwinBefore(next, h) <=> TwinBefore(here, h)
<1>1. \A g \in Pics : g < h => Came(next, g) = Came(here, g)
  <2>1. \A g \in Pics : g < h => g # f
    BY PicsAre DEF NextPiece
  <2>2. \A g \in Pics : g # f => Came(next, g) = Came(here, g)
    <3>1. OneMore(here, next, f, k)
      BY GotIs
    <3>. QED  BY Zenon, <3>1 DEF OneMore
  <2>. QED  BY Zenon, <2>1, <2>2
<1>. QED  BY Zenon, <1>1 DEF TwinBefore

\* A picture delivered on the arrival of a chunk holds that chunk.
TimesOf(pictures, more, f, q) ==
  /\ \A h \in Pics : h # f => Times(more, h) = Times(pictures, h)
  /\ q = WholePicture(f) => Times(more, f) = Times(pictures, f) \cup {Len(pictures) + 1}
LEMMA TimesAre ==
  ASSUME NEW pictures \in Seq(Seq(Pics)), NEW f \in Pics, NEW k \in All(f), NEW q,
         k + 1 \in DOMAIN q, q[k + 1] = f
  PROVE  TimesOf(pictures, Append(pictures, q), f, q)
<1>1. PICK n, more : n = Len(pictures) /\ more = Append(pictures, q)
  OBVIOUS
<1>2. /\ n \in Nat /\ DOMAIN pictures = 1..n /\ DOMAIN more = 1..(n + 1) /\ more[n + 1] = q
      /\ \A i \in 1..n : more[i] = pictures[i]
  BY <1>1
<1>3. DOMAIN more = (1..n) \cup {n + 1} /\ n + 1 \notin 1..n
  BY <1>2
<1>4. ASSUME NEW h \in Pics, h # f PROVE q # WholePicture(h)
  <2>1. SUFFICES ASSUME q = WholePicture(h) PROVE FALSE
    OBVIOUS
  <2>2. \A j \in DOMAIN WholePicture(h) : WholePicture(h)[j] = h
    BY DEF WholePicture
  <2>. QED  BY Zenon, <1>4, <2>1, <2>2
<1>5. \A h \in Pics : h # f => Times(more, h) = Times(pictures, h)
  <2>1. ASSUME NEW h \in Pics, h # f PROVE Times(more, h) = Times(pictures, h)
    <3>1. \A i : i \in Times(more, h) <=> i \in Times(pictures, h)
      BY Zenon, <2>1, <1>2, <1>3, <1>4 DEF Times
    <3>. QED  BY Zenon, <3>1
  <2>. QED  BY <2>1
<1>6. q = WholePicture(f) => Times(more, f) = Times(pictures, f) \cup {n + 1}
  <2>1. ASSUME q = WholePicture(f) PROVE Times(more, f) = Times(pictures, f) \cup {n + 1}
    <3>1. \A i : i \in Times(more, f) <=> i \in Times(pictures, f) \/ i = n + 1
      BY Zenon, <2>1, <1>2, <1>3 DEF Times
    <3>. QED  BY <3>1
  <2>. QED  BY <2>1
<1>. QED  BY Zenon, <1>1, <1>5, <1>6 DEF TimesOf

\* All chunks of a picture are there when there are as many as it has.
LEMMA AllThere ==
  ASSUME NEW f \in Pics, NEW S \in SUBSET All(f)
  PROVE  Cardinality(S) >= Totals[f] <=> S = All(f)
<1>1. Totals[f] \in Nat \ {0}
  BY PicsAre
<1>2. IsFiniteSet(All(f)) /\ Cardinality(All(f)) = Totals[f]
  <2>1. PICK n \in Nat \ {0} : n = Totals[f]
    BY <1>1
  <2>2. 0 \in Int /\ n - 1 \in Int
    BY <2>1
  <2>3. IsFiniteSet(0..(n - 1)) /\ Cardinality(0..(n - 1)) = IF 0 > n - 1 THEN 0 ELSE (n - 1) - 0 + 1
    BY Zenon, <2>2, FS_Interval
  <2>4. Cardinality(0..(n - 1)) = n
    BY <2>1, <2>3
  <2>. QED  BY Zenon, <2>1, <2>3, <2>4 DEF All
<1>3. Cardinality(S) <= Cardinality(All(f)) /\ (Cardinality(S) = Cardinality(All(f)) => S = All(f))
  BY <1>2, FS_Subset
<1>4. Cardinality(S) \in Nat
  BY <1>2, FS_Subset, FS_CardinalityType
<1>. QED  BY <1>1, <1>2, <1>3, <1>4

\* What the assembly holds is all that arrived of picture f.
Holds(here, before, f) == DOMAIN before = Came(here, f) /\ \A j \in DOMAIN before : before[j] = f

LEMMA WholeJoin ==
  ASSUME NEW here, NEW f \in Pics, NEW k, NextPiece(here, f, k), NEW next, next = here \cup {<<f, k>>},
         given \in Seq(Seq(Pics)), NEW before, Holds(here, before, f), Times(given, f) = {},
         Joins(Totals[f], before, f, k)
  PROVE  PictureIs(next, given', asm', f)
<1>1. Came(next, f) = Came(here, f) \cup {k} /\ k \in All(f)
  <2>1. OneMore(here, next, f, k)
    BY GotIs
  <2>. QED  BY Zenon, <2>1 DEF OneMore, NextPiece
<1>2. PICK cs : cs = WithChunk(before, f, k)
  OBVIOUS
<1>3. DOMAIN before \cup {k} = Came(next, f)
  BY Zenon, <1>1 DEF Holds
<1>4. cs = [j \in Came(next, f) |-> f]
  BY Zenon, <1>2, <1>3 DEF WithChunk, Holds
<1>5. DOMAIN cs = Came(next, f) /\ \A j \in Came(next, f) : cs[j] = f
  BY Zenon, <1>4
<1>6. Came(next, f) \in SUBSET All(f)
  BY DEF Came
<1>7. Cardinality(DOMAIN cs) >= Totals[f] <=> Came(next, f) = All(f)
  BY Zenon, <1>5, <1>6, AllThere
<1>8. CASE Came(next, f) = All(f)
  <2>1. PICK q : q = [j \in 1..Totals[f] |-> cs[j - 1]]
    OBVIOUS
  <2>2. given' = Append(given, q)
    BY Zenon, <1>2, <1>5, <1>7, <1>8, <2>1 DEF Joins, All
  <2>3. \A j \in 1..Totals[f] : j - 1 \in Came(next, f)
    BY <1>8, PicsAre DEF All
  <2>4. q = WholePicture(f)
    BY Zenon, <2>1, <2>3, <1>5 DEF WholePicture
  <2>5. k + 1 \in DOMAIN q /\ q[k + 1] = f
    <3>1. k + 1 \in 1..Totals[f]
      BY <1>1, PicsAre DEF All
    <3>. QED  BY Zenon, <3>1, <2>4 DEF WholePicture
  <2>6. Times(given', f) = Times(given, f) \cup {Len(given) + 1}
    <3>1. TimesOf(given, Append(given, q), f, q)
      BY <1>1, <2>5, TimesAre
    <3>. QED  BY Zenon, <3>1, <2>2, <2>4 DEF TimesOf
  <2>7. Times(given', f) = {Len(given) + 1}
    BY <2>6
  <2>. QED  BY Zenon, <1>8, <2>7 DEF PictureIs
<1>9. CASE Came(next, f) # All(f)
  <2>1. /\ asm' = [id |-> PacketIds[f], total |-> Totals[f], chunks |-> cs, old |-> FALSE]
        /\ given' = given
    BY Zenon, <1>2, <1>7, <1>9 DEF Joins
  <2>2. asm'.id = PacketIds[f] /\ asm'.total = Totals[f] /\ asm'.chunks = cs
    BY <2>1
  <2>. QED  BY Zenon, <1>4, <1>9, <2>1, <2>2 DEF PictureIs
<1>. QED  BY <1>8, <1>9

\* A picture is delivered with the chunk that makes it whole, so that no other
\* picture is taken for delivered.
LEMMA OthersStay ==
  ASSUME NEW f \in Pics, NEW k \in All(f), given \in Seq(Seq(Pics)), NEW total, NEW before,
         Joins(total, before, f, k), total \in Nat
  PROVE  /\ \A h \in Pics : h # f => Times(given', h) = Times(given, h)
         /\ asm'.old = FALSE /\ (asm'.id # 0 => asm'.id = PacketIds[f])
<1>1. PICK cs, q : cs = WithChunk(before, f, k) /\ q = [j \in 1..total |-> cs[j - 1]]
  OBVIOUS
<1>2. k \in DOMAIN cs /\ cs[k] = f
  BY <1>1 DEF WithChunk
<1>3. given' = given \/ (DOMAIN cs = 0..(total - 1) /\ given' = Append(given, q))
  BY Zenon, <1>1 DEF Joins
<1>4. ASSUME DOMAIN cs = 0..(total - 1), given' = Append(given, q)
      PROVE  \A h \in Pics : h # f => Times(given', h) = Times(given, h)
  <2>1. k + 1 \in 1..total /\ (k + 1) - 1 = k
    BY <1>2, <1>4
  <2>2. k + 1 \in DOMAIN q /\ q[k + 1] = f
    BY Zenon, <2>1, <1>1, <1>2
  <2>3. \A h \in Pics : h # f => Times(given', h) = Times(given, h)
    <3>1. TimesOf(given, Append(given, q), f, q)
      BY <2>2, TimesAre
    <3>. QED  BY Zenon, <3>1, <1>4 DEF TimesOf
  <2>. QED  BY Zenon, <2>3
<1>5. asm'.old = FALSE /\ (asm'.id # 0 => asm'.id = PacketIds[f])
  <2>1. asm' = NoAssembly \/ asm' = [id |-> PacketIds[f], total |-> total, chunks |-> cs, old |-> FALSE]
    BY Zenon, <1>1 DEF Joins
  <2>. QED  BY <2>1 DEF NoAssembly
<1>6. \A h \in Pics : h # f => Times(given', h) = Times(given, h)
  BY Zenon, <1>3, <1>4
<1>. QED  BY Zenon, <1>5, <1>6

LEMMA OrderedStep ==
  ASSUME AsmInv, NEW here, NEW f \in Pics, NEW k, NextPiece(here, f, k), NEW next, next = here \cup {<<f, k>>},
         OrderedIs(here, given, asm), Handle(f, k)
  PROVE  OrderedIs(next, given', asm')
<1>1. OneMore(here, next, f, k) /\ k \in All(f)
  BY GotIs DEF NextPiece
<1>2. Totals[f] \in Nat /\ PacketIds[f] # 0 /\ given \in Seq(Seq(Pics)) /\ ~asm.old
  BY PicsAre DEF AsmInv, OrderedIs
<1>3. PICK total, before :
        /\ Joins(total, before, f, k) /\ total \in Nat
        /\ \/ asm.id = PacketIds[f] /\ total = asm.total /\ before = asm.chunks
           \/ asm.id # PacketIds[f] /\ total = Totals[f] /\ DOMAIN before = {}
  <2>1. CASE asm.id = PacketIds[f] /\ Joins(asm.total, asm.chunks, f, k)
    <3>1. PICK g \in Pics : asm.total = Totals[g]
      BY Zenon, <1>2, <2>1 DEF AsmInv, OfOneId
    <3>2. asm.total \in Nat
      BY <3>1, PicsAre
    <3>. QED  BY Zenon, <2>1, <3>2
  <2>2. CASE asm.id # PacketIds[f] /\ Joins(Totals[f], << >>, f, k)
    <3>1. DOMAIN << >> = {}
      OBVIOUS
    <3>. QED  BY Zenon, <1>2, <2>2, <3>1
  <2>. QED  BY Zenon, <1>2, <2>1, <2>2, HandleIs
<1>4. /\ \A h \in Pics : h # f => Times(given', h) = Times(given, h)
      /\ asm'.old = FALSE /\ (asm'.id # 0 => asm'.id = PacketIds[f])
  BY ONLY <1>1, <1>2, <1>3, f \in Pics, OthersStay
<1>5. Came(next, f) # {}
  BY <1>1 DEF OneMore
<1>6. asm'.id # 0 => \E g \in Pics : Came(next, g) # {} /\ asm'.id = PacketIds[g] /\ Latest(next, g)
  BY Zenon, <1>1, <1>4, <1>5 DEF OneMore
<1>7. \A h \in Pics : Came(next, h) = {} => Times(given', h) = {}
  BY Zenon, <1>1, <1>4, <1>5 DEF OneMore, OrderedIs
<1>8. ASSUME NEW h \in Pics, h # f, Came(next, h) # {}, ~TwinBefore(next, h)
      PROVE  PictureIs(next, given', asm', h)
  <2>1. Came(next, h) = Came(here, h) /\ h <= f
    BY Zenon, <1>1, <1>8 DEF OneMore
  <2>2. TwinBefore(next, h) <=> TwinBefore(here, h)
    BY ONLY <2>1, h \in Pics, NextPiece(here, f, k), next = here \cup {<<f, k>>}, TwinStays
  <2>3. PictureIs(here, given, asm, h)
    BY Zenon, <1>8, <2>1, <2>2 DEF OrderedIs
  <2>4. ~Latest(next, h)
    <3>1. ~(f <= h)
      BY <1>8, <2>1, PicsAre
    <3>. QED  BY Zenon, <3>1, <1>1 DEF OneMore
  <2>5. Times(given', h) = Times(given, h)
    BY Zenon, <1>4, <1>8
  <2>. QED  BY Zenon, <2>1, <2>3, <2>4, <2>5 DEF PictureIs
<1>9. ASSUME ~TwinBefore(next, f)
      PROVE  PictureIs(next, given', asm', f)
  <2>1. ~TwinBefore(here, f)
    <3>1. f <= f
      BY PicsAre
    <3>2. TwinBefore(next, f) <=> TwinBefore(here, f)
      BY ONLY <3>1, f \in Pics, NextPiece(here, f, k), next = here \cup {<<f, k>>}, TwinStays
    <3>. QED  BY <3>2, <1>9
  <2>2. Holds(here, before, f) /\ total = Totals[f] /\ Times(given, f) = {}
    <3>1. CASE Came(here, f) # {}
      <4>1. PictureIs(here, given, asm, f)
        BY Zenon, <2>1, <3>1 DEF OrderedIs
      <4>2. Came(here, f) # All(f) /\ Latest(here, f)
        BY Zenon, <1>1 DEF OneMore
      <4>3. Times(given, f) = {} /\ asm.id = PacketIds[f] /\ asm.total = Totals[f] /\ asm.chunks = [j \in Came(here, f) |-> f]
        BY Zenon, <4>1, <4>2 DEF PictureIs
      <4>4. DOMAIN asm.chunks = Came(here, f) /\ \A j \in Came(here, f) : asm.chunks[j] = f
        BY Zenon, <4>3
      <4>. QED  BY Zenon, <4>3, <4>4, <1>3 DEF Holds
    <3>2. CASE Came(here, f) = {}
      <4>1. asm.id # PacketIds[f]
        <5>1. SUFFICES ASSUME asm.id = PacketIds[f] PROVE FALSE
          OBVIOUS
        <5>2. PICK g \in Pics : Came(here, g) # {} /\ asm.id = PacketIds[g] /\ Latest(here, g)
          BY Zenon, <1>2, <5>1 DEF OrderedIs
        <5>3. g <= f /\ g # f
          BY Zenon, <5>2, <3>2, <1>1 DEF OneMore
        <5>4. g < f
          BY <5>3, PicsAre
        <5>5. ASSUME NEW h \in Pics, Came(here, h) # {} PROVE h <= g
          <6>1. PICK j : <<h, j>> \in here
            BY <5>5 DEF Came
          <6>2. <<h, j>>[1] = h
            OBVIOUS
          <6>. QED  BY Zenon, <5>2, <6>1, <6>2 DEF Latest
        <5>. QED  BY Zenon, <5>1, <5>2, <5>4, <5>5, <2>1 DEF TwinBefore
      <4>2. total = Totals[f] /\ DOMAIN before = {}
        BY Zenon, <4>1, <1>3
      <4>3. Times(given, f) = {}
        BY Zenon, <3>2 DEF OrderedIs
      <4>. QED  BY Zenon, <3>2, <4>2, <4>3 DEF Holds
    <3>. QED  BY <3>1, <3>2
  <2>. QED  BY ONLY <1>2, <1>3, <2>2, f \in Pics, NextPiece(here, f, k), next = here \cup {<<f, k>>}, WholeJoin
<1>. QED  BY Zenon, <1>4, <1>6, <1>7, <1>8, <1>9 DEF OrderedIs

LEMMA ChunkInvStart == ChunkInit => ChunkInv
<1>. SUFFICES ASSUME ChunkInit PROVE ChunkInv
  OBVIOUS
<1>1. NetworkInv
  BY Zenon, NetworkStart
<1>2. asm = NoAssembly /\ given = << >> /\ chunksHere = {}
  BY DEF ChunkInit
<1>3. asm.id = 0 /\ asm.old = FALSE /\ asm = [id |-> asm.id, total |-> asm.total, chunks |-> asm.chunks, old |-> asm.old]
  BY <1>2 DEF NoAssembly
<1>4. given \in Seq(Seq(Pics)) /\ DOMAIN given = {}
  BY <1>2
<1>5. AsmInv
  BY Zenon, <1>3, <1>4 DEF AsmInv, NoMixture
<1>6. \A f \in Pics : Came(chunksHere, f) = {} /\ Times(given, f) = {}
  BY <1>2, <1>4 DEF Came, Times
<1>7. OrderedInv
  BY Zenon, <1>3, <1>6 DEF OrderedInv, OrderedIs
<1>. QED  BY Zenon, <1>1, <1>5, <1>7 DEF ChunkInv

LEMMA ChunkInvStep == ChunkInv /\ [ChunkNext]_chunkVars => ChunkInv'
<1>. SUFFICES ASSUME ChunkInv, [ChunkNext]_chunkVars PROVE ChunkInv'
  OBVIOUS
<1>1. NetworkInv /\ AsmInv
  BY DEF ChunkInv
<1>2. ASSUME asm' = asm, given' = given, chunksHere' = chunksHere, waited' = waited, path' = path, NetworkInv'
      PROVE  ChunkInv'
  <2>1. AsmInv'
    <3>1. \A n \in DOMAIN given : NotMixed(given[n])
      BY Zenon, <1>1 DEF AsmInv, NoMixture, NotMixed
    <3>2. \A n \in DOMAIN given' : NotMixed(given'[n])
      BY <1>2, <3>1
    <3>3. NoMixture'
      BY Zenon, <3>2 DEF NoMixture, NotMixed, WholePicture, Unique
    <3>4. given' \in Seq(Seq(Pics))
      BY <1>1, <1>2 DEF AsmInv
    <3>5. /\ asm' = [id |-> asm'.id, total |-> asm'.total, chunks |-> asm'.chunks, old |-> asm'.old] /\ asm'.old \in BOOLEAN
          /\ asm'.id # 0 => OfOneId(asm'.id, asm'.total, asm'.chunks)
      BY <1>1, <1>2 DEF AsmInv
    <3>. QED  BY Zenon, <3>3, <3>4, <3>5 DEF AsmInv
  <2>2. path' = "ordered" /\ ~waited' => OrderedIs(chunksHere', given', asm')
    BY <1>2 DEF ChunkInv, OrderedInv
  <2>. QED  BY Zenon, <1>2, <2>1, <2>2 DEF ChunkInv, OrderedInv
<1>3. CASE SendChunk
  <2>1. NetworkInv'
    BY Zenon, <1>1, <1>3, SendStep
  <2>. QED  BY <1>2, <1>3, <2>1 DEF SendChunk
<1>4. CASE LoseChunk
  <2>1. NetworkInv'
    BY Zenon, <1>1, <1>4, LoseStep
  <2>. QED  BY <1>2, <1>4, <2>1 DEF LoseChunk
<1>5. CASE ChunkArrives
  <2>1. NetworkInv'
    BY Zenon, <1>1, <1>5, ArrivesStep
  <2>2. PICK d \in onTheWay : Handle(d[1], d[2]) /\ chunksHere' = chunksHere \cup {d}
    BY <1>5 DEF ChunkArrives
  <2>3. PICK f \in Pics : \E k \in All(f) : d = <<f, k>>
    <3>1. d \in Pieces
      BY <1>1 DEF NetworkInv, NetworkIs
    <3>2. d[1] \in Pics /\ d[2] \in Nat /\ d[2] < Totals[d[1]] /\ d = <<d[1], d[2]>>
      BY <3>1 DEF Pieces
    <3>3. d[2] \in All(d[1])
      BY <3>2, PicsAre DEF All
    <3>. QED  BY Zenon, <3>2, <3>3
  <2>7. PICK k \in All(f) : d = <<f, k>>
    BY <2>3
  <2>4. Handle(f, k) /\ k \in Nat
    <3>1. d[1] = f /\ d[2] = k
      BY <2>7
    <3>2. k \in Nat
      BY <2>7, PicsAre DEF All
    <3>. QED  BY Zenon, <2>2, <3>1, <3>2
  <2>5. AsmInv'
    BY Zenon, <1>1, <2>4, HandleApart
  <2>6. ASSUME path' = "ordered", ~waited' PROVE OrderedIs(chunksHere', given', asm')
    <3>1. path = "ordered" /\ ~waited
      BY <1>5, <2>6 DEF ChunkArrives
    <3>2. OrderedIs(chunksHere, given, asm)
      BY Zenon, <3>1 DEF ChunkInv, OrderedInv
    <3>3. NextPiece(chunksHere, f, k)
      BY Zenon, <1>1, <2>2, <2>7, <3>1 DEF NetworkInv, NetworkIs, NextPiece
    <3>4. PICK here, next : here = chunksHere /\ next = chunksHere' /\ next = here \cup {<<f, k>>}
      BY <2>2, <2>7
    <3>5. OrderedIs(next, given', asm')
      <4>1. OrderedIs(here, given, asm) /\ NextPiece(here, f, k)
        BY <3>2, <3>3, <3>4
      <4>. QED  BY ONLY <4>1, <3>4, <1>1, <2>4, f \in Pics, OrderedStep
    <3>. QED  BY <3>4, <3>5
  <2>. QED  BY Zenon, <2>1, <2>5, <2>6 DEF ChunkInv, OrderedInv
<1>6. CASE AssemblyAges
  BY Zenon, <1>1, <1>6, AgesStep DEF ChunkInv
<1>7. CASE UNCHANGED chunkVars
  <2>1. /\ path' = path /\ toSend' = toSend /\ onTheWay' = onTheWay /\ chunksHere' = chunksHere
        /\ asm' = asm /\ given' = given /\ waited' = waited
    BY <1>7 DEF chunkVars
  <2>2. NetworkIs(path', toSend', onTheWay', chunksHere')
    BY Zenon, <1>1, <2>1 DEF NetworkInv
  <2>3. NetworkInv'
    BY Zenon, <2>2 DEF NetworkInv
  <2>. QED  BY <1>2, <2>1, <2>3
<1>. QED  BY Zenon, <1>3, <1>4, <1>5, <1>6, <1>7 DEF ChunkNext

LEMMA PicturesAreWhole == ChunkInv => PicturesWhole
<1>. SUFFICES ASSUME ChunkInv PROVE PicturesWhole
  OBVIOUS
<1>1. NoMixture /\ chunksHere \subseteq Pieces
  BY Zenon DEF ChunkInv, AsmInv, NetworkInv, NetworkIs
<1>2. ASSUME path = "ordered", ~waited, NEW f \in Pics, ChunksOf(f) \subseteq chunksHere, ~AfterATwin(f)
      PROVE  Cardinality({n \in DOMAIN given : given[n] = WholePicture(f)}) = 1
  <2>1. OrderedIs(chunksHere, given, asm)
    BY Zenon, <1>2 DEF ChunkInv, OrderedInv
  <2>2. \A g \in Pics : Came(chunksHere, g) # {} <=> ChunksOf(g) \cap chunksHere # {}
    BY DEF Came, ChunksOf, All
  <2>3. ~TwinBefore(chunksHere, f)
    <3>1. \A g : g \in Before(f) <=> g \in Pics /\ g < f /\ Came(chunksHere, g) # {}
      BY <2>2 DEF Before
    <3>. QED  BY Zenon, <1>2, <3>1 DEF AfterATwin, TwinBefore
  <2>4. Came(chunksHere, f) = All(f)
    BY <1>2 DEF Came, All, ChunksOf
  <2>5. 0 \in All(f)
    BY PicsAre DEF All
  <2>6. PictureIs(chunksHere, given, asm, f)
    BY Zenon, <2>1, <2>3, <2>4, <2>5 DEF OrderedIs
  <2>7. PICK n : Times(given, f) = {n}
    BY Zenon, <2>4, <2>6 DEF PictureIs
  <2>8. Cardinality({n}) = 1
    BY FS_Singleton
  <2>. QED  BY Zenon, <2>7, <2>8 DEF Times
<1>. QED  BY Zenon, <1>1, <1>2 DEF PicturesWhole, LossIsLocal

\* What a camera receiver delivers is one picture, whole; and on a network that
\* keeps the order a lost datagram costs no picture but its own.
THEOREM PicturesStayWhole == ChunkSpec => []PicturesWhole
<1>1. ChunkSpec => []ChunkInv
  BY ChunkInvStart, ChunkInvStep, PTL DEF ChunkSpec
<1>. QED  BY <1>1, PicturesAreWhole, PTL

\* Both kinds of pieces the simulator sends are put together as they were.
THEOREM PiecesStayJoined == FramingSpec /\ ChunkSpec => []PiecesJoined
<1>1. StreamKept /\ PicturesWhole => PiecesJoined
  BY Zenon DEF PiecesJoined
<1>. QED  BY <1>1, StreamStaysKept, PicturesStayWhole, PTL
=============================================================================
