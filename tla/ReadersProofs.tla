---------------------------- MODULE ReadersProofs ----------------------------
(***************************************************************************)
(* Proofs about what the console reads back: datagrams of the LiDAR, the   *)
(* path a vehicle follows, and the files of the monitor, the panels and    *)
(* the window.  The models compute much of it by recursive functions; what *)
(* those are is proved here by induction, from the least element of a set  *)
(* of numbers.                                                             *)
(***************************************************************************)
EXTENDS SavedState, RoutePlan, LidarFrames, FiniteSetTheorems, SequenceTheorems,
        WellFoundedInduction, TLAPS

-----------------------------------------------------------------------------
(* SavedState.  The files of the panels.                                   *)

\* Between two steps the files give each panel what it is remembered to have
\* shown or saved, but for the panels of which a file was torn or overwritten;
\* the file that is being written is torn.
SavedInv ==
  /\ console \in {"down", "up"} /\ writing \in PanelNames \cup {"none"} /\ (console = "down" => writing = "none")
  /\ DOMAIN files = PanelNames /\ remembered = [p \in PanelNames |-> remembered[p]] /\ held = [p \in PanelNames |-> held[p]]
  /\ \A p \in PanelNames : files[p] = NoStateFile \/ files[p] = TornFile \/ files[p].is = "json"
  /\ writing # "none" => files[writing] = TornFile
  /\ \A p \in PanelNames \ excused : p # writing => Loaded[p] = remembered[p]
  /\ panelsLost = {}

\* _save_state of a panel.
LEMMA StateOpens ==
  ASSUME SavedInv, NEW p \in PanelNames, OpenState(p)
  PROVE  SavedInv'
<1>. /\ console = "up" /\ writing = "none" /\ writing' = p /\ files' = [files EXCEPT ![p] = TornFile]
     /\ UNCHANGED <<held, console, changes, remembered, panelsLost>> /\ excused \subseteq excused'
  BY DEF OpenState
<1>1. ASSUME NEW q \in PanelNames \ excused', q # p PROVE Loaded'[q] = remembered'[q]
  <2>1. Loaded[q] = remembered[q] /\ files'[q] = files[q]
    BY <1>1 DEF SavedInv, PanelNames
  <2>2. CASE q = "commands"
    BY <2>1, <2>2 DEF Loaded, LoadCommands, PanelNames
  <2>3. CASE q # "commands" /\ p # "commands"
    BY <1>1, <2>1, <2>3 DEF Loaded, LoadObjects, LoadTraffic, PanelNames, SavedInv
  <2>4. CASE q # "commands" /\ p = "commands"
    <3>1. q \notin Heirs /\ q \in {"objects", "traffic"}
      BY <1>1, <2>4 DEF OpenState, PanelNames
    <3>2. q \in Keys(files["commands"]) => ~Reads(q)
      BY <3>1 DEF Heirs
    <3>3. Field(files'["commands"], q) = 0 /\ files'["commands"] = TornFile
      BY <2>4 DEF SavedInv, Field, Keys, TornFile, PanelNames
    <3>4. CASE q \notin Keys(files["commands"])
      <4>1. Field(files["commands"], q) = 0
        BY <3>4 DEF Field
      <4>2. CASE q = "objects"
        BY <4>1, <4>2, <2>1, <3>3, <2>4 DEF Loaded, LoadObjects, PanelNames
      <4>3. CASE q = "traffic"
        BY <4>1, <4>3, <2>1, <3>3, <2>4 DEF Loaded, LoadTraffic, PanelNames
      <4>. QED  BY <3>1, <4>2, <4>3
    <3>5. CASE ~Reads(q)
      <4>1. CASE q = "objects"
        BY <3>5, <4>1, <2>1 DEF Reads, Loaded, LoadObjects, PanelNames
      <4>2. CASE q = "traffic"
        BY <3>5, <4>2, <2>1 DEF Reads, Loaded, LoadTraffic, PanelNames, SavedInv
      <4>. QED  BY <3>1, <4>1, <4>2
    <3>. QED  BY <3>2, <3>4, <3>5
  <2>. QED  BY <1>1, <2>2, <2>3, <2>4
<1>. QED  BY <1>1 DEF SavedInv, PanelNames, TornFile

\* The end of _save_state.
LEMMA StateWritten ==
  ASSUME SavedInv, NEW p \in PanelNames, WriteState(p)
  PROVE  SavedInv'
<1>. /\ writing = p /\ writing' = "none" /\ files' = [files EXCEPT ![p] = JsonOf([q \in {p} |-> held[p]])]
     /\ remembered' = [remembered EXCEPT ![p] = held[p]] /\ excused' = excused \ {p}
     /\ UNCHANGED <<held, console, changes, panelsLost>>
  BY DEF WriteState
<1>0. p # "none"
  BY DEF PanelNames
<1>. DEFINE own == JsonOf([q \in {p} |-> held[p]])
<1>1. /\ files[p] = TornFile /\ files'[p] = own /\ own.is = "json"
      /\ \A q \in PanelNames : Field(own, q) = IF q = p THEN held[p] ELSE 0
  BY <1>0 DEF SavedInv, JsonOf, Field, Keys, PanelNames
<1>2. \A q \in PanelNames : remembered'[q] = IF q = p THEN held[p] ELSE remembered[q]
  BY DEF SavedInv
<1>3. Loaded'[p] = held[p]
  <2>1. own # NoStateFile
    BY <1>1 DEF NoStateFile
  <2>. HIDE DEF own
  <2>. QED  BY <1>1, <2>1 DEF Loaded, LoadCommands, LoadObjects, LoadTraffic, PanelNames
<1>4. ASSUME NEW q \in PanelNames \ excused', q # p PROVE Loaded'[q] = Loaded[q]
  <2>1. files'[q] = files[q]
    BY <1>4 DEF SavedInv
  <2>2. CASE p # "commands" \/ q = "commands"
    BY <2>1, <2>2, <1>4 DEF Loaded, LoadCommands, LoadObjects, LoadTraffic, PanelNames, SavedInv
  <2>3. CASE p = "commands" /\ q # "commands"
    <3>1. Field(TornFile, q) = 0 /\ Field(own, q) = 0
      BY <1>1, <1>4 DEF Field, Keys, TornFile
    <3>. HIDE DEF own
    <3>2. CASE q = "objects"
      BY <1>1, <2>1, <2>3, <3>1, <3>2 DEF Loaded, LoadObjects, PanelNames
    <3>3. CASE q = "traffic"
      BY <1>1, <2>1, <2>3, <3>1, <3>3 DEF Loaded, LoadTraffic, PanelNames
    <3>. QED  BY <2>3, <1>4, <3>2, <3>3 DEF PanelNames
  <2>. QED  BY <2>2, <2>3
<1>5. \A q \in PanelNames \ excused' : Loaded'[q] = remembered'[q]
  <2>1. \A q \in PanelNames \ excused' : q # p => Loaded[q] = remembered[q]
    BY DEF SavedInv
  <2>. QED  BY <1>2, <1>3, <1>4, <2>1
<1>6. \A q \in PanelNames : files'[q] = NoStateFile \/ files'[q] = TornFile \/ files'[q].is = "json"
  <2>. HIDE DEF own
  <2>. QED  BY <1>1 DEF SavedInv
<1>7. remembered' = [q \in PanelNames |-> remembered'[q]] /\ DOMAIN files' = PanelNames
  BY DEF SavedInv
<1>. QED  BY <1>5, <1>6, <1>7 DEF SavedInv

\* What a panel showed after a start, or saved since, it shows after the next, but
\* for a write that was killed and legacy fields that were overwritten
\* (_load_state and _save_state of the panels, for any number of sessions).
THEOREM PanelsStayRestored == SavedSpec => []PanelsRestored
<1>1. SavedInit => SavedInv
  <2>. SUFFICES ASSUME SavedInit PROVE SavedInv
    OBVIOUS
  <2>1. \A p \in PanelNames : files[p] = NoStateFile \/ files[p].is = "json"
    BY DEF SavedInit, JsonOf, Old, PanelNames
  <2>2. DOMAIN files = PanelNames
    BY DEF SavedInit
  <2>. QED  BY <2>1, <2>2 DEF SavedInit, SavedInv, Panels0
<1>2. SavedInv /\ [SavedNext]_savedVars => SavedInv'
  <2>. SUFFICES ASSUME SavedInv, [SavedNext]_savedVars PROVE SavedInv'
    OBVIOUS
  <2>1. CASE StartConsole
    <3>1. Loaded' = Loaded
      BY <2>1 DEF StartConsole, Loaded, LoadCommands, LoadObjects, LoadTraffic
    <3>2. writing = "none"
      BY <2>1 DEF StartConsole, SavedInv
    <3>3. panelsLost' = {}
      BY <2>1, <3>2 DEF StartConsole, SavedInv, PanelNames
    <3>4. Loaded = [p \in PanelNames |-> Loaded[p]]
      <4>. DEFINE loaded(p) == CASE p = "commands" -> LoadCommands
                                 [] p = "objects" -> LoadObjects [] p = "traffic" -> LoadTraffic
      <4>1. Loaded = [p \in PanelNames |-> loaded(p)]
        BY Zenon DEF Loaded
      <4>. HIDE DEF loaded
      <4>. QED  BY <4>1
    <3>. HIDE DEF Loaded
    <3>. QED  BY <2>1, <3>1, <3>2, <3>3, <3>4 DEF StartConsole, SavedInv
  <2>2. ASSUME NEW p \in PanelNames, ChangePanel(p) PROVE SavedInv'
    <3>1. Loaded' = Loaded
      BY <2>2 DEF ChangePanel, Loaded, LoadCommands, LoadObjects, LoadTraffic
    <3>. QED  BY <2>2, <3>1 DEF ChangePanel, SavedInv
  <2>3. CASE Leave
    <3>1. Loaded' = Loaded
      BY <2>3 DEF Leave, Loaded, LoadCommands, LoadObjects, LoadTraffic
    <3>2. \A p \in PanelNames \ excused' : p \notin excused /\ p # writing
      BY <2>3 DEF Leave, PanelNames
    <3>. QED  BY <2>3, <3>1, <3>2 DEF Leave, SavedInv
  <2>4. CASE UNCHANGED savedVars
    BY <2>4 DEF savedVars, SavedInv, Loaded, LoadCommands, LoadObjects, LoadTraffic
  <2>. QED  BY <2>1, <2>2, <2>3, <2>4, StateOpens, StateWritten DEF SavedNext
<1>3. SavedInv => PanelsRestored
  BY DEF SavedInv, PanelsRestored
<1>. QED  BY <1>1, <1>2, <1>3, PTL DEF SavedSpec


-----------------------------------------------------------------------------
(***************************************************************************)
(* Induction and recursion over the natural numbers, without operators as  *)
(* parameters: a set that holds 0 and every next number holds them all; what a *)
(* recursive function that is defined step by step is.                     *)
(***************************************************************************)

LEMMA LeastNatural ==
  ASSUME NEW T, T \subseteq Nat, T # {}
  PROVE  \E n \in T : \A m \in T : n <= m
<1>. DEFINE R == {p \in Nat \X Nat : p[1] < p[2]}
<1>1. IsWellFoundedOn(R, Nat)
  BY NatLessThanWellFounded DEF OpToRel
<1>. HIDE DEF R
<1>2. PICK x \in T : \A y \in T : ~(<<y, x>> \in R)
  BY <1>1, WFMin
<1>3. ASSUME NEW y \in T PROVE x <= y
  <2>1. <<y, x>> \in Nat \X Nat /\ <<y, x>>[1] = y /\ <<y, x>>[2] = x
    OBVIOUS
  <2>2. ~(y < x)
    BY <1>2, <2>1 DEF R
  <2>. QED  BY <2>2
<1>. QED  BY <1>3

LEMMA Induct ==
  ASSUME NEW T, 0 \in T, \A n \in Nat : n \in T => n + 1 \in T
  PROVE  \A n \in Nat : n \in T
<1>. SUFFICES ASSUME Nat \ T # {} PROVE FALSE
  OBVIOUS
<1>1. PICK x \in Nat \ T : \A m \in Nat \ T : x <= m
  BY LeastNatural
<1>2. x # 0 /\ x - 1 \in Nat
  BY <1>1
<1>3. x - 1 \in T
  BY <1>1, <1>2
<1>. QED  BY <1>1, <1>2, <1>3

\* step takes each value of S, before the k-th, to a value of S.
StepsIn(S, b, step) == b \in S /\ \A k \in Nat \ {0} : \A x \in S : step[k][x] \in S
LEMMA Recursion ==
  ASSUME NEW S, NEW b, NEW step, StepsIn(S, b, step)
  PROVE  \E h \in [Nat -> S] : h[0] = b /\ \A n \in Nat : h[n + 1] = step[n + 1][h[n]]
<1>. USE DEF StepsIn
<1>. DEFINE Good(n, g) == /\ g \in [0..n -> S] /\ g[0] = b
                          /\ \A k \in Nat : k < n => g[k + 1] = step[k + 1][g[k]]
<1>1. \A n \in Nat : \E g : Good(n, g)
  <2>. DEFINE T == {n \in Nat : \E g : Good(n, g)}
  <2>1. 0 \in T
    <3>1. Good(0, [k \in 0..0 |-> b])
      OBVIOUS
    <3>. QED  BY <3>1
  <2>2. ASSUME NEW n \in Nat, n \in T PROVE n + 1 \in T
    <3>1. PICK g : Good(n, g)
      BY <2>2
    <3>. DEFINE g1 == [k \in 0..(n + 1) |-> IF k = n + 1 THEN step[n + 1][g[n]] ELSE g[k]]
    <3>2. g1 \in [0..(n + 1) -> S]
      <4>1. g[n] \in S /\ step[n + 1][g[n]] \in S
        BY <3>1
      <4>. QED  BY <4>1, <3>1
    <3>3. g1[0] = b
      BY <3>1
    <3>4. ASSUME NEW k \in Nat, k < n + 1 PROVE g1[k + 1] = step[k + 1][g1[k]]
      <4>1. CASE k = n
        BY <4>1
      <4>2. CASE k < n
        BY <4>2, <3>1
      <4>. QED  BY <3>4, <4>1, <4>2
    <3>5. Good(n + 1, g1)
      BY <3>2, <3>3, <3>4
    <3>. HIDE DEF g1
    <3>. QED  BY <3>5
  <2>. HIDE DEF T
  <2>3. \A n \in Nat : n \in T
    BY <2>1, <2>2, Induct
  <2>. QED  BY <2>3 DEF T
<1>2. ASSUME NEW m \in Nat, NEW n \in Nat, m <= n, NEW f, Good(m, f), NEW g, Good(n, g)
      PROVE  \A k \in Nat : k <= m => f[k] = g[k]
  <2>. DEFINE T == {k \in Nat : k <= m => f[k] = g[k]}
  <2>1. 0 \in T
    BY <1>2
  <2>2. ASSUME NEW k \in Nat, k \in T PROVE k + 1 \in T
    BY <2>2, <1>2
  <2>. HIDE DEF T
  <2>3. \A k \in Nat : k \in T
    BY <2>1, <2>2, Induct
  <2>. QED  BY <2>3 DEF T
<1>. DEFINE of == [n \in Nat |-> CHOOSE g : Good(n, g)]
<1>3. \A n \in Nat : Good(n, of[n])
  <2>. HIDE DEF Good
  <2>. QED  BY <1>1
<1>. DEFINE h == [n \in Nat |-> of[n][n]]
<1>. HIDE DEF of
<1>4. \A n \in Nat : h[n] = of[n][n]
  OBVIOUS
<1>5. h \in [Nat -> S]
  <2>1. \A n \in Nat : of[n][n] \in S
    BY <1>3
  <2>. QED  BY <2>1
<1>6. h[0] = b
  BY <1>3, <1>4
<1>7. ASSUME NEW n \in Nat PROVE h[n + 1] = step[n + 1][h[n]]
  <2>1. of[n + 1][n + 1] = step[n + 1][of[n + 1][n]]
    <3>1. Good(n + 1, of[n + 1])
      BY <1>3
    <3>2. n < n + 1
      OBVIOUS
    <3>. QED  BY <3>1, <3>2
  <2>2. of[n][n] = of[n + 1][n]
    <3>. HIDE DEF Good
    <3>1. Good(n, of[n]) /\ Good(n + 1, of[n + 1]) /\ n <= n + 1
      BY <1>3
    <3>. QED  BY <3>1, <1>2
  <2>3. h[n] = of[n][n] /\ h[n + 1] = of[n + 1][n + 1]
    BY <1>4
  <2>. QED  BY <2>1, <2>2, <2>3
<1>. HIDE DEF h
<1>. QED  BY <1>5, <1>6, <1>7


RunsTo(g, S, b, n, step) == g \in [0..n -> S] /\ g = [k \in 0..n |-> IF k = 0 THEN b ELSE step[k][g[k - 1]]]
LEMMA RecursionUpTo ==
  ASSUME NEW S, NEW b, NEW n \in Nat, NEW step, StepsIn(S, b, step)
  PROVE  \E g : RunsTo(g, S, b, n, step)
<1>1. PICK h \in [Nat -> S] : h[0] = b /\ \A k \in Nat : h[k + 1] = step[k + 1][h[k]]
  BY Recursion
<1>. DEFINE g == [k \in 0..n |-> h[k]]
<1>2. ASSUME NEW k \in 0..n PROVE h[k] = IF k = 0 THEN b ELSE step[k][g[k - 1]]
  <2>1. CASE k = 0
    BY <2>1, <1>1
  <2>2. CASE k # 0
    <3>1. k - 1 \in Nat /\ k - 1 \in 0..n /\ (k - 1) + 1 = k
      BY <2>2
    <3>2. h[k] = step[k][h[k - 1]]
      BY <3>1, <1>1
    <3>. QED  BY <3>1, <3>2, <2>2
  <2>. QED  BY <2>1, <2>2
<1>3. g \in [0..n -> S] /\ g = [k \in 0..n |-> IF k = 0 THEN b ELSE step[k][g[k - 1]]]
  BY SMTT(30), <1>1, <1>2
<1>. HIDE DEF g
<1>. QED  BY <1>3 DEF RunsTo

\* What holds at the start of a run and is kept by its steps holds all along it.
LEMMA HoldsUpTo ==
  ASSUME NEW S, NEW n \in Nat, NEW g, g[0] \in S, \A k \in 1..n : g[k - 1] \in S => g[k] \in S
  PROVE  \A k \in 0..n : g[k] \in S
<1>. DEFINE T == {k \in Nat : k <= n => g[k] \in S}
<1>1. 0 \in T
  OBVIOUS
<1>2. ASSUME NEW k \in Nat, k \in T PROVE k + 1 \in T
  <2>1. CASE k + 1 <= n
    <3>1. k + 1 \in 1..n /\ (k + 1) - 1 = k /\ k <= n
      BY <2>1
    <3>2. g[k] \in S
      BY <1>2, <3>1
    <3>3. g[k + 1] \in S
      BY <3>1, <3>2
    <3>. QED  BY <3>3
  <2>. QED  BY <2>1
<1>. HIDE DEF T
<1>3. \A k \in Nat : k \in T
  BY <1>1, <1>2, Induct
<1>. QED  BY <1>3 DEF T

-----------------------------------------------------------------------------
(* RoutePlan: the path a vehicle follows.                                  *)

\* A whole number in the range 0..n-1 is its own remainder, and each has one there.
LEMMA Remainder ==
  ASSUME NEW n \in Nat \ {0}
  PROVE  /\ \A a \in 0..(n - 1) : a % n = a
         /\ n % n = 0
         /\ \A a \in Int : a % n \in 0..(n - 1)
  OBVIOUS

\* A set of whole numbers with a lower bound has a least member.
LEMMA LeastOf ==
  ASSUME NEW S \in SUBSET Int, S # {}, NEW low \in Int, \A x \in S : low <= x
  PROVE  Min(S) \in S /\ \A x \in S : Min(S) <= x
<1>. DEFINE T == {x - low : x \in S}
<1>1. T \subseteq Nat /\ T # {}
  <2>1. PICK x \in S : TRUE
    OBVIOUS
  <2>2. x - low \in T
    BY <2>1
  <2>. QED  BY <2>2
<1>. HIDE DEF T
<1>2. PICK n \in T : \A m \in T : n <= m
  BY <1>1, LeastNatural
<1>3. PICK x \in S : n = x - low
  BY DEF T
<1>4. \A y \in S : x <= y
  <2>1. ASSUME NEW y \in S PROVE x <= y
    <3>1. y - low \in T
      BY DEF T
    <3>. QED  BY <1>2, <1>3, <3>1
  <2>. QED  BY <2>1
<1>5. \E y \in S : \A z \in S : y <= z
  BY <1>4
<1>. QED  BY <1>5 DEF Min

LEMMA SquareIsDistance ==
  ASSUME NEW i \in 0..(Count - 1), NEW j \in 0..(Count - 1)
  PROVE  /\ SquareDistance(i, j) \in Nat
         /\ SquareDistance(i, i) = 0
         /\ SquareDistance(i, j) = 0 => i = j
<1>. DEFINE a == Point(i)[1]  b == Point(i)[2]  c == Point(j)[1]  d == Point(j)[2]
<1>1. Point(i) \in Int \X Int /\ Point(j) \in Int \X Int
  BY FollowAssumption DEF Point, Count
<1>2. a \in Int /\ b \in Int /\ c \in Int /\ d \in Int
  BY <1>1
<1>3. SquareDistance(i, j) = (a - c) * (a - c) + (b - d) * (b - d)
  BY DEF SquareDistance
<1>4. SquareDistance(i, i) = (a - a) * (a - a) + (b - b) * (b - b)
  BY DEF SquareDistance
<1>. HIDE DEF a, b, c, d
<1>5. ASSUME NEW x \in Int PROVE x * x \in Nat /\ (x * x = 0 => x = 0)
  BY SMT
<1>6. a - c \in Int /\ b - d \in Int
  BY <1>2
<1>7. (a - c) * (a - c) \in Nat /\ (b - d) * (b - d) \in Nat
  BY <1>5, <1>6
<1>8. SquareDistance(i, j) \in Nat
  BY <1>3, <1>7
<1>9. SquareDistance(i, i) = 0
  BY <1>2, <1>4
<1>10. ASSUME SquareDistance(i, j) = 0 PROVE i = j
  <2>1. (a - c) * (a - c) = 0 /\ (b - d) * (b - d) = 0
    BY <1>3, <1>7, <1>10
  <2>2. a - c = 0 /\ b - d = 0
    BY <2>1, <1>5, <1>6
  <2>3. a = c /\ b = d
    BY <2>2, <1>2
  <2>4. Point(i) = Point(j)
    BY <2>3, <1>1 DEF a, b, c, d
  <2>. QED  BY SMTT(30), <2>4, FollowAssumption DEF Point, Count
<1>. QED  BY <1>8, <1>9, <1>10

\* The search finds a point of the path, and the point the vehicle is on if
\* that is within the window.
LEMMA NearestIsFound ==
  ASSUME lastWaypoint \in 0..(Count - 1), isClosed \in BOOLEAN, NEW v \in 0..(Count - 1)
  PROVE  /\ Nearest(v) \in 0..(Count - 1)
         /\ (\E o \in (-Behind)..Ahead : Window(o) = v) => Nearest(v) = v
<1>. DEFINE near == {o \in Offsets : \A q \in Offsets : SquareDistance(Window(o), v) <= SquareDistance(Window(q), v)}
<1>. DEFINE D == {SquareDistance(Window(o), v) : o \in Offsets}
<1>0. Count \in Nat \ {0} /\ Behind \in Nat /\ Ahead \in Nat
  BY FollowAssumption DEF Count
<1>1. 0 \in Offsets
  <2>1. Window(0) = lastWaypoint
    BY <1>0, Remainder DEF Window
  <2>. QED  BY <1>0, <2>1 DEF Offsets
<1>2. \A o \in Offsets : Window(o) \in 0..(Count - 1) /\ o \in Int /\ -Behind <= o
  BY <1>0 DEF Offsets
<1>3. D \subseteq Nat /\ D # {}
  <2>1. SquareDistance(Window(0), v) \in D
    BY <1>1
  <2>. QED  BY <1>2, <2>1, SquareIsDistance
<1>4. PICK o \in Offsets : \A d \in D : SquareDistance(Window(o), v) <= d
  <2>. HIDE DEF D
  <2>1. PICK m \in D : \A d \in D : m <= d
    BY <1>3, LeastNatural
  <2>. QED  BY <2>1 DEF D
<1>5. near # {} /\ near \subseteq Offsets
  BY <1>4
<1>6. Min(near) \in near
  <2>1. near \in SUBSET Int /\ -Behind \in Int /\ \A x \in near : -Behind <= x
    BY <1>0, <1>2
  <2>. HIDE DEF near
  <2>. QED  BY <1>5, <2>1, LeastOf
<1>7. Nearest(v) = Window(Min(near))
  BY DEF Nearest
<1>8. ASSUME NEW w \in (-Behind)..Ahead, Window(w) = v PROVE Nearest(v) = v
  <2>1. w \in Offsets
    BY <1>8 DEF Offsets
  <2>2. SquareDistance(Window(Min(near)), v) <= SquareDistance(v, v)
    BY <1>6, <1>8, <2>1
  <2>3. Window(Min(near)) \in 0..(Count - 1)
    BY <1>6, <1>2
  <2>. HIDE DEF near
  <2>. QED  BY <1>7, <2>2, <2>3, SquareIsDistance
<1>9. Nearest(v) \in 0..(Count - 1)
  BY <1>6, <1>7, <1>2
<1>. QED  BY <1>8, <1>9

LEMMA ConstantlyIs ==
  ASSUME NEW n \in Nat, NEW V, NEW x \in V
  PROVE  Constantly(n, x) \in Seq(V) /\ Len(Constantly(n, x)) = n /\ \A i \in 1..n : Constantly(n, x)[i] = x
  BY DEF Constantly

\* The profile has a velocity for every point.
LEMMA ProfileIsWhole ==
  ASSUME NEW closed \in BOOLEAN, NEW w \in 1..Count
  PROVE  /\ Len(Profile(closed, w)) >= Count
         /\ w >= Tail10 /\ 2 * w <= Count =>
              \A i \in 1..Count : (Profile(closed, w)[i] = "stop") <=> ~closed /\ i > Count - Tail10
<1>0. Count \in Nat \ {0} /\ Tail10 \in Nat
  BY FollowAssumption DEF Count
<1>1. \A n \in Int : AtLeast0(n) = IF n >= 0 THEN n ELSE 0
  BY DEF AtLeast0, Max
<1>. DEFINE V == {"full", "curve", "stop"}
<1>. DEFINE a == w  b == AtLeast0(Count - 2 * w)  c == AtLeast0(w - Tail10)
            last == IF closed THEN "full" ELSE "stop"
            A == Constantly(a, "full")  B == Constantly(b, "curve")
            C == Constantly(c, "full")  D == Constantly(Tail10, last)
<1>3. a \in Nat /\ b \in Nat /\ c \in Nat /\ w \in Int
  BY <1>0, <1>1
<1>4. Profile(closed, w) = A \o B \o C \o D
  BY DEF Profile
<1>5. /\ A \in Seq(V) /\ Len(A) = a /\ \A i \in 1..a : A[i] = "full"
      /\ B \in Seq(V) /\ Len(B) = b /\ \A i \in 1..b : B[i] = "curve"
      /\ C \in Seq(V) /\ Len(C) = c /\ \A i \in 1..c : C[i] = "full"
      /\ D \in Seq(V) /\ Len(D) = Tail10 /\ \A i \in 1..Tail10 : D[i] = last
  <2>1. last \in V /\ "full" \in V /\ "curve" \in V
    OBVIOUS
  <2>. HIDE DEF a, b, c, last, V
  <2>. QED  BY <1>0, <1>3, <2>1, ConstantlyIs
<1>6. a + b + c + Tail10 >= Count
  BY <1>0, <1>1
<1>7. ASSUME w >= Tail10, 2 * w <= Count PROVE a + b + c + Tail10 = Count
  BY <1>0, <1>1, <1>7
<1>. HIDE DEF A, B, C, D, a, b, c, last, V
<1>8. /\ A \o B \in Seq(V) /\ Len(A \o B) = a + b
      /\ A \o B \o C \in Seq(V) /\ Len(A \o B \o C) = a + b + c
      /\ Len(A \o B \o C \o D) = a + b + c + Tail10
  BY SMTT(30), <1>0, <1>3, <1>5
<1>9. ASSUME NEW i \in 1..(a + b + c) PROVE (A \o B \o C \o D)[i] \in {"full", "curve"}
  <2>1. (A \o B \o C \o D)[i] = (A \o B \o C)[i]
    BY <1>0, <1>3, <1>5, <1>8
  <2>2. CASE i <= a
    BY <2>1, <2>2, <1>3, <1>5, <1>8
  <2>3. CASE a < i /\ i <= a + b
    BY SMTT(30), <2>1, <2>3, <1>3, <1>5, <1>8
  <2>4. CASE a + b < i
    <3>1. i - (a + b) \in 1..c
      BY <2>4, <1>3
    <3>2. (A \o B \o C)[i] = C[i - (a + b)]
      BY SMTT(30), <2>4, <3>1, <1>3, <1>5, <1>8
    <3>3. C[i - (a + b)] = "full"
      BY <3>1, <1>5
    <3>. QED  BY <1>3, <2>1, <3>2, <3>3
  <2>5. i <= a \/ (a < i /\ i <= a + b) \/ a + b < i
    BY <1>3
  <2>. QED  BY <2>2, <2>3, <2>4, <2>5
<1>10. ASSUME NEW i \in (a + b + c + 1)..(a + b + c + Tail10) PROVE (A \o B \o C \o D)[i] = last
  BY SMTT(30), <1>0, <1>3, <1>5, <1>8
<1>11. ASSUME w >= Tail10, 2 * w <= Count, NEW i \in 1..Count
       PROVE  ((A \o B \o C \o D)[i] = "stop") <=> ~closed /\ i > Count - Tail10
  <2>1. a + b + c = Count - Tail10
    BY <1>7, <1>11, <1>0, <1>3
  <2>2. i <= Count - Tail10 => (A \o B \o C \o D)[i] # "stop"
    <3>1. SUFFICES ASSUME i <= Count - Tail10 PROVE (A \o B \o C \o D)[i] # "stop"
      OBVIOUS
    <3>2. i \in 1..(a + b + c)
      BY <2>1, <3>1, <1>0
    <3>3. (A \o B \o C \o D)[i] \in {"full", "curve"}
      BY <3>2, <1>9
    <3>. QED  BY <3>3
  <2>3. ~(i <= Count - Tail10) => (A \o B \o C \o D)[i] = last
    <3>1. SUFFICES ASSUME ~(i <= Count - Tail10) PROVE (A \o B \o C \o D)[i] = last
      OBVIOUS
    <3>2. i \in (a + b + c + 1)..(a + b + c + Tail10)
      BY <2>1, <3>1, <1>0
    <3>. QED  BY <3>2, <1>10
  <2>4. last = "stop" <=> ~closed
    BY DEF last
  <2>5. i > Count - Tail10 <=> ~(i <= Count - Tail10)
    BY <1>0
  <2>. QED  BY <2>2, <2>3, <2>4, <2>5, Zenon
<1>. QED  BY <1>4, <1>6, <1>8, <1>11

\* The local path begins at the waypoint and goes on without a gap.
LEMMA PathGoesOn ==
  ASSUME NEW w \in 0..(Count - 1), isClosed \in BOOLEAN, NEW p, p = PathFrom(w)
  PROVE  /\ p # << >> /\ p[1] = w
         /\ \A i \in 1..(Len(p) - 1) : p[i + 1] = (p[i] + 1) % Count
         /\ isClosed => Len(p) >= Min({LocalSize, 2 * Count - w})
         /\ ~isClosed => Len(p) = Min({LocalSize, Count - w})
<1>0. Count \in Nat \ {0} /\ LocalSize \in Nat \ {0} /\ w \in Int
  BY FollowAssumption DEF Count
<1>1. \A x, y \in Int : Min({x, y}) = IF x <= y THEN x ELSE y
  BY DEF Min
<1>2. /\ \A a \in 0..(Count - 1) : a % Count = a
      /\ Count % Count = 0
  BY <1>0, Remainder
<1>3. ASSUME NEW from \in Nat, NEW n \in Nat
      PROVE  /\ Indices(from, n) \in Seq(Int) /\ Len(Indices(from, n)) = n
             /\ \A i \in 1..n : Indices(from, n)[i] = from + i - 1
  BY <1>3 DEF Indices
<1>4. CASE w + LocalSize < Count
  <2>1. p = Indices(w, LocalSize)
    BY <1>4 DEF PathFrom
  <2>2. p \in Seq(Int) /\ Len(p) = LocalSize /\ \A i \in 1..LocalSize : p[i] = w + i - 1
    <3>1. w \in Nat /\ LocalSize \in Nat
      BY <1>0
    <3>. QED  BY <1>3, <2>1, <3>1
  <2>3. ASSUME NEW i \in 1..(Len(p) - 1) PROVE p[i + 1] = (p[i] + 1) % Count
    <3>1. p[i] = w + i - 1 /\ p[i + 1] = w + i /\ w + i \in 0..(Count - 1)
      BY <1>0, <1>4, <2>2
    <3>2. p[i] + 1 = w + i /\ (w + i) % Count = w + i
      BY SMTT(30), <3>1, <1>0, <1>2
    <3>. QED  BY <3>1, <3>2
  <2>4. p # << >> /\ p[1] = w
    BY <1>0, <2>2
  <2>5. Len(p) = LocalSize /\ Min({LocalSize, Count - w}) = LocalSize /\ Min({LocalSize, 2 * Count - w}) <= LocalSize
    BY <1>0, <1>1, <1>4, <2>2
  <2>. QED  BY <1>4, <1>0, <2>3, <2>4, <2>5
<1>5. CASE ~(w + LocalSize < Count) /\ ~isClosed
  <2>1. p = Indices(w, Count - w)
    <3>1. p = Indices(w, Count - w) \o << >>
      BY <1>5 DEF PathFrom
    <3>2. w \in Nat /\ Count - w \in Nat
      BY <1>0
    <3>3. Indices(w, Count - w) \in Seq(Int)
      BY <3>2, <1>3
    <3>. QED  BY <3>1, <3>3
  <2>2. p \in Seq(Int) /\ Len(p) = Count - w /\ \A i \in 1..(Count - w) : p[i] = w + i - 1
    <3>1. w \in Nat /\ Count - w \in Nat
      BY <1>0
    <3>. QED  BY <1>3, <2>1, <3>1
  <2>3. ASSUME NEW i \in 1..(Len(p) - 1) PROVE p[i + 1] = (p[i] + 1) % Count
    <3>1. p[i] = w + i - 1 /\ p[i + 1] = w + i /\ w + i \in 0..(Count - 1)
      BY <1>0, <2>2
    <3>2. p[i] + 1 = w + i /\ (w + i) % Count = w + i
      BY SMTT(30), <3>1, <1>0, <1>2
    <3>. QED  BY <3>1, <3>2
  <2>4. p # << >> /\ p[1] = w
    BY <1>0, <2>2
  <2>5. Len(p) = Count - w /\ Min({LocalSize, Count - w}) = Count - w /\ Min({LocalSize, 2 * Count - w}) <= LocalSize
    BY <1>0, <1>1, <1>5, <2>2
  <2>. QED  BY <1>5, <1>0, <2>3, <2>4, <2>5
<1>6. CASE ~(w + LocalSize < Count) /\ isClosed
  <2>. DEFINE n == Min({Count, LocalSize + Count - w})
              A == Indices(w, Count - w)
              B == Indices(0, n)
  <2>1. p = A \o B
    BY <1>6 DEF PathFrom
  <2>2. n = (IF w <= LocalSize THEN Count ELSE LocalSize + Count - w) /\ n \in Nat
    BY <1>0, <1>1
  <2>. HIDE DEF n
  <2>3. /\ A \in Seq(Int) /\ Len(A) = Count - w /\ \A i \in 1..(Count - w) : A[i] = w + i - 1
        /\ B \in Seq(Int) /\ Len(B) = n /\ \A i \in 1..n : B[i] = i - 1
    <3>1. w \in Nat /\ Count - w \in Nat /\ 0 \in Nat
      BY <1>0
    <3>2. A \in Seq(Int) /\ Len(A) = Count - w /\ \A i \in 1..(Count - w) : A[i] = w + i - 1
      BY <1>3, <3>1
    <3>3. B \in Seq(Int) /\ Len(B) = n /\ \A i \in 1..n : B[i] = 0 + i - 1
      BY <1>3, <2>2, <3>1
    <3>. QED  BY <2>2, <3>2, <3>3
  <2>. HIDE DEF A, B
  <2>4. /\ Len(p) = Count - w + n
        /\ \A i \in 1..(Count - w) : p[i] = w + i - 1
        /\ \A i \in (Count - w + 1)..(Count - w + n) : p[i] = i - (Count - w) - 1
    <3>1. Len(p) = Len(A) + Len(B) /\ \A i \in 1..(Len(A) + Len(B)) : p[i] = IF i <= Len(A) THEN A[i] ELSE B[i - Len(A)]
      <4>1. Len(A) \in Nat /\ Len(B) \in Nat
        BY <1>0, <2>2, <2>3
      <4>2. Len(A \o B) = Len(A) + Len(B)
        <5>1. A \in Seq(Int) /\ B \in Seq(Int)
          BY <2>3
        <5>. QED  BY <5>1
      <4>3. ASSUME NEW i \in 1..(Len(A) + Len(B)) PROVE (A \o B)[i] = IF i <= Len(A) THEN A[i] ELSE B[i - Len(A)]
        BY <2>3, <4>1
      <4>. QED  BY <2>1, <4>2, <4>3
    <3>2. \A i \in (Count - w + 1)..(Count - w + n) : i - (Count - w) \in 1..n
      BY <1>0, <2>2
    <3>3. Len(p) = Count - w + n
      BY <2>3, <3>1
    <3>4. ASSUME NEW i \in 1..(Count - w) PROVE p[i] = w + i - 1
      <4>1. i \in 1..(Len(A) + Len(B)) /\ i <= Len(A)
        BY <1>0, <2>2, <2>3
      <4>. QED  BY <2>3, <3>1, <4>1
    <3>5. ASSUME NEW i \in (Count - w + 1)..(Count - w + n) PROVE p[i] = i - (Count - w) - 1
      <4>1. i \in 1..(Len(A) + Len(B)) /\ ~(i <= Len(A)) /\ i - Len(A) = i - (Count - w)
        BY <1>0, <2>2, <2>3
      <4>. QED  BY <2>3, <3>1, <3>2, <4>1
    <3>. QED  BY <3>3, <3>4, <3>5
  <2>5. ASSUME NEW i \in 1..(Len(p) - 1) PROVE p[i + 1] = (p[i] + 1) % Count
    <3>1. CASE i < Count - w
      <4>1. p[i] = w + i - 1 /\ p[i + 1] = w + i /\ w + i \in 0..(Count - 1)
        BY <1>0, <2>2, <2>4, <3>1
      <4>. QED  BY <4>1, <1>0, <1>2
    <3>2. CASE i = Count - w
      <4>1. p[i] = Count - 1 /\ p[i + 1] = 0
        BY <1>0, <2>2, <2>4, <3>2
      <4>. QED  BY <4>1, <1>0, <1>2
    <3>3. CASE i > Count - w
      <4>1. p[i] = i - (Count - w) - 1 /\ p[i + 1] = i - (Count - w) /\ i - (Count - w) \in 0..(Count - 1)
        BY <1>0, <2>2, <2>4, <3>3
      <4>. QED  BY <4>1, <1>0, <1>2
    <3>. QED  BY <1>0, <3>1, <3>2, <3>3
  <2>6. p # << >> /\ p[1] = w
    BY <1>0, <2>2, <2>4
  <2>7. Len(p) >= Min({LocalSize, 2 * Count - w})
    <3>1. Len(p) = IF w <= LocalSize THEN 2 * Count - w ELSE LocalSize + 2 * (Count - w)
      BY <1>0, <1>1, <2>2, <2>4
    <3>. QED  BY <1>0, <1>1, <3>1
  <2>. QED  BY <1>6, <2>5, <2>6, <2>7
<1>. QED  BY <1>4, <1>5, <1>6

-----------------------------------------------------------------------------
\* The waypoint is a point of the path, where the vehicle is unless it strayed,
\* the local path begins there, and the profile is the one made at the start.
PathInv ==
  /\ isClosed \in BOOLEAN /\ window \in 1..Count /\ strayed \in BOOLEAN
  /\ onPoint \in 0..(Count - 1) /\ lastWaypoint \in 0..(Count - 1)
  /\ velocityProfile = Profile(isClosed, window)
  /\ ~strayed => lastWaypoint = onPoint
  /\ localPath # << >> => localPath = PathFrom(lastWaypoint)

\* Every state of the vehicle keeps the invariant.
LEMMA FollowStep ==
  ASSUME PathInv, [FollowNext]_followVars
  PROVE  PathInv'
<1>0. Count \in Nat \ {0}
  BY FollowAssumption DEF Count
<1>1. ASSUME NEW v \in 0..(Count - 1), Follow(v)
      PROVE  /\ isClosed' \in BOOLEAN /\ window' \in 1..Count
             /\ onPoint' = v /\ lastWaypoint' = Nearest(v) /\ lastWaypoint' \in 0..(Count - 1)
             /\ velocityProfile' = Profile(isClosed, window)'
             /\ (localPath # << >> => localPath = PathFrom(lastWaypoint))'
  <2>1. Nearest(v) \in 0..(Count - 1)
    BY <1>1, NearestIsFound DEF PathInv
  <2>. QED  BY <1>1, <2>1 DEF Follow, PathInv, PathFrom, Profile
<1>2. ASSUME NEW v \in 0..(Count - 1), DriveOn(v) PROVE PathInv'
  <2>1. ~strayed => Nearest(v) = v
    <3>1. SUFFICES ASSUME ~strayed PROVE \E o \in (-Behind)..Ahead : Window(o) = v
      BY NearestIsFound DEF PathInv
    <3>2. lastWaypoint = onPoint
      BY <3>1 DEF PathInv
    <3>. QED  BY <1>2, <3>2 DEF DriveOn, IsNear, Window
  <2>2. Follow(v) /\ strayed' = (strayed /\ Nearest(v) # v)
    BY <1>2 DEF DriveOn
  <2>. QED  BY <1>1, <2>1, <2>2 DEF PathInv
<1>3. ASSUME NEW v \in 0..(Count - 1), JumpTo(v) PROVE PathInv'
  BY <1>1, <1>3 DEF JumpTo, PathInv
<1>4. CASE UNCHANGED followVars
  BY <1>4 DEF PathInv, followVars, PathFrom, Profile
<1>. QED  BY <1>2, <1>3, <1>4 DEF FollowNext

\* Of every path of different points, in a state of any vehicle that moves or jumps on it:
\* the waypoint is where the vehicle is, the local path goes on from there, and
\* there is a velocity for every point (path_manager.py, autonomous_driving.py).
THEOREM PathStaysFollowed == FollowSpec => []FollowRight
<1>1. FollowInit => PathInv
  <2>. SUFFICES ASSUME FollowInit PROVE PathInv
    OBVIOUS
  <2>1. Count \in Nat \ {0}
    BY FollowAssumption DEF Count
  <2>2. 0 \in 0..(Count - 1)
    BY <2>1
  <2>. QED  BY <2>2 DEF FollowInit, PathInv
<1>2. PathInv /\ [FollowNext]_followVars => PathInv'
  BY FollowStep
<1>3. PathInv => FollowRight
  <2>. SUFFICES ASSUME PathInv PROVE FollowRight
    OBVIOUS
  <2>1. localPath # << >> =>
           /\ localPath[1] = lastWaypoint
           /\ \A i \in 1..(Len(localPath) - 1) : localPath[i + 1] = (localPath[i] + 1) % Count
           /\ isClosed => Len(localPath) >= Min({LocalSize, 2 * Count - lastWaypoint})
           /\ ~isClosed => Len(localPath) = Min({LocalSize, Count - lastWaypoint})
    BY ZenonT(30), PathGoesOn DEF PathInv
  <2>2. /\ Len(velocityProfile) >= Count
        /\ window >= Tail10 /\ 2 * window <= Count =>
             \A i \in 1..Count : (velocityProfile[i] = "stop") <=> ~isClosed /\ i > Count - Tail10
    BY ProfileIsWhole DEF PathInv
  <2>. QED  BY <2>1, <2>2 DEF FollowRight, PathInv
<1>. QED  BY <1>1, <1>2, <1>3, PTL DEF FollowSpec

-----------------------------------------------------------------------------
(***************************************************************************)
(* RoutePlan: the route of a map.  The search keeps the costs of the nodes *)
(* that were selected final (NodeSelected, FoundIsLeast), against the      *)
(* least costs over so many links that the reference computes.             *)
(***************************************************************************)

Costs == 0..Infinity
LEMMA Bound == Infinity \in Nat /\ Infinity > 500 /\ \A c \in Costs : c \in Int /\ 0 <= c /\ c <= Infinity
<1>1. Infinity \in Nat /\ Infinity > 500
  BY SMT DEF Infinity
<1>. QED  BY <1>1 DEF Costs

LEMMA Sums ==
  ASSUME NEW a \in Costs, NEW b \in Costs
  PROVE  /\ Plus(a, b) \in Costs /\ a <= Plus(a, b) /\ b <= Plus(a, b) /\ Plus(0, a) = a
         /\ \A c \in Costs, d \in Costs : a <= c /\ b <= d => Plus(a, b) <= Plus(c, d)
         /\ Plus(a, b) < Infinity => Plus(a, b) = a + b
<1>1. Infinity \in Nat /\ Infinity > 500
  BY Bound
<1>2. /\ Plus(a, b) \in Costs /\ a <= Plus(a, b) /\ b <= Plus(a, b) /\ Plus(0, a) = a
      /\ Plus(a, b) < Infinity => Plus(a, b) = a + b
  BY <1>1 DEF Costs, Plus
<1>3. ASSUME NEW c \in Costs, NEW d \in Costs, a <= c, b <= d PROVE Plus(a, b) <= Plus(c, d)
  BY <1>1, <1>3 DEF Costs, Plus
<1>. QED  BY <1>2, <1>3

\* The search from s: W[n][m] is what it costs to go from n to m, S the nodes that
\* were selected, D[n] the least cost of n that was found, over F[n].
Searching(N, s, W, S, D, F) ==
  /\ S \subseteq N /\ s \in S /\ W \in [N -> [N -> Costs]] /\ D \in [N -> Costs] /\ F \in [N -> N] /\ D[s] = 0
  /\ \A n \in S : \A m \in N \ {s} : D[m] <= Plus(D[n], W[n][m])
  /\ \A n \in S : \A m \in N \ S : D[n] <= D[m]
  /\ \A m \in N \ {s} : F[m] \in S \ {m} /\ D[m] = Plus(D[F[m]], W[F[m]][m])

\* The nearest node is selected: its cost is final, and the others may be reached over it.
LEMMA NodeSelected ==
  ASSUME NEW N, NEW s, NEW W, NEW S, NEW D, NEW F, Searching(N, s, W, S, D, F),
         NEW x \in N \ S, \A m \in N \ S : D[x] <= D[m],
         NEW D1 \in [N -> Costs], NEW F1 \in [N -> N],
         \A m \in N : IF m \notin S \cup {x} /\ Plus(D[x], W[x][m]) < D[m]
                      THEN D1[m] = Plus(D[x], W[x][m]) /\ F1[m] = x ELSE D1[m] = D[m] /\ F1[m] = F[m]
  PROVE  /\ Searching(N, s, W, S \cup {x}, D1, F1)
         /\ \A n \in S \cup {x} : D1[n] = D[n]
<1>1. /\ S \subseteq N /\ s \in S /\ W \in [N -> [N -> Costs]] /\ D \in [N -> Costs] /\ F \in [N -> N] /\ D[s] = 0
      /\ \A n \in S : \A m \in N \ {s} : D[m] <= Plus(D[n], W[n][m])
      /\ \A n \in S : \A m \in N \ S : D[n] <= D[m]
      /\ \A m \in N \ {s} : F[m] \in S \ {m} /\ D[m] = Plus(D[F[m]], W[F[m]][m])
  BY DEF Searching
<1>2. \A n \in S \cup {x} : D1[n] = D[n]
  BY <1>1
<1>3. \A n, m \in N : D[n] \in Int /\ W[n][m] \in Costs /\ D[n] \in Costs /\ Plus(D[n], W[n][m]) \in Int
                      /\ D[n] <= Plus(D[n], W[n][m]) /\ D1[n] \in Int /\ D1[n] <= D[n]
  <2>1. ASSUME NEW n \in N, NEW m \in N PROVE D[n] \in Costs /\ W[n][m] \in Costs /\ D1[n] \in Costs
    BY <1>1
  <2>2. ASSUME NEW n \in N, NEW m \in N PROVE Plus(D[n], W[n][m]) \in Costs /\ D[n] <= Plus(D[n], W[n][m])
    BY <2>1, Sums
  <2>3. \A c \in Costs : c \in Int
    BY Bound
  <2>4. ASSUME NEW n \in N PROVE D1[n] <= D[n]
    <3>1. Plus(D[x], W[x][n]) \in Int /\ D[n] \in Int
      BY <2>1, <2>2, <2>3
    <3>. QED  BY <3>1
  <2>. QED  BY <2>1, <2>2, <2>3, <2>4
<1>4. ASSUME NEW n \in S \cup {x}, NEW m \in N \ {s} PROVE D1[m] <= Plus(D1[n], W[n][m])
  <2>1. D1[n] = D[n] /\ n \in N
    BY <1>1, <1>2
  <2>2. CASE n \in S
    BY <2>1, <2>2, <1>1, <1>3
  <2>3. CASE n = x
    <3>1. CASE m \in S
      <4>1. D[m] <= D[x] /\ D[x] <= Plus(D[x], W[x][m])
        BY <3>1, <1>1, <1>3
      <4>. QED  BY <4>1, <2>1, <2>3, <1>3
    <3>2. CASE m = x
      BY <3>2, <2>1, <2>3, <1>3
    <3>3. CASE m \notin S \cup {x}
      BY <3>3, <2>1, <2>3, <1>3
    <3>. QED  BY <3>1, <3>2, <3>3
  <2>. QED  BY <2>2, <2>3
<1>5. ASSUME NEW n \in S \cup {x}, NEW m \in N \ (S \cup {x}) PROVE D1[n] <= D1[m]
  <2>1. D1[n] = D[n] /\ n \in N /\ D[n] <= D[x] /\ D[x] <= D[m]
    <3>1. D[x] <= D[x] /\ D[x] <= D[m]
      BY <1>3
    <3>. QED  BY <3>1, <1>1, <1>2
  <2>2. D1[m] = D[m] \/ D1[m] = Plus(D[x], W[x][m])
    OBVIOUS
  <2>. QED  BY <2>1, <2>2, <1>3
<1>6. ASSUME NEW m \in N \ {s} PROVE F1[m] \in (S \cup {x}) \ {m} /\ D1[m] = Plus(D1[F1[m]], W[F1[m]][m])
  <2>1. CASE m \notin S \cup {x} /\ Plus(D[x], W[x][m]) < D[m]
    BY <2>1, <1>2
  <2>2. CASE ~(m \notin S \cup {x} /\ Plus(D[x], W[x][m]) < D[m])
    <3>1. F1[m] = F[m] /\ D1[m] = D[m] /\ F[m] \in S \ {m} /\ D[m] = Plus(D[F[m]], W[F[m]][m])
      BY <2>2, <1>1
    <3>. QED  BY <3>1, <1>2
  <2>. QED  BY <2>1, <2>2
<1>7. S \cup {x} \subseteq N /\ s \in S \cup {x} /\ D1[s] = 0
  BY <1>1, <1>2
<1>. QED  BY <1>1, <1>2, <1>4, <1>5, <1>6, <1>7 DEF Searching

\* The least costs over at most k links: what Bellman's equations say of them.
LeastOver(N, s, W, K, L) ==
  /\ K \in Nat /\ L \in [0..K -> [N -> Costs]]
  /\ \A n \in N : L[0][n] = IF n = s THEN 0 ELSE Infinity
  /\ \A k \in 1..K : \A n \in N :
       /\ L[k][n] <= L[k - 1][n] /\ \A p \in N \ {n} : L[k][n] <= Plus(L[k - 1][p], W[p][n])
       /\ L[k - 1][n] <= L[k][n] \/ \E p \in N : Plus(L[k - 1][p], W[p][n]) <= L[k][n]

\* No walk is cheaper than what was found, and none to a node that was not selected is
\* cheaper than all of those.
Below(N, S, D, costs) ==
  \A n \in N : /\ n \in S => D[n] <= costs[n]
               /\ n \notin S => \A b \in Costs : (\A m \in N \ S : b <= D[m]) => b <= costs[n]
LEMMA FoundIsLeast ==
  ASSUME NEW N, NEW s, NEW W, NEW S, NEW D, NEW F, Searching(N, s, W, S, D, F),
         NEW K, NEW L, LeastOver(N, s, W, K, L)
  PROVE  \A k \in 0..K : Below(N, S, D, L[k])
<1>1. /\ S \subseteq N /\ s \in S /\ W \in [N -> [N -> Costs]] /\ D \in [N -> Costs] /\ D[s] = 0
      /\ \A n \in S : \A m \in N \ {s} : D[m] <= Plus(D[n], W[n][m])
      /\ \A n \in S : \A m \in N \ S : D[n] <= D[m]
  BY DEF Searching
<1>2. /\ K \in Nat /\ L \in [0..K -> [N -> Costs]]
      /\ \A n \in N : L[0][n] = IF n = s THEN 0 ELSE Infinity
      /\ \A k \in 1..K : \A n \in N :
           L[k - 1][n] <= L[k][n] \/ \E p \in N : Plus(L[k - 1][p], W[p][n]) <= L[k][n]
  BY DEF LeastOver
<1>. DEFINE T == {x \in [N -> Costs] : Below(N, S, D, x)}
<1>3. L[0] \in T
  <2>1. L[0] \in [N -> Costs]
    BY <1>2
  <2>2. \A n \in N : D[n] <= Infinity /\ 0 <= 0 /\ \A b \in Costs : b <= Infinity
    BY <1>1, Bound
  <2>3. Below(N, S, D, L[0])
    BY <2>2, <1>1, <1>2 DEF Below
  <2>. QED  BY <2>1, <2>3
<1>4. ASSUME NEW k \in 1..K, L[k - 1] \in T PROVE L[k] \in T
  <2>1. L[k] \in [N -> Costs] /\ L[k - 1] \in [N -> Costs] /\ Below(N, S, D, L[k - 1])
    BY <1>2, <1>4
  <2>. DEFINE x == L[k]
              y == L[k - 1]
  <2>2. \A n \in N : y[n] <= x[n] \/ \E p \in N : Plus(y[p], W[p][n]) <= x[n]
    BY <1>2
  <2>3. x \in [N -> Costs] /\ y \in [N -> Costs] /\ Below(N, S, D, y)
    BY <2>1
  <2>. HIDE DEF x, y
  <2>4. \A c \in Costs : c \in Int
    BY Bound
  <2>5. ASSUME NEW n \in N, NEW p \in N
        PROVE  /\ D[n] \in Costs /\ x[n] \in Costs /\ y[n] \in Costs /\ y[p] \in Costs /\ W[p][n] \in Costs
               /\ Plus(y[p], W[p][n]) \in Costs /\ Plus(D[p], W[p][n]) \in Costs
               /\ y[p] <= Plus(y[p], W[p][n])
               /\ D[p] <= y[p] => Plus(D[p], W[p][n]) <= Plus(y[p], W[p][n])
    <3>1. D[p] \in Costs /\ D[n] \in Costs /\ x[n] \in Costs /\ y[n] \in Costs /\ y[p] \in Costs /\ W[p][n] \in Costs
      BY <1>1, <2>3
    <3>2. W[p][n] <= W[p][n]
      BY <3>1, <2>4
    <3>. QED  BY <3>1, <3>2, Sums
  <2>6. ASSUME NEW n \in N, n \in S PROVE D[n] <= x[n]
    <3>1. CASE y[n] <= x[n]
      <4>1. D[n] <= y[n]
        BY <2>3, <2>6 DEF Below
      <4>. QED  BY <3>1, <4>1, <2>5, <2>4
    <3>2. ASSUME NEW p \in N, Plus(y[p], W[p][n]) <= x[n] PROVE D[n] <= x[n]
      <4>1. CASE p \in S
        <5>1. D[p] <= y[p]
          BY <2>3, <4>1 DEF Below
        <5>2. D[n] <= Plus(D[p], W[p][n])
          <6>1. CASE n = s
            <7>1. 0 <= Plus(D[p], W[p][n])
              BY <2>5, Bound
            <7>. QED  BY <6>1, <7>1, <1>1
          <6>2. CASE n # s
            BY <6>2, <4>1, <1>1
          <6>. QED  BY <6>1, <6>2
        <5>. QED  BY <5>1, <5>2, <3>2, <2>5, <2>4
      <4>2. CASE p \notin S
        <5>1. \A m \in N \ S : D[n] <= D[m]
          BY <1>1, <2>6
        <5>2. D[n] <= y[p]
          BY <5>1, <4>2, <2>3, <2>5 DEF Below
        <5>. QED  BY <5>2, <3>2, <2>5, <2>4
      <4>. QED  BY <4>1, <4>2
    <3>. QED  BY <3>1, <3>2, <2>2
  <2>7. ASSUME NEW n \in N, n \notin S, NEW b \in Costs, \A m \in N \ S : b <= D[m] PROVE b <= x[n]
    <3>1. CASE y[n] <= x[n]
      <4>1. b <= y[n]
        BY <2>3, <2>7 DEF Below
      <4>. QED  BY <3>1, <4>1, <2>5, <2>4
    <3>2. ASSUME NEW p \in N, Plus(y[p], W[p][n]) <= x[n] PROVE b <= x[n]
      <4>1. CASE p \in S
        <5>1. D[p] <= y[p]
          BY <2>3, <4>1 DEF Below
        <5>2. b <= D[n] /\ D[n] <= Plus(D[p], W[p][n])
          BY <4>1, <2>7, <1>1
        <5>. QED  BY <5>1, <5>2, <3>2, <2>5, <2>4
      <4>2. CASE p \notin S
        <5>1. b <= y[p]
          BY <4>2, <2>3, <2>7 DEF Below
        <5>. QED  BY <5>1, <3>2, <2>5, <2>4
      <4>. QED  BY <4>1, <4>2
    <3>. QED  BY <3>1, <3>2, <2>2
  <2>8. Below(N, S, D, x)
    BY <2>6, <2>7 DEF Below
  <2>. QED  BY <2>3, <2>8 DEF x
<1>. HIDE DEF T
<1>5. \A k \in 0..K : L[k] \in T
  BY <1>2, <1>3, <1>4, HoldsUpTo
<1>. QED  BY <1>5 DEF T

\* The c nodes that were selected are found over at most c links.
WithinLinks(S, D, L, c) == \A n \in S : L[c][n] <= D[n]
LEMMA FoundIsAWalk ==
  ASSUME NEW N, NEW s, NEW W, NEW S, NEW D, NEW F, Searching(N, s, W, S, D, F),
         NEW K, NEW L, LeastOver(N, s, W, K, L), NEW c \in Nat, c < K, WithinLinks(S, D, L, c), NEW x \in N \ S
  PROVE  WithinLinks(S \cup {x}, D, L, c + 1)
<1>1. /\ S \subseteq N /\ s \in S /\ W \in [N -> [N -> Costs]] /\ D \in [N -> Costs] /\ D[s] = 0
      /\ F[x] \in S \ {x} /\ D[x] = Plus(D[F[x]], W[F[x]][x])
  BY DEF Searching
<1>2. c + 1 \in 1..K /\ (c + 1) - 1 = c /\ c \in 0..K /\ c + 1 \in 0..K
  BY DEF LeastOver
<1>3. \A n \in N : L[c + 1][n] <= L[c][n] /\ \A p \in N \ {n} : L[c + 1][n] <= Plus(L[c][p], W[p][n])
  BY <1>2 DEF LeastOver
<1>4. L[c] \in [N -> Costs] /\ L[c + 1] \in [N -> Costs] /\ \A a \in Costs : a \in Int
  BY <1>2, Bound DEF LeastOver
<1>5. ASSUME NEW n \in S PROVE L[c + 1][n] <= D[n]
  <2>1. L[c + 1][n] \in Int /\ L[c][n] \in Int /\ D[n] \in Int /\ L[c][n] <= D[n] /\ L[c + 1][n] <= L[c][n]
    BY <1>1, <1>3, <1>4 DEF WithinLinks
  <2>. QED  BY <2>1
<1>6. L[c + 1][x] <= D[x]
  <2>1. PICK p : p = F[x]
    OBVIOUS
  <2>2. p \in N \ {x} /\ p \in S /\ L[c][p] <= D[p] /\ D[x] = Plus(D[p], W[p][x])
    BY <1>1, <2>1 DEF WithinLinks
  <2>3. L[c][p] \in Costs /\ D[p] \in Costs /\ W[p][x] \in Costs /\ W[p][x] <= W[p][x]
    <3>1. W[p][x] \in Costs
      BY <1>1, <2>2
    <3>. QED  BY <1>1, <1>4, <2>2, <3>1
  <2>4. Plus(L[c][p], W[p][x]) <= Plus(D[p], W[p][x])
    BY <2>2, <2>3, Sums
  <2>5. Plus(L[c][p], W[p][x]) \in Int /\ D[x] \in Int /\ L[c + 1][x] \in Int
    BY <2>3, <1>1, <1>4, Sums
  <2>6. L[c + 1][x] <= Plus(L[c][p], W[p][x])
    BY <1>3, <2>2
  <2>. QED  BY <2>2, <2>4, <2>5, <2>6
<1>. QED  BY <1>5, <1>6 DEF WithinLinks

\* Products grow with their factors.
LEMMA Products ==
  ASSUME NEW a \in Nat, NEW b \in Nat, NEW c \in Nat
  PROVE  /\ a * c \in Nat /\ c * a = a * c /\ (a + 1) * c = a * c + c /\ 0 * c = 0
         /\ a <= b => a * c <= b * c
         /\ c >= 1 => a <= a * c
<1>1. a * c \in Nat /\ c * a = a * c /\ (a + 1) * c = a * c + c /\ 0 * c = 0
  OBVIOUS
<1>2. ASSUME a <= b PROVE a * c <= b * c
  <2>1. b - a \in Nat /\ (b - a) * c \in Nat /\ b * c = a * c + (b - a) * c
    BY <1>2
  <2>. QED  BY <2>1, <1>1
<1>3. ASSUME c >= 1 PROVE a <= a * c
  <2>1. c - 1 \in Nat /\ a * (c - 1) \in Nat /\ a * c = a + a * (c - 1)
    BY <1>3
  <2>. QED  BY <2>1
<1>. QED  BY <1>1, <1>2, <1>3

LEMMA PenaltyIsSmall ==
  ASSUME NEW x \in Int PROVE Penalty(x) = Infinity \/ Penalty(x) \in 0..500
<1>. DEFINE Within(i) == PenaltyAt[i][1] <= x /\ x <= PenaltyAt[i + 1][1]
            a(i) == PenaltyAt[i][1]
            b(i) == PenaltyAt[i][2]
<1>1. /\ a(1) = 10 /\ a(2) = 50 /\ a(3) = 100 /\ a(4) = 500 /\ a(5) = 1000 /\ a(6) = 2000
      /\ b(1) = 500 /\ b(2) = 300 /\ b(3) = 200 /\ b(4) = 50 /\ b(5) = 20 /\ b(6) = 10
  BY DEF PenaltyAt
<1>2. CASE x < 10 \/ x > 2000
  <2>1. Penalty(x) = Infinity \/ Penalty(x) = 10
    BY <1>2 DEF Penalty
  <2>. QED  BY <2>1
<1>3. CASE ~(x < 10) /\ ~(x > 2000)
  <2>1. \E i \in 1..5 : Within(i)
    <3>1. Within(1) \/ Within(2) \/ Within(3) \/ Within(4) \/ Within(5)
      BY <1>1, <1>3
    <3>. QED  BY <3>1
  <2>2. PICK i \in 1..5 : Within(i) /\ Penalty(x) = Interpolated(x, i)
    <3>. DEFINE j == CHOOSE k \in 1..5 : Within(k)
    <3>1. j \in 1..5 /\ Within(j)
      BY <2>1
    <3>2. Penalty(x) = Interpolated(x, j)
      BY <1>3 DEF Penalty
    <3>. QED  BY <3>1, <3>2
  <2>3. Penalty(x) = b(i) - ((x - a(i)) * (b(i) - b(i + 1))) \div (a(i + 1) - a(i)) /\ a(i) <= x /\ x <= a(i + 1)
    BY <2>2 DEF Interpolated
  <2>. HIDE DEF a, b
  <2>4. CASE i = 1
    <3>1. Penalty(x) = 500 - ((x - 10) * 200) \div 40 /\ x \in 10..50
      BY <2>3, <2>4, <1>1
    <3>2. ((x - 10) * 200) \div 40 \in 0..200
      BY <3>1
    <3>. QED  BY <3>1, <3>2
  <2>5. CASE i = 2
    <3>1. Penalty(x) = 300 - ((x - 50) * 100) \div 50 /\ x \in 50..100
      BY <2>3, <2>5, <1>1
    <3>2. ((x - 50) * 100) \div 50 \in 0..100
      BY <3>1
    <3>. QED  BY <3>1, <3>2
  <2>6. CASE i = 3
    <3>1. Penalty(x) = 200 - ((x - 100) * 150) \div 400 /\ x \in 100..500
      BY <2>3, <2>6, <1>1
    <3>2. ((x - 100) * 150) \div 400 \in 0..150
      BY <3>1
    <3>. QED  BY <3>1, <3>2
  <2>7. CASE i = 4
    <3>1. Penalty(x) = 50 - ((x - 500) * 30) \div 500 /\ x \in 500..1000
      BY <2>3, <2>7, <1>1
    <3>2. ((x - 500) * 30) \div 500 \in 0..30
      BY <3>1
    <3>. QED  BY <3>1, <3>2
  <2>8. CASE i = 5
    <3>1. Penalty(x) = 20 - ((x - 1000) * 10) \div 1000 /\ x \in 1000..2000
      BY <2>3, <2>8, <1>1
    <3>2. ((x - 1000) * 10) \div 1000 \in 0..10
      BY <3>1
    <3>. QED  BY <3>1, <3>2
  <2>. QED  BY <2>4, <2>5, <2>6, <2>7, <2>8
<1>. QED  BY <1>2, <1>3

\* A map that can be read.
Readable == mapFile \in MapFiles /\ ~Unreadable /\ Nodes # {}
LEMMA NodesAre ==
  ASSUME Readable
  PROVE  /\ Nodes \subseteq Nat /\ IsFiniteSet(Nodes) /\ Cardinality(Nodes) \in Nat /\ Cardinality(Nodes) >= 1
         /\ Cardinality(mapFile.nodes) \in Nat /\ Cardinality(Nodes) <= Cardinality(mapFile.nodes)
         /\ Roads \subseteq Nat
<1>1. mapFile.nodes \subseteq Nat /\ IsFiniteSet(mapFile.nodes) /\ Roads \subseteq Nat
  BY RouteAssumption DEF Readable, Roads
<1>2. Nodes \in SUBSET mapFile.nodes
  BY DEF Nodes
<1>3. IsFiniteSet(Nodes) /\ Cardinality(Nodes) <= Cardinality(mapFile.nodes)
  BY <1>1, <1>2, FS_Subset
<1>4. Cardinality(mapFile.nodes) \in Nat /\ Cardinality(Nodes) \in Nat
  BY <1>1, <1>3, FS_CardinalityType
<1>5. Cardinality(Nodes) # 0
  BY <1>3, FS_EmptySet DEF Readable
<1>. QED  BY <1>1, <1>2, <1>3, <1>4, <1>5

\* A link costs infinity, or so little that no route over it costs infinity.
LEMMA CostIs ==
  ASSUME Readable, NEW l \in Roads
  PROVE  /\ Cost(l) \in Costs
         /\ Cost(l) = Infinity \/ Cost(l) * Cardinality(Nodes) < Infinity
<1>. DEFINE N == Cardinality(Nodes)
            M == Cardinality(mapFile.nodes)
<1>1. N \in Nat /\ N >= 1 /\ M \in Nat /\ N <= M
  BY NodesAre
<1>2. /\ Road(l).length \in Nat /\ Road(l).over \in Seq(Roads)
      /\ \A k \in Roads : (Road(k).length + 500 * Len(Road(l).over)) * M < Infinity
  BY RouteAssumption DEF Readable, Roads, Road
<1>. HIDE DEF N, M
<1>3. PICK n \in Nat : n = Len(Road(l).over)
  BY <1>2
<1>4. ASSUME NEW far \in Nat, NEW c \in Nat, c <= far + 500 * n, (far + 500 * n) * M < Infinity
      PROVE  c \in Costs /\ c * N < Infinity
  <2>1. c * N <= (far + 500 * n) * N
    BY <1>1, <1>4, Products
  <2>2. (far + 500 * n) * N <= (far + 500 * n) * M
    <3>1. far + 500 * n \in Nat
      BY <1>4
    <3>2. PICK x \in Nat : x = far + 500 * n
      BY <3>1
    <3>3. N * x <= M * x /\ N * x = x * N /\ M * x = x * M
      BY <1>1, Products
    <3>. QED  BY <3>2, <3>3
  <2>3. c <= c * N /\ c * N \in Nat /\ (far + 500 * n) * N \in Nat /\ (far + 500 * n) * M \in Nat
    <3>1. far + 500 * n \in Nat
      BY <1>4
    <3>. QED  BY <1>1, <3>1, Products
  <2>. QED  BY <2>1, <2>2, <2>3, <1>4, Bound DEF Costs
<1>5. CASE ~ChangesLane(l)
  <2>1. Cost(l) = Road(l).length
    BY <1>5 DEF Cost
  <2>2. Road(l).length \in Nat /\ Road(l).length <= Road(l).length + 500 * n
    BY <1>2
  <2>3. (Road(l).length + 500 * n) * M < Infinity
    BY <1>2, <1>3
  <2>4. Road(l).length \in Costs /\ Road(l).length * N < Infinity
    BY <2>2, <2>3, <1>4
  <2>. QED  BY <2>1, <2>4 DEF N
<1>6. CASE ChangesLane(l)
  <2>1. n >= 2
    BY <1>6, <1>3 DEF Readable, Unreadable
  <2>2. PICK k \in Roads : k = Road(l).over[n]
    BY <2>1, <1>2, <1>3
  <2>3. PICK far \in Nat : far = Road(k).length
    BY RouteAssumption DEF Readable, Roads, Road
  <2>4. PICK q \in Nat : q = n - 1 /\ q >= 1
    BY <2>1
  <2>5. far \div q \in Int
    BY <2>4
  <2>6. PICK p : p = Penalty(far \div q)
    OBVIOUS
  <2>7. p = Infinity \/ p \in 0..500
    BY <2>5, <2>6, PenaltyIsSmall
  <2>8. Cost(l) = IF p = Infinity THEN Infinity ELSE far + q * p
    <3>1. Len(Road(l).over) - 1 = q /\ Road(l).over[q + 1] = k
      BY <1>3, <2>2, <2>4
    <3>. QED  BY <1>6, <3>1, <2>3, <2>6 DEF Cost
  <2>9. CASE p = Infinity
    BY <2>8, <2>9, Bound DEF Costs
  <2>10. CASE p # Infinity
    <3>1. p \in Nat /\ p <= 500
      BY <2>7, <2>10
    <3>2. p * q <= 500 * q /\ p * q \in Nat /\ q * p = p * q
      BY <3>1, <2>4, Products
    <3>3. far + q * p \in Nat /\ far + q * p <= far + 500 * n
      BY <3>2, <2>4
    <3>4. (far + 500 * n) * M < Infinity
      BY <1>2, <1>3, <2>3
    <3>5. far + q * p \in Costs /\ (far + q * p) * N < Infinity
      BY <3>3, <3>4, <1>4
    <3>. QED  BY <2>8, <2>10, <3>5 DEF N
  <2>. QED  BY <2>9, <2>10
<1>. QED  BY <1>5, <1>6

\* The most a link costs, but for infinity.
IsMost(most) ==
  /\ most \in Nat /\ most * Cardinality(Nodes) < Infinity
  /\ \A l \in Roads : Cost(l) < Infinity => Cost(l) <= most
LEMMA MostExists == ASSUME Readable PROVE \E most : IsMost(most)
<1>. DEFINE N == Cardinality(Nodes)
            T == {k \in Nat : Infinity <= k * N}
<1>1. N \in Nat /\ N >= 1 /\ Infinity \in Nat /\ Infinity > 500
  BY NodesAre, Bound
<1>2. ASSUME NEW l \in Roads, Cost(l) < Infinity PROVE Cost(l) \in Nat /\ Cost(l) * N < Infinity
  BY <1>2, CostIs, Bound
<1>. HIDE DEF N
<1>3. Infinity \in T
  <2>1. Infinity <= Infinity * N
    BY <1>1, Products
  <2>. QED  BY <1>1, <2>1
<1>4. PICK k \in T : \A j \in T : k <= j
  <2>. HIDE DEF T
  <2>1. T \subseteq Nat
    BY DEF T
  <2>. QED  BY <2>1, <1>3, LeastNatural
<1>5. k \in Nat /\ Infinity <= k * N
  BY <1>4
<1>6. k # 0
  <2>1. 0 * N = 0
    BY <1>1
  <2>. QED  BY <2>1, <1>5, <1>1
<1>7. k - 1 \in Nat /\ (k - 1) * N \in Nat
  BY <1>1, <1>5, <1>6
<1>8. (k - 1) * N < Infinity
  <2>1. k - 1 \notin T
    BY <1>4, <1>7
  <2>. QED  BY <2>1, <1>7, <1>1
<1>9. ASSUME NEW l \in Roads, Cost(l) < Infinity PROVE Cost(l) <= k - 1
  <2>1. PICK c \in Nat : c = Cost(l) /\ c * N < Infinity
    BY <1>2, <1>9
  <2>2. CASE k <= c
    <3>1. k * N <= c * N /\ k * N \in Nat /\ c * N \in Nat
      BY <2>2, <1>1, <1>5, <2>1, Products
    <3>. QED  BY <3>1, <1>5, <1>1, <2>1
  <2>. QED  BY <2>1, <2>2, <1>5
<1>. QED  BY <1>7, <1>8, <1>9 DEF IsMost, N

LEMMA WeightIs ==
  ASSUME Readable, NEW n \in Nodes, NEW m \in Nodes
  PROVE  /\ Weight(n, m) \in Costs
         /\ \A l \in RoadsBetween(n, m) : Weight(n, m) <= Cost(l)
         /\ n # m /\ Weight(n, m) < Infinity => \E l \in RoadsBetween(n, m) : Cost(l) = Weight(n, m)
<1>. DEFINE e == IF n = m /\ RoadsBetween(n, m) = {} THEN 0 ELSE Infinity
            S == {Cost(l) : l \in RoadsBetween(n, m)} \cup {e}
<1>1. RoadsBetween(n, m) \subseteq Roads /\ e \in Costs /\ (n # m => e = Infinity)
  BY Bound DEF RoadsBetween, Costs
<1>2. S \subseteq Costs /\ Costs \subseteq Int /\ e \in S
  BY <1>1, CostIs, Bound
<1>3. Weight(n, m) = Min(S)
  BY DEF Weight
<1>. HIDE DEF e
<1>4. \A x \in S : 0 <= x
  BY <1>2, Bound
<1>5. Min(S) \in S /\ \A x \in S : Min(S) <= x
  <2>1. S \in SUBSET Int /\ S # {}
    BY <1>2
  <2>. HIDE DEF S
  <2>. QED  BY <2>1, <1>4, LeastOf
<1>6. ASSUME NEW l \in RoadsBetween(n, m) PROVE Min(S) <= Cost(l)
  BY <1>5
<1>7. ASSUME n # m, Min(S) < Infinity PROVE \E l \in RoadsBetween(n, m) : Cost(l) = Min(S)
  <2>1. Min(S) # e
    BY <1>1, <1>7, Bound
  <2>. QED  BY <2>1, <1>5
<1>. QED  BY <1>2, <1>3, <1>5, <1>6, <1>7

\* A finite set of naturals that is not empty has a greatest one.
LEMMA FiniteIsBounded ==
  ASSUME NEW S \in SUBSET Nat, IsFiniteSet(S)
  PROVE  \E b \in Nat : \A x \in S : x <= b
<1>. DEFINE P(k) == \A U \in SUBSET Nat : IsFiniteSet(U) /\ Cardinality(U) = k => \E b \in Nat : \A x \in U : x <= b
            T == {k \in Nat : P(k)}
<1>1. 0 \in T
  <2>1. ASSUME NEW U \in SUBSET Nat, IsFiniteSet(U), Cardinality(U) = 0 PROVE \E b \in Nat : \A x \in U : x <= b
    <3>1. U = {}
      BY <2>1, FS_EmptySet
    <3>. QED  BY <3>1
  <2>. QED  BY <2>1
<1>2. ASSUME NEW k \in Nat, k \in T PROVE k + 1 \in T
  <2>1. ASSUME NEW U \in SUBSET Nat, IsFiniteSet(U), Cardinality(U) = k + 1 PROVE \E b \in Nat : \A x \in U : x <= b
    <3>1. U # {}
      BY <2>1, FS_EmptySet
    <3>2. PICK y \in U : TRUE
      BY <3>1
    <3>3. IsFiniteSet(U \ {y}) /\ Cardinality(U \ {y}) = k
      <4>1. IsFiniteSet(U \ {y}) /\ Cardinality(U \ {y}) = Cardinality(U) - 1
        BY <2>1, <3>2, FS_RemoveElement
      <4>. QED  BY <4>1, <2>1
    <3>4. PICK b \in Nat : \A x \in U \ {y} : x <= b
      BY <3>3, <1>2
    <3>5. y + b \in Nat /\ \A x \in U : x <= y + b
      <4>1. ASSUME NEW x \in U PROVE x <= y + b
        <5>1. x \in Nat /\ y \in Nat /\ (x = y \/ x <= b)
          BY <3>4
        <5>. QED  BY <5>1
      <4>. QED  BY <4>1
    <3>. QED  BY <3>5
  <2>2. P(k + 1)
    BY <2>1, Zenon
  <2>. HIDE DEF P
  <2>. QED  BY <2>2
<1>. HIDE DEF T
<1>3. \A k \in Nat : k \in T
  BY <1>1, <1>2, Induct
<1>4. P(Cardinality(S))
  <2>. HIDE DEF P
  <2>. QED  BY <1>3, FS_CardinalityType DEF T
<1>. QED  BY <1>4
LEMMA GreatestOf ==
  ASSUME NEW S \in SUBSET Nat, IsFiniteSet(S), S # {}
  PROVE  Max(S) \in S
<1>1. PICK b \in Nat : \A x \in S : x <= b
  BY FiniteIsBounded
<1>. DEFINE T == {b - x : x \in S}
<1>2. T \subseteq Nat /\ T # {}
  <2>1. PICK x \in S : TRUE
    OBVIOUS
  <2>2. b - x \in T
    BY <2>1
  <2>3. T \subseteq Nat
    BY <1>1
  <2>. QED  BY <2>2, <2>3
<1>. HIDE DEF T
<1>3. PICK n \in T : \A m \in T : n <= m
  BY <1>2, LeastNatural
<1>4. PICK x \in S : n = b - x
  BY DEF T
<1>5. \A y \in S : x >= y
  <2>1. ASSUME NEW y \in S PROVE x >= y
    <3>1. b - y \in T
      BY DEF T
    <3>2. b - x <= b - y
      BY <3>1, <1>3, <1>4
    <3>. QED  BY <3>2
  <2>. QED  BY <2>1
<1>. QED  BY <1>5 DEF Max

\* What it costs to go from a node to another.
Weights == [n \in Nodes |-> [m \in Nodes |-> Weight(n, m)]]
LEMMA WeightsAre ==
  ASSUME Readable
  PROVE  Weights \in [Nodes -> [Nodes -> Costs]] /\ \A n, m \in Nodes : Weights[n][m] = Weight(n, m)
  BY WeightIs DEF Weights

\* The costs over one link more: those so far, or over a link to the node.
LEMMA OneMoreIs ==
  ASSUME Readable, NEW x \in [Nodes -> Costs], NEW n \in Nodes
  PROVE  /\ OverOneMore(x)[n] \in Costs /\ OverOneMore(x)[n] <= x[n]
         /\ \A p \in Nodes \ {n} : OverOneMore(x)[n] <= Plus(x[p], Weights[p][n])
         /\ x[n] <= OverOneMore(x)[n] \/ \E p \in Nodes : Plus(x[p], Weights[p][n]) <= OverOneMore(x)[n]
<1>. DEFINE into == {l \in Roads : ToNode(l) = n /\ FromNode(l) \in Nodes}
            S == {x[n]} \cup {Plus(x[FromNode(l)], Cost(l)) : l \in into}
<1>1. OverOneMore(x)[n] = Min(S)
  BY DEF OverOneMore
<1>2. ASSUME NEW l \in into
      PROVE  /\ l \in Roads /\ FromNode(l) \in Nodes /\ x[FromNode(l)] \in Costs /\ Cost(l) \in Costs
             /\ Plus(x[FromNode(l)], Cost(l)) \in Costs /\ l \in RoadsBetween(FromNode(l), n)
  <2>1. l \in Roads /\ FromNode(l) \in Nodes /\ l \in RoadsBetween(FromNode(l), n)
    BY DEF RoadsBetween
  <2>2. x[FromNode(l)] \in Costs /\ Cost(l) \in Costs
    BY <2>1, CostIs
  <2>. QED  BY <2>1, <2>2, Sums
<1>3. S \subseteq Costs /\ Costs \subseteq Int /\ x[n] \in S
  BY <1>2, Bound
<1>4. Min(S) \in S /\ \A y \in S : Min(S) <= y
  <2>1. S \in SUBSET Int /\ S # {} /\ \A y \in S : 0 <= y
    BY <1>3, Bound
  <2>. HIDE DEF S
  <2>. QED  BY <2>1, LeastOf
<1>5. Min(S) \in Costs /\ Min(S) <= x[n]
  BY <1>3, <1>4
<1>6. ASSUME NEW p \in Nodes \ {n} PROVE Min(S) <= Plus(x[p], Weights[p][n])
  <2>1. PICK w \in Costs : w = Weights[p][n] /\ w = Weight(p, n)
    BY WeightsAre, WeightIs
  <2>2. x[p] \in Costs
    OBVIOUS
  <2>3. CASE w < Infinity
    <3>1. PICK l \in RoadsBetween(p, n) : Cost(l) = w
      BY <2>1, <2>3, WeightIs
    <3>2. l \in into /\ FromNode(l) = p
      BY <3>1 DEF RoadsBetween
    <3>3. Plus(x[p], w) \in S
      BY <3>1, <3>2
    <3>. QED  BY <3>3, <1>4, <2>1
  <2>4. CASE ~(w < Infinity)
    <3>1. w = Infinity
      BY <2>4, Bound DEF Costs
    <3>2. Plus(x[p], w) \in Costs /\ 0 <= x[p] /\ x[p] \in Int
      BY <2>2, Sums, Bound
    <3>3. Plus(x[p], w) = Infinity
      <4>1. ~(x[p] + w < Infinity)
        BY <3>1, <3>2, Bound
      <4>. QED  BY <4>1 DEF Plus
    <3>. QED  BY <3>3, <1>5, <2>1, Bound
  <2>. QED  BY <2>3, <2>4
<1>7. x[n] <= Min(S) \/ \E p \in Nodes : Plus(x[p], Weights[p][n]) <= Min(S)
  <2>1. CASE Min(S) = x[n]
    BY <2>1, <1>5, Bound
  <2>2. ASSUME NEW l \in into, Min(S) = Plus(x[FromNode(l)], Cost(l))
        PROVE  \E p \in Nodes : Plus(x[p], Weights[p][n]) <= Min(S)
    <3>1. PICK p \in Nodes : p = FromNode(l)
      BY <1>2
    <3>2. Weights[p][n] = Weight(p, n) /\ Weight(p, n) \in Costs /\ Weight(p, n) <= Cost(l)
      BY <3>1, <1>2, WeightIs, WeightsAre
    <3>3. x[p] \in Costs /\ x[p] <= x[p] /\ Cost(l) \in Costs
      BY <3>1, <1>2, Bound
    <3>4. Plus(x[p], Weights[p][n]) <= Plus(x[p], Cost(l))
      BY <3>2, <3>3, Sums
    <3>. QED  BY <3>4, <3>1, <2>2
  <2>. QED  BY <2>1, <2>2, <1>4
<1>. QED  BY <1>1, <1>5, <1>6, <1>7

\* The reference meets Bellman's equations.
LEMMA LeastCostsAre ==
  ASSUME Readable, NEW s \in Nodes
  PROVE  LeastOver(Nodes, s, Weights, Cardinality(Nodes), LeastCosts(s))
<1>. DEFINE K == Cardinality(Nodes)
            S == [Nodes -> Costs]
            b == [n \in Nodes |-> IF n = s THEN 0 ELSE Infinity]
            least == CHOOSE g : g = [k \in 0..K |-> IF k = 0 THEN b ELSE OverOneMore(g[k - 1])]
            step == [k \in Nat |-> [x \in S |-> OverOneMore(x)]]
<1>1. LeastCosts(s) = least
  BY DEF LeastCosts
<1>2. K \in Nat
  BY NodesAre
<1>3. b \in S
  <2>1. 0 \in Costs /\ Infinity \in Costs
    BY Bound DEF Costs
  <2>. QED  BY <2>1
<1>4. \A x \in S : OverOneMore(x) \in S
  <2>1. ASSUME NEW x \in S PROVE OverOneMore(x) \in S
    <3>1. \A n \in Nodes : OverOneMore(x)[n] \in Costs
      BY <2>1, OneMoreIs
    <3>2. OverOneMore(x) = [n \in Nodes |-> OverOneMore(x)[n]]
      BY DEF OverOneMore
    <3>. QED  BY <3>1, <3>2
  <2>. QED  BY <2>1
<1>. HIDE DEF b, K, S
<1>5. StepsIn(S, b, step)
  BY <1>3, <1>4 DEF StepsIn
<1>6. PICK g : RunsTo(g, S, b, K, step)
  <2>. HIDE DEF step
  <2>. QED  BY <1>2, <1>5, RecursionUpTo
<1>7. g = [k \in 0..K |-> IF k = 0 THEN b ELSE OverOneMore(g[k - 1])]
  <2>1. ASSUME NEW k \in 0..K, k # 0 PROVE step[k][g[k - 1]] = OverOneMore(g[k - 1])
    <3>1. k \in Nat /\ k - 1 \in 0..K
      BY <1>2, <2>1
    <3>2. g[k - 1] \in S
      BY <3>1, <1>6 DEF RunsTo
    <3>. QED  BY <3>1, <3>2
  <2>. HIDE DEF step
  <2>. QED  BY <2>1, <1>6 DEF RunsTo
<1>8. least = [k \in 0..K |-> IF k = 0 THEN b ELSE OverOneMore(least[k - 1])]
  BY <1>7
<1>. HIDE DEF least
<1>9. 0 \in 0..K /\ \A k \in 1..K : k \in 0..K /\ k # 0 /\ k - 1 \in 0..K
  BY <1>2
<1>10. least[0] = b /\ \A k \in 1..K : least[k] = OverOneMore(least[k - 1])
  BY <1>8, <1>9
<1>11. \A k \in 0..K : least[k] \in S
  <2>1. \A k \in 1..K : least[k - 1] \in S => least[k] \in S
    BY <1>4, <1>10
  <2>. QED  BY <1>2, <1>3, <1>10, <2>1, HoldsUpTo
<1>12. least \in [0..K -> [Nodes -> Costs]]
  BY <1>8, <1>11 DEF S
<1>13. \A n \in Nodes : least[0][n] = IF n = s THEN 0 ELSE Infinity
  BY <1>10 DEF b
<1>14. ASSUME NEW k \in 1..K, NEW n \in Nodes
       PROVE  /\ least[k][n] <= least[k - 1][n] /\ \A p \in Nodes \ {n} : least[k][n] <= Plus(least[k - 1][p], Weights[p][n])
              /\ least[k - 1][n] <= least[k][n] \/ \E p \in Nodes : Plus(least[k - 1][p], Weights[p][n]) <= least[k][n]
  <2>1. PICK x \in [Nodes -> Costs] : x = least[k - 1] /\ least[k] = OverOneMore(x)
    BY <1>9, <1>10, <1>11 DEF S
  <2>2. /\ OverOneMore(x)[n] <= x[n] /\ \A p \in Nodes \ {n} : OverOneMore(x)[n] <= Plus(x[p], Weights[p][n])
        /\ x[n] <= OverOneMore(x)[n] \/ \E p \in Nodes : Plus(x[p], Weights[p][n]) <= OverOneMore(x)[n]
    BY OneMoreIs
  <2>. QED  BY <2>1, <2>2
<1>. QED  BY <1>1, <1>2, <1>12, <1>13, <1>14 DEF LeastOver, K

Most == CHOOSE most : IsMost(most)
\* The search from s: the costs that were found are least over the nodes that were
\* selected, and those but for infinity are as small as the number of these allows.
Found(s, d) == [n \in Nodes |-> IF n = s THEN 0 ELSE d[n]]
Searched(s, S, d, F) ==
  /\ d \in [Nodes -> Costs]
  /\ Searching(Nodes, s, Weights, S, Found(s, d), F)
  /\ WithinLinks(S, Found(s, d), LeastCosts(s), Cardinality(S))
  /\ \A n \in S : Found(s, d)[n] < Infinity => Found(s, d)[n] <= Most * (Cardinality(S) - 1)

LEMMA MostIs ==
  ASSUME Readable
  PROVE  /\ Most \in Nat /\ Most * Cardinality(Nodes) < Infinity
         /\ \A n, m \in Nodes : n # m /\ Weight(n, m) < Infinity => Weight(n, m) <= Most
<1>1. IsMost(Most)
  BY MostExists DEF Most
<1>2. ASSUME NEW n \in Nodes, NEW m \in Nodes, n # m, Weight(n, m) < Infinity PROVE Weight(n, m) <= Most
  <2>1. PICK l \in RoadsBetween(n, m) : Cost(l) = Weight(n, m)
    BY <1>2, WeightIs
  <2>2. l \in Roads
    BY DEF RoadsBetween
  <2>. QED  BY <1>1, <1>2, <2>1, <2>2 DEF IsMost
<1>. QED  BY <1>1, <1>2 DEF IsMost

LEMMA FoundIs ==
  ASSUME NEW s \in Nodes, NEW d \in [Nodes -> Costs]
  PROVE  /\ Found(s, d) \in [Nodes -> Costs] /\ Found(s, d)[s] = 0
         /\ \A n \in Nodes \ {s} : Found(s, d)[n] = d[n]
<1>1. 0 \in Costs
  BY Bound DEF Costs
<1>. QED  BY <1>1 DEF Found

LEMMA SearchStarts ==
  ASSUME Readable, NEW s \in Nodes
  PROVE  Searched(s, {s}, [n \in Nodes |-> Weight(s, n)], [n \in Nodes |-> s])
<1>. DEFINE d == [n \in Nodes |-> Weight(s, n)]
            F == [n \in Nodes |-> s]
            D == Found(s, d)
            W == Weights
            L == LeastCosts(s)
<1>1. d \in [Nodes -> Costs] /\ F \in [Nodes -> Nodes] /\ \A m \in Nodes : F[m] = s
  BY WeightIs
<1>2. /\ W \in [Nodes -> [Nodes -> Costs]] /\ D \in [Nodes -> Costs] /\ D[s] = 0
      /\ \A m \in Nodes \ {s} : D[m] = W[s][m]
  BY <1>1, FoundIs, WeightsAre
<1>3. LeastOver(Nodes, s, W, Cardinality(Nodes), L)
  BY LeastCostsAre
<1>4. Cardinality({s}) = 1 /\ Cardinality(Nodes) \in Nat /\ Cardinality(Nodes) >= 1 /\ Most \in Nat
  BY NodesAre, MostIs, FS_Singleton
<1>. HIDE DEF d, F, D, W, L
<1>5. ASSUME NEW m \in Nodes \ {s} PROVE D[m] = Plus(D[s], W[s][m]) /\ D[m] <= Plus(D[s], W[s][m]) /\ D[s] <= D[m]
  <2>1. W[s][m] \in Costs
    BY <1>2
  <2>2. Plus(0, W[s][m]) = W[s][m]
    BY <2>1, Sums
  <2>. QED  BY <1>2, <2>1, <2>2, Bound
<1>6. Searching(Nodes, s, W, {s}, D, F)
  BY <1>1, <1>2, <1>5 DEF Searching
<1>7. L[1][s] <= 0
  <2>1. 1 \in 1..Cardinality(Nodes) /\ 1 - 1 = 0
    BY <1>4
  <2>2. L[1][s] <= L[0][s] /\ L[0][s] = 0
    BY <1>3, <2>1 DEF LeastOver
  <2>. QED  BY <2>2
<1>8. WithinLinks({s}, D, L, 1)
  BY <1>7, <1>2 DEF WithinLinks
<1>9. \A n \in {s} : D[n] < Infinity => D[n] <= Most * (1 - 1)
  BY <1>2, <1>4
<1>. QED  BY <1>1, <1>4, <1>6, <1>8, <1>9 DEF Searched, d, F, D, W, L

\* The cost of a node is infinity only if that of the node before it or of the way from
\* there is; else it is their sum.
LEMMA SumsAreFinite ==
  ASSUME Readable, NEW s \in Nodes, NEW S, NEW d, NEW F, Searched(s, S, d, F), NEW m \in Nodes \ {s}
  PROVE  /\ F[m] \in S \ {m} /\ F[m] \in Nodes
         /\ Found(s, d)[F[m]] = Infinity \/ Weight(F[m], m) = Infinity => Found(s, d)[m] = Infinity
         /\ Found(s, d)[F[m]] # Infinity /\ Weight(F[m], m) # Infinity =>
              /\ Found(s, d)[m] = Found(s, d)[F[m]] + Weight(F[m], m) /\ Found(s, d)[m] # Infinity
              /\ Found(s, d)[m] <= Most * Cardinality(S)
<1>. DEFINE D == Found(s, d)
            W == Weights
<1>1. /\ S \subseteq Nodes /\ W \in [Nodes -> [Nodes -> Costs]] /\ D \in [Nodes -> Costs]
      /\ F[m] \in S \ {m} /\ D[m] = Plus(D[F[m]], W[F[m]][m])
      /\ \A n \in S : D[n] < Infinity => D[n] <= Most * (Cardinality(S) - 1)
  BY DEF Searched, Searching
<1>2. PICK p \in Nodes : p = F[m] /\ p # m /\ p \in S
  BY <1>1
<1>3. PICK a \in Costs : a = D[p]
  BY <1>1
<1>4. PICK w \in Costs : w = Weight(p, m) /\ w = W[p][m]
  BY WeightIs, WeightsAre
<1>. HIDE DEF D, W
<1>5. D[m] = Plus(a, w) /\ D[m] \in Costs
  BY <1>1, <1>2, <1>3, <1>4
<1>6. CASE a = Infinity \/ w = Infinity
  <2>1. ~(a + w < Infinity)
    BY <1>6, Bound
  <2>2. Plus(a, w) = Infinity
    BY <2>1 DEF Plus
  <2>. QED  BY <2>2, <1>2, <1>3, <1>4, <1>5, <1>6 DEF D
<1>7. CASE a # Infinity /\ w # Infinity
  <2>1. a < Infinity /\ w < Infinity /\ a \in Int /\ w \in Int
    BY <1>7, Bound DEF Costs
  <2>2. a <= Most * (Cardinality(S) - 1)
    BY <2>1, <1>1, <1>2, <1>3
  <2>3. w <= Most
    BY <2>1, <1>2, <1>4, MostIs
  <2>4. /\ Most \in Nat /\ Most * Cardinality(Nodes) < Infinity
        /\ Cardinality(S) \in Nat /\ Cardinality(Nodes) \in Nat /\ Cardinality(S) <= Cardinality(Nodes)
    <3>1. S \in SUBSET Nodes /\ IsFiniteSet(Nodes)
      BY <1>1, NodesAre
    <3>. QED  BY <3>1, MostIs, NodesAre, FS_Subset, FS_CardinalityType
  <2>5. PICK c \in Nat, k \in Nat : c = Cardinality(S) /\ k = Cardinality(Nodes) /\ c <= k
    BY <2>4
  <2>6. Most * (c - 1) = Most * c - Most /\ Most * c \in Int /\ Most * c = c * Most /\ Most * k = k * Most
    BY <2>4
  <2>7. c * Most <= k * Most
    BY <2>4, <2>5, Products
  <2>8. a + w <= Most * c /\ Most * c < Infinity
    <3>1. k * Most \in Int /\ c * Most \in Int /\ k * Most < Infinity
      BY <2>4, <2>5, <2>6
    <3>. QED  BY <2>1, <2>2, <2>3, <2>4, <2>5, <2>6, <2>7, <3>1, Bound
  <2>9. a + w < Infinity
    BY <2>1, <2>6, <2>8, Bound
  <2>10. Plus(a, w) = a + w
    BY <2>9 DEF Plus
  <2>11. a + w # Infinity
    BY <2>1, <2>9, Bound
  <2>12. D[m] = a + w /\ D[m] # Infinity /\ D[m] <= Most * Cardinality(S)
    BY <2>5, <2>8, <2>10, <2>11, <1>5
  <2>13. D[F[m]] = a /\ Weight(F[m], m) = w
    BY <1>2, <1>3, <1>4
  <2>. QED  BY <2>12, <2>13, <1>1, <1>2, <1>7 DEF D
<1>. QED  BY <1>6, <1>7, <1>2, <1>3, <1>4 DEF D

\* The nearest of the others is selected.
LEMMA SearchGoesOn ==
  ASSUME Readable, NEW s \in Nodes, NEW S, NEW d, NEW F, Searched(s, S, d, F),
         NEW x \in Nodes \ S, \A m \in Nodes \ S : d[x] <= d[m],
         NEW d1 \in [Nodes -> Costs], NEW F1 \in [Nodes -> Nodes],
         \A m \in Nodes : IF m \notin S \cup {x} /\ Plus(d[x], Weight(x, m)) < d[m]
                          THEN d1[m] = Plus(d[x], Weight(x, m)) /\ F1[m] = x ELSE d1[m] = d[m] /\ F1[m] = F[m]
  PROVE  Searched(s, S \cup {x}, d1, F1)
<1>. DEFINE D == Found(s, d)
            D1 == Found(s, d1)
            W == Weights
            L == LeastCosts(s)
            K == Cardinality(Nodes)
            c == Cardinality(S)
<1>1. /\ d \in [Nodes -> Costs] /\ Searching(Nodes, s, W, S, D, F) /\ WithinLinks(S, D, L, c)
      /\ \A n \in S : D[n] < Infinity => D[n] <= Most * (c - 1)
      /\ S \subseteq Nodes /\ s \in S /\ F \in [Nodes -> Nodes]
  BY DEF Searched, Searching
<1>2. /\ W \in [Nodes -> [Nodes -> Costs]] /\ \A n, m \in Nodes : W[n][m] = Weight(n, m)
      /\ D \in [Nodes -> Costs] /\ D[s] = 0 /\ \A n \in Nodes \ {s} : D[n] = d[n]
  BY <1>1, FoundIs, WeightsAre
<1>3. d1 \in [Nodes -> Costs] /\ F1 \in [Nodes -> Nodes]
  OBVIOUS
<1>4. D1 \in [Nodes -> Costs] /\ D1[s] = 0 /\ \A n \in Nodes \ {s} : D1[n] = d1[n]
  BY <1>3, FoundIs
<1>5. x # s /\ D[x] = d[x] /\ \A m \in Nodes \ S : m # s /\ D[m] = d[m] /\ D[x] <= D[m]
  BY <1>1, <1>2
<1>6. \A m \in Nodes : IF m \notin S \cup {x} /\ Plus(D[x], W[x][m]) < D[m]
                       THEN D1[m] = Plus(D[x], W[x][m]) /\ F1[m] = x ELSE D1[m] = D[m] /\ F1[m] = F[m]
  <2>. HIDE DEF D, D1, W
  <2>1. ASSUME NEW m \in Nodes, m \notin S \cup {x}
        PROVE  D[x] = d[x] /\ W[x][m] = Weight(x, m) /\ D[m] = d[m] /\ D1[m] = d1[m]
    BY <2>1, <1>2, <1>4, <1>5
  <2>2. ASSUME NEW m \in Nodes, m \in S \cup {x} PROVE D1[m] = D[m] /\ F1[m] = F[m]
    <3>1. CASE m = s
      BY <3>1, <2>2, <1>2, <1>4
    <3>2. CASE m # s
      BY <3>2, <2>2, <1>2, <1>4
    <3>. QED  BY <3>1, <3>2
  <2>. QED  BY <2>1, <2>2
<1>. HIDE DEF D, D1, W, L, K, c
<1>7. \A m \in Nodes \ S : D[x] <= D[m]
  BY <1>5
<1>8. Searching(Nodes, s, W, S \cup {x}, D1, F1) /\ \A n \in S \cup {x} : D1[n] = D[n]
  BY <1>1, <1>3, <1>4, <1>6, <1>7, NodeSelected
<1>9. LeastOver(Nodes, s, W, K, L)
  BY LeastCostsAre DEF W, K, L
<1>10. c \in Nat /\ K \in Nat /\ c < K /\ Cardinality(S \cup {x}) = c + 1
  <2>1. S \in SUBSET Nodes /\ IsFiniteSet(Nodes) /\ x \notin S /\ S # Nodes
    BY <1>1, NodesAre
  <2>2. IsFiniteSet(S) /\ c <= K /\ c # K /\ K \in Nat
    BY <2>1, NodesAre, FS_Subset DEF c, K
  <2>3. c \in Nat /\ Cardinality(S \cup {x}) = c + 1
    BY <2>1, <2>2, FS_CardinalityType, FS_AddElement DEF c
  <2>. QED  BY <2>2, <2>3
<1>11. WithinLinks(S \cup {x}, D, L, c + 1)
  BY <1>1, <1>9, <1>10, FoundIsAWalk
<1>12. WithinLinks(S \cup {x}, D1, L, c + 1)
  BY <1>8, <1>11 DEF WithinLinks
<1>13. ASSUME NEW n \in S \cup {x}, D1[n] < Infinity PROVE D1[n] <= Most * ((c + 1) - 1)
  <2>1. Most \in Nat /\ (c + 1) - 1 = c /\ Most * c \in Int /\ Most * (c - 1) = Most * c - Most
    BY <1>10, MostIs
  <2>2. D1[n] = D[n] /\ D[n] \in Int
    BY <1>1, <1>2, <1>8, Bound
  <2>3. CASE n \in S
    <3>1. D[n] <= Most * (c - 1)
      BY <2>2, <2>3, <1>1, <1>13
    <3>. QED  BY <3>1, <2>1, <2>2
  <2>4. CASE n = x
    <3>1. D[x] # Infinity
      BY <2>2, <2>4, <1>13, Bound
    <3>2. D[x] <= Most * Cardinality(S)
      <4>1. x \in Nodes \ {s}
        BY <1>5
      <4>2. /\ D[F[x]] = Infinity \/ Weight(F[x], x) = Infinity => D[x] = Infinity
            /\ D[F[x]] # Infinity /\ Weight(F[x], x) # Infinity => D[x] <= Most * Cardinality(S)
        BY <4>1, SumsAreFinite DEF D
      <4>. QED  BY <4>2, <3>1
    <3>. QED  BY <3>2, <2>1, <2>2, <2>4 DEF c
  <2>. QED  BY <2>3, <2>4
<1>. QED  BY <1>3, <1>8, <1>10, <1>12, <1>13 DEF Searched, D1, W, L

\* Over a node that was selected before, no other is reached at less.
LEMMA NothingCloser ==
  ASSUME Readable, NEW s \in Nodes, NEW S, NEW d, NEW F, Searched(s, S, d, F),
         NEW x \in S, NEW m \in Nodes \ S, d[m] = Infinity
  PROVE  ~(Plus(d[x], Weight(x, m)) < d[m])
<1>. DEFINE D == Found(s, d)
            W == Weights
<1>1. /\ d \in [Nodes -> Costs] /\ S \subseteq Nodes /\ s \in S
      /\ \A n \in S : \A k \in Nodes \ {s} : D[k] <= Plus(D[n], W[n][k])
  BY DEF Searched, Searching
<1>2. D[s] = 0 /\ \A n \in Nodes \ {s} : D[n] = d[n]
  BY <1>1, FoundIs
<1>3. PICK w \in Costs : w = Weight(x, m) /\ w = W[x][m]
  BY <1>1, WeightIs, WeightsAre
<1>4. m # s /\ D[m] = Infinity /\ Infinity <= Plus(D[x], w)
  BY <1>1, <1>2, <1>3
<1>. HIDE DEF D, W
<1>5. d[x] \in Costs /\ 0 \in Costs
  BY <1>1, Bound DEF Costs
<1>6. Plus(d[x], w) \in Costs
  BY <1>3, <1>5, Sums
<1>7. CASE x # s
  <2>1. D[x] = d[x]
    BY <1>1, <1>2, <1>7
  <2>. QED  BY <2>1, <1>3, <1>4, <1>6, Bound
<1>8. CASE x = s
  <2>1. D[x] = 0 /\ 0 <= d[x] /\ w <= w
    BY <1>2, <1>3, <1>5, <1>8, Bound
  <2>2. Plus(0, w) <= Plus(d[x], w) /\ Plus(0, w) \in Costs
    BY <2>1, <1>3, <1>5, Sums
  <2>. QED  BY <2>1, <2>2, <1>3, <1>4, <1>6, Bound
<1>. QED  BY <1>7, <1>8

\* Over more links nothing costs more.
LEMMA OverMoreLinks ==
  ASSUME NEW N, NEW s, NEW W, NEW K, NEW L, LeastOver(N, s, W, K, L), NEW n \in N, NEW c \in 0..K
  PROVE  L[K][n] <= L[c][n]
<1>1. /\ K \in Nat /\ L \in [0..K -> [N -> Costs]] /\ \A k \in 1..K : L[k][n] <= L[k - 1][n]
  BY DEF LeastOver
<1>2. \A k \in 0..K : L[k][n] \in Int
  BY <1>1, Bound
<1>. DEFINE T == {i \in Nat : c + i <= K => L[c + i][n] <= L[c][n]}
<1>3. 0 \in T
  <2>1. c + 0 = c
    OBVIOUS
  <2>. QED  BY <2>1, <1>2
<1>4. ASSUME NEW i \in Nat, i \in T PROVE i + 1 \in T
  <2>1. CASE c + (i + 1) <= K
    <3>1. c + (i + 1) \in 1..K /\ (c + (i + 1)) - 1 = c + i /\ c + i \in 0..K /\ c + (i + 1) \in 0..K /\ c + i <= K
      BY <2>1, <1>1
    <3>2. L[c + (i + 1)][n] <= L[c + i][n] /\ L[c + i][n] <= L[c][n]
      BY <3>1, <1>1, <1>4
    <3>3. L[c + (i + 1)][n] <= L[c][n]
      BY <3>1, <3>2, <1>2
    <3>. QED  BY <3>3
  <2>. QED  BY <2>1
<1>. HIDE DEF T
<1>5. K - c \in Nat
  BY <1>1
<1>6. K - c \in T
  BY <1>3, <1>4, <1>5, Induct
<1>7. c + (K - c) = K /\ c + (K - c) <= K
  BY <1>1
<1>. QED  BY <1>6, <1>7 DEF T

\* What was found is least: for the nodes that were selected, and for all of them once
\* no other can be reached.
LEMMA FoundIsLeastCost ==
  ASSUME Readable, NEW s \in Nodes, NEW S, NEW d, NEW F, Searched(s, S, d, F), NEW n \in Nodes,
         n \in S \/ \A m \in Nodes \ S : d[m] = Infinity
  PROVE  Found(s, d)[n] = LeastCost(s, n)
<1>. DEFINE D == Found(s, d)
            W == Weights
            L == LeastCosts(s)
            K == Cardinality(Nodes)
            c == Cardinality(S)
<1>1. /\ d \in [Nodes -> Costs] /\ Searching(Nodes, s, W, S, D, F) /\ WithinLinks(S, D, L, c)
      /\ S \subseteq Nodes /\ s \in S
  BY DEF Searched, Searching
<1>2. D \in [Nodes -> Costs] /\ \A m \in Nodes \ {s} : D[m] = d[m]
  BY <1>1, FoundIs
<1>3. LeastOver(Nodes, s, W, K, L) /\ LeastCost(s, n) = L[K][n]
  BY LeastCostsAre DEF LeastCost
<1>. HIDE DEF D, W, L, K, c
<1>4. K \in Nat /\ K \in 0..K /\ c \in 0..K
  <2>1. S \in SUBSET Nodes /\ IsFiniteSet(Nodes)
    BY <1>1, NodesAre
  <2>. QED  BY <2>1, NodesAre, FS_Subset, FS_CardinalityType DEF c, K
<1>5. L[K][n] \in Costs /\ D[n] \in Costs /\ L[c] \in [Nodes -> Costs]
  BY <1>2, <1>3, <1>4 DEF LeastOver
<1>6. Below(Nodes, S, D, L[K])
  BY <1>1, <1>3, <1>4, FoundIsLeast
<1>7. CASE n \in S
  <2>1. D[n] <= L[K][n]
    BY <1>6, <1>7 DEF Below
  <2>2. L[c][n] <= D[n] /\ L[K][n] <= L[c][n] /\ L[c][n] \in Costs
    BY <1>1, <1>3, <1>4, <1>5, <1>7, OverMoreLinks DEF WithinLinks
  <2>. QED  BY <2>1, <2>2, <1>3, <1>5, Bound DEF D
<1>8. CASE n \notin S
  <2>1. \A m \in Nodes \ S : D[m] = Infinity
    BY <1>1, <1>2, <1>8
  <2>2. Infinity \in Costs /\ \A m \in Nodes \ S : Infinity <= D[m]
    BY <2>1, Bound DEF Costs
  <2>3. Infinity <= L[K][n]
    BY <2>2, <1>6, <1>8 DEF Below
  <2>. QED  BY <2>1, <2>3, <1>3, <1>5, <1>8, Bound DEF D
<1>. QED  BY <1>7, <1>8

LEMMA MapStays ==
  ASSUME mapFile' = mapFile
  PROVE  /\ Nodes' = Nodes /\ Roads' = Roads /\ Unreadable' = Unreadable
         /\ \A s : LeastCosts(s)' = LeastCosts(s)
         /\ \A l : Cost(l)' = Cost(l) /\ FromNode(l)' = FromNode(l) /\ ToNode(l)' = ToNode(l)
         /\ \A n, m : Weight(n, m)' = Weight(n, m) /\ RoadsBetween(n, m)' = RoadsBetween(n, m)
<1>1. Nodes' = Nodes /\ Roads' = Roads
  BY DEF Nodes, Roads
<1>2. \A l : FromNode(l)' = FromNode(l) /\ ToNode(l)' = ToNode(l) /\ Cost(l)' = Cost(l) /\ ChangesLane(l)' = ChangesLane(l) /\ Road(l)' = Road(l)
  BY DEF FromNode, ToNode, Cost, ChangesLane, Road, Roads
<1>3. Unreadable' = Unreadable
  BY <1>1, <1>2 DEF Unreadable
<1>4. \A n, m : RoadsBetween(n, m)' = RoadsBetween(n, m)
  BY <1>1, <1>2 DEF RoadsBetween
<1>5. \A n, m : Weight(n, m)' = Weight(n, m)
  BY <1>1, <1>2, <1>4 DEF Weight
<1>6. \A c : OverOneMore(c)' = OverOneMore(c)
  BY <1>1, <1>2 DEF OverOneMore
<1>7. \A c : LeastCosts(c)' = LeastCosts(c)
  BY <1>1, <1>6 DEF LeastCosts
<1>. QED  BY <1>1, <1>2, <1>3, <1>4, <1>5, <1>7

LEMMA SearchStays ==
  ASSUME mapFile' = mapFile, Searched(trip'[1], settled', distance', fromNode')
  PROVE  Searched(trip[1], settled, distance, fromNode)'
<1>1. /\ Nodes' = Nodes /\ Roads' = Roads /\ \A l : Cost(l)' = Cost(l)
      /\ \A s : LeastCosts(s)' = LeastCosts(s)
      /\ \A n, m : Weight(n, m)' = Weight(n, m)
  BY MapStays
<1>2. Weights' = Weights /\ \A s, d : Found(s, d)' = Found(s, d)
  BY <1>1 DEF Weights, Found
<1>3. Most' = Most
  BY <1>1 DEF Most, IsMost
<1>. QED  BY <1>1, <1>2, <1>3 DEF Searched

\* The nodes on the way to the end, each found over the one before it.
Traced ==
  /\ \A m \in Nodes \ settled : distance[m] = Infinity
  /\ nodePath \in Seq(Nodes \cup {trip[2]}) /\ Len(nodePath) >= 1 /\ nodePath[Len(nodePath)] = trip[2]
  /\ \A i \in 1..(Len(nodePath) - 1) :
       nodePath[i + 1] \in Nodes \ {trip[1]} /\ nodePath[i] = fromNode[nodePath[i + 1]]
\* The links that were taken lead along them, and none costs less.
Linked ==
  /\ nodePath[1] = trip[1] /\ Len(nodePath) >= 2
  /\ linkPath \in Seq(Roads) /\ Len(linkPath) < Len(nodePath)
  /\ \A i \in 1..Len(linkPath) :
       /\ linkPath[i] \in RoadsBetween(nodePath[i], nodePath[i + 1])
       /\ Cost(linkPath[i]) = Weight(nodePath[i], nodePath[i + 1]) /\ Cost(linkPath[i]) < Infinity
RouteInv ==
  /\ planner \in {"load", "search", "trace", "links", "route", "none", "raised"} /\ mapFile \in MapFiles
  /\ planner \in {"load", "search", "trace"} => linkPath = << >>
  /\ planner \in {"search", "trace", "links", "route"} =>
       ~Unreadable /\ trip[1] \in Nodes /\ Searched(trip[1], settled, distance, fromNode)
  /\ planner \in {"trace", "links", "route"} => Traced
  /\ planner \in {"links", "route"} => Linked
  /\ planner = "links" => Len(linkPath) < Len(nodePath) - 1
  /\ planner = "route" => Len(linkPath) = Len(nodePath) - 1
  /\ planner = "raised" => Unreadable \/ ~Reachable
  /\ planner = "none" => trip[1] = trip[2]

LEMMA LinkIsTaken ==
  ASSUME Readable, NEW n \in Nodes, NEW m \in Nodes, n # m,
         NEW C, C = {l \in RoadsBetween(n, m) : Cost(l) < Infinity}
  PROVE  /\ C = {} => Weight(n, m) = Infinity
         /\ C # {} => LET l == Min({k \in C : \A j \in C : Cost(k) <= Cost(j)})
                      IN l \in Roads /\ l \in RoadsBetween(n, m) /\ Cost(l) = Weight(n, m) /\ Cost(l) < Infinity
<1>1. /\ Weight(n, m) \in Costs /\ \A l \in RoadsBetween(n, m) : Weight(n, m) <= Cost(l) /\ l \in Roads /\ Cost(l) \in Costs
      /\ Weight(n, m) < Infinity => \E l \in RoadsBetween(n, m) : Cost(l) = Weight(n, m)
  <2>1. RoadsBetween(n, m) \subseteq Roads
    BY DEF RoadsBetween
  <2>. QED  BY <2>1, WeightIs, CostIs
<1>2. CASE C = {}
  BY <1>1, <1>2, Bound
<1>3. CASE C # {}
  <2>1. Weight(n, m) < Infinity
    BY <1>1, <1>3, Bound
  <2>2. PICK k \in C : Cost(k) = Weight(n, m)
    BY <1>1, <2>1
  <2>. DEFINE T == {l \in C : \A j \in C : Cost(l) <= Cost(j)}
  <2>3. k \in T
    BY <1>1, <2>2
  <2>4. \A l \in T : Cost(l) = Weight(n, m) /\ l \in RoadsBetween(n, m) /\ l \in Roads
    BY <1>1, <2>2, Bound
  <2>5. T \in SUBSET Int /\ T # {} /\ \A l \in T : 0 <= l
    BY <2>3, <2>4, NodesAre
  <2>. HIDE DEF T
  <2>6. Min(T) \in T
    BY <2>5, LeastOf
  <2>7. Min(T) \in Roads /\ Min(T) \in RoadsBetween(n, m) /\ Cost(Min(T)) = Weight(n, m) /\ Cost(Min(T)) < Infinity
    BY <2>1, <2>4, <2>6
  <2>. QED  BY <2>7, <1>3 DEF T
<1>. QED  BY <1>2, <1>3

\* What the nodes of a trace that came back to the start are.
LEMMA TraceIs ==
  ASSUME Readable, NEW s \in Nodes, s = trip[1], NEW d, NEW F, d = distance, F = fromNode,
         Searched(s, settled, d, F), Traced, nodePath[1] = trip[1],
         NEW i \in 1..(Len(nodePath) - 1)
  PROVE  /\ i + 1 \in 1..Len(nodePath) /\ nodePath[i] \in Nodes /\ nodePath[i + 1] \in Nodes \ {s} /\ nodePath[i] # nodePath[i + 1]
         /\ Found(s, d)[nodePath[i]] = Infinity \/ Weight(nodePath[i], nodePath[i + 1]) = Infinity => Found(s, d)[nodePath[i + 1]] = Infinity
         /\ Found(s, d)[nodePath[i]] # Infinity /\ Weight(nodePath[i], nodePath[i + 1]) # Infinity =>
              /\ Found(s, d)[nodePath[i + 1]] = Found(s, d)[nodePath[i]] + Weight(nodePath[i], nodePath[i + 1])
              /\ Found(s, d)[nodePath[i + 1]] # Infinity
<1>1. PICK m \in Nodes \ {s} : m = nodePath[i + 1] /\ nodePath[i] = F[m]
  BY DEF Traced
<1>2. /\ F[m] \in settled \ {m} /\ F[m] \in Nodes
      /\ Found(s, d)[F[m]] = Infinity \/ Weight(F[m], m) = Infinity => Found(s, d)[m] = Infinity
      /\ Found(s, d)[F[m]] # Infinity /\ Weight(F[m], m) # Infinity =>
           /\ Found(s, d)[m] = Found(s, d)[F[m]] + Weight(F[m], m) /\ Found(s, d)[m] # Infinity
  BY SumsAreFinite
<1>3. i + 1 \in 1..Len(nodePath)
  BY DEF Traced
<1>. QED  BY <1>1, <1>2, <1>3

\* Without a link on the way the end cannot be reached.
LEMMA EndIsNotReached ==
  ASSUME Readable, NEW s \in Nodes, s = trip[1], NEW d, NEW F, d = distance, F = fromNode,
         Searched(s, settled, d, F), Traced, nodePath[1] = trip[1],
         NEW k \in 1..(Len(nodePath) - 1), Weight(nodePath[k], nodePath[k + 1]) = Infinity
  PROVE  ~Reachable
<1>. DEFINE N == Len(nodePath)
            T == {i \in Nat : k + 1 + i <= N => Found(s, d)[nodePath[k + 1 + i]] = Infinity}
<1>1. N \in Nat /\ k \in Nat /\ k + 1 <= N
  BY DEF Traced
<1>2. 0 \in T
  <2>1. k + 1 + 0 = k + 1
    BY <1>1
  <2>2. Found(s, d)[nodePath[k + 1]] = Infinity
    BY TraceIs
  <2>. QED  BY <2>1, <2>2
<1>3. ASSUME NEW i \in Nat, i \in T PROVE i + 1 \in T
  <2>1. CASE k + 1 + (i + 1) <= N
    <3>1. PICK j \in 1..(N - 1) : j = k + 1 + i /\ j + 1 = k + 1 + (i + 1) /\ j <= N
      BY <1>1, <2>1
    <3>2. Found(s, d)[nodePath[j]] = Infinity
      BY <1>3, <3>1
    <3>3. Found(s, d)[nodePath[j + 1]] = Infinity
      BY <3>2, TraceIs
    <3>4. Found(s, d)[nodePath[k + 1 + (i + 1)]] = Infinity
      BY <3>1, <3>3
    <3>. QED  BY <3>4
  <2>. QED  BY <2>1
<1>4. PICK i \in Nat : k + 1 + i = N
  <2>1. N - (k + 1) \in Nat /\ k + 1 + (N - (k + 1)) = N
    BY <1>1
  <2>. QED  BY <2>1
<1>5. i \in T
  <2>. HIDE DEF T
  <2>. QED  BY <1>2, <1>3, Induct
<1>6. Found(s, d)[nodePath[N]] = Infinity
  BY <1>4, <1>5, <1>1
<1>7. nodePath[N] = trip[2] /\ \A m \in Nodes \ settled : d[m] = Infinity
  BY DEF Traced
<1>8. CASE trip[2] \in Nodes
  <2>1. Found(s, d)[trip[2]] = LeastCost(s, trip[2])
    BY <1>7, <1>8, FoundIsLeastCost
  <2>. QED  BY <2>1, <1>6, <1>7, Bound DEF Reachable
<1>. QED  BY <1>8 DEF Reachable

\* The costs along a path are summed up link by link.
LEMMA CostsAlong ==
  ASSUME NEW path, path \in Seq(Roads), \A i \in 1..Len(path) : Cost(path[i]) \in Int
  PROVE  /\ CostsUpTo(path)[0] = 0
         /\ \A i \in 1..Len(path) : CostsUpTo(path)[i] = CostsUpTo(path)[i - 1] + Cost(path[i])
<1>. DEFINE n == Len(path)
            upTo == CHOOSE g : g = [i \in 0..n |-> IF i = 0 THEN 0 ELSE g[i - 1] + Cost(path[i])]
            step == [i \in Nat |-> [x \in Int |-> IF i \in 1..n THEN x + Cost(path[i]) ELSE x]]
<1>1. CostsUpTo(path) = upTo
  BY DEF CostsUpTo
<1>2. n \in Nat
  OBVIOUS
<1>3. StepsIn(Int, 0, step) /\ \A i \in 1..n : \A x \in Int : step[i][x] = x + Cost(path[i])
  <2>1. \A i \in 1..n : \A x \in Int : x + Cost(path[i]) \in Int
    OBVIOUS
  <2>. HIDE DEF n
  <2>. QED  BY <2>1, <1>2 DEF StepsIn
<1>4. PICK g : RunsTo(g, Int, 0, n, step)
  <2>. HIDE DEF step, n
  <2>. QED  BY <1>2, <1>3, RecursionUpTo
<1>5. g = [i \in 0..n |-> IF i = 0 THEN 0 ELSE g[i - 1] + Cost(path[i])]
  <2>. HIDE DEF step
  <2>1. ASSUME NEW i \in 0..n, i # 0 PROVE step[i][g[i - 1]] = g[i - 1] + Cost(path[i])
    <3>1. i \in 1..n /\ i - 1 \in 0..n
      BY <1>2, <2>1
    <3>2. g[i - 1] \in Int
      BY <3>1, <1>4 DEF RunsTo
    <3>. QED  BY <1>3, <3>1, <3>2
  <2>. HIDE DEF n
  <2>. QED  BY <2>1, <1>4 DEF RunsTo
<1>6. upTo = [i \in 0..n |-> IF i = 0 THEN 0 ELSE upTo[i - 1] + Cost(path[i])]
  BY <1>5
<1>. HIDE DEF upTo
<1>7. 0 \in 0..n /\ \A i \in 1..n : i \in 0..n /\ i # 0
  BY <1>2
<1>. HIDE DEF n
<1>8. upTo[0] = 0 /\ \A i \in 1..n : upTo[i] = upTo[i - 1] + Cost(path[i])
  BY <1>6, <1>7
<1>. QED  BY <1>1, <1>8 DEF n

\* A route costs what was found for its end.
LEMMA RouteCosts ==
  ASSUME Readable, NEW s \in Nodes, s = trip[1], NEW d, NEW F, d = distance, F = fromNode,
         Searched(s, settled, d, F), Traced, Linked, Len(linkPath) = Len(nodePath) - 1
  PROVE  CostsUpTo(linkPath)[Len(linkPath)] = LeastCost(trip[1], trip[2])
<1>. DEFINE n == Len(linkPath)
            D == Found(s, d)
            g == CostsUpTo(linkPath)
            T == {i \in Nat : i <= n => g[i] = D[nodePath[i + 1]] /\ D[nodePath[i + 1]] # Infinity}
<1>1. /\ n \in Nat /\ n >= 1 /\ linkPath \in Seq(Roads) /\ nodePath[1] = trip[1] /\ nodePath[n + 1] = trip[2]
      /\ \A i \in 1..n : linkPath[i] \in Roads /\ Cost(linkPath[i]) < Infinity
                         /\ Cost(linkPath[i]) = Weight(nodePath[i], nodePath[i + 1])
  BY DEF Linked, Traced
<1>2. \A i \in 1..n : Cost(linkPath[i]) \in Int
  BY <1>1, CostIs, Bound
<1>3. g[0] = 0 /\ \A i \in 1..n : g[i] = g[i - 1] + Cost(linkPath[i])
  BY <1>1, <1>2, CostsAlong
<1>4. D[s] = 0
  BY FoundIs DEF Searched
<1>5. ASSUME NEW i \in 1..n, D[nodePath[i]] # Infinity
      PROVE  D[nodePath[i + 1]] = D[nodePath[i]] + Cost(linkPath[i]) /\ D[nodePath[i + 1]] # Infinity
  <2>1. Weight(nodePath[i], nodePath[i + 1]) # Infinity
    BY <1>1, Bound
  <2>2. i \in 1..(Len(nodePath) - 1)
    OBVIOUS
  <2>3. D[nodePath[i]] # Infinity /\ Weight(nodePath[i], nodePath[i + 1]) # Infinity =>
          /\ D[nodePath[i + 1]] = D[nodePath[i]] + Weight(nodePath[i], nodePath[i + 1])
          /\ D[nodePath[i + 1]] # Infinity
    BY <1>1, <2>2, TraceIs
  <2>. QED  BY <2>1, <2>3, <1>1, <1>5
<1>. HIDE DEF D, g, n
<1>6. 0 \in T
  <2>1. 0 + 1 = 1
    OBVIOUS
  <2>. QED  BY <2>1, <1>1, <1>3, <1>4, Bound
<1>7. ASSUME NEW i \in Nat, i \in T PROVE i + 1 \in T
  <2>1. CASE i + 1 <= n
    <3>1. PICK j \in 1..n : j = i + 1 /\ j - 1 = i /\ i <= n
      BY <2>1, <1>1
    <3>2. g[i] = D[nodePath[j]] /\ D[nodePath[j]] # Infinity
      BY <1>7, <3>1
    <3>3. g[j] = D[nodePath[j + 1]] /\ D[nodePath[j + 1]] # Infinity
      BY <3>1, <3>2, <1>3, <1>5
    <3>. QED  BY <3>1, <3>3
  <2>. QED  BY <2>1
<1>8. n \in T
  <2>. HIDE DEF T
  <2>. QED  BY <1>1, <1>6, <1>7, Induct
<1>9. g[n] = D[trip[2]]
  BY <1>1, <1>8
<1>10. D[trip[2]] = LeastCost(s, trip[2])
  <2>1. trip[2] \in Nodes
    <3>1. n \in 1..(Len(nodePath) - 1)
      BY <1>1 DEF n
    <3>2. nodePath[n + 1] \in Nodes
      BY <1>1, <3>1, TraceIs
    <3>. QED  BY <3>2, <1>1
  <2>2. \A m \in Nodes \ settled : d[m] = Infinity
    BY DEF Traced
  <2>. QED  BY <2>1, <2>2, FoundIsLeastCost DEF D
<1>. QED  BY <1>9, <1>10 DEF g, n

LEMMA RouteInvGivesRight == ASSUME RouteInv PROVE RouteRight
<1>1. ASSUME planner \in {"search", "trace", "links", "route"}
      PROVE  Readable /\ trip[1] \in Nodes /\ Searched(trip[1], settled, distance, fromNode)
  BY <1>1 DEF RouteInv, Readable
<1>2. ASSUME planner \in {"search", "trace"}, NEW n \in settled \ {trip[1]}
      PROVE  distance[n] = LeastCost(trip[1], n)
  <2>1. PICK s \in Nodes : s = trip[1]
    BY <1>1, <1>2
  <2>2. Searched(s, settled, distance, fromNode) /\ Readable
    BY <1>1, <1>2, <2>1
  <2>3. distance \in [Nodes -> Costs] /\ n \in Nodes
    BY <2>2 DEF Searched, Searching
  <2>4. Found(s, distance)[n] = LeastCost(s, n)
    BY <2>2, <2>3, FoundIsLeastCost
  <2>5. Found(s, distance)[n] = distance[n]
    BY <2>1, <2>3, FoundIs
  <2>. QED  BY <2>1, <2>4, <2>5
<1>3. ASSUME planner = "route"
      PROVE  /\ FromNode(linkPath[1]) = trip[1] /\ ToNode(linkPath[Len(linkPath)]) = trip[2]
             /\ \A i \in 1..(Len(linkPath) - 1) : ToNode(linkPath[i]) = FromNode(linkPath[i + 1])
             /\ CostsUpTo(linkPath)[Len(linkPath)] = LeastCost(trip[1], trip[2])
  <2>1. Traced /\ Linked /\ Len(linkPath) = Len(nodePath) - 1
    BY <1>3 DEF RouteInv
  <2>2. CostsUpTo(linkPath)[Len(linkPath)] = LeastCost(trip[1], trip[2])
    <3>1. PICK s \in Nodes : s = trip[1]
      BY <1>1, <1>3
    <3>2. Searched(s, settled, distance, fromNode) /\ Readable
      BY <1>1, <1>3, <3>1
    <3>. QED  BY <3>1, <3>2, <2>1, RouteCosts
  <2>3. PICK n \in Nat : n = Len(linkPath) /\ n >= 1 /\ n + 1 = Len(nodePath)
    BY <2>1 DEF Linked, Traced
  <2>4. \A i \in 1..n : FromNode(linkPath[i]) = nodePath[i] /\ ToNode(linkPath[i]) = nodePath[i + 1]
    BY <2>1, <2>3 DEF Linked, RoadsBetween
  <2>5. nodePath[1] = trip[1] /\ nodePath[n + 1] = trip[2]
    BY <2>1, <2>3 DEF Linked, Traced
  <2>6. \A i \in 1..(n - 1) : i \in 1..n /\ i + 1 \in 1..n
    BY <2>3
  <2>. QED  BY <2>2, <2>3, <2>4, <2>5, <2>6
<1>. QED  BY <1>2, <1>3 DEF RouteInv, RouteRight

\* The map and the trip stay, and so does what is kept of them.
LEMMA RaisesRightly ==
  ASSUME RouteInv, mapFile' = mapFile, trip' = trip, planner' = "raised", Unreadable \/ ~Reachable
  PROVE  RouteInv'
<1>1. /\ Nodes' = Nodes /\ Unreadable' = Unreadable /\ \A s : LeastCosts(s)' = LeastCosts(s)
  BY MapStays
<1>2. \A s, e : LeastCost(s, e)' = LeastCost(s, e)
  BY <1>1 DEF LeastCost
<1>3. Reachable' = Reachable
  BY <1>1, <1>2 DEF Reachable
<1>. QED  BY <1>1, <1>3 DEF RouteInv

LEMMA LoadStep ==
  ASSUME RouteInv, LoadFails \/ LoadMap PROVE RouteInv'
<1>1. CASE LoadFails
  BY <1>1, RaisesRightly DEF LoadFails, Raise, Reachable
<1>2. CASE LoadMap
  <2>1. PICK s \in Nodes : s = trip[1]
    BY <1>2 DEF LoadMap
  <2>2. Readable
    BY <1>2 DEF LoadMap, RouteInv, Readable
  <2>3. Searched(s, {s}, [n \in Nodes |-> Weight(s, n)], [n \in Nodes |-> s])
    BY <2>1, <2>2, SearchStarts
  <2>4. Searched(trip'[1], settled', distance', fromNode') /\ mapFile' = mapFile
    BY <2>1, <2>3, <1>2 DEF LoadMap
  <2>5. Searched(trip[1], settled, distance, fromNode)'
    BY <2>4, SearchStays
  <2>6. Nodes' = Nodes /\ Unreadable' = Unreadable
    BY <2>4, MapStays
  <2>. QED  BY <2>5, <2>6, <1>2 DEF LoadMap, RouteInv
<1>. QED  BY <1>1, <1>2

\* The way back starts at the end, once no other node can be reached.
LEMMA TraceStarts ==
  ASSUME Readable, NEW N, N = Nodes, NEW S, NEW d, \A m \in N \ S : d[m] = Infinity, S = settled', d = distance',
         mapFile' = mapFile, trip' = trip, nodePath' = <<trip[2]>>
  PROVE  Traced'
<1>1. Nodes' = N
  BY MapStays
<1>2. nodePath' \in Seq(N \cup {trip'[2]}) /\ Len(nodePath') = 1 /\ nodePath'[1] = trip'[2]
  OBVIOUS
<1>. QED  BY <1>1, <1>2 DEF Traced

LEMMA SettleStep ==
  ASSUME RouteInv, Settle PROVE RouteInv'
<1>1. /\ Readable /\ trip[1] \in Nodes /\ Searched(trip[1], settled, distance, fromNode) /\ linkPath = << >>
      /\ ~Unreadable /\ mapFile \in MapFiles
  BY DEF RouteInv, Settle, Readable
<1>2. PICK s \in Nodes : s = trip[1]
  BY <1>1
<1>3. Searched(s, settled, distance, fromNode)
  BY <1>1, <1>2
<1>4. distance \in [Nodes -> Costs] /\ settled \subseteq Nodes /\ fromNode \in [Nodes -> Nodes]
  BY <1>3 DEF Searched, Searching
<1>5. PICK n : n = NearestNode
  OBVIOUS
<1>6. PICK closer : closer = {m \in Nodes \ (settled \cup {n}) : Plus(distance[n], Weight(n, m)) < distance[m]}
  OBVIOUS
<1>7. /\ settled' = settled \cup {n}
      /\ distance' = [m \in Nodes |-> IF m \in closer THEN Plus(distance[n], Weight(n, m)) ELSE distance[m]]
      /\ fromNode' = [m \in Nodes |-> IF m \in closer THEN n ELSE fromNode[m]]
      /\ planner = "search" /\ planner' = IF n \in settled THEN "trace" ELSE planner
      /\ nodePath' = IF n \in settled THEN <<trip[2]>> ELSE nodePath
      /\ mapFile' = mapFile /\ trip' = trip /\ linkPath' = linkPath
  BY <1>5, <1>6 DEF Settle, Relaxed
<1>8. /\ n \in Nodes
      /\ n \in settled => \A m \in Nodes \ settled : distance[m] = Infinity
      /\ n \notin settled => \A m \in Nodes \ settled : distance[n] <= distance[m]
  <2>. DEFINE near == {m \in Nodes \ settled : distance[m] < Infinity}
              T == {k \in near : \A m \in near : distance[k] <= distance[m]}
  <2>1. \A m \in Nodes : distance[m] \in Int /\ 0 <= distance[m] /\ distance[m] <= Infinity /\ m \in Nat
    BY <1>4, <1>1, Bound, NodesAre
  <2>2. CASE near = {}
    <3>1. n = Max(Nodes)
      BY <2>2, <1>5 DEF NearestNode
    <3>2. n \in Nodes
      BY <3>1, <1>1, NodesAre, GreatestOf
    <3>3. \A m \in Nodes \ settled : distance[m] = Infinity
      BY <2>1, <2>2, Bound
    <3>. QED  BY <3>2, <3>3, <2>1, Bound
  <2>3. CASE near # {}
    <3>1. n = Min(T)
      BY <2>3, <1>5 DEF NearestNode
    <3>2. T # {}
      <4>. DEFINE U == {distance[m] : m \in near}
      <4>1. U \subseteq Nat /\ U # {}
        BY <2>1, <2>3
      <4>. HIDE DEF U
      <4>2. PICK c \in U : \A b \in U : c <= b
        BY <4>1, LeastNatural
      <4>3. PICK k \in near : c = distance[k]
        BY DEF U
      <4>4. \A m \in near : distance[k] <= distance[m]
        BY <4>2, <4>3 DEF U
      <4>. QED  BY <4>4
    <3>3. T \in SUBSET Int /\ \A k \in T : 0 <= k
      BY <2>1
    <3>4. n \in T
      <4>. HIDE DEF T
      <4>. QED  BY <3>1, <3>2, <3>3, LeastOf
    <3>5. n \in near /\ \A m \in near : distance[n] <= distance[m]
      BY <3>4
    <3>6. ASSUME NEW m \in Nodes \ settled PROVE distance[n] <= distance[m]
      BY <3>5, <2>1, Bound
    <3>. QED  BY <3>5, <3>6
  <2>. QED  BY <2>2, <2>3
<1>9. Nodes' = Nodes /\ Unreadable' = Unreadable
  BY <1>7, MapStays
<1>10. CASE n \in settled
  <2>1. closer = {}
    <3>1. ASSUME NEW m \in Nodes \ settled PROVE ~(Plus(distance[n], Weight(n, m)) < distance[m])
      <4>1. distance[m] = Infinity
        BY <1>8, <1>10
      <4>. QED  BY <4>1, <1>1, <1>3, <1>10, NothingCloser
    <3>. QED  BY <3>1, <1>6
  <2>2. settled' = settled /\ distance' = distance /\ fromNode' = fromNode
    BY <2>1, <1>4, <1>7, <1>10
  <2>3. Searched(trip'[1], settled', distance', fromNode')
    BY <2>2, <1>1, <1>7
  <2>4. Searched(trip[1], settled, distance, fromNode)'
    BY <2>3, <1>7, SearchStays
  <2>5. Traced'
    <3>1. PICK N, S, d : N = Nodes /\ S = settled' /\ d = distance'
      OBVIOUS
    <3>2. \A m \in N \ S : d[m] = Infinity
      BY <3>1, <2>2, <1>8, <1>10
    <3>3. mapFile' = mapFile /\ trip' = trip /\ nodePath' = <<trip[2]>>
      BY <1>7, <1>10
    <3>. QED  BY <3>1, <3>2, <3>3, <1>1, TraceStarts
  <2>. QED  BY <2>4, <2>5, <1>1, <1>7, <1>9, <1>10 DEF RouteInv
<1>11. CASE n \notin settled
  <2>1. PICK x \in Nodes \ settled : x = n
    BY <1>8, <1>11
  <2>2. PICK d1, F1 : d1 = distance' /\ F1 = fromNode'
    OBVIOUS
  <2>3. Searched(s, settled \cup {x}, d1, F1)
    <3>. PICK S, d, F : S = settled /\ d = distance /\ F = fromNode
      OBVIOUS
    <3>1. x \in Nodes \ S /\ \A m \in Nodes \ S : d[x] <= d[m]
      BY <2>1, <1>8, <1>11
    <3>2. \A m \in Nodes : m \in closer <=> m \notin S \cup {x} /\ Plus(d[x], Weight(x, m)) < d[m]
      BY <2>1, <1>6
    <3>3. /\ d1 = [m \in Nodes |-> IF m \in closer THEN Plus(d[x], Weight(x, m)) ELSE d[m]]
          /\ F1 = [m \in Nodes |-> IF m \in closer THEN x ELSE F[m]]
      BY <2>1, <2>2, <1>7
    <3>4. d1 \in [Nodes -> Costs] /\ F1 \in [Nodes -> Nodes]
      <4>1. \A m \in Nodes : d[x] \in Costs /\ Weight(x, m) \in Costs /\ d[m] \in Costs
        BY <1>1, <1>4, WeightIs
      <4>2. \A m \in Nodes : Plus(d[x], Weight(x, m)) \in Costs
        BY <4>1, Sums
      <4>. QED  BY <3>3, <4>1, <4>2, <1>4
    <3>5. Readable /\ Searched(s, S, d, F)
      BY <1>1, <1>3
    <3>6. \A m \in Nodes : IF m \notin S \cup {x} /\ Plus(d[x], Weight(x, m)) < d[m]
                           THEN d1[m] = Plus(d[x], Weight(x, m)) /\ F1[m] = x ELSE d1[m] = d[m] /\ F1[m] = F[m]
      BY <3>2, <3>3
    <3>7. Searched(s, S \cup {x}, d1, F1)
      BY ONLY <3>1, <3>4, <3>5, <3>6, s \in Nodes, x \in Nodes, SearchGoesOn
    <3>. QED  BY <3>7
  <2>4. Searched(trip'[1], settled', distance', fromNode')
    BY <2>1, <2>2, <2>3, <1>2, <1>7
  <2>5. Searched(trip[1], settled, distance, fromNode)'
    BY <2>4, <1>7, SearchStays
  <2>. QED  BY <2>5, <1>1, <1>7, <1>9, <1>11 DEF RouteInv
<1>. QED  BY <1>10, <1>11

\* What stays while the way back is taken and the links are chosen.
LEMMA SearchedAsBefore ==
  ASSUME RouteInv, planner \in {"search", "trace", "links"},
         UNCHANGED <<mapFile, trip, settled, distance, fromNode>>
  PROVE  /\ (~Unreadable /\ trip[1] \in Nodes /\ Searched(trip[1], settled, distance, fromNode))'
         /\ Readable /\ trip[1] \in Nodes /\ Searched(trip[1], settled, distance, fromNode)
         /\ mapFile' \in MapFiles /\ Nodes' = Nodes /\ Roads' = Roads
<1>1. ~Unreadable /\ trip[1] \in Nodes /\ Searched(trip[1], settled, distance, fromNode) /\ Readable /\ mapFile \in MapFiles
  BY DEF RouteInv, Readable
<1>2. Nodes' = Nodes /\ Unreadable' = Unreadable /\ Roads' = Roads
  BY MapStays
<1>3. Searched(trip'[1], settled', distance', fromNode')
  BY <1>1
<1>4. Searched(trip[1], settled, distance, fromNode)'
  BY <1>3, SearchStays
<1>. QED  BY <1>1, <1>2, <1>4

LEMMA AllSettledStep ==
  ASSUME RouteInv, AllSettled PROVE RouteInv'
<1>1. /\ planner = "search" /\ planner' = "trace" /\ settled = Nodes /\ nodePath' = <<trip[2]>> /\ linkPath' = << >>
      /\ mapFile' = mapFile /\ trip' = trip /\ UNCHANGED <<mapFile, trip, settled, distance, fromNode>>
  BY DEF AllSettled, RouteInv
<1>2. /\ (~Unreadable /\ trip[1] \in Nodes /\ Searched(trip[1], settled, distance, fromNode))'
      /\ Readable /\ mapFile' \in MapFiles
  BY <1>1, SearchedAsBefore
<1>3. Traced'
  <2>1. PICK N, S, d : N = Nodes /\ S = settled' /\ d = distance'
    OBVIOUS
  <2>2. \A m \in N \ S : d[m] = Infinity
    BY <2>1, <1>1
  <2>. QED  BY <2>1, <2>2, <1>1, <1>2, TraceStarts
<1>. QED  BY <1>1, <1>2, <1>3 DEF RouteInv

LEMMA TraceStep ==
  ASSUME RouteInv, TraceBack \/ TraceFails \/ TraceEnds PROVE RouteInv'
<1>1. planner = "trace" /\ UNCHANGED <<mapFile, trip, settled, distance, fromNode, linkPath>>
  BY DEF TraceBack, TraceFails, TraceEnds, Raise
<1>2. Traced /\ linkPath = << >>
  BY <1>1 DEF RouteInv
<1>3. /\ (~Unreadable /\ trip[1] \in Nodes /\ Searched(trip[1], settled, distance, fromNode))'
      /\ Readable /\ trip[1] \in Nodes /\ Searched(trip[1], settled, distance, fromNode)
      /\ mapFile' \in MapFiles /\ Nodes' = Nodes /\ Roads' = Roads
  BY <1>1, SearchedAsBefore
<1>4. PICK k \in Nat : k = Len(nodePath) /\ k >= 1
  BY <1>2 DEF Traced
<1>5. CASE TraceBack
  <2>1. PICK m \in Nodes \ {trip[1]} : m = nodePath[1]
    BY <1>5 DEF TraceBack
  <2>2. PICK p \in Nodes : p = fromNode[m]
    BY <1>3 DEF Searched, Searching
  <2>3. nodePath' = <<p>> \o nodePath /\ planner' = "trace"
    BY <1>1, <1>5, <2>1, <2>2 DEF TraceBack
  <2>4. /\ nodePath \in Seq(Nodes \cup {trip[2]}) /\ nodePath[k] = trip[2] /\ k = Len(nodePath)
        /\ \A i \in 1..(k - 1) : nodePath[i + 1] \in Nodes \ {trip[1]} /\ nodePath[i] = fromNode[nodePath[i + 1]]
    BY <1>2, <1>4 DEF Traced
  <2>5. /\ nodePath' \in Seq(Nodes \cup {trip[2]}) /\ Len(nodePath') = k + 1 /\ nodePath'[k + 1] = trip[2]
        /\ nodePath'[1] = p /\ \A i \in 1..k : nodePath'[i + 1] = nodePath[i]
    BY <2>2, <2>3, <2>4, <1>4
  <2>6. ASSUME NEW i \in 1..((k + 1) - 1)
        PROVE  nodePath'[i + 1] \in Nodes \ {trip[1]} /\ nodePath'[i] = fromNode[nodePath'[i + 1]]
    <3>1. CASE i = 1
      BY <3>1, <2>1, <2>2, <2>5, <1>4
    <3>2. CASE i # 1
      <4>1. PICK j \in 1..(k - 1) : j + 1 = i
        <5>1. i - 1 \in 1..(k - 1) /\ (i - 1) + 1 = i
          BY <3>2
        <5>. QED  BY <5>1
      <4>2. nodePath'[i + 1] = nodePath[j + 1] /\ nodePath'[i] = nodePath[j]
        <5>1. i \in 1..k /\ j \in 1..k /\ j + 1 = i
          BY <4>1
        <5>2. nodePath'[i + 1] = nodePath[i] /\ nodePath'[j + 1] = nodePath[j]
          BY <5>1, <2>5
        <5>. QED  BY <5>1, <5>2
      <4>. QED  BY <4>2, <2>4
    <3>. QED  BY <3>1, <3>2
  <2>7. Traced'
    <3>1. \A m1 \in Nodes \ settled : distance[m1] = Infinity
      BY <1>2 DEF Traced
    <3>. QED  BY <3>1, <2>5, <2>6, <1>1, <1>3, <1>4 DEF Traced
  <2>. QED  BY <2>3, <2>7, <1>1, <1>2, <1>3 DEF RouteInv
<1>6. CASE TraceFails
  <2>1. nodePath[1] \notin Nodes /\ planner' = "raised"
    BY <1>6 DEF TraceFails, Raise
  <2>2. trip[2] \notin Nodes
    <3>1. nodePath \in Seq(Nodes \cup {trip[2]}) /\ 1 \in 1..Len(nodePath)
      BY <1>2, <1>4 DEF Traced
    <3>2. nodePath[1] \in Nodes \cup {trip[2]}
      BY <3>1
    <3>. QED  BY <3>2, <2>1
  <2>3. ~Reachable
    BY <2>2 DEF Reachable
  <2>. QED  BY <2>1, <2>3, <1>1, RaisesRightly
<1>7. CASE TraceEnds
  <2>1. nodePath[1] = trip[1] /\ nodePath' = nodePath /\ planner' = IF Len(nodePath) = 1 THEN "none" ELSE "links"
    BY <1>7 DEF TraceEnds
  <2>2. CASE Len(nodePath) = 1
    <3>1. nodePath[1] = trip[2]
      BY <2>2, <1>2 DEF Traced
    <3>. QED  BY <3>1, <2>1, <2>2, <1>1, <1>3 DEF RouteInv
  <2>3. CASE Len(nodePath) # 1
    <3>1. Traced'
      BY <2>1, <1>1, <1>2, <1>3 DEF Traced
    <3>2. linkPath' = << >> /\ Len(nodePath') >= 2
      BY <2>1, <2>3, <1>1, <1>2, <1>4
    <3>3. linkPath' \in Seq(Roads') /\ Len(linkPath') = 0
      BY <3>2
    <3>4. Linked' /\ Len(linkPath') < Len(nodePath') - 1
      <4>1. Len(nodePath') \in Nat
        BY <1>4, <2>1
      <4>. QED  BY <4>1, <3>2, <3>3, <2>1, <1>1 DEF Linked
    <3>. QED  BY <3>1, <3>4, <2>1, <2>3, <1>1, <1>3 DEF RouteInv
  <2>. QED  BY <2>2, <2>3
<1>. QED  BY <1>5, <1>6, <1>7

LEMMA LinkStep ==
  ASSUME RouteInv, TakeLink \/ NoLink PROVE RouteInv'
<1>1. planner = "links" /\ UNCHANGED <<mapFile, trip, settled, distance, fromNode, nodePath>>
  BY DEF TakeLink, NoLink, Raise
<1>2. Traced /\ Linked /\ Len(linkPath) < Len(nodePath) - 1
  BY <1>1 DEF RouteInv
<1>3. /\ (~Unreadable /\ trip[1] \in Nodes /\ Searched(trip[1], settled, distance, fromNode))'
      /\ Readable /\ trip[1] \in Nodes /\ Searched(trip[1], settled, distance, fromNode)
      /\ mapFile' \in MapFiles /\ Nodes' = Nodes /\ Roads' = Roads
  BY <1>1, SearchedAsBefore
<1>4. PICK k : k = Step
  OBVIOUS
<1>5. k \in 1..(Len(nodePath) - 1) /\ k = Len(linkPath) + 1 /\ Len(linkPath) \in Nat /\ Len(nodePath) \in Nat
  BY <1>2, <1>4 DEF Step, Linked, Traced
<1>6. PICK s \in Nodes : s = trip[1]
  BY <1>3
<1>7. nodePath[1] = trip[1] /\ linkPath \in Seq(Roads)
  BY <1>2 DEF Linked
<1>8. nodePath[k] \in Nodes /\ nodePath[k + 1] \in Nodes /\ nodePath[k] # nodePath[k + 1]
  <2>1. Searched(s, settled, distance, fromNode)
    BY <1>3, <1>6
  <2>2. nodePath[k] \in Nodes /\ nodePath[k + 1] \in Nodes \ {s} /\ nodePath[k] # nodePath[k + 1]
    BY <2>1, <1>2, <1>3, <1>5, <1>6, <1>7, TraceIs
  <2>. QED  BY <2>2
<1>9. PICK n \in Nodes, m \in Nodes : n = nodePath[k] /\ m = nodePath[k + 1] /\ n # m
  BY <1>8
<1>10. Candidates = {l \in RoadsBetween(n, m) : Cost(l) < Infinity}
  BY <1>4, <1>9 DEF Candidates
<1>11. CASE TakeLink
  <2>1. PICK l : l = Min({j \in Candidates : \A i \in Candidates : Cost(j) <= Cost(i)})
    OBVIOUS
  <2>2. l \in Roads /\ l \in RoadsBetween(n, m) /\ Cost(l) = Weight(n, m) /\ Cost(l) < Infinity
    BY <2>1, <1>3, <1>9, <1>10, <1>11, LinkIsTaken DEF TakeLink
  <2>3. linkPath' = Append(linkPath, l) /\ planner' = IF k = Len(nodePath) - 1 THEN "route" ELSE planner
    BY <2>1, <1>4, <1>11 DEF TakeLink
  <2>4. /\ linkPath' \in Seq(Roads) /\ Len(linkPath') = k /\ linkPath'[k] = l
        /\ \A i \in 1..(k - 1) : linkPath'[i] = linkPath[i]
    BY <2>2, <2>3, <1>5, <1>7
  <2>5. \A i \in 1..k :
          /\ linkPath'[i] \in RoadsBetween(nodePath[i], nodePath[i + 1])
          /\ Cost(linkPath'[i]) = Weight(nodePath[i], nodePath[i + 1]) /\ Cost(linkPath'[i]) < Infinity
    <3>1. ASSUME NEW i \in 1..k
          PROVE  /\ linkPath'[i] \in RoadsBetween(nodePath[i], nodePath[i + 1])
                 /\ Cost(linkPath'[i]) = Weight(nodePath[i], nodePath[i + 1]) /\ Cost(linkPath'[i]) < Infinity
      <4>1. CASE i = k
        BY <4>1, <2>2, <2>4, <1>9
      <4>2. CASE i # k
        <5>1. i \in 1..(k - 1) /\ i \in 1..Len(linkPath)
          BY <4>2, <1>5
        <5>. QED  BY <5>1, <2>4, <1>2 DEF Linked
      <4>. QED  BY <4>1, <4>2
    <3>. QED  BY <3>1
  <2>6. /\ \A j : Cost(j)' = Cost(j)
        /\ \A i, j : Weight(i, j)' = Weight(i, j) /\ RoadsBetween(i, j)' = RoadsBetween(i, j)
    BY <1>1, MapStays
  <2>7. Linked'
    <3>1. nodePath' = nodePath /\ trip' = trip /\ Len(nodePath) >= 2 /\ k < Len(nodePath)
      BY <1>1, <1>2, <1>5 DEF Linked
    <3>2. nodePath'[1] = trip'[1] /\ Len(nodePath') >= 2 /\ linkPath' \in Seq(Roads') /\ Len(linkPath') < Len(nodePath')
      BY <3>1, <2>4, <1>3, <1>7
    <3>. QED  BY <3>1, <3>2, <2>4, <2>5, <2>6 DEF Linked
  <2>8. Traced'
    BY <1>1, <1>2, <1>3 DEF Traced
  <2>9. planner' = "links" => Len(linkPath') < Len(nodePath') - 1
    BY <2>3, <2>4, <1>1, <1>5
  <2>10. planner' = "route" => Len(linkPath') = Len(nodePath') - 1
    BY <2>3, <2>4, <1>1, <1>5
  <2>11. planner' \in {"links", "route"}
    BY <2>3, <1>1
  <2>. QED  BY <2>7, <2>8, <2>9, <2>10, <2>11, <1>3 DEF RouteInv
<1>12. CASE NoLink
  <2>1. planner' = "raised" /\ Candidates = {}
    BY <1>12 DEF NoLink, Raise
  <2>2. Weight(nodePath[k], nodePath[k + 1]) = Infinity
    BY <2>1, <1>3, <1>9, <1>10, LinkIsTaken
  <2>3. Searched(s, settled, distance, fromNode)
    BY <1>3, <1>6
  <2>4. ~Reachable
    BY <2>2, <2>3, <1>2, <1>3, <1>5, <1>6, <1>7, EndIsNotReached
  <2>. QED  BY <2>1, <2>4, <1>1, RaisesRightly
<1>. QED  BY <1>11, <1>12

LEMMA RouteInvStays ==
  ASSUME RouteInv, UNCHANGED <<mapFile, trip, planner, settled, distance, fromNode, nodePath, linkPath>>
  PROVE  RouteInv'
<1>1. /\ Nodes' = Nodes /\ Roads' = Roads /\ Unreadable' = Unreadable /\ \A s : LeastCosts(s)' = LeastCosts(s)
      /\ \A l : Cost(l)' = Cost(l)
      /\ \A n, m : Weight(n, m)' = Weight(n, m) /\ RoadsBetween(n, m)' = RoadsBetween(n, m)
  BY MapStays
<1>2. Traced => Traced'
  BY <1>1 DEF Traced
<1>3. Linked => Linked'
  BY <1>1 DEF Linked
<1>4. Searched(trip[1], settled, distance, fromNode) => Searched(trip[1], settled, distance, fromNode)'
  BY SearchStays
<1>5. \A s, e : LeastCost(s, e)' = LeastCost(s, e)
  BY <1>1 DEF LeastCost
<1>6. Reachable' = Reachable
  BY <1>1, <1>5 DEF Reachable
<1>. QED  BY <1>1, <1>2, <1>3, <1>4, <1>6 DEF RouteInv

\* The route that is planned leads from the start to the end and is the cheapest there
\* is; the planner raises only for a map it cannot read or an end it cannot reach.
THEOREM RouteStaysRight == RouteSpec => []RouteRight
<1>1. RouteInit => RouteInv
  BY DEF RouteInit, RouteInv
<1>2. RouteInv /\ [RouteNext]_routeVars => RouteInv'
  <2>. SUFFICES ASSUME RouteInv, [RouteNext]_routeVars PROVE RouteInv'
    OBVIOUS
  <2>1. CASE RouteNext
    BY <2>1, LoadStep, SettleStep, AllSettledStep, TraceStep, LinkStep DEF RouteNext
  <2>2. CASE UNCHANGED routeVars
    <3>1. UNCHANGED <<mapFile, trip, planner, settled, distance, fromNode, nodePath, linkPath>>
      BY <2>2 DEF routeVars
    <3>. QED  BY <3>1, RouteInvStays
  <2>. QED  BY <2>1, <2>2
<1>. QED  BY <1>1, <1>2, RouteInvGivesRight, PTL DEF RouteSpec

\* Routes are right, and paths are followed, whatever the map and the path are.
THEOREM RoutesStayRight == RouteSpec /\ FollowSpec => []RoutesRight
<1>1. RouteRight /\ FollowRight => RoutesRight
  BY DEF RoutesRight
<1>. QED  BY <1>1, RouteStaysRight, PathStaysFollowed, PTL

-----------------------------------------------------------------------------
(* SavedState: the tabs of the monitor.                                    *)

\* The tabs of the first entries, one entry after the other.
LEMMA OpenedByOne ==
  ASSUME NEW S, NEW entries \in Seq(S), NEW found
  PROVE  /\ OpenedUpTo(entries, found) \in [0..Len(entries) -> Seq(S)]
         /\ OpenedUpTo(entries, found)[0] = << >>
         /\ \A n \in 1..Len(entries) :
              OpenedUpTo(entries, found)[n] =
                IF entries[n].template \in found THEN Append(OpenedUpTo(entries, found)[n - 1], entries[n])
                ELSE OpenedUpTo(entries, found)[n - 1]
<1>. DEFINE N == Len(entries)
            next(n, x) == IF entries[n].template \in found THEN Append(x, entries[n]) ELSE x
            upTo == CHOOSE g : g = [n \in 0..N |-> IF n = 0 THEN << >>
                      ELSE IF entries[n].template \in found THEN Append(g[n - 1], entries[n]) ELSE g[n - 1]]
            step == [n \in Nat |-> [x \in Seq(S) |-> IF n \in 1..N THEN next(n, x) ELSE x]]
<1>1. OpenedUpTo(entries, found) = upTo
  BY DEF OpenedUpTo
<1>2. /\ StepsIn(Seq(S), << >>, step) /\ N \in Nat
      /\ \A n \in 1..N : \A x \in Seq(S) : step[n][x] = next(n, x)
  <2>1. \A n \in 1..N : \A x \in Seq(S) : next(n, x) \in Seq(S)
    OBVIOUS
  <2>. HIDE DEF next
  <2>. QED  BY <2>1 DEF StepsIn
<1>3. PICK g : RunsTo(g, Seq(S), << >>, N, step)
  <2>. HIDE DEF step, N
  <2>. QED  BY <1>2, RecursionUpTo
<1>4. g = [n \in 0..N |-> IF n = 0 THEN << >>
             ELSE IF entries[n].template \in found THEN Append(g[n - 1], entries[n]) ELSE g[n - 1]]
  <2>. HIDE DEF step
  <2>1. ASSUME NEW n \in 0..N, n # 0
        PROVE  step[n][g[n - 1]] = IF entries[n].template \in found THEN Append(g[n - 1], entries[n]) ELSE g[n - 1]
    <3>1. n \in 1..N /\ n - 1 \in 0..N
      BY <1>2, <2>1
    <3>2. g[n - 1] \in Seq(S)
      BY <3>1, <1>3 DEF RunsTo
    <3>. QED  BY <1>2, <3>1, <3>2
  <2>. HIDE DEF N
  <2>. QED  BY <2>1, <1>3 DEF RunsTo
<1>5. upTo = [n \in 0..N |-> IF n = 0 THEN << >>
                ELSE IF entries[n].template \in found THEN Append(upTo[n - 1], entries[n]) ELSE upTo[n - 1]]
  BY <1>4
<1>. HIDE DEF upTo
<1>0. \A n \in 1..N : n \in 0..N /\ n # 0
  BY <1>2
<1>8. \A n \in 1..N : upTo[n] = IF entries[n].template \in found THEN Append(upTo[n - 1], entries[n]) ELSE upTo[n - 1]
  BY <1>0, <1>5
<1>6. \A n \in Nat : n <= N => upTo[n] \in Seq(S)
  <2>. DEFINE T == {n \in Nat : n <= N => upTo[n] \in Seq(S)}
  <2>1. 0 \in T
    BY <1>5
  <2>2. ASSUME NEW n \in Nat, n \in T PROVE n + 1 \in T
    <3>1. SUFFICES ASSUME n + 1 <= N PROVE upTo[n + 1] \in Seq(S)
      OBVIOUS
    <3>2. upTo[n + 1] = IF entries[n + 1].template \in found THEN Append(upTo[n], entries[n + 1]) ELSE upTo[n]
      <4>1. n + 1 \in 1..N /\ (n + 1) - 1 = n
        BY <1>2, <3>1
      <4>. QED  BY <1>8, <4>1
    <3>3. upTo[n] \in Seq(S) /\ entries[n + 1] \in S
      BY <2>2, <3>1
    <3>. QED  BY <3>2, <3>3
  <2>. HIDE DEF T
  <2>3. \A n \in Nat : n \in T
    BY <2>1, <2>2, Induct
  <2>. QED  BY <2>3 DEF T
<1>7. upTo \in [0..N -> Seq(S)]
  BY <1>5, <1>6
<1>9. upTo[0] = << >>
  BY <1>5
<1>. QED  BY <1>1, <1>7, <1>8, <1>9

-----------------------------------------------------------------------------
\* Between two starts the file has the tabs that were left; while they are
\* restored, the tabs are those of the entries that were passed so far, and
\* the file has either them or, if none was opened yet, what it had before.
MonitorTabs == [template : Templates, port : Nat]
TabList == Seq(MonitorTabs)
Passed == Len(left) - Len(toRestore)
TabsInv ==
  /\ tabs \in TabList /\ left \in TabList /\ toRestore \in TabList
  /\ tabFile \in [torn : BOOLEAN, entries : TabList]
  /\ onDisk \subseteq Templates /\ wrong = FALSE
  /\ session \in {"up", "down"} /\ ~killed => tabFile.entries = left
  /\ session \in {"restoring", "resaving"} /\ ~killed =>
       /\ Len(toRestore) <= Len(left)
       /\ \A i \in 1..Len(toRestore) : toRestore[i] = left[Passed + i]
       /\ tabs = OpenedUpTo(left, onDisk)[IF session = "restoring" THEN Passed ELSE Passed + 1]
  /\ session = "resaving" => toRestore # << >>
  /\ session = "restoring" /\ ~tabFile.torn =>
       \/ tabFile.entries = tabs
       \/ /\ tabs = << >>
          /\ \/ toRestore = tabFile.entries
             \/ \E i \in DOMAIN tabFile.entries : tabFile.entries[i].template \notin onDisk
  /\ session = "up" /\ ~tabFile.torn =>
       tabFile.entries = tabs \/ \E i \in DOMAIN tabFile.entries : tabFile.entries[i].template \notin onDisk

LEMMA TabsStep ==
  ASSUME TabsInv, [TabsNext]_tabVars
  PROVE  TabsInv'
<1>. USE DEF TabsInv, TabList
<1>1. CASE StartSession
  <2>1. ~killed => OpenedUpTo(left, onDisk')[0] = << >>
    BY OpenedByOne
  <2>. QED  BY <1>1, <2>1 DEF StartSession, Passed
<1>2. CASE RestoreTab
  <2>1. Head(toRestore) = toRestore[1] /\ toRestore[1] \in MonitorTabs
    BY <1>2 DEF RestoreTab
  <2>2. session = "restoring" /\ Len(toRestore) \in Nat \ {0} /\ Len(left) \in Nat
    BY <1>2 DEF RestoreTab
  <2>3. ~killed => /\ Passed + 1 \in 1..Len(left) /\ left[Passed + 1] = toRestore[1]
                   /\ OpenedUpTo(left, onDisk)[Passed + 1] =
                        IF toRestore[1].template \in onDisk THEN Append(tabs, toRestore[1]) ELSE tabs
    <3>. SUFFICES ASSUME ~killed
                  PROVE  /\ Passed + 1 \in 1..Len(left) /\ left[Passed + 1] = toRestore[1]
                         /\ OpenedUpTo(left, onDisk)[Passed + 1] =
                              IF toRestore[1].template \in onDisk THEN Append(tabs, toRestore[1]) ELSE tabs
      OBVIOUS
    <3>1. Passed + 1 \in 1..Len(left) /\ left[Passed + 1] = toRestore[1] /\ (Passed + 1) - 1 = Passed
      <4>1. 1 \in 1..Len(toRestore) /\ Passed \in Int /\ Len(toRestore) <= Len(left)
        BY <2>2 DEF Passed
      <4>2. toRestore[1] = left[Passed + 1]
        BY <2>2, <4>1
      <4>. QED  BY <2>2, <4>1, <4>2 DEF Passed
    <3>2. tabs = OpenedUpTo(left, onDisk)[Passed]
      BY <2>2
    <3>3. OpenedUpTo(left, onDisk)[Passed + 1] =
            IF left[Passed + 1].template \in onDisk
            THEN Append(OpenedUpTo(left, onDisk)[(Passed + 1) - 1], left[Passed + 1])
            ELSE OpenedUpTo(left, onDisk)[(Passed + 1) - 1]
      <4>. HIDE DEF TabsInv
      <4>1. left \in TabList
        BY DEF TabsInv
      <4>. QED  BY <3>1, <4>1, OpenedByOne
    <3>. QED  BY <3>1, <3>2, <3>3
  <2>4. CASE toRestore[1].template \in onDisk
    <3>1. /\ tabs' = Append(tabs, toRestore[1]) /\ tabFile' = TornTabs /\ session' = "resaving"
          /\ UNCHANGED <<toRestore, onDisk, sessions, left, killed, wrong>>
      BY <1>2, <2>1, <2>4 DEF RestoreTab
    <3>2. tabs' \in TabList /\ tabFile' \in [torn : BOOLEAN, entries : TabList]
      BY <2>1, <3>1 DEF TornTabs
    <3>3. Passed' = Passed
      BY <3>1 DEF Passed
    <3>. QED  BY <2>2, <2>3, <2>4, <3>1, <3>2, <3>3
  <2>5. CASE toRestore[1].template \notin onDisk
    <3>1. /\ toRestore' = Tail(toRestore) /\ UNCHANGED <<tabs, tabFile, session, onDisk, sessions, left, killed, wrong>>
      BY <1>2, <2>1, <2>5 DEF RestoreTab
    <3>2. /\ toRestore' \in TabList /\ Len(toRestore') = Len(toRestore) - 1
          /\ \A i \in 1..Len(toRestore') : toRestore'[i] = toRestore[i + 1]
      BY <2>2, <3>1
    <3>3. Passed' = Passed + 1
      BY <2>2, <3>1, <3>2 DEF Passed
    <3>4. ~killed => \A i \in 1..Len(toRestore') : toRestore'[i] = left[Passed' + i]
      <4>. SUFFICES ASSUME ~killed, NEW i \in 1..Len(toRestore') PROVE toRestore'[i] = left[Passed' + i]
        OBVIOUS
      <4>1. i + 1 \in 1..Len(toRestore) /\ Passed \in Int
        BY <2>2, <3>2 DEF Passed
      <4>2. toRestore[i + 1] = left[Passed + (i + 1)]
        BY <2>2, <4>1
      <4>. QED  BY <3>2, <3>3, <4>1, <4>2
    <3>5. toRestore = tabFile.entries => \E i \in DOMAIN tabFile.entries : tabFile.entries[i].template \notin onDisk
      BY <2>2, <2>5
    <3>. QED  BY SMTT(30), <2>2, <2>3, <2>5, <3>1, <3>2, <3>3, <3>4, <3>5
  <2>. QED  BY <2>4, <2>5
<1>3. CASE WriteRestored
  <2>1. /\ toRestore' \in TabList /\ Len(toRestore') = Len(toRestore) - 1 /\ Len(toRestore) \in Nat \ {0}
        /\ \A i \in 1..Len(toRestore') : toRestore'[i] = toRestore[i + 1]
    BY <1>3 DEF WriteRestored
  <2>2. Passed' = Passed + 1
    BY <1>3, <2>1 DEF WriteRestored, Passed
  <2>3. ~killed => \A i \in 1..Len(toRestore') : toRestore'[i] = left[Passed' + i]
    <3>. SUFFICES ASSUME ~killed, NEW i \in 1..Len(toRestore') PROVE toRestore'[i] = left[Passed' + i]
      OBVIOUS
    <3>1. i + 1 \in 1..Len(toRestore) /\ Passed \in Int
      BY <2>1 DEF Passed
    <3>2. toRestore[i + 1] = left[Passed + (i + 1)]
      BY <1>3, <3>1 DEF WriteRestored
    <3>. QED  BY <2>1, <2>2, <3>1, <3>2
  <2>. QED  BY <1>3, <2>1, <2>2, <2>3 DEF WriteRestored, Written
<1>4. CASE RestoreEnds
  <2>1. Len(toRestore) = 0
    BY <1>4 DEF RestoreEnds
  <2>2. ~killed => tabs = Opened(left, onDisk)
    BY <1>4, <2>1 DEF RestoreEnds, Opened, Passed
  <2>3. wrong' = FALSE
    BY <1>4, <2>2 DEF RestoreEnds
  <2>. QED  BY <1>4, <2>1, <2>3 DEF RestoreEnds
<1>5. CASE WriteTabs
  BY <1>5 DEF WriteTabs, Written
<1>6. CASE OpenTab
  BY <1>6 DEF OpenTab, Saving, Entry, TornTabs, MonitorTabs
<1>7. CASE CloseATab
  <2>1. PICK i \in DOMAIN tabs : Saving(RemoveAt(tabs, i))
    BY <1>7 DEF CloseATab
  <2>2. RemoveAt(tabs, i) \in TabList
    <3>1. SubSeq(tabs, 1, i - 1) \in TabList /\ SubSeq(tabs, i + 1, Len(tabs)) \in TabList
      BY SubSeqProperties
    <3>. QED  BY <3>1 DEF RemoveAt
  <2>. QED  BY <1>7, <2>1, <2>2 DEF CloseATab, Saving, TornTabs
<1>8. CASE StartTab
  <2>1. PICK i \in DOMAIN tabs : Saving([tabs EXCEPT ![i].port = 1])
    BY <1>8 DEF StartTab
  <2>2. [tabs EXCEPT ![i].port = 1] \in TabList
    <3>1. tabs[i] \in MonitorTabs
      OBVIOUS
    <3>2. [tabs[i] EXCEPT !.port = 1] \in MonitorTabs
      BY <3>1 DEF MonitorTabs
    <3>3. [tabs EXCEPT ![i] = [tabs[i] EXCEPT !.port = 1]] \in TabList
      BY <3>2
    <3>. QED  BY <3>3
  <2>3. tabs' \in TabList /\ session' = "saving" /\ tabFile' = TornTabs
    BY <2>1, <2>2 DEF Saving
  <2>4. UNCHANGED <<onDisk, toRestore, sessions, left, killed, wrong>>
    BY <1>8 DEF StartTab
  <2>. QED  BY <2>3, <2>4 DEF TornTabs
<1>9. CASE QuitSession
  BY <1>9 DEF QuitSession
<1>10. CASE KillSession
  BY <1>10 DEF KillSession
<1>11. CASE UNCHANGED tabVars
  BY <1>11 DEF tabVars, Passed
<1>. QED  BY <1>1, <1>2, <1>3, <1>4, <1>5, <1>6, <1>7, <1>8, <1>9, <1>10, <1>11 DEF TabsNext

\* The tabs of the monitor are restored as they were left, in any number of
\* sessions (monitor.py).
THEOREM TabsStayRestored == TabsSpec => []TabsRestored
<1>1. TabsInit => TabsInv
  BY DEF TabsInit, TabsInv, TabList, Written
<1>2. TabsInv /\ [TabsNext]_tabVars => TabsInv'
  BY TabsStep
<1>3. TabsInv => TabsRestored
  BY DEF TabsInv, TabsRestored
<1>. QED  BY <1>1, <1>2, <1>3, PTL DEF TabsSpec

-----------------------------------------------------------------------------
(* PanelFields: the fields of the panels.                                  *)

InputKinds == Texts \cup Numbers \cup
  {"mode", "item", "namedItem", "template", "rtf", "enum", "flag", "switch", "target"}
\* A form of which the inputs have different keys, all of K.
FormOver(f, K) ==
  /\ \E S : f \in Seq(S)
  /\ \A i \in 1..Len(f) : f[i].key \in K /\ f[i].kind \in InputKinds
  /\ \A i, j \in 1..Len(f) : f[i].key = f[j].key => i = j

LEMMA EachIsForm ==
  ASSUME NEW K, NEW keys \in Seq(K), \A i, j \in 1..Len(keys) : keys[i] = keys[j] => i = j,
         NEW kind \in InputKinds, NEW group
  PROVE  FormOver(Each(kind, group, keys), K)
<1>1. PICK n \in Nat : n = Len(keys) /\ DOMAIN keys = 1..n /\ \A i \in 1..n : keys[i] \in K
  OBVIOUS
<1>2. PICK e : e = Each(kind, group, keys)
  OBVIOUS
<1>3. e = [i \in 1..n |-> [key |-> keys[i], kind |-> kind, group |-> group]]
  BY <1>1, <1>2 DEF Each
<1>. DEFINE R == [key : K, kind : InputKinds, group : {group}]
<1>4. e \in [1..n -> R]
  BY <1>1, <1>3
<1>. HIDE DEF R
<1>5. e \in Seq(R) /\ Len(e) = n
  BY <1>4
<1>6. \A i \in 1..n : e[i].key = keys[i] /\ e[i].kind = kind
  BY <1>3
<1>7. FormOver(e, K)
  BY <1>1, <1>5, <1>6 DEF FormOver
<1>. QED  BY <1>2, <1>7

LEMMA FormsConcat ==
  ASSUME NEW K, NEW L, NEW s, NEW t, FormOver(s, K), FormOver(t, L), K \cap L = {}
  PROVE  FormOver(s \o t, K \cup L)
<1>0. PICK S, T : s \in Seq(S) /\ t \in Seq(T)
  BY DEF FormOver
<1>1. s \in Seq(S \cup T) /\ t \in Seq(S \cup T) /\ Len(s) \in Nat /\ Len(t) \in Nat
  BY <1>0
<1>2. s \o t \in Seq(S \cup T) /\ Len(s \o t) = Len(s) + Len(t)
  BY <1>1
<1>3. ASSUME NEW i \in 1..(Len(s) + Len(t))
      PROVE  (s \o t)[i] = IF i <= Len(s) THEN s[i] ELSE t[i - Len(s)]
  BY <1>1
<1>4. \A i \in 1..Len(s) : s[i].key \in K /\ s[i].kind \in InputKinds
  BY DEF FormOver
<1>5. \A i \in 1..Len(t) : t[i].key \in L /\ t[i].kind \in InputKinds
  BY DEF FormOver
<1>6. ASSUME NEW i \in 1..Len(s \o t), NEW j \in 1..Len(s \o t), (s \o t)[i].key = (s \o t)[j].key PROVE i = j
  <2>1. i \in 1..(Len(s) + Len(t)) /\ j \in 1..(Len(s) + Len(t)) /\ i \in Int /\ j \in Int
    BY <1>1, <1>2
  <2>2. i > Len(s) => i - Len(s) \in 1..Len(t)
    BY <1>1, <2>1
  <2>3. j > Len(s) => j - Len(s) \in 1..Len(t)
    BY <1>1, <2>1
  <2>4. CASE i <= Len(s) /\ j <= Len(s)
    BY <1>1, <1>3, <1>6, <2>1, <2>4 DEF FormOver
  <2>5. CASE i <= Len(s) /\ j > Len(s)
    BY <1>1, <1>3, <1>4, <1>5, <1>6, <2>1, <2>3, <2>5
  <2>6. CASE i > Len(s) /\ j <= Len(s)
    BY <1>1, <1>3, <1>4, <1>5, <1>6, <2>1, <2>2, <2>6
  <2>7. CASE i > Len(s) /\ j > Len(s)
    <3>1. t[i - Len(s)].key = t[j - Len(s)].key
      BY <1>1, <1>3, <1>6, <2>1, <2>7
    <3>2. i - Len(s) = j - Len(s)
      BY <3>1, <2>2, <2>3, <2>7 DEF FormOver
    <3>. QED  BY <3>2, <2>1, <1>1
  <2>. QED  BY <1>1, <2>1, <2>4, <2>5, <2>6, <2>7
<1>7. ASSUME NEW i \in 1..Len(s \o t) PROVE (s \o t)[i].key \in K \cup L /\ (s \o t)[i].kind \in InputKinds
  <2>1. i \in 1..(Len(s) + Len(t)) /\ i \in Int /\ (i > Len(s) => i - Len(s) \in 1..Len(t))
    BY <1>1, <1>2
  <2>. QED  BY <1>1, <1>3, <1>4, <1>5, <2>1
<1>. QED  BY <1>2, <1>6, <1>7 DEF FormOver

LEMMA EachOfOne ==
  ASSUME NEW key, NEW kind \in InputKinds, NEW group
  PROVE  FormOver(Each(kind, group, <<key>>), {key})
<1>1. <<key>> \in Seq({key}) /\ \A i, j \in 1..Len(<<key>>) : <<key>>[i] = <<key>>[j] => i = j
  OBVIOUS
<1>. QED  BY <1>1, EachIsForm

LEMMA FileFormIsForm == \E K : FormOver(FileForm, K)
<1>1. <<"fp_path", "fp_entity_id">> \in Seq({"fp_path", "fp_entity_id"})
  OBVIOUS
<1>2. \A i, j \in 1..Len(<<"fp_path", "fp_entity_id">>) :
        <<"fp_path", "fp_entity_id">>[i] = <<"fp_path", "fp_entity_id">>[j] => i = j
  OBVIOUS
<1>3. "filledText" \in InputKinds
  BY DEF InputKinds, Texts
<1>. QED  BY <1>1, <1>2, <1>3, EachIsForm DEF FileForm

LEMMA RadarFormIsForm == \E K : FormOver(RadarForm, K)
<1>. DEFINE e1 == Each("ip", 1, <<"objects_ip">>)
            k1 == {"objects_ip"}
<1>. DEFINE e2 == Each("int", 1, <<"objects_port">>)
            k2 == {"objects_port"}
<1>. DEFINE e3 == Each("ip", 1, <<"detections_ip">>)
            k3 == {"detections_ip"}
<1>. DEFINE e4 == Each("int", 1, <<"detections_port">>)
            k4 == {"detections_port"}
<1>0. {"ip", "int"} \subseteq InputKinds
  BY DEF InputKinds, Texts, Numbers
<1>1. FormOver(e1, k1)
  BY <1>0, EachOfOne
<1>2. FormOver(e2, k2)
  BY <1>0, EachOfOne
<1>3. FormOver(e3, k3)
  BY <1>0, EachOfOne
<1>4. FormOver(e4, k4)
  BY <1>0, EachOfOne
<1>5. /\ k1 \cap k2 = {}
      /\ (k1 \cup k2) \cap k3 = {}
      /\ (k1 \cup k2 \cup k3) \cap k4 = {}
  OBVIOUS
<1>. HIDE DEF e1, k1, e2, k2, e3, k3, e4, k4
<1>6. FormOver(e1 \o e2, k1 \cup k2)
  BY <1>1, <1>2, <1>5, FormsConcat
<1>7. FormOver(e1 \o e2 \o e3, k1 \cup k2 \cup k3)
  BY <1>6, <1>3, <1>5, FormsConcat
<1>8. FormOver(e1 \o e2 \o e3 \o e4, k1 \cup k2 \cup k3 \cup k4)
  BY <1>7, <1>4, <1>5, FormsConcat
<1>. QED  BY <1>8 DEF RadarForm, e1, e2, e3, e4

LEMMA CommandFormIsForm == \E K : FormOver(CommandForm, K)
<1>. DEFINE e1 == Each("filledText", 1, <<"suite_path">>)
            k1 == {"suite_path"}
<1>. DEFINE e2 == Each("mode", 1, <<"simulator_mode_combo">>)
            k2 == {"simulator_mode_combo"}
<1>. DEFINE e3 == Each("item", 1, <<"simulator_map_combo">>)
            k3 == {"simulator_map_combo"}
<1>. DEFINE e4 == Each("anyText", 1, <<"sim_mode_combo">>)
            k4 == {"sim_mode_combo"}
<1>. DEFINE e5 == Each("renamed", 1, <<"sim_target_fps", "sim_physics_dt">>)
            k5 == {"sim_target_fps", "sim_physics_dt"}
<1>. DEFINE e6 == Each("rtf", 1, <<"sim_rtf">>)
            k6 == {"sim_rtf"}
<1>. DEFINE e7 == Each("flag", 1, <<"sim_user_control">>)
            k7 == {"sim_user_control"}
<1>. DEFINE e8 == Each("switch", 1, <<"sc_timer_enabled">>)
            k8 == {"sc_timer_enabled"}
<1>. DEFINE e9 == Each("number", 1, <<"sc_timer_min", "sc_timer_sec">>)
            k9 == {"sc_timer_min", "sc_timer_sec"}
<1>0. {"filledText", "mode", "item", "anyText", "renamed", "rtf", "flag", "switch", "number"} \subseteq InputKinds
  BY DEF InputKinds, Texts, Numbers
<1>1. FormOver(e1, k1)
  BY <1>0, EachOfOne
<1>2. FormOver(e2, k2)
  BY <1>0, EachOfOne
<1>3. FormOver(e3, k3)
  BY <1>0, EachOfOne
<1>4. FormOver(e4, k4)
  BY <1>0, EachOfOne
<1>5. FormOver(e5, k5)
  <2>. DEFINE keys == <<"sim_target_fps", "sim_physics_dt">>
  <2>1. keys \in Seq(k5)
    OBVIOUS
  <2>2. \A i, j \in 1..Len(keys) : keys[i] = keys[j] => i = j
    OBVIOUS
  <2>. HIDE DEF keys
  <2>3. FormOver(Each("renamed", 1, keys), k5)
    BY <1>0, <2>1, <2>2, EachIsForm
  <2>. QED  BY <2>3 DEF keys
<1>6. FormOver(e6, k6)
  BY <1>0, EachOfOne
<1>7. FormOver(e7, k7)
  BY <1>0, EachOfOne
<1>8. FormOver(e8, k8)
  BY <1>0, EachOfOne
<1>9. FormOver(e9, k9)
  <2>. DEFINE keys == <<"sc_timer_min", "sc_timer_sec">>
  <2>1. keys \in Seq(k9)
    OBVIOUS
  <2>2. \A i, j \in 1..Len(keys) : keys[i] = keys[j] => i = j
    OBVIOUS
  <2>. HIDE DEF keys
  <2>3. FormOver(Each("number", 1, keys), k9)
    BY <1>0, <2>1, <2>2, EachIsForm
  <2>. QED  BY <2>3 DEF keys
<1>10. /\ k1 \cap k2 = {}
      /\ (k1 \cup k2) \cap k3 = {}
      /\ (k1 \cup k2 \cup k3) \cap k4 = {}
      /\ (k1 \cup k2 \cup k3 \cup k4) \cap k5 = {}
      /\ (k1 \cup k2 \cup k3 \cup k4 \cup k5) \cap k6 = {}
      /\ (k1 \cup k2 \cup k3 \cup k4 \cup k5 \cup k6) \cap k7 = {}
      /\ (k1 \cup k2 \cup k3 \cup k4 \cup k5 \cup k6 \cup k7) \cap k8 = {}
      /\ (k1 \cup k2 \cup k3 \cup k4 \cup k5 \cup k6 \cup k7 \cup k8) \cap k9 = {}
  OBVIOUS
<1>. HIDE DEF e1, k1, e2, k2, e3, k3, e4, k4, e5, k5, e6, k6, e7, k7, e8, k8, e9, k9
<1>11. FormOver(e1 \o e2, k1 \cup k2)
  BY <1>1, <1>2, <1>10, FormsConcat
<1>12. FormOver(e1 \o e2 \o e3, k1 \cup k2 \cup k3)
  BY <1>11, <1>3, <1>10, FormsConcat
<1>13. FormOver(e1 \o e2 \o e3 \o e4, k1 \cup k2 \cup k3 \cup k4)
  BY <1>12, <1>4, <1>10, FormsConcat
<1>14. FormOver(e1 \o e2 \o e3 \o e4 \o e5, k1 \cup k2 \cup k3 \cup k4 \cup k5)
  BY <1>13, <1>5, <1>10, FormsConcat
<1>15. FormOver(e1 \o e2 \o e3 \o e4 \o e5 \o e6, k1 \cup k2 \cup k3 \cup k4 \cup k5 \cup k6)
  BY <1>14, <1>6, <1>10, FormsConcat
<1>16. FormOver(e1 \o e2 \o e3 \o e4 \o e5 \o e6 \o e7, k1 \cup k2 \cup k3 \cup k4 \cup k5 \cup k6 \cup k7)
  BY <1>15, <1>7, <1>10, FormsConcat
<1>17. FormOver(e1 \o e2 \o e3 \o e4 \o e5 \o e6 \o e7 \o e8, k1 \cup k2 \cup k3 \cup k4 \cup k5 \cup k6 \cup k7 \cup k8)
  BY <1>16, <1>8, <1>10, FormsConcat
<1>18. FormOver(e1 \o e2 \o e3 \o e4 \o e5 \o e6 \o e7 \o e8 \o e9, k1 \cup k2 \cup k3 \cup k4 \cup k5 \cup k6 \cup k7 \cup k8 \cup k9)
  BY <1>17, <1>9, <1>10, FormsConcat
<1>. QED  BY <1>18 DEF CommandForm, e1, e2, e3, e4, e5, e6, e7, e8, e9

LEMMA ObjectFormIsForm == \E K : FormOver(ObjectForm, K)
<1>. DEFINE e1 == Each("anyText", 1, <<"obj_entity_id">>)
            k1 == {"obj_entity_id"}
<1>. DEFINE e2 == Each("number", 1, <<"co_pos_x", "co_pos_y", "co_pos_z", "co_rot_x", "co_rot_y", "co_rot_z", "co_bulk_count">>)
            k2 == {"co_pos_x", "co_pos_y", "co_pos_z", "co_rot_x", "co_rot_y", "co_rot_z", "co_bulk_count"}
<1>. DEFINE e3 == Each("anyText", 1, <<"co_bulk_map">>)
            k3 == {"co_bulk_map"}
<1>. DEFINE e4 == Each("number", 1, <<"mc_thr", "mc_brk", "mc_steer", "tc_px", "tc_py", "tc_pz", "tc_rx", "tc_ry", "tc_rz",
                "tc_steer", "tc_speed">>)
            k4 == {"mc_thr", "mc_brk", "mc_steer", "tc_px", "tc_py", "tc_pz", "tc_rx", "tc_ry", "tc_rz",
                  "tc_steer", "tc_speed"}
<1>. DEFINE e5 == Each("anyText", 1, <<"tr_name", "tr_sample">>)
            k5 == {"tr_name", "tr_sample"}
<1>. DEFINE e6 == Each("number", 1, <<"tr_p1_x", "tr_p1_y", "tr_p1_z", "tr_p1_t", "tr_p2_x", "tr_p2_y", "tr_p2_z", "tr_p2_t">>)
            k6 == {"tr_p1_x", "tr_p1_y", "tr_p1_z", "tr_p1_t", "tr_p2_x", "tr_p2_y", "tr_p2_z", "tr_p2_t"}
<1>. DEFINE e7 == Each("enum", 1, <<"co_entity_type", "co_driving_mode", "co_ground_vehicle_model", "tr_follow_mode">>)
            k7 == {"co_entity_type", "co_driving_mode", "co_ground_vehicle_model", "tr_follow_mode"}
<1>0. {"anyText", "number", "enum"} \subseteq InputKinds
  BY DEF InputKinds, Texts, Numbers
<1>1. FormOver(e1, k1)
  BY <1>0, EachOfOne
<1>2. FormOver(e2, k2)
  <2>. DEFINE keys == <<"co_pos_x", "co_pos_y", "co_pos_z", "co_rot_x", "co_rot_y", "co_rot_z",
                      "co_bulk_count">>
  <2>1. keys \in Seq(k2)
    OBVIOUS
  <2>2. \A i, j \in 1..Len(keys) : keys[i] = keys[j] => i = j
    OBVIOUS
  <2>. HIDE DEF keys
  <2>3. FormOver(Each("number", 1, keys), k2)
    BY <1>0, <2>1, <2>2, EachIsForm
  <2>. QED  BY <2>3 DEF keys
<1>3. FormOver(e3, k3)
  BY <1>0, EachOfOne
<1>4. FormOver(e4, k4)
  <2>. DEFINE keys == <<"mc_thr", "mc_brk", "mc_steer", "tc_px", "tc_py", "tc_pz", "tc_rx", "tc_ry", "tc_rz",
                      "tc_steer", "tc_speed">>
  <2>1. keys \in Seq(k4)
    OBVIOUS
  <2>2. \A i, j \in 1..Len(keys) : keys[i] = keys[j] => i = j
    OBVIOUS
  <2>. HIDE DEF keys
  <2>3. FormOver(Each("number", 1, keys), k4)
    BY <1>0, <2>1, <2>2, EachIsForm
  <2>. QED  BY <2>3 DEF keys
<1>5. FormOver(e5, k5)
  <2>. DEFINE keys == <<"tr_name", "tr_sample">>
  <2>1. keys \in Seq(k5)
    OBVIOUS
  <2>2. \A i, j \in 1..Len(keys) : keys[i] = keys[j] => i = j
    OBVIOUS
  <2>. HIDE DEF keys
  <2>3. FormOver(Each("anyText", 1, keys), k5)
    BY <1>0, <2>1, <2>2, EachIsForm
  <2>. QED  BY <2>3 DEF keys
<1>6. FormOver(e6, k6)
  <2>. DEFINE keys == <<"tr_p1_x", "tr_p1_y", "tr_p1_z", "tr_p1_t", "tr_p2_x", "tr_p2_y", "tr_p2_z", "tr_p2_t">>
  <2>1. keys \in Seq(k6)
    OBVIOUS
  <2>2. \A i, j \in 1..Len(keys) : keys[i] = keys[j] => i = j
    OBVIOUS
  <2>. HIDE DEF keys
  <2>3. FormOver(Each("number", 1, keys), k6)
    BY <1>0, <2>1, <2>2, EachIsForm
  <2>. QED  BY <2>3 DEF keys
<1>7. FormOver(e7, k7)
  <2>. DEFINE keys == <<"co_entity_type", "co_driving_mode", "co_ground_vehicle_model", "tr_follow_mode">>
  <2>1. keys \in Seq(k7)
    OBVIOUS
  <2>2. \A i, j \in 1..Len(keys) : keys[i] = keys[j] => i = j
    OBVIOUS
  <2>. HIDE DEF keys
  <2>3. FormOver(Each("enum", 1, keys), k7)
    BY <1>0, <2>1, <2>2, EachIsForm
  <2>. QED  BY <2>3 DEF keys
<1>8. /\ k1 \cap k2 = {}
      /\ (k1 \cup k2) \cap k3 = {}
      /\ (k1 \cup k2 \cup k3) \cap k4 = {}
      /\ (k1 \cup k2 \cup k3 \cup k4) \cap k5 = {}
      /\ (k1 \cup k2 \cup k3 \cup k4 \cup k5) \cap k6 = {}
      /\ (k1 \cup k2 \cup k3 \cup k4 \cup k5 \cup k6) \cap k7 = {}
  OBVIOUS
<1>. HIDE DEF e1, k1, e2, k2, e3, k3, e4, k4, e5, k5, e6, k6, e7, k7
<1>9. FormOver(e1 \o e2, k1 \cup k2)
  BY <1>1, <1>2, <1>8, FormsConcat
<1>10. FormOver(e1 \o e2 \o e3, k1 \cup k2 \cup k3)
  BY <1>9, <1>3, <1>8, FormsConcat
<1>11. FormOver(e1 \o e2 \o e3 \o e4, k1 \cup k2 \cup k3 \cup k4)
  BY <1>10, <1>4, <1>8, FormsConcat
<1>12. FormOver(e1 \o e2 \o e3 \o e4 \o e5, k1 \cup k2 \cup k3 \cup k4 \cup k5)
  BY <1>11, <1>5, <1>8, FormsConcat
<1>13. FormOver(e1 \o e2 \o e3 \o e4 \o e5 \o e6, k1 \cup k2 \cup k3 \cup k4 \cup k5 \cup k6)
  BY <1>12, <1>6, <1>8, FormsConcat
<1>14. FormOver(e1 \o e2 \o e3 \o e4 \o e5 \o e6 \o e7, k1 \cup k2 \cup k3 \cup k4 \cup k5 \cup k6 \cup k7)
  BY <1>13, <1>7, <1>8, FormsConcat
<1>. QED  BY <1>14 DEF ObjectForm, e1, e2, e3, e4, e5, e6, e7

LEMMA LidarFormIsForm == \E K : FormOver(LidarForm, K)
<1>. DEFINE e1 == Each("safeIp", 1, <<"ip">>)  k1 == {"ip"}
            e2 == Each("port", 1, <<"port">>)  k2 == {"port"}
            e3 == Each("range", 1, <<"range_m">>)  k3 == {"range_m"}
            e4 == Each("namedItem", 1, <<"color_mode">>)  k4 == {"color_mode"}
            e5 == Each("points", 1, <<"max_points">>)  k5 == {"max_points"}
            e6 == Each("target", 1, <<"target">>)  k6 == {"target"}
            e7 == Each("distance", 1, <<"distance">>)  k7 == {"distance"}
            e8 == Each("yaw", 1, <<"yaw_deg">>)  k8 == {"yaw_deg"}
            e9 == Each("pitch", 1, <<"pitch_deg">>)  k9 == {"pitch_deg"}
            e10 == Each("fov", 1, <<"fov_deg">>)  k10 == {"fov_deg"}
<1>0. {"safeIp", "port", "range", "namedItem", "points", "target", "distance", "yaw", "pitch", "fov"} \subseteq InputKinds
  BY DEF InputKinds, Texts, Numbers, CameraNumbers
<1>1. FormOver(e1, k1)
  BY <1>0, EachOfOne
<1>2. FormOver(e2, k2)
  BY <1>0, EachOfOne
<1>3. FormOver(e3, k3)
  BY <1>0, EachOfOne
<1>4. FormOver(e4, k4)
  BY <1>0, EachOfOne
<1>5. FormOver(e5, k5)
  BY <1>0, EachOfOne
<1>6. FormOver(e6, k6)
  BY <1>0, EachOfOne
<1>7. FormOver(e7, k7)
  BY <1>0, EachOfOne
<1>8. FormOver(e8, k8)
  BY <1>0, EachOfOne
<1>9. FormOver(e9, k9)
  BY <1>0, EachOfOne
<1>10. FormOver(e10, k10)
  BY <1>0, EachOfOne
<1>11. /\ (k1) \cap k2 = {}
       /\ (k1 \cup k2) \cap k3 = {}
       /\ (k1 \cup k2 \cup k3) \cap k4 = {}
       /\ (k1 \cup k2 \cup k3 \cup k4) \cap k5 = {}
       /\ (k1 \cup k2 \cup k3 \cup k4 \cup k5) \cap k6 = {}
       /\ (k1 \cup k2 \cup k3 \cup k4 \cup k5 \cup k6) \cap k7 = {}
       /\ (k1 \cup k2 \cup k3 \cup k4 \cup k5 \cup k6 \cup k7) \cap k8 = {}
       /\ (k1 \cup k2 \cup k3 \cup k4 \cup k5 \cup k6 \cup k7 \cup k8) \cap k9 = {}
       /\ (k1 \cup k2 \cup k3 \cup k4 \cup k5 \cup k6 \cup k7 \cup k8 \cup k9) \cap k10 = {}
  OBVIOUS
<1>. HIDE DEF e1, k1, e2, k2, e3, k3, e4, k4, e5, k5, e6, k6, e7, k7, e8, k8, e9, k9, e10, k10
<1>12. FormOver(e1 \o e2, k1 \cup k2)
  BY <1>1, <1>2, <1>11, FormsConcat
<1>13. FormOver(e1 \o e2 \o e3, k1 \cup k2 \cup k3)
  BY <1>12, <1>3, <1>11, FormsConcat
<1>14. FormOver(e1 \o e2 \o e3 \o e4, k1 \cup k2 \cup k3 \cup k4)
  BY <1>13, <1>4, <1>11, FormsConcat
<1>15. FormOver(e1 \o e2 \o e3 \o e4 \o e5, k1 \cup k2 \cup k3 \cup k4 \cup k5)
  BY <1>14, <1>5, <1>11, FormsConcat
<1>16. FormOver(e1 \o e2 \o e3 \o e4 \o e5 \o e6, k1 \cup k2 \cup k3 \cup k4 \cup k5 \cup k6)
  BY ZenonT(30), <1>15, <1>6, <1>11, FormsConcat
<1>17. FormOver(e1 \o e2 \o e3 \o e4 \o e5 \o e6 \o e7, k1 \cup k2 \cup k3 \cup k4 \cup k5 \cup k6 \cup k7)
  BY ZenonT(30), <1>16, <1>7, <1>11, FormsConcat
<1>18. FormOver(e1 \o e2 \o e3 \o e4 \o e5 \o e6 \o e7 \o e8, k1 \cup k2 \cup k3 \cup k4 \cup k5 \cup k6 \cup k7 \cup k8)
  BY ZenonT(30), <1>17, <1>8, <1>11, FormsConcat
<1>19. FormOver(e1 \o e2 \o e3 \o e4 \o e5 \o e6 \o e7 \o e8 \o e9, k1 \cup k2 \cup k3 \cup k4 \cup k5 \cup k6 \cup k7 \cup k8 \cup k9)
  BY ZenonT(30), <1>18, <1>9, <1>11, FormsConcat
<1>20. FormOver(e1 \o e2 \o e3 \o e4 \o e5 \o e6 \o e7 \o e8 \o e9 \o e10, k1 \cup k2 \cup k3 \cup k4 \cup k5 \cup k6 \cup k7 \cup k8 \cup k9 \cup k10)
  BY ZenonT(30), <1>19, <1>10, <1>11, FormsConcat
<1>. QED  BY <1>20 DEF LidarForm, e1, e2, e3, e4, e5, e6, e7, e8, e9, e10

LEMMA CameraSlotIsForm ==
  ASSUME NEW s, NEW a, NEW b, NEW c, NEW d, NEW e,
         a # b, a # c, a # d, a # e, b # c, b # d, b # e, c # d, c # e, d # e
  PROVE  FormOver(CameraSlot(s, <<a, b, c, d, e>>), {a, b, c, d, e})
<1>0. {"ip", "int", "template", "namedItem"} \subseteq InputKinds
  BY DEF InputKinds, Texts, Numbers
<1>1. FormOver(Each("ip", s, <<a>>), {a}) /\ FormOver(Each("int", s, <<b>>), {b}) /\ FormOver(Each("template", s, <<c>>), {c})
  BY <1>0, EachOfOne
<1>2. FormOver(Each("namedItem", s, <<d, e>>), {d, e})
  <2>1. <<d, e>> \in Seq({d, e}) /\ \A i, j \in 1..Len(<<d, e>>) : <<d, e>>[i] = <<d, e>>[j] => i = j
    OBVIOUS
  <2>. QED  BY <1>0, <2>1, EachIsForm
<1>3. /\ {a} \cap {b} = {} /\ {a} \cup {b} = {a, b}
      /\ {a, b} \cap {c} = {} /\ {a, b} \cup {c} = {a, b, c}
      /\ {a, b, c} \cap {d, e} = {} /\ {a, b, c} \cup {d, e} = {a, b, c, d, e}
  OBVIOUS
<1>. DEFINE e1 == Each("ip", s, <<a>>)  e2 == Each("int", s, <<b>>)
            e3 == Each("template", s, <<c>>)  e4 == Each("namedItem", s, <<d, e>>)
            k1 == {a}  k2 == {b}  k3 == {c}  k12 == {a, b}  k45 == {d, e}  k123 == {a, b, c}
<1>. HIDE DEF e1, e2, e3, e4, k1, k2, k3, k12, k45, k123
<1>4. FormOver(e1, k1) /\ FormOver(e2, k2) /\ FormOver(e3, k3) /\ FormOver(e4, k45)
  BY <1>1, <1>2 DEF e1, e2, e3, e4, k1, k2, k3, k45
<1>5. /\ k1 \cap k2 = {} /\ k1 \cup k2 = k12
      /\ k12 \cap k3 = {} /\ k12 \cup k3 = k123
      /\ k123 \cap k45 = {} /\ k123 \cup k45 = {a, b, c, d, e}
  BY <1>3 DEF k1, k2, k3, k12, k45, k123
<1>6. FormOver(e1 \o e2 \o e3 \o e4, {a, b, c, d, e})
  <2>1. FormOver(e1 \o e2, k1 \cup k2)
    BY <1>4, <1>5, FormsConcat
  <2>2. FormOver(e1 \o e2, k12)
    BY <1>5, <2>1
  <2>3. FormOver(e1 \o e2 \o e3, k12 \cup k3)
    BY <1>4, <1>5, <2>2, FormsConcat
  <2>4. FormOver(e1 \o e2 \o e3, k123)
    BY <1>5, <2>3
  <2>5. FormOver(e1 \o e2 \o e3 \o e4, k123 \cup k45)
    BY <1>4, <1>5, <2>4, FormsConcat
  <2>. QED  BY <1>5, <2>5
<1>. DEFINE keys == <<a, b, c, d, e>>
<1>7. keys[1] = a /\ keys[2] = b /\ keys[3] = c /\ keys[4] = d /\ keys[5] = e
  OBVIOUS
<1>8. CameraSlot(s, keys) = e1 \o e2 \o e3 \o e4
  <2>. HIDE DEF keys
  <2>. QED  BY <1>7 DEF CameraSlot, e1, e2, e3, e4
<1>. QED  BY <1>6, <1>8

LEMMA CameraFormIsForm == \E K : FormOver(CameraForm, K)
<1>. DEFINE k1 == {"ip_1", "port_1", "template_1", "depth_view_1", "depth_scale_1"}
            k2 == {"ip_2", "port_2", "template_2", "depth_view_2", "depth_scale_2"}
            k3 == {"ip_3", "port_3", "template_3", "depth_view_3", "depth_scale_3"}
            k4 == {"ip_4", "port_4", "template_4", "depth_view_4", "depth_scale_4"}
            s1 == CameraSlot(1, <<"ip_1", "port_1", "template_1", "depth_view_1", "depth_scale_1">>)
            s2 == CameraSlot(2, <<"ip_2", "port_2", "template_2", "depth_view_2", "depth_scale_2">>)
            s3 == CameraSlot(3, <<"ip_3", "port_3", "template_3", "depth_view_3", "depth_scale_3">>)
            s4 == CameraSlot(4, <<"ip_4", "port_4", "template_4", "depth_view_4", "depth_scale_4">>)
<1>1. FormOver(s1, k1)
  BY CameraSlotIsForm
<1>2. FormOver(s2, k2)
  BY CameraSlotIsForm
<1>3. FormOver(s3, k3)
  BY CameraSlotIsForm
<1>4. FormOver(s4, k4)
  BY CameraSlotIsForm
<1>5. k1 \cap k2 = {} /\ (k1 \cup k2) \cap k3 = {} /\ (k1 \cup k2 \cup k3) \cap k4 = {}
  OBVIOUS
<1>. HIDE DEF k1, k2, k3, k4, s1, s2, s3, s4
<1>6. FormOver(s1 \o s2, k1 \cup k2)
  BY <1>1, <1>2, <1>5, FormsConcat
<1>7. FormOver(s1 \o s2 \o s3, k1 \cup k2 \cup k3)
  BY <1>3, <1>5, <1>6, FormsConcat
<1>8. FormOver(s1 \o s2 \o s3 \o s4, k1 \cup k2 \cup k3 \cup k4)
  BY <1>4, <1>5, <1>7, FormsConcat
<1>. QED  BY <1>8 DEF CameraForm, s1, s2, s3, s4

LEMMA FormsAreForms ==
  ASSUME form \in DOMAIN Forms
  PROVE  /\ DOMAIN Form = 1..Len(Form)
         /\ \A i \in DOMAIN Form : Form[i].kind \in InputKinds
         /\ \A i, j \in DOMAIN Form : Form[i].key = Form[j].key => i = j
<1>1. /\ form \in {"commands", "objects", "camera", "radar", "lidar", "file"}
      /\ form = "commands" => Form = CommandForm
      /\ form = "objects" => Form = ObjectForm
      /\ form = "camera" => Form = CameraForm
      /\ form = "radar" => Form = RadarForm
      /\ form = "lidar" => Form = LidarForm
      /\ form = "file" => Form = FileForm
  BY DEF Form, Forms
<1>2. \E K : FormOver(Form, K)
  BY <1>1, CommandFormIsForm, ObjectFormIsForm, CameraFormIsForm, RadarFormIsForm, LidarFormIsForm, FileFormIsForm
<1>4. DOMAIN Form = 1..Len(Form)
  BY <1>2 DEF FormOver
<1>. HIDE DEF Form
<1>5. \A i \in DOMAIN Form : Form[i].kind \in InputKinds
  BY <1>2, <1>4 DEF FormOver
<1>6. \A i, j \in DOMAIN Form : Form[i].key = Form[j].key => i = j
  BY <1>2, <1>4 DEF FormOver
<1>. QED  BY <1>4, <1>5, <1>6

-----------------------------------------------------------------------------
\* What an input of a kind can show.
CanShow(kind) ==
  CASE kind \in Texts            -> {"default", "other", "blank"}
    [] kind \in {"range"} \cup CameraNumbers -> InRange(kind)
    [] kind = "points"           -> {"default", "other", "zero", "negative", "large", "least", "most"}
    [] kind \in Numbers \ ({"range", "points"} \cup CameraNumbers) -> {"default", "other", "zero", "negative", "large"}
    [] OTHER                     -> {"default", "other"}
\* The word an input that shows w is written as.
WrittenWord(kind, w) == IF kind \in {"ip", "safeIp"} /\ w = "blank" THEN "default" ELSE w

\* Reading a file, an input shows what it can show, or the reading raises.
LEMMA ReadingIsShown ==
  ASSUME NEW kind \in InputKinds, NEW x \in Words \cup CanShow(kind)
  PROVE  ReadAs(kind, x) = Wrong \/ \E w \in CanShow(kind) \cup {"raised"} : ReadAs(kind, x) = {w}
<1>1. CASE kind \in Texts
  BY <1>1 DEF Words, Texts, Numbers, CameraNumbers, CanShow, ReadAs, AsText
<1>2. CASE kind \in Numbers
  <2>1. AsInt(x) \in {"default", "other", "zero", "negative", "large", "raised"}
        \/ (kind \in {"points", "distance", "pitch", "fov"} /\ AsInt(x) \in {"least", "most"})
    BY <1>2 DEF Words, AsInt, CanShow, InRange, Texts, Numbers, CameraNumbers
  <2>2. CASE kind \in {"number", "renamed"}
    BY <2>1, <2>2 DEF Texts, Numbers, CameraNumbers, CanShow, ReadAs, Wrong
  <2>3. CASE kind \in {"int", "port"}
    BY <2>1, <2>3 DEF Texts, Numbers, CameraNumbers, CanShow, ReadAs, AsFloat, PortRange
  <2>4. CASE kind \in {"range", "points"}
    BY <2>1, <2>4 DEF Texts, Numbers, CameraNumbers, CanShow, InRange, ReadAs, AsFloat, Clamped
  <2>5. CASE kind \in CameraNumbers
    BY <2>1, <2>5 DEF Texts, Numbers, CameraNumbers, CanShow, InRange, ReadAs, AsFloat, Clamped
  <2>. QED  BY <1>2, <2>2, <2>3, <2>4, <2>5 DEF Numbers
<1>3. CASE kind \in InputKinds \ (Texts \cup Numbers)
  BY <1>3 DEF InputKinds, Words, Texts, Numbers, CameraNumbers, CanShow, ReadAs
<1>. QED  BY <1>1, <1>2, <1>3

\* What was written is read as it is expected.
LEMMA WrittenIsRead ==
  ASSUME NEW kind \in InputKinds, NEW w \in CanShow(kind)
  PROVE  ReadAs(kind, WrittenWord(kind, w)) = {Expected(kind, w)} /\ Expected(kind, w) \in CanShow(kind)
<1>1. CASE kind \in Texts
  BY <1>1 DEF Texts, Numbers, CameraNumbers, CanShow, ReadAs, AsText, WrittenWord, Expected
<1>2. CASE kind \in Numbers \ CameraNumbers
  BY <1>2 DEF Texts, Numbers, CameraNumbers, CanShow, InRange, ReadAs, AsInt, AsFloat, PortRange, Clamped, WrittenWord, Expected
<1>4. CASE kind \in CameraNumbers
  BY <1>4 DEF Texts, Numbers, CameraNumbers, CanShow, InRange, ReadAs, AsInt, AsFloat, Clamped, WrittenWord, Expected
<1>3. CASE kind \in InputKinds \ (Texts \cup Numbers)
  BY <1>3 DEF InputKinds, Texts, Numbers, CameraNumbers, CanShow, ReadAs, WrittenWord, Expected
<1>. QED  BY <1>1, <1>2, <1>3, <1>4

LEMMA OtherIsRead == ASSUME NEW kind \in InputKinds PROVE ReadAs(kind, "other") = {"other"}
<1>1. "other" \in CanShow(kind) /\ WrittenWord(kind, "other") = "other" /\ Expected(kind, "other") = "other"
  BY DEF InputKinds, Texts, Numbers, CameraNumbers, CanShow, InRange, WrittenWord, Expected
<1>. QED  BY <1>1, WrittenIsRead
\* The places of the inputs of the form.
InputSlots == DOMAIN Form
FieldsInv ==
  /\ form \in DOMAIN Forms
  /\ HasFields => \A i \in InputSlots : WordOf(i) \in Words \cup CanShow(Form[i].kind)
  /\ DOMAIN filled = FormKeys /\ \A i \in InputSlots : filled[Form[i].key] \in CanShow(Form[i].kind)
  /\ written => /\ content.is = "json"
                /\ \A i \in InputSlots : /\ shownLast[Form[i].key] \in CanShow(Form[i].kind)
                                     /\ WordOf(i) = WrittenWord(Form[i].kind, shownLast[Form[i].key])
  /\ formOpen = "failed" => content.is = "list"
  /\ formOpen # "closed" /\ ~fieldTouched /\ HasFields =>
       \E refuse \in Wrong : filled = LoadedForm(ReadInputs(refuse))

LEMMA PlaceOfKey ==
  ASSUME form \in DOMAIN Forms, NEW i \in InputSlots
  PROVE  PlaceOf(Form[i].key) = i /\ Form[i].key \in FormKeys /\ StandsBefore(i, i) /\ Form[i].kind \in InputKinds /\ i \in Nat
<1>1. \A j \in InputSlots : Form[j].key = Form[i].key => j = i
  BY FormsAreForms DEF InputSlots
<1>2. i \in Nat /\ Form[i].kind \in InputKinds
  BY FormsAreForms DEF InputSlots
<1>3. PlaceOf(Form[i].key) = i
  BY <1>1 DEF PlaceOf, InputSlots
<1>. QED  BY <1>2, <1>3 DEF FormKeys, StandsBefore, InputSlots

LEMMA FormKeysHavePlaces == ASSUME NEW key \in FormKeys PROVE \E i \in InputSlots : Form[i].key = key
  BY DEF FormKeys, InputSlots

\* What an input shows after the loading.
LEMMA LoadedInput ==
  ASSUME form \in DOMAIN Forms, NEW reading, NEW i \in InputSlots
  PROVE  /\ LoadedForm(reading)[Form[i].key] = IF \E j \in InputSlots : StandsBefore(j, i) /\ reading[j] = "raised"
                                              THEN "default" ELSE reading[i]
         /\ reading[i] = "raised" => LoadedForm(reading)[Form[i].key] = "default"
<1>1. LoadedForm(reading)[Form[i].key] = IF \E j \in InputSlots : StandsBefore(j, i) /\ reading[j] = "raised"
                                        THEN "default" ELSE reading[i]
  <2>1. PlaceOf(Form[i].key) = i /\ Form[i].key \in FormKeys
    BY PlaceOfKey
  <2>. QED  BY <2>1 DEF LoadedForm, InputSlots
<1>. QED  BY <1>1, PlaceOfKey

LEMMA ReadingShows ==
  ASSUME form \in DOMAIN Forms, NEW refuse \in Wrong, NEW i \in InputSlots,
         WordOf(i) \in Words \cup CanShow(Form[i].kind)
  PROVE  ReadInputs(refuse)[i] \in CanShow(Form[i].kind) \cup {"raised"}
<1>1. ReadInputs(refuse)[i] = Taken(ReadAs(Form[i].kind, WordOf(i)), refuse)
  BY DEF ReadInputs, InputSlots
<1>2. "default" \in CanShow(Form[i].kind)
  BY DEF CanShow, InRange, CameraNumbers
<1>3. CASE ReadAs(Form[i].kind, WordOf(i)) = Wrong
  BY <1>1, <1>2, <1>3 DEF Taken, Wrong
<1>4. CASE \E w \in CanShow(Form[i].kind) \cup {"raised"} : ReadAs(Form[i].kind, WordOf(i)) = {w}
  <2>1. PICK w \in CanShow(Form[i].kind) \cup {"raised"} : ReadAs(Form[i].kind, WordOf(i)) = {w}
    BY <1>4
  <2>2. {w} # Wrong /\ (CHOOSE x \in {w} : TRUE) = w
    BY DEF Wrong
  <2>. QED  BY <1>1, <2>1, <2>2 DEF Taken
<1>. QED  BY <1>3, <1>4, PlaceOfKey, ReadingIsShown

LEMMA LoadedShows ==
  ASSUME form \in DOMAIN Forms, NEW refuse \in Wrong, NEW i \in InputSlots,
         WordOf(i) \in Words \cup CanShow(Form[i].kind)
  PROVE  LoadedForm(ReadInputs(refuse))[Form[i].key] \in CanShow(Form[i].kind)
<1>1. "default" \in CanShow(Form[i].kind)
  BY DEF CanShow, InRange, CameraNumbers
<1>2. CASE ReadInputs(refuse)[i] = "raised"
  BY <1>1, <1>2, LoadedInput
<1>3. CASE ReadInputs(refuse)[i] # "raised"
  <2>1. ReadInputs(refuse)[i] \in CanShow(Form[i].kind)
    BY <1>3, ReadingShows
  <2>. QED  BY <1>1, <2>1, LoadedInput
<1>. QED  BY <1>2, <1>3

LEMMA InputsAreShown == ASSUME NEW kind \in InputKinds PROVE Inputs(kind) \subseteq CanShow(kind)
<1>1. CASE kind \in Texts
  BY <1>1 DEF Texts, Numbers, CameraNumbers, Inputs, CanShow
<1>2. CASE kind \in Numbers
  BY <1>2 DEF Texts, Numbers, CameraNumbers, Inputs, CanShow, InRange
<1>3. CASE kind \in InputKinds \ (Texts \cup Numbers)
  BY <1>3 DEF InputKinds, Texts, Numbers, CameraNumbers, Inputs, CanShow
<1>. QED  BY <1>1, <1>2, <1>3

LEMMA FieldsStart == FieldsInit => FieldsInv
<1>. SUFFICES ASSUME FieldsInit PROVE FieldsInv
  OBVIOUS
<1>1. form \in DOMAIN Forms /\ formOpen = "closed" /\ ~written /\ filled = [key \in FormKeys |-> "default"]
  BY DEF FieldsInit
<1>2. \A i \in InputSlots : Form[i].key \in FormKeys /\ "default" \in CanShow(Form[i].kind)
  BY <1>1, PlaceOfKey DEF CanShow, InRange, CameraNumbers
<1>3. ASSUME HasFields, NEW i \in InputSlots PROVE WordOf(i) \in Words
  <2>1. CASE content = NoFields("slots")
    <3>1. content.fields = << >> /\ DOMAIN << >> = {}
      BY <2>1 DEF NoFields
    <3>. QED  BY <3>1 DEF WordOf, Words
  <2>2. CASE content # NoFields("slots")
    <3>1. PICK key \in FormKeys, x \in Words, is \in {"json", "slots"} :
            content = [is |-> is, fields |-> [k \in FormKeys |-> IF k = key THEN x ELSE "other"]]
      BY <1>3, <2>2 DEF FieldsInit, NoFields, HasFields
    <3>2. content.fields = [k \in FormKeys |-> IF k = key THEN x ELSE "other"]
      BY <3>1
    <3>3. "missing" \in Words /\ "other" \in Words
      BY DEF Words
    <3>. QED  BY <3>2, <3>3 DEF WordOf
  <2>. QED  BY <2>1, <2>2
<1>. QED  BY <1>1, <1>2, <1>3 DEF FieldsInv

LEMMA FieldsStep == FieldsInv /\ [FieldsNext]_fieldVars => FieldsInv'
<1>. SUFFICES ASSUME FieldsInv, [FieldsNext]_fieldVars PROVE FieldsInv'
  OBVIOUS
<1>0. form \in DOMAIN Forms /\ form' = form /\ Form' = Form /\ InputSlots' = InputSlots /\ FormKeys' = FormKeys
  BY DEF FieldsInv, FieldsNext, fieldVars, LoadForm, FillInput, SaveForm, CloseForm, Form, InputSlots, FormKeys
<1>1. CASE LoadForm
  <2>1. content' = content /\ written' = written /\ shownLast' = shownLast /\ \A i \in InputSlots : WordOf(i)' = WordOf(i)
    BY <1>0, <1>1 DEF LoadForm, WordOf
  <2>2. HasFields => \E refuse \in Wrong : filled' = LoadedForm(ReadInputs(refuse))
    BY <1>1 DEF LoadForm
  <2>3. \A refuse : LoadedForm(ReadInputs(refuse))' = LoadedForm(ReadInputs(refuse))
    BY <1>0, <1>1 DEF LoadForm, LoadedForm, ReadInputs, WordOf, PlaceOf, StandsBefore
  <2>4. DOMAIN filled' = FormKeys
    BY <1>1, <2>2 DEF LoadForm, LoadedForm
  <2>5. ASSUME NEW i \in InputSlots PROVE filled'[Form[i].key] \in CanShow(Form[i].kind)
    <3>1. CASE HasFields
      BY <1>0, <2>2, <3>1, LoadedShows DEF FieldsInv
    <3>2. CASE ~HasFields
      BY <1>0, <1>1, <3>2, PlaceOfKey DEF LoadForm, CanShow, InRange, CameraNumbers
    <3>. QED  BY <3>1, <3>2
  <2>6. formOpen' = "failed" => content.is = "list"
    BY <1>1 DEF LoadForm
  <2>. HIDE DEF LoadForm
  <2>. QED  BY <1>0, <2>1, <2>2, <2>3, <2>4, <2>5, <2>6 DEF FieldsInv, HasFields
<1>2. CASE FillInput
  <2>1. /\ content' = content /\ written' = written /\ shownLast' = shownLast /\ fieldTouched' /\ formOpen' = formOpen
        /\ \A i \in InputSlots : WordOf(i)' = WordOf(i)
    BY <1>0, <1>2 DEF FillInput, WordOf
  <2>0. PICK i \in InputSlots : \E x \in Inputs(Form[i].kind) : filled' = [filled EXCEPT ![Form[i].key] = x]
    BY <1>2 DEF FillInput, InputSlots
  <2>2. PICK x \in Inputs(Form[i].kind) : filled' = [filled EXCEPT ![Form[i].key] = x]
    BY <2>0
  <2>3. x \in CanShow(Form[i].kind)
    <3>1. Form[i].kind \in InputKinds
      BY <1>0, PlaceOfKey
    <3>. QED  BY <2>2, <3>1, InputsAreShown
  <2>4. \A j \in InputSlots : Form[j].key = Form[i].key => j = i
    BY <1>0, FormsAreForms DEF InputSlots
  <2>5. DOMAIN filled' = FormKeys /\ \A j \in InputSlots : filled'[Form[j].key] \in CanShow(Form[j].kind)
    BY <1>0, <2>2, <2>3, <2>4, PlaceOfKey DEF FieldsInv
  <2>. QED  BY <1>0, <2>1, <2>5 DEF FieldsInv, HasFields
<1>3. CASE SaveForm
  <2>1. content' = [is |-> "json", fields |-> [key \in FormKeys |-> WordFor(key)]] /\ content'.is = "json"
    BY <1>3 DEF SaveForm
  <2>2. filled' = filled /\ shownLast' = filled /\ written' /\ fieldTouched' /\ formOpen' = "open"
    BY <1>3 DEF SaveForm
  <2>3. ASSUME NEW i \in InputSlots PROVE WordOf(i)' = WrittenWord(Form[i].kind, filled[Form[i].key])
    <3>1. PlaceOf(Form[i].key) = i /\ Form[i].key \in FormKeys
      BY <1>0, PlaceOfKey
    <3>2. WordFor(Form[i].key) = WrittenWord(Form[i].kind, filled[Form[i].key])
      BY <3>1 DEF WordFor, WrittenWord
    <3>3. content'.fields = [key \in FormKeys |-> WordFor(key)]
      BY <2>1
    <3>. QED  BY <1>0, <3>1, <3>2, <3>3 DEF WordOf
  <2>4. ASSUME NEW i \in InputSlots PROVE WrittenWord(Form[i].kind, filled[Form[i].key]) \in CanShow(Form[i].kind)
    <3>1. filled[Form[i].key] \in CanShow(Form[i].kind) /\ "default" \in CanShow(Form[i].kind)
      BY DEF FieldsInv, CanShow, InRange, CameraNumbers
    <3>. QED  BY <3>1 DEF WrittenWord
  <2>. QED  BY <1>0, <2>1, <2>2, <2>3, <2>4 DEF FieldsInv
<1>4. CASE CloseForm
  <2>1. /\ content' = content /\ written' = written /\ shownLast' = shownLast /\ filled' = filled /\ formOpen' = "closed"
        /\ \A i \in InputSlots : WordOf(i)' = WordOf(i)
    BY <1>0, <1>4 DEF CloseForm, WordOf
  <2>. QED  BY <1>0, <2>1 DEF FieldsInv, HasFields
<1>5. CASE UNCHANGED fieldVars
  <2>1. /\ content' = content /\ written' = written /\ shownLast' = shownLast /\ filled' = filled /\ formOpen' = formOpen
        /\ fieldTouched' = fieldTouched /\ \A i \in InputSlots : WordOf(i)' = WordOf(i)
    BY <1>0, <1>5 DEF fieldVars, WordOf
  <2>2. \A refuse : LoadedForm(ReadInputs(refuse))' = LoadedForm(ReadInputs(refuse))
    BY <1>0, <1>5 DEF fieldVars, LoadedForm, ReadInputs, WordOf, PlaceOf, StandsBefore
  <2>. QED  BY <1>0, <2>1, <2>2 DEF FieldsInv, HasFields
<1>. QED  BY <1>1, <1>2, <1>3, <1>4, <1>5 DEF FieldsNext

\* A reading in which nothing that stands before a field raises.
LEMMA ReadAsItStands ==
  ASSUME FieldsInv, HasFields, NEW refuse \in Wrong, NEW j \in InputSlots,
         \A i \in InputSlots : StandsBefore(i, j) => ReadInputs(refuse)[i] # "raised"
  PROVE  LoadedForm(ReadInputs(refuse))[Form[j].key] = ReadInputs(refuse)[j]
BY LoadedInput DEF FieldsInv

LEMMA OneWordIsTaken == ASSUME NEW w, NEW refuse PROVE Taken({w}, refuse) = w
<1>1. {w} # Wrong /\ (CHOOSE x \in {w} : TRUE) = w
  BY DEF Wrong
<1>. QED  BY <1>1 DEF Taken

\* What a number of the LiDAR tab shows after the loading.
LEMMA LoadedInRange ==
  ASSUME FieldsInv, HasFields, NEW refuse \in Wrong, NEW i \in InputSlots, Form[i].kind \in Ranged
  PROVE  LoadedForm(ReadInputs(refuse))[Form[i].key] \in InRange(Form[i].kind)
<1>1. PICK kind \in Ranged : Form[i].kind = kind
  OBVIOUS
<1>3. WordOf(i) \in Words \cup CanShow(kind)
  BY <1>1 DEF FieldsInv
<1>4. AsInt(WordOf(i)) \in {"default", "other", "zero", "negative", "large", "raised"}
        \/ (kind \in {"points", "distance", "pitch", "fov"} /\ AsInt(WordOf(i)) \in {"least", "most"})
  BY <1>3 DEF Words, AsInt, CanShow, InRange, Texts, Numbers, Ranged, CameraNumbers
<1>5. \E w \in InRange(kind) : ReadAs(kind, WordOf(i)) = {w}
  BY <1>4 DEF ReadAs, AsFloat, PortRange, Clamped, InRange, Ranged, CameraNumbers
<1>6. ReadInputs(refuse)[i] \in InRange(kind)
  <2>1. ReadInputs(refuse)[i] = Taken(ReadAs(kind, WordOf(i)), refuse)
    BY <1>1 DEF ReadInputs, InputSlots
  <2>2. PICK w \in InRange(kind) : ReadAs(kind, WordOf(i)) = {w}
    BY <1>5
  <2>3. Taken({w}, refuse) = w
    BY OneWordIsTaken
  <2>. QED  BY Zenon, <2>1, <2>2, <2>3
<1>7. "default" \in InRange(kind)
  BY DEF InRange, Ranged, CameraNumbers
<1>8. form \in DOMAIN Forms
  BY DEF FieldsInv
<1>. QED  BY <1>1, <1>6, <1>7, <1>8, LoadedInput

LEMMA FieldsAreRestored == FieldsInv => FieldsRestored
<1>. SUFFICES ASSUME FieldsInv PROVE FieldsRestored
  OBVIOUS
<1>0. form \in DOMAIN Forms
  BY DEF FieldsInv
<1>1. ASSUME formOpen # "closed", ~fieldTouched, written, NEW i \in DOMAIN Form
      PROVE  filled[Form[i].key] = Expected(Form[i].kind, shownLast[Form[i].key])
  <2>1. HasFields
    BY <1>1 DEF FieldsInv, HasFields
  <2>2. PICK refuse \in Wrong : filled = LoadedForm(ReadInputs(refuse))
    BY <1>1, <2>1 DEF FieldsInv
  <2>3. ASSUME NEW k \in InputSlots
        PROVE  /\ ReadInputs(refuse)[k] = Expected(Form[k].kind, shownLast[Form[k].key])
               /\ ReadInputs(refuse)[k] # "raised"
    <3>1. WordOf(k) = WrittenWord(Form[k].kind, shownLast[Form[k].key]) /\ shownLast[Form[k].key] \in CanShow(Form[k].kind)
      BY <1>1 DEF FieldsInv
    <3>2. Form[k].kind \in InputKinds
      BY <1>0, PlaceOfKey
    <3>3. /\ ReadAs(Form[k].kind, WordOf(k)) = {Expected(Form[k].kind, shownLast[Form[k].key])}
          /\ Expected(Form[k].kind, shownLast[Form[k].key]) \in CanShow(Form[k].kind)
      BY <3>1, <3>2, WrittenIsRead
    <3>4. "raised" \notin CanShow(Form[k].kind)
      BY DEF CanShow, InRange, CameraNumbers
    <3>5. ReadInputs(refuse)[k] = Taken(ReadAs(Form[k].kind, WordOf(k)), refuse)
      BY DEF ReadInputs, InputSlots
    <3>. QED  BY <3>3, <3>4, <3>5, OneWordIsTaken
  <2>4. i \in InputSlots
    BY DEF InputSlots
  <2>. QED  BY <2>1, <2>2, <2>3, <2>4, ReadAsItStands
<1>2. ASSUME formOpen # "closed", ~fieldTouched, HasFields, NEW j \in DOMAIN Form, Form[j].kind \in Ranged
      PROVE  filled[Form[j].key] \in InRange(Form[j].kind)
  <2>1. PICK refuse \in Wrong : filled = LoadedForm(ReadInputs(refuse))
    BY <1>2 DEF FieldsInv
  <2>. QED  BY <1>2, <2>1, LoadedInRange DEF InputSlots
<1>3. ASSUME formOpen # "closed", ~fieldTouched, HasFields, NEW j \in DOMAIN Form,
             \A i \in DOMAIN Form : StandsBefore(i, j) => WordOf(i) = "other"
      PROVE  filled[Form[j].key] = "other"
  <2>1. PICK refuse \in Wrong : filled = LoadedForm(ReadInputs(refuse))
    BY <1>3 DEF FieldsInv
  <2>2. ASSUME NEW i \in InputSlots, StandsBefore(i, j) PROVE ReadInputs(refuse)[i] = "other"
    <3>1. WordOf(i) = "other" /\ Form[i].kind \in InputKinds
      BY <1>0, <1>3, <2>2, PlaceOfKey DEF InputSlots
    <3>2. ReadInputs(refuse)[i] = Taken(ReadAs(Form[i].kind, WordOf(i)), refuse)
      BY DEF ReadInputs, InputSlots
    <3>. QED  BY <3>1, <3>2, OtherIsRead, OneWordIsTaken
  <2>3. j \in InputSlots /\ StandsBefore(j, j)
    BY <1>0, PlaceOfKey DEF InputSlots
  <2>. QED  BY <1>3, <2>1, <2>2, <2>3, ReadAsItStands
<1>4. formOpen = "failed" => ~written
  BY DEF FieldsInv
<1>. QED  BY <1>1, <1>2, <1>3, <1>4 DEF FieldsRestored

THEOREM FieldsStayRestored == FieldsSpec => []FieldsRestored
<1>1. FieldsSpec => []FieldsInv
  BY FieldsStart, FieldsStep, PTL DEF FieldsSpec
<1>. QED  BY <1>1, FieldsAreRestored, PTL

-----------------------------------------------------------------------------
(* ConsoleWindow: the endpoint, the title bar and the rows of tab buttons. *)

TabButtons == DOMAIN ButtonWidths
\* The packing of the buttons so far: the rows, and the width of the last one.
Packing == [rows : Seq(Seq(Nat)), width : Nat]
Put(avail, n, so) ==
  IF so.rows # << >> /\ so.width + Spacing + ButtonWidths[n] <= avail
  THEN [rows |-> [so.rows EXCEPT ![Len(so.rows)] = Append(@, n)], width |-> so.width + Spacing + ButtonWidths[n]]
  ELSE [rows |-> Append(so.rows, <<n>>), width |-> ButtonWidths[n]]

LEMMA ButtonsAre == Len(ButtonWidths) \in Nat /\ TabButtons = 1..Len(ButtonWidths) /\ \A n \in TabButtons : ButtonWidths[n] \in Nat
BY WindowAssumption DEF TabButtons

LEMMA PutIsPacking ==
  ASSUME NEW avail, NEW n \in TabButtons, NEW so \in Packing
  PROVE  Put(avail, n, so) \in Packing
<1>1. so.rows \in Seq(Seq(Nat)) /\ so.width \in Nat /\ n \in Nat /\ ButtonWidths[n] \in Nat /\ Spacing \in Nat
  BY WindowAssumption, ButtonsAre DEF Packing
<1>2. Append(so.rows, <<n>>) \in Seq(Seq(Nat))
  <2>1. <<n>> \in Seq(Nat)
    BY <1>1
  <2>. QED  BY <1>1, <2>1
<1>3. so.rows # << >> => [so.rows EXCEPT ![Len(so.rows)] = Append(@, n)] \in Seq(Seq(Nat))
  <2>. DEFINE R == Seq(Nat)
  <2>1. so.rows # << >> => Len(so.rows) \in 1..Len(so.rows) /\ so.rows[Len(so.rows)] \in Seq(Nat)
    BY <1>1
  <2>2. so.rows # << >> => Append(so.rows[Len(so.rows)], n) \in Seq(Nat)
    BY <1>1, <2>1
  <2>3. so.rows \in Seq(R)
    BY <1>1
  <2>. HIDE DEF R
  <2>4. \A x \in R : so.rows # << >> => [so.rows EXCEPT ![Len(so.rows)] = x] \in Seq(R)
    BY <2>3
  <2>. QED  BY <2>2, <2>4 DEF R
<1>4. so.width + Spacing + ButtonWidths[n] \in Nat
  BY <1>1
<1>. QED  BY <1>1, <1>2, <1>3, <1>4 DEF Put, Packing

LEMMA PackedByOne ==
  ASSUME NEW avail
  PROVE  /\ \A n \in 0..Len(ButtonWidths) : PackedUpTo(avail)[n] \in Packing
         /\ PackedUpTo(avail)[0] = [rows |-> << >>, width |-> 0]
         /\ \A n \in TabButtons : PackedUpTo(avail)[n] = Put(avail, n, PackedUpTo(avail)[n - 1])
<1>. DEFINE N == Len(ButtonWidths)
            none == [rows |-> << >>, width |-> 0]
            packed == CHOOSE g : g = [n \in 0..N |-> IF n = 0 THEN none ELSE Put(avail, n, g[n - 1])]
            step == [n \in Nat |-> [x \in Packing |-> IF n \in 1..N THEN Put(avail, n, x) ELSE x]]
<1>1. PackedUpTo(avail) = packed
  BY DEF PackedUpTo, Put
<1>2. /\ StepsIn(Packing, none, step) /\ N \in Nat
      /\ \A n \in 1..N : \A x \in Packing : step[n][x] = Put(avail, n, x)
  <2>1. \A n \in 1..N : \A x \in Packing : Put(avail, n, x) \in Packing
    BY PutIsPacking, ButtonsAre
  <2>2. none \in Packing
    <3>1. << >> \in Seq(Seq(Nat))
      OBVIOUS
    <3>. QED  BY <3>1 DEF Packing
  <2>. HIDE DEF none
  <2>. QED  BY <2>1, <2>2, ButtonsAre DEF StepsIn
<1>. HIDE DEF none
<1>3. PICK g : RunsTo(g, Packing, none, N, step)
  <2>. HIDE DEF step, N
  <2>. QED  BY <1>2, RecursionUpTo
<1>4. g = [n \in 0..N |-> IF n = 0 THEN none ELSE Put(avail, n, g[n - 1])]
  <2>. HIDE DEF step
  <2>1. ASSUME NEW n \in 0..N, n # 0
        PROVE  step[n][g[n - 1]] = Put(avail, n, g[n - 1])
    <3>1. n \in 1..N /\ n - 1 \in 0..N
      BY <1>2, <2>1
    <3>2. g[n - 1] \in Packing
      BY <3>1, <1>3 DEF RunsTo
    <3>. QED  BY <1>2, <3>1, <3>2
  <2>. HIDE DEF N
  <2>. QED  BY <2>1, <1>3 DEF RunsTo
<1>5. packed = [n \in 0..N |-> IF n = 0 THEN none ELSE Put(avail, n, packed[n - 1])]
  BY <1>4
<1>. HIDE DEF packed, N
<1>6. \A n \in 1..N : n \in 0..N /\ n # 0
  BY <1>2
<1>7. packed[0] = none /\ \A n \in 1..N : packed[n] = Put(avail, n, packed[n - 1])
  BY <1>2, <1>5, <1>6
<1>8. \A n \in 1..N : packed[n - 1] \in Packing => packed[n] \in Packing
  BY <1>7, PutIsPacking, ButtonsAre DEF N
<1>9. none \in Packing
  BY <1>2 DEF StepsIn
<1>10. \A n \in 0..N : packed[n] \in Packing
  BY <1>2, <1>7, <1>8, <1>9, HoldsUpTo
<1>. QED  BY <1>1, <1>7, <1>10, ButtonsAre DEF N, none

LEMMA WidthsByOne ==
  ASSUME NEW row \in Seq(TabButtons)
  PROVE  /\ \A k \in 0..Len(row) : WidthUpTo(row)[k] \in Int
         /\ WidthUpTo(row)[0] = 0
         /\ \A k \in 1..Len(row) : WidthUpTo(row)[k] = WidthUpTo(row)[k - 1] + ButtonWidths[row[k]] + Spacing
<1>. DEFINE N == Len(row)
            upTo == CHOOSE g : g = [k \in 0..N |-> IF k = 0 THEN 0 ELSE g[k - 1] + ButtonWidths[row[k]] + Spacing]
            step == [k \in Nat |-> [x \in Int |-> IF k \in 1..N THEN x + ButtonWidths[row[k]] + Spacing ELSE x]]
<1>1. WidthUpTo(row) = upTo
  BY DEF WidthUpTo
<1>2. N \in Nat /\ Spacing \in Int /\ \A k \in 1..N : ButtonWidths[row[k]] \in Int
  BY WindowAssumption, ButtonsAre
<1>3. /\ StepsIn(Int, 0, step)
      /\ \A k \in 1..N : \A x \in Int : step[k][x] = x + ButtonWidths[row[k]] + Spacing
  BY <1>2 DEF StepsIn
<1>4. PICK g : RunsTo(g, Int, 0, N, step)
  <2>. HIDE DEF step, N
  <2>. QED  BY <1>2, <1>3, RecursionUpTo
<1>5. g = [k \in 0..N |-> IF k = 0 THEN 0 ELSE g[k - 1] + ButtonWidths[row[k]] + Spacing]
  <2>. HIDE DEF step
  <2>1. ASSUME NEW k \in 0..N, k # 0
        PROVE  step[k][g[k - 1]] = g[k - 1] + ButtonWidths[row[k]] + Spacing
    <3>1. k \in 1..N /\ k - 1 \in 0..N
      BY <1>2, <2>1
    <3>2. g[k - 1] \in Int
      BY <3>1, <1>4 DEF RunsTo
    <3>. QED  BY <1>3, <3>1, <3>2
  <2>. HIDE DEF N
  <2>. QED  BY <2>1, <1>4 DEF RunsTo
<1>6. upTo = [k \in 0..N |-> IF k = 0 THEN 0 ELSE upTo[k - 1] + ButtonWidths[row[k]] + Spacing]
  BY <1>5
<1>. HIDE DEF upTo, N
<1>7. \A k \in 1..N : k \in 0..N /\ k # 0
  BY <1>2
<1>8. upTo[0] = 0 /\ \A k \in 1..N : upTo[k] = upTo[k - 1] + ButtonWidths[row[k]] + Spacing
  BY <1>2, <1>6, <1>7
<1>9. \A k \in 1..N : upTo[k - 1] \in Int => upTo[k] \in Int
  BY <1>2, <1>8
<1>10. \A k \in 0..N : upTo[k] \in Int
  <2>1. upTo[0] \in Int
    BY <1>8
  <2>. QED  BY <1>2, <1>9, <2>1, HoldsUpTo
<1>. QED  BY <1>1, <1>8, <1>10 DEF N

LEMMA RowWidths ==
  ASSUME NEW row \in Seq(TabButtons), NEW i \in TabButtons
  PROVE  /\ RowWidth(row) \in Int /\ RowWidth(Append(row, i)) = RowWidth(row) + Spacing + ButtonWidths[i]
         /\ RowWidth(<<i>>) = ButtonWidths[i]
<1>1. /\ Len(row) \in Nat /\ Append(row, i) \in Seq(TabButtons) /\ Len(Append(row, i)) = Len(row) + 1
      /\ <<i>> \in Seq(TabButtons) /\ Len(<<i>>) = 1 /\ Append(row, i)[Len(row) + 1] = i /\ <<i>>[1] = i
      /\ \A k \in 1..Len(row) : Append(row, i)[k] = row[k]
  OBVIOUS
<1>2. Spacing \in Int /\ \A k \in TabButtons : ButtonWidths[k] \in Int
  BY WindowAssumption, ButtonsAre
<1>3. PICK f : f = WidthUpTo(row)
  OBVIOUS
<1>4. PICK g : g = WidthUpTo(Append(row, i))
  OBVIOUS
<1>5. /\ \A k \in 0..Len(row) : f[k] \in Int
      /\ f[0] = 0 /\ \A k \in 1..Len(row) : f[k] = f[k - 1] + ButtonWidths[row[k]] + Spacing
  BY <1>3, WidthsByOne
<1>6. /\ g[0] = 0
      /\ \A k \in 1..(Len(row) + 1) : g[k] = g[k - 1] + ButtonWidths[Append(row, i)[k]] + Spacing
  BY <1>1, <1>4, WidthsByOne
<1>7. \A k \in 0..Len(row) : g[k] = f[k]
  <2>. DEFINE T == {k \in Nat : k <= Len(row) => g[k] = f[k]}
  <2>1. 0 \in T
    BY <1>5, <1>6
  <2>2. ASSUME NEW k \in Nat, k \in T PROVE k + 1 \in T
    <3>1. CASE k + 1 <= Len(row)
      <4>1. k + 1 \in 1..Len(row) /\ k + 1 \in 1..(Len(row) + 1) /\ (k + 1) - 1 = k
        BY <1>1, <3>1
      <4>2. g[k] = f[k]
        BY <1>1, <2>2, <3>1
      <4>. QED  BY SMTT(30), <1>1, <1>5, <1>6, <4>1, <4>2
    <3>. QED  BY <1>1, <3>1
  <2>. HIDE DEF T
  <2>3. \A k \in Nat : k \in T
    BY <2>1, <2>2, Induct
  <2>. QED  BY <1>1, <2>3 DEF T
<1>8. g[Len(row) + 1] = f[Len(row)] + ButtonWidths[i] + Spacing
  <2>1. Len(row) + 1 \in 1..(Len(row) + 1) /\ (Len(row) + 1) - 1 = Len(row) /\ Len(row) \in 0..Len(row)
    BY <1>1
  <2>. QED  BY <1>1, <1>6, <1>7, <2>1
<1>9. RowWidth(row) = f[Len(row)] - Spacing /\ RowWidth(Append(row, i)) = g[Len(row) + 1] - Spacing /\ f[Len(row)] \in Int
  BY <1>1, <1>3, <1>4, <1>5 DEF RowWidth
<1>10. RowWidth(<<i>>) = ButtonWidths[i]
  <2>1. PICK h : h = WidthUpTo(<<i>>)
    OBVIOUS
  <2>2. PICK one \in Seq(TabButtons) : one = <<i>> /\ Len(one) = 1 /\ one[1] = i
    BY <1>1
  <2>3. h[0] = 0 /\ \A k \in 1..1 : h[k] = h[k - 1] + ButtonWidths[one[k]] + Spacing
    BY <2>1, <2>2, WidthsByOne
  <2>4. h[1] = h[0] + ButtonWidths[i] + Spacing
    BY <2>2, <2>3
  <2>. QED  BY <1>1, <1>2, <2>1, <2>3, <2>4 DEF RowWidth
<1>. QED  BY <1>2, <1>8, <1>9, <1>10

\* A row of buttons in their order, no wider than it may be; two rows, of
\* which the first could not take the first button of the second.
RowFits(avail, row) == row \in Seq(TabButtons) /\ OneByOne(row) /\ (Len(row) > 1 => RowWidth(row) <= avail)
RowsMeet(avail, row, first) == first = Last(row) + 1 /\ RowWidth(Append(row, first)) > avail

LEMMA OneButtonFits ==
  ASSUME NEW avail, NEW n \in TabButtons
  PROVE  RowFits(avail, <<n>>) /\ RowWidth(<<n>>) = ButtonWidths[n] /\ <<n>>[1] = n /\ Last(<<n>>) = n
<1>1. << >> \in Seq(TabButtons) /\ n \in Int
  BY ButtonsAre
<1>2. RowWidth(<<n>>) = ButtonWidths[n]
  BY <1>1, RowWidths
<1>. QED  BY <1>1, <1>2 DEF RowFits, OneByOne, Last

LEMMA OneMoreFits ==
  ASSUME NEW avail \in Int, NEW n \in TabButtons, NEW row \in Seq(TabButtons), OneByOne(row), Last(row) = n - 1,
         RowWidth(row) + Spacing + ButtonWidths[n] <= avail
  PROVE  /\ RowFits(avail, Append(row, n)) /\ RowWidth(Append(row, n)) = RowWidth(row) + Spacing + ButtonWidths[n]
         /\ Append(row, n)[1] = row[1] /\ Last(Append(row, n)) = n
<1>1. RowWidth(Append(row, n)) = RowWidth(row) + Spacing + ButtonWidths[n]
  BY RowWidths
<1>2. PICK l \in Nat \ {0} : l = Len(row) /\ DOMAIN row = 1..l
  BY DEF OneByOne
<1>3. PICK more : more = Append(row, n)
  OBVIOUS
<1>9. Append(row, n) \in Seq(TabButtons)
  OBVIOUS
<1>4. /\ more \in Seq(TabButtons) /\ Len(more) = l + 1 /\ DOMAIN more = 1..(l + 1) /\ more # << >> /\ more[l + 1] = n
      /\ \A k \in 1..l : more[k] = row[k]
  BY <1>2, <1>3, <1>9
<1>5. \A k \in 1..l : row[k] = row[1] + k - 1 /\ row[k] \in Int
  <2>1. \A k \in 1..l : row[k] \in TabButtons
    BY <1>2
  <2>2. \A k \in 1..l : row[k] = row[1] + k - 1
    BY <1>2 DEF OneByOne
  <2>. QED  BY <2>1, <2>2, ButtonsAre
<1>6. n \in Int /\ row[l] = n - 1 /\ 1 \in 1..l /\ l \in 1..l
  BY <1>2, ButtonsAre DEF Last
<1>7. n = row[1] + l /\ row[1] \in Int
  <2>1. row[l] = row[1] + l - 1 /\ row[1] \in Int
    BY <1>5, <1>6
  <2>. QED  BY <1>6, <2>1
<1>8. ASSUME NEW k \in 1..(l + 1) PROVE more[k] = more[1] + k - 1
  <2>1. more[1] = row[1] /\ (k \in 1..l \/ k = l + 1)
    BY <1>4, <1>6
  <2>2. CASE k \in 1..l
    BY <1>4, <1>5, <2>1, <2>2
  <2>3. CASE k = l + 1
    BY <1>2, <1>4, <1>7, <2>1, <2>3
  <2>. QED  BY <2>1, <2>2, <2>3
<1>. QED  BY <1>1, <1>3, <1>4, <1>6, <1>8 DEF RowFits, OneByOne, Last

\* The first n buttons are packed.
PackedWell(avail, so, n) ==
  /\ so.rows = << >> => n = 0
  /\ so.rows # << >> => /\ so.rows[1][1] = 1 /\ Last(so.rows[Len(so.rows)]) = n
                        /\ so.width = RowWidth(so.rows[Len(so.rows)])
  /\ \A r \in 1..Len(so.rows) :
       /\ RowFits(avail, so.rows[r])
       /\ r < Len(so.rows) => RowsMeet(avail, so.rows[r], so.rows[r + 1][1])

LEMMA PutPacksWell ==
  ASSUME NEW avail \in Int, NEW n \in TabButtons, NEW so \in Packing, PackedWell(avail, so, n - 1)
  PROVE  PackedWell(avail, Put(avail, n, so), n)
<1>. DEFINE R == Seq(Nat)
<1>1. so.rows \in Seq(R) /\ so.width \in Nat
  BY DEF Packing
<1>2. <<n>> \in R /\ n \in Nat
  BY ButtonsAre
<1>3. \A x \in R : Append(x, n) \in R
  BY <1>2
<1>. HIDE DEF R
<1>4. PICK rows \in Seq(R), m \in Nat : rows = so.rows /\ m = Len(rows) /\ DOMAIN rows = 1..m /\ (rows = << >> <=> m = 0)
  BY <1>1
<1>5. /\ m = 0 => n = 1
      /\ m > 0 => /\ rows[1][1] = 1 /\ Last(rows[m]) = n - 1 /\ so.width = RowWidth(rows[m]) /\ m \in 1..m /\ 1 \in 1..m
      /\ \A r \in 1..m : RowFits(avail, rows[r]) /\ (r < m => RowsMeet(avail, rows[r], rows[r + 1][1]))
  <2>1. n - 1 = 0 => n = 1
    BY <1>2
  <2>2. m = 0 => n = 1
    BY <1>4, <2>1 DEF PackedWell
  <2>3. m > 0 => /\ rows[1][1] = 1 /\ Last(rows[m]) = n - 1 /\ so.width = RowWidth(rows[m])
    BY <1>4 DEF PackedWell
  <2>4. ASSUME NEW r \in 1..m PROVE RowFits(avail, rows[r]) /\ (r < m => RowsMeet(avail, rows[r], rows[r + 1][1]))
    <3>1. r \in 1..Len(so.rows) /\ so.rows[r] = rows[r] /\ so.rows[r + 1] = rows[r + 1] /\ Len(so.rows) = m
      BY <1>4
    <3>2. RowFits(avail, so.rows[r]) /\ (r < Len(so.rows) => RowsMeet(avail, so.rows[r], so.rows[r + 1][1]))
      BY <3>1 DEF PackedWell
    <3>. QED  BY <3>1, <3>2
  <2>. QED  BY <2>2, <2>3, <2>4
<1>6. CASE m > 0 /\ so.width + Spacing + ButtonWidths[n] <= avail
  <2>1. PICK new : new = [rows EXCEPT ![m] = Append(@, n)]
    OBVIOUS
  <2>2. Put(avail, n, so) = [rows |-> new, width |-> so.width + Spacing + ButtonWidths[n]]
    BY <1>4, <1>6, <2>1 DEF Put
  <2>3. new \in Seq(R) /\ Len(new) = m /\ new[m] = Append(rows[m], n) /\ \A r \in 1..m : r # m => new[r] = rows[r]
    <3>1. PICK x \in R : x = Append(rows[m], n)
      <4>1. rows[m] \in R
        BY <1>4, <1>5, <1>6
      <4>. QED  BY <1>3, <4>1
    <3>2. new = [rows EXCEPT ![m] = x] /\ m \in 1..m
      BY <1>5, <1>6, <2>1, <3>1
    <3>. QED  BY <1>4, <3>1, <3>2
  <2>4. /\ RowFits(avail, new[m]) /\ RowWidth(new[m]) = so.width + Spacing + ButtonWidths[n]
        /\ new[m][1] = rows[m][1] /\ Last(new[m]) = n
    <3>1. rows[m] \in Seq(TabButtons) /\ OneByOne(rows[m]) /\ Last(rows[m]) = n - 1
      BY <1>5, <1>6 DEF RowFits
    <3>2. RowWidth(rows[m]) + Spacing + ButtonWidths[n] <= avail
      BY <1>5, <1>6
    <3>. QED  BY <1>5, <1>6, <2>3, <3>1, <3>2, OneMoreFits
  <2>5. ASSUME NEW r \in 1..m
        PROVE  RowFits(avail, new[r]) /\ new[r][1] = rows[r][1] /\ (r < m => RowsMeet(avail, new[r], new[r + 1][1]))
    <3>1. CASE r = m
      BY <2>4, <3>1
    <3>2. CASE r < m
      <4>1. r + 1 \in 1..m /\ r # m
        BY <3>2
      <4>2. new[r] = rows[r] /\ new[r + 1][1] = rows[r + 1][1]
        BY <2>3, <2>4, <4>1
      <4>. QED  BY <1>5, <3>2, <4>2
    <3>. QED  BY <3>1, <3>2
  <2>6. new # << >> /\ new[1][1] = 1
    BY <1>5, <1>6, <2>3, <2>5
  <2>7. Put(avail, n, so).rows = new /\ Put(avail, n, so).width = so.width + Spacing + ButtonWidths[n]
    BY <2>2
  <2>. QED  BY <2>3, <2>4, <2>5, <2>6, <2>7 DEF PackedWell
<1>7. CASE ~(m > 0 /\ so.width + Spacing + ButtonWidths[n] <= avail)
  <2>1. PICK x \in R : x = <<n>>
    BY <1>2
  <2>2. PICK new : new = Append(rows, x)
    OBVIOUS
  <2>3. Put(avail, n, so) = [rows |-> new, width |-> ButtonWidths[n]]
    BY <1>4, <1>7, <2>1, <2>2 DEF Put
  <2>4. new \in Seq(R) /\ Len(new) = m + 1 /\ new[m + 1] = x /\ \A r \in 1..m : new[r] = rows[r]
    BY <1>4, <2>2
  <2>5. RowFits(avail, x) /\ RowWidth(x) = ButtonWidths[n] /\ x[1] = n /\ Last(x) = n
    BY <2>1, OneButtonFits
  <2>6. m > 0 => RowsMeet(avail, rows[m], n)
    <3>1. SUFFICES ASSUME m > 0 PROVE RowsMeet(avail, rows[m], n)
      OBVIOUS
    <3>2. rows[m] \in Seq(TabButtons) /\ Last(rows[m]) = n - 1 /\ so.width = RowWidth(rows[m])
      BY <1>5, <3>1 DEF RowFits
    <3>3. RowWidth(Append(rows[m], n)) = RowWidth(rows[m]) + Spacing + ButtonWidths[n]
      BY <3>2, RowWidths
    <3>4. so.width + Spacing + ButtonWidths[n] > avail
      BY SMTT(30), <1>1, <1>7, <3>1, WindowAssumption, ButtonsAre
    <3>. QED  BY <1>2, <3>2, <3>3, <3>4 DEF RowsMeet
  <2>7. ASSUME NEW r \in 1..(m + 1)
        PROVE  RowFits(avail, new[r]) /\ (r < m + 1 => RowsMeet(avail, new[r], new[r + 1][1]))
    <3>1. CASE r = m + 1
      BY <2>4, <2>5, <3>1
    <3>2. CASE r = m
      <4>1. m > 0 /\ r \in 1..m
        BY <3>2
      <4>. QED  BY <1>5, <2>4, <2>5, <2>6, <3>2, <4>1
    <3>3. CASE r < m
      <4>1. r + 1 \in 1..m /\ r \in 1..m
        BY <3>3
      <4>. QED  BY <1>5, <2>4, <3>3, <4>1
    <3>. QED  BY <3>1, <3>2, <3>3
  <2>8. new # << >> /\ new[1][1] = 1
    <3>1. CASE m = 0
      <4>1. n = 1 /\ new[1] = x /\ Len(new) = 1
        BY <1>5, <2>4, <3>1
      <4>2. new # << >>
        BY <2>4, <4>1
      <4>3. x[1] = 1
        BY <2>5, <4>1
      <4>. QED  BY <4>1, <4>2, <4>3, Zenon
    <3>2. CASE m > 0
      BY <1>5, <2>4, <3>2
    <3>. QED  BY <3>1, <3>2
  <2>. QED  BY <2>3, <2>4, <2>5, <2>7, <2>8 DEF PackedWell
<1>. QED  BY <1>6, <1>7

LEMMA RowsArePacked ==
  ASSUME NEW avail \in Int
  PROVE  /\ PackedWell(avail, PackedUpTo(avail)[Len(ButtonWidths)], Len(ButtonWidths))
         /\ PackedRows(avail) \in Seq(Seq(Nat))
<1>. DEFINE N == Len(ButtonWidths)
            T == {n \in Nat : n <= N => PackedWell(avail, PackedUpTo(avail)[n], n)}
<1>1. 0 \in T
  <2>1. PackedUpTo(avail)[0].rows = << >>
    BY PackedByOne
  <2>. QED  BY <2>1 DEF PackedWell
<1>2. ASSUME NEW n \in Nat, n \in T PROVE n + 1 \in T
  <2>1. CASE n + 1 <= N
    <3>1. n + 1 \in TabButtons /\ (n + 1) - 1 = n /\ n \in 0..N
      BY <2>1, ButtonsAre
    <3>2. PackedWell(avail, PackedUpTo(avail)[n], n) /\ PackedUpTo(avail)[n] \in Packing
      BY <1>2, <2>1, <3>1, ButtonsAre, PackedByOne
    <3>3. PackedUpTo(avail)[n + 1] = Put(avail, n + 1, PackedUpTo(avail)[n])
      BY <3>1, PackedByOne
    <3>. QED  BY <3>1, <3>2, <3>3, PutPacksWell
  <2>. QED  BY <2>1, ButtonsAre
<1>. HIDE DEF T
<1>3. \A n \in Nat : n \in T
  BY <1>1, <1>2, Induct
<1>4. N \in Nat /\ PackedUpTo(avail)[N] \in Packing
  BY ButtonsAre, PackedByOne
<1>. QED  BY <1>3, <1>4 DEF T, Packing, PackedRows

\* Where the buttons of packed rows are found.
LEMMA RowsInOrder ==
  ASSUME NEW avail \in Int, NEW rows, rows = PackedRows(avail), rows # << >>
  PROVE  /\ InRows(rows, Len(ButtonWidths))
         /\ \A r \in DOMAIN rows :
              /\ Len(rows[r]) > 1 => RowWidth(rows[r]) <= avail
              /\ r < Len(rows) => RowWidth(Append(rows[r], rows[r + 1][1])) > avail
         /\ rows \in Seq(Seq(Nat))
<1>1. PICK so : so = PackedUpTo(avail)[Len(ButtonWidths)]
  OBVIOUS
<1>2. rows = so.rows /\ PackedWell(avail, so, Len(ButtonWidths)) /\ rows \in Seq(Seq(Nat))
  BY <1>1, RowsArePacked DEF PackedRows
<1>3. DOMAIN rows = 1..Len(rows)
  <2>. DEFINE R == Seq(Nat)
  <2>. HIDE DEF R
  <2>1. rows \in Seq(R)
    BY <1>2 DEF R
  <2>. QED  BY <2>1
<1>4. \A r \in 1..Len(rows) : RowFits(avail, rows[r]) /\ (r < Len(rows) => RowsMeet(avail, rows[r], rows[r + 1][1]))
  BY <1>2 DEF PackedWell
<1>5. rows[1][1] = 1 /\ Last(rows[Len(rows)]) = Len(ButtonWidths)
  BY <1>2 DEF PackedWell
<1>. QED  BY <1>2, <1>3, <1>4, <1>5 DEF InRows, RowFits, RowsMeet, Last

LEMMA RowBounds ==
  ASSUME NEW avail, NEW row, RowFits(avail, row)
  PROVE  /\ row[1] \in Int /\ Last(row) \in Int /\ row[1] <= Last(row)
         /\ \A i : Contains(row, i) => i \in Int /\ row[1] <= i /\ i <= Last(row)
<1>1. PICK l \in Nat \ {0} : l = Len(row) /\ DOMAIN row = 1..l /\ \A k \in 1..l : row[k] \in TabButtons
  BY DEF RowFits, OneByOne
<1>2. \A k \in 1..l : row[k] = row[1] + k - 1 /\ row[k] \in Int
  <2>1. \A k \in 1..l : row[k] = row[1] + k - 1
    BY <1>1 DEF RowFits, OneByOne
  <2>2. \A k \in TabButtons : k \in Int
    BY ButtonsAre
  <2>. QED  BY <1>1, <2>1, <2>2
<1>3. 1 \in 1..l /\ l \in 1..l /\ Last(row) = row[l]
  BY <1>1 DEF Last
<1>4. \A k \in 1..l : row[1] <= row[k] /\ row[k] <= row[l]
  BY <1>2, <1>3
<1>5. \A i : Contains(row, i) => \E k \in 1..l : row[k] = i
  BY <1>1 DEF Contains
<1>. QED  BY <1>2, <1>3, <1>4, <1>5

\* A button is in one row only: the rows ascend.
LEMMA RowsAscend ==
  ASSUME NEW avail \in Int, NEW so, NEW n, PackedWell(avail, so, n), Len(so.rows) \in Nat,
         NEW r \in 1..Len(so.rows), NEW q \in 1..Len(so.rows), r < q
  PROVE  Last(so.rows[r]) < so.rows[q][1]
<1>0. PICK rows : rows = so.rows
  OBVIOUS
<1>1. PICK m \in Nat : rows = so.rows /\ m = Len(so.rows)
  BY <1>0
<1>2. \A p \in 1..m : RowFits(avail, rows[p]) /\ (p < m => RowsMeet(avail, rows[p], rows[p + 1][1]))
  BY <1>1 DEF PackedWell
<1>3. \A p \in 1..m : rows[p][1] \in Int /\ Last(rows[p]) \in Int /\ rows[p][1] <= Last(rows[p])
  BY <1>2, RowBounds
<1>. DEFINE T == {d \in Nat : r + 1 + d <= m => Last(rows[r]) < rows[r + 1 + d][1]}
<1>4. 0 \in T
  <2>1. r + 1 <= m => r < m /\ r \in 1..m /\ r + 1 \in 1..m /\ r + 1 + 0 = r + 1
    BY <1>1
  <2>2. r + 1 <= m => Last(rows[r]) < rows[r + 1][1]
    BY SMTT(30), <1>2, <1>3, <2>1 DEF RowsMeet
  <2>. QED  BY <1>1, <2>1, <2>2
<1>5. ASSUME NEW d \in Nat, d \in T PROVE d + 1 \in T
  <2>1. CASE r + 1 + (d + 1) <= m
    <3>1. PICK p \in 1..m : p = r + 1 + d /\ p < m /\ p + 1 \in 1..m /\ r + 1 + (d + 1) = p + 1 /\ r \in 1..m
      BY <1>1, <2>1
    <3>2. Last(rows[r]) < rows[p][1]
      BY <1>1, <1>5, <3>1
    <3>3. rows[p + 1][1] = Last(rows[p]) + 1
      BY <1>2, <3>1 DEF RowsMeet
    <3>4. Last(rows[r]) < rows[p + 1][1]
      BY <1>3, <3>1, <3>2, <3>3
    <3>. QED  BY <3>1, <3>4
  <2>. QED  BY <1>1, <2>1
<1>. HIDE DEF T
<1>6. \A d \in Nat : d \in T
  BY <1>4, <1>5, Induct
<1>7. q - r - 1 \in Nat /\ r + 1 + (q - r - 1) = q /\ q <= m
  BY <1>1
<1>8. r + 1 + (q - r - 1) <= m => Last(rows[r]) < rows[r + 1 + (q - r - 1)][1]
  BY <1>6, <1>7 DEF T
<1>. QED  BY <1>1, <1>7, <1>8

LEMMA InOneRow ==
  ASSUME NEW avail \in Int, NEW rows, rows = PackedRows(avail),
         NEW r \in DOMAIN rows, NEW q \in DOMAIN rows, NEW i, Contains(rows[r], i), Contains(rows[q], i)
  PROVE  r = q
<1>1. PICK so : so = PackedUpTo(avail)[Len(ButtonWidths)]
  OBVIOUS
<1>2. rows = so.rows /\ PackedWell(avail, so, Len(ButtonWidths)) /\ rows \in Seq(Seq(Nat))
  BY <1>1, RowsArePacked DEF PackedRows
<1>3. DOMAIN rows = 1..Len(rows) /\ Len(rows) \in Nat
  <2>. DEFINE R == Seq(Nat)
  <2>. HIDE DEF R
  <2>1. rows \in Seq(R)
    BY <1>2 DEF R
  <2>. QED  BY <2>1
<1>4. /\ \A p \in 1..Len(rows) : RowFits(avail, rows[p])
      /\ \A p, o \in 1..Len(rows) : p < o => Last(rows[p]) < rows[o][1]
  <2>1. \A p \in 1..Len(rows) : RowFits(avail, rows[p])
    BY <1>2 DEF PackedWell
  <2>2. \A p, o \in 1..Len(rows) : p < o => Last(rows[p]) < rows[o][1]
    BY <1>2, <1>3, RowsAscend
  <2>. QED  BY <2>1, <2>2
<1>5. /\ i \in Int /\ rows[r][1] <= i /\ i <= Last(rows[r]) /\ rows[q][1] <= i /\ i <= Last(rows[q])
      /\ rows[r][1] \in Int /\ rows[q][1] \in Int /\ Last(rows[r]) \in Int /\ Last(rows[q]) \in Int
  BY <1>3, <1>4, RowBounds
<1>6. ~(r < q) /\ ~(q < r)
  BY <1>3, <1>4, <1>5
<1>. QED  BY <1>3, <1>6

-----------------------------------------------------------------------------
ListsOfRows == Seq(Seq(Nat))
Endpoints == [ip : IpTexts, port : PortTexts]
RowsInv ==
  /\ windowWidth \in Int /\ lastWidth \in Int /\ (windowFile.is = "json" => windowFile.width \in Int)
  /\ measured \in BOOLEAN /\ (~measured => tabRows = << >>)
  /\ tabRows \in ListsOfRows /\ rowsShown = 1..Len(tabRows)
  /\ tabRows # << >> =>
       /\ tabRows = PackedRows(lastWidth)
       /\ \A r \in DOMAIN tabRows : \A i \in DOMAIN ButtonWidths : Contains(tabRows[r], i) => rowOf[i] = r
BarInv ==
  /\ server \in Endpoints /\ ValidEndpoint(server) /\ typed \in Endpoints
  /\ statusPosted \in Seq([connected : BOOLEAN, editing : BOOLEAN])
  /\ link # "none" /\ ~typedLate => Typing = peer
  /\ link = "connected" /\ ~typedLate /\ statusPosted = << >> => barShown = peer
WindowFileInv ==
  /\ windowState \in {"down", "up", "saving", "exit"}
  /\ windowFile.is = "json" => windowFile.endpoint \in Endpoints
  /\ keptEndpoint = << >> \/ \E e \in Endpoints : ValidEndpoint(e) /\ keptEndpoint = <<e>>
  /\ windowState \in {"saving", "exit"} => keptEndpoint # << >> /\ windowFile = TornWindow
  /\ windowState \in {"up", "down"} /\ keptEndpoint # << >> =>
       windowFile.is = "json" /\ windowFile.endpoint = keptEndpoint[1]
WindowInv == RowsInv /\ BarInv /\ WindowFileInv

LEMMA WindowStart == WindowInit => WindowInv
<1>. SUFFICES ASSUME WindowInit PROVE WindowInv
  OBVIOUS
<1>1. DefaultEndpoint \in Endpoints /\ ValidEndpoint(DefaultEndpoint)
  BY DEF DefaultEndpoint, Endpoints, IpTexts, PortTexts, ValidEndpoint
<1>2. windowFile.is = "json" => windowFile.endpoint \in Endpoints /\ windowFile.width \in Int
  <2>1. CASE windowFile \in {[is |-> "absent"], TornWindow}
    BY <2>1 DEF TornWindow
  <2>2. CASE \E e \in Endpoints, w \in WindowWidths : \E t : windowFile = WindowJson(e, w, t)
    BY <2>2, WindowAssumption DEF WindowJson
  <2>3. /\ \A i \in IpTexts : [ip |-> i, port |-> "another"] \in Endpoints
        /\ \A p \in PortTexts : [ip |-> "other", port |-> p] \in Endpoints
    BY DEF Endpoints, IpTexts, PortTexts
  <2>. QED  BY <1>1, <2>1, <2>2, <2>3, WindowAssumption DEF WindowInit
<1>3. RowsInv
  <2>1. << >> \in ListsOfRows /\ Len(<< >>) = 0 /\ 1..0 = {}
    BY DEF ListsOfRows
  <2>2. FirstWidth \in Int
    BY WindowAssumption
  <2>3. windowWidth = FirstWidth /\ lastWidth = 0 /\ measured = FALSE /\ tabRows = << >> /\ rowsShown = {}
    BY DEF WindowInit
  <2>4. tabRows \in ListsOfRows /\ rowsShown = 1..Len(tabRows)
    BY <2>1, <2>3
  <2>5. windowWidth \in Int /\ lastWidth \in Int /\ (windowFile.is = "json" => windowFile.width \in Int)
    BY <1>2, <2>2, <2>3
  <2>6. measured \in BOOLEAN /\ (~measured => tabRows = << >>)
    BY <2>3
  <2>. QED  BY <2>3, <2>4, <2>5, <2>6 DEF RowsInv
<1>4. BarInv
  BY <1>1 DEF WindowInit, BarInv
<1>5. WindowFileInv
  BY <1>2 DEF WindowInit, WindowFileInv
<1>. QED  BY <1>3, <1>4, <1>5 DEF WindowInv

LEMMA EndpointIsValid ==
  ASSUME NEW s \in Endpoints, ValidEndpoint(s), typed \in Endpoints
  PROVE  Endpoint(s) \in Endpoints /\ ValidEndpoint(Endpoint(s))
BY DEF Endpoint, Endpoints, IpTexts, PortTexts, ValidEndpoint

LEMMA FirstIsValid ==
  ASSUME windowFile.is = "json" => windowFile.endpoint \in Endpoints
  PROVE  FirstEndpoint(windowFile) \in Endpoints /\ ValidEndpoint(FirstEndpoint(windowFile))
<1>1. DefaultEndpoint \in Endpoints /\ ValidEndpoint(DefaultEndpoint)
  BY DEF DefaultEndpoint, Endpoints, IpTexts, PortTexts, ValidEndpoint
<1>. QED  BY <1>1 DEF FirstEndpoint

\* A valid endpoint that is typed is what the bar has.
LEMMA TypingIsTyped ==
  ASSUME typed \in Endpoints, ValidEndpoint(typed)
  PROVE  Typing = typed
<1>1. typed = [ip |-> typed.ip, port |-> typed.port] /\ typed.ip # "blank" /\ typed.port # "text"
  BY DEF Endpoints, ValidEndpoint
<1>. QED  BY <1>1 DEF Typing, IsInt

LEMMA BarStep == BarInv /\ WindowFileInv /\ [WindowNext]_windowVars => BarInv'
<1>. SUFFICES ASSUME BarInv, WindowFileInv, [WindowNext]_windowVars PROVE BarInv'
  OBVIOUS
<1>. DEFINE S == Seq([connected : BOOLEAN, editing : BOOLEAN])
<1>0. /\ \A s \in S, c, e \in BOOLEAN : Append(s, [connected |-> c, editing |-> e]) \in S
                                       /\ Append(s, [connected |-> c, editing |-> e]) # << >>
      /\ <<[connected |-> FALSE, editing |-> FALSE]>> \in S /\ <<[connected |-> FALSE, editing |-> FALSE]>> # << >>
      /\ \A s \in S : s # << >> => Tail(s) \in S
  <2>. DEFINE R == [connected : BOOLEAN, editing : BOOLEAN]
  <2>1. \A c, e \in BOOLEAN : [connected |-> c, editing |-> e] \in R
    OBVIOUS
  <2>2. S = Seq(R)
    OBVIOUS
  <2>. HIDE DEF R, S
  <2>3. ASSUME NEW x \in R, NEW s \in Seq(R) PROVE Append(s, x) \in Seq(R) /\ Append(s, x) # << >>
    <3>1. Append(s, x) \in Seq(R) /\ Len(Append(s, x)) = Len(s) + 1 /\ Len(s) \in Nat
      OBVIOUS
    <3>. QED  BY <3>1
  <2>4. \A x \in R : <<x>> \in Seq(R) /\ <<x>> # << >>
    OBVIOUS
  <2>5. \A s \in Seq(R) : s # << >> => Tail(s) \in Seq(R)
    OBVIOUS
  <2>. QED  BY <2>1, <2>2, <2>3, <2>4, <2>5
<1>. HIDE DEF S
<1>1. BarInv <=> /\ server \in Endpoints /\ ValidEndpoint(server) /\ typed \in Endpoints /\ statusPosted \in S
                 /\ (link # "none" /\ ~typedLate => Typing = peer)
                 /\ (link = "connected" /\ ~typedLate /\ statusPosted = << >> => barShown = peer)
  BY DEF BarInv, S
<1>2. BarInv' <=> /\ server' \in Endpoints /\ ValidEndpoint(server') /\ typed' \in Endpoints /\ statusPosted' \in S
                  /\ (link' # "none" /\ ~typedLate' => Typing' = peer')
                  /\ (link' = "connected" /\ ~typedLate' /\ statusPosted' = << >> => barShown' = peer')
  BY DEF BarInv, S
<1>3. CASE StartWindow
  <2>1. server' = FirstEndpoint(windowFile) /\ typed' = server' /\ peer' = server'
        /\ link' = "connecting" /\ statusPosted' = <<[connected |-> FALSE, editing |-> FALSE]>>
    BY <1>3 DEF StartWindow
  <2>2. server' \in Endpoints /\ ValidEndpoint(server')
    BY <2>1, FirstIsValid DEF WindowFileInv
  <2>3. Typing' = typed'
    <3>1. typed' = [ip |-> typed'.ip, port |-> typed'.port] /\ typed'.ip # "blank" /\ typed'.port # "text"
      BY <2>1, <2>2 DEF Endpoints, ValidEndpoint
    <3>. QED  BY <3>1 DEF Typing, IsInt
  <2>. QED  BY <1>0, <1>2, <2>1, <2>2, <2>3
<1>4. CASE TypeText
  <2>1. /\ server' = server /\ statusPosted' = statusPosted /\ link' = link /\ peer' = peer /\ barShown' = barShown
        /\ typedLate' = (typedLate \/ link # "none")
    BY <1>4 DEF TypeText, barVars
  <2>2. typed' \in Endpoints
    BY <1>1, <1>4 DEF TypeText, Endpoints
  <2>. QED  BY <1>1, <1>2, <2>1, <2>2
<1>5. CASE Reconnect
  <2>1. CASE ~ValidEndpoint(typed)
    <3>1. /\ server' = server /\ typed' = typed /\ statusPosted' = statusPosted /\ link' = link /\ peer' = peer
          /\ barShown' = barShown /\ typedLate' = typedLate
      BY <1>5, <2>1 DEF Reconnect
    <3>. QED  BY <1>1, <1>2, <3>1 DEF Typing
  <2>2. CASE ValidEndpoint(typed)
    <3>1. /\ server' = typed /\ typed' = typed /\ barShown' = barShown
          /\ IF link = "connecting" THEN UNCHANGED <<statusPosted, link, peer, typedLate>>
             ELSE Connect /\ peer' = typed /\ typedLate' = FALSE
      BY <1>5, <2>2 DEF Reconnect
    <3>2. Typing = typed /\ Typing' = typed
      <4>1. typed = [ip |-> typed.ip, port |-> typed.port] /\ typed.ip # "blank" /\ typed.port # "text"
        BY <1>1, <2>2 DEF Endpoints, ValidEndpoint
      <4>. QED  BY <3>1, <4>1 DEF Typing, IsInt
    <3>3. CASE link = "connecting"
      BY <1>1, <1>2, <2>2, <3>1, <3>2, <3>3
    <3>4. CASE link # "connecting"
      BY <1>0, <1>1, <1>2, <2>2, <3>1, <3>2, <3>4 DEF Connect
    <3>. QED  BY <3>3, <3>4
  <2>. QED  BY <2>1, <2>2
<1>6. CASE Connected \/ ConnectFails \/ LinkLost
  <2>1. /\ server' = server /\ typed' = typed /\ peer' = peer /\ typedLate' = typedLate /\ link # "none"
        /\ \E c, e \in BOOLEAN : statusPosted' = Append(statusPosted, [connected |-> c, editing |-> e])
    BY <1>6 DEF Connected, ConnectFails, LinkLost, LinkEnds
  <2>2. Typing' = Typing
    BY <2>1 DEF Typing
  <2>. QED  BY <1>0, <1>1, <1>2, <2>1, <2>2
<1>7. CASE ApplyStatus
  <2>1. /\ server' = server /\ typed' = typed /\ peer' = peer /\ typedLate' = typedLate /\ link' = link
        /\ barShown' = Typing /\ statusPosted # << >> /\ statusPosted' = Tail(statusPosted)
    BY <1>7 DEF ApplyStatus
  <2>2. Typing' = Typing
    BY <2>1 DEF Typing
  <2>. QED  BY <1>0, <1>1, <1>2, <2>1, <2>2
<1>8. CASE SelectTab \/ Resize \/ Frame \/ ExitWindow \/ WriteWindow \/ KillConsole \/ UNCHANGED windowVars
  <2>1. /\ server' = server /\ typed' = typed /\ peer' = peer /\ typedLate' = typedLate /\ link' = link
        /\ barShown' = barShown /\ statusPosted' = statusPosted
    BY <1>8 DEF SelectTab, Resize, Frame, ExitWindow, WriteWindow, KillConsole, windowVars, barVars
  <2>2. Typing' = Typing
    BY <2>1 DEF Typing
  <2>. QED  BY <1>1, <1>2, <2>1, <2>2
<1>. QED  BY <1>3, <1>4, <1>5, <1>6, <1>7, <1>8 DEF WindowNext

LEMMA FileStep == BarInv /\ WindowFileInv /\ [WindowNext]_windowVars => WindowFileInv'
<1>. SUFFICES ASSUME BarInv, WindowFileInv, [WindowNext]_windowVars PROVE WindowFileInv'
  OBVIOUS
<1>0. ASSUME NEW s \in Endpoints, ValidEndpoint(s), NEW next \in {"saving", "exit"}, windowState = "up", SaveWindow(s, next)
      PROVE  WindowFileInv'
  <2>1. CASE windowWidth < MinWidth
    BY <1>0, <2>1 DEF SaveWindow, WindowFileInv
  <2>2. CASE ~(windowWidth < MinWidth)
    <3>1. windowState' = next /\ windowFile' = TornWindow /\ keptEndpoint' = <<Endpoint(s)>>
      BY <1>0, <2>2 DEF SaveWindow
    <3>2. Endpoint(s) \in Endpoints /\ ValidEndpoint(Endpoint(s))
      BY <1>0, EndpointIsValid DEF BarInv
    <3>3. TornWindow.is # "json" /\ <<Endpoint(s)>> # << >>
      BY DEF TornWindow
    <3>. QED  BY <1>0, <3>1, <3>2, <3>3 DEF WindowFileInv
  <2>. QED  BY <2>1, <2>2
<1>1. CASE StartWindow
  BY <1>1 DEF StartWindow, WindowFileInv
<1>2. CASE TypeText \/ Connected \/ ConnectFails \/ LinkLost \/ ApplyStatus \/ SelectTab \/ Resize \/ UNCHANGED windowVars
  <2>1. UNCHANGED <<windowFile, windowState, keptEndpoint>>
    BY <1>2 DEF TypeText, Connected, ConnectFails, LinkLost, LinkEnds, ApplyStatus, SelectTab, Resize, windowVars
  <2>. QED  BY <2>1 DEF WindowFileInv
<1>3. CASE Reconnect
  <2>1. windowState = "up" /\ typed \in Endpoints
    BY <1>3 DEF Reconnect, BarInv
  <2>2. CASE ~ValidEndpoint(typed)
    <3>1. UNCHANGED <<windowFile, windowState, keptEndpoint>>
      BY <1>3, <2>2 DEF Reconnect
    <3>. QED  BY <3>1 DEF WindowFileInv
  <2>3. CASE ValidEndpoint(typed)
    <3>1. SaveWindow(typed, "saving")
      BY <1>3, <2>3 DEF Reconnect
    <3>. QED  BY <1>0, <2>1, <2>3, <3>1
  <2>. QED  BY <2>2, <2>3
<1>4. CASE Frame
  <2>1. windowState = "up" /\ (SaveWindow(server, "saving") \/ UNCHANGED <<windowState, windowFile, keptEndpoint>>)
    BY <1>4 DEF Frame
  <2>2. CASE SaveWindow(server, "saving")
    BY <1>0, <2>1, <2>2 DEF BarInv
  <2>3. CASE UNCHANGED <<windowState, windowFile, keptEndpoint>>
    BY <2>3 DEF WindowFileInv
  <2>. QED  BY <2>1, <2>2, <2>3
<1>5. CASE ExitWindow
  <2>1. windowState = "up" /\ SaveWindow(server, "exit")
    BY <1>5 DEF ExitWindow
  <2>. QED  BY <1>0, <2>1 DEF BarInv
<1>6. CASE WriteWindow
  <2>1. PICK e \in Endpoints : ValidEndpoint(e) /\ keptEndpoint = <<e>> /\ keptEndpoint[1] = e
    BY <1>6 DEF WriteWindow, WindowFileInv
  <2>2. /\ windowFile'.is = "json" /\ windowFile'.endpoint = e /\ keptEndpoint' = keptEndpoint
        /\ windowState' \in {"up", "down"}
    BY <1>6, <2>1 DEF WriteWindow, WindowJson
  <2>. QED  BY <2>1, <2>2 DEF WindowFileInv
<1>7. CASE KillConsole
  BY <1>7 DEF KillConsole, WindowFileInv
<1>. QED  BY <1>1, <1>2, <1>3, <1>4, <1>5, <1>6, <1>7 DEF WindowNext

LEMMA RowsStep == RowsInv /\ [WindowNext]_windowVars => RowsInv'
<1>. SUFFICES ASSUME RowsInv, [WindowNext]_windowVars PROVE RowsInv'
  OBVIOUS
<1>. USE WindowAssumption
<1>0. ASSUME UNCHANGED <<windowWidth, lastWidth, measured, tabRows, rowsShown, rowOf>>,
             windowFile' = windowFile \/ windowFile' = TornWindow \/ \E e, t : windowFile' = WindowJson(e, windowWidth, t)
      PROVE  RowsInv'
  <2>1. windowFile'.is = "json" => windowFile'.width \in Int
    BY <1>0 DEF RowsInv, TornWindow, WindowJson
  <2>. QED  BY <1>0, <2>1 DEF RowsInv
<1>1. CASE StartWindow
  <2>0. MinWidth \in Int /\ FirstWidth \in Int
    OBVIOUS
  <2>1. FirstSize(windowFile) \in Int
    BY <2>0 DEF FirstSize, RowsInv
  <2>2. << >> \in ListsOfRows /\ Len(<< >>) = 0 /\ 1..0 = {}
    BY DEF ListsOfRows
  <2>3. /\ windowFile' = windowFile /\ windowWidth' = FirstSize(windowFile) /\ lastWidth' = 0 /\ measured' = FALSE
        /\ tabRows' = << >> /\ rowsShown' = {}
    BY <1>1 DEF StartWindow
  <2>4. tabRows' \in ListsOfRows /\ rowsShown' = 1..Len(tabRows')
    BY <2>2, <2>3
  <2>5. windowWidth' \in Int /\ lastWidth' \in Int /\ (windowFile'.is = "json" => windowFile'.width \in Int)
    BY <2>1, <2>3 DEF RowsInv
  <2>6. measured' \in BOOLEAN /\ (~measured' => tabRows' = << >>)
    BY <2>3
  <2>. QED  BY <2>3, <2>4, <2>5, <2>6 DEF RowsInv
<1>2. CASE Resize
  <2>1. windowWidth' \in Int /\ UNCHANGED <<windowFile, lastWidth, measured, tabRows, rowsShown, rowOf>>
    BY <1>2 DEF Resize
  <2>. QED  BY <2>1 DEF RowsInv
<1>3. CASE TypeText \/ Connected \/ ConnectFails \/ LinkLost \/ ApplyStatus \/ SelectTab \/ KillConsole \/ UNCHANGED windowVars
  <2>1. UNCHANGED <<windowWidth, lastWidth, measured, tabRows, rowsShown, rowOf, windowFile>>
    BY <1>3 DEF TypeText, Connected, ConnectFails, LinkLost, LinkEnds, ApplyStatus, SelectTab, KillConsole, windowVars, rowVars
  <2>. QED  BY <1>0, <2>1
<1>4. CASE Reconnect
  <2>1. UNCHANGED <<windowWidth, lastWidth, measured, tabRows, rowsShown, rowOf>>
    BY <1>4 DEF Reconnect, rowVars
  <2>2. windowFile' = windowFile \/ windowFile' = TornWindow
    BY <1>4 DEF Reconnect, SaveWindow
  <2>. QED  BY <1>0, <2>1, <2>2
<1>5. CASE ExitWindow
  <2>1. UNCHANGED <<windowWidth, lastWidth, measured, tabRows, rowsShown, rowOf>>
    BY <1>5 DEF ExitWindow, rowVars
  <2>2. windowFile' = windowFile \/ windowFile' = TornWindow
    BY <1>5 DEF ExitWindow, SaveWindow
  <2>. QED  BY <1>0, <2>1, <2>2
<1>6. CASE WriteWindow
  <2>1. UNCHANGED <<windowWidth, lastWidth, measured, tabRows, rowsShown, rowOf>>
    BY <1>6 DEF WriteWindow, rowVars
  <2>2. \E e, t : windowFile' = WindowJson(e, windowWidth, t)
    BY <1>6 DEF WriteWindow
  <2>. QED  BY <1>0, <2>1, <2>2
<1>7. CASE Frame
  <2>1. windowWidth' = windowWidth /\ Layout /\ (windowFile' = windowFile \/ windowFile' = TornWindow)
    BY <1>7 DEF Frame, SaveWindow
  <2>2. windowFile'.is = "json" => windowFile'.width \in Int
    BY <2>1 DEF RowsInv, TornWindow
  <2>3. CASE ~layoutDirty /\ windowWidth = lastWidth
    <3>1. UNCHANGED <<lastWidth, measured, tabRows, rowsShown, rowOf>>
      BY <2>1, <2>3 DEF Layout, rowVars
    <3>. QED  BY <1>0, <2>1, <3>1
  <2>4. CASE ~(~layoutDirty /\ windowWidth = lastWidth) /\ ~measured
    <3>1. lastWidth' = windowWidth /\ measured' = TRUE /\ UNCHANGED <<tabRows, rowsShown, rowOf>>
      BY <2>1, <2>4 DEF Layout
    <3>. QED  BY <2>1, <2>2, <2>4, <3>1 DEF RowsInv
  <2>5. CASE ~(~layoutDirty /\ windowWidth = lastWidth) /\ measured
    <3>1. lastWidth' = windowWidth /\ measured' = TRUE /\ WrapTabRows(windowWidth) /\ windowWidth \in Int
      BY <2>1, <2>5 DEF Layout, RowsInv
    <3>2. CASE PackedRows(windowWidth) = tabRows
      <4>1. UNCHANGED <<tabRows, rowsShown, rowOf>>
        BY <3>1, <3>2 DEF WrapTabRows
      <4>. QED  BY <2>1, <2>2, <3>1, <3>2, <4>1 DEF RowsInv
    <3>3. CASE PackedRows(windowWidth) # tabRows
      <4>1. PICK rows : rows = PackedRows(windowWidth)
        OBVIOUS
      <4>2. /\ tabRows' = rows
            /\ rowOf' = [i \in DOMAIN ButtonWidths |-> CHOOSE r \in DOMAIN rows : Contains(rows[r], i)]
            /\ rowsShown' = (rowsShown \cup DOMAIN rows) \ ((Len(rows) + 1)..Len(tabRows))
        BY <3>1, <3>3, <4>1 DEF WrapTabRows
      <4>3. rows \in ListsOfRows /\ DOMAIN rows = 1..Len(rows) /\ Len(rows) \in Nat /\ Len(tabRows) \in Nat
        <5>. DEFINE R == Seq(Nat)
        <5>. HIDE DEF R
        <5>1. rows \in Seq(R) /\ tabRows \in Seq(R)
          BY <3>1, <4>1, RowsArePacked DEF R, RowsInv, ListsOfRows
        <5>2. DOMAIN rows = 1..Len(rows) /\ Len(rows) \in Nat /\ Len(tabRows) \in Nat
          BY <5>1
        <5>. QED  BY <5>1, <5>2 DEF R, ListsOfRows
      <4>4. rowsShown' = 1..Len(rows)
        BY <4>2, <4>3 DEF RowsInv
      <4>5. ASSUME NEW r \in DOMAIN rows, NEW i \in DOMAIN ButtonWidths, Contains(rows[r], i) PROVE rowOf'[i] = r
        <5>1. \A q \in DOMAIN rows : Contains(rows[q], i) => q = r
          BY <3>1, <4>1, <4>5, InOneRow
        <5>. QED  BY <4>2, <4>5, <5>1
      <4>. QED  BY <2>1, <2>2, <3>1, <4>1, <4>2, <4>3, <4>4, <4>5 DEF RowsInv
    <3>. QED  BY <3>2, <3>3
  <2>. QED  BY <2>3, <2>4, <2>5 DEF RowsInv
<1>. QED  BY <1>1, <1>2, <1>3, <1>4, <1>5, <1>6, <1>7 DEF WindowNext

LEMMA WindowIsKept == WindowInv => WindowKept
<1>. SUFFICES ASSUME WindowInv PROVE WindowKept
  OBVIOUS
<1>1. ValidEndpoint(server) /\ \A k \in DOMAIN keptEndpoint : ValidEndpoint(keptEndpoint[k])
  BY DEF WindowInv, BarInv, WindowFileInv
<1>2. windowState = "down" /\ keptEndpoint # << >> => FirstEndpoint(windowFile) = keptEndpoint[1]
  BY <1>1 DEF WindowInv, WindowFileInv, FirstEndpoint
<1>3. windowState = "up" /\ statusLabel = "Connected" /\ ~editing /\ statusPosted = << >> /\ link = "connected" /\ ~typedLate =>
        barShown = peer
  BY DEF WindowInv, BarInv
<1>4. ASSUME tabRows # << >>
      PROVE  /\ InRows(tabRows, Len(ButtonWidths)) /\ rowsShown = DOMAIN tabRows
             /\ \A r \in DOMAIN tabRows : \A i \in Range(tabRows[r]) : rowOf[i] = r
             /\ \A r \in DOMAIN tabRows :
                  /\ Len(tabRows[r]) > 1 => RowWidth(tabRows[r]) <= lastWidth
                  /\ r < Len(tabRows) => RowWidth(Append(tabRows[r], tabRows[r + 1][1])) > lastWidth
  <2>1. tabRows = PackedRows(lastWidth) /\ lastWidth \in Int
    BY <1>4 DEF WindowInv, RowsInv
  <2>2. rowsShown = DOMAIN tabRows
    <3>. DEFINE R == Seq(Nat)
    <3>. HIDE DEF R
    <3>1. tabRows \in Seq(R)
      BY DEF R, WindowInv, RowsInv, ListsOfRows
    <3>2. DOMAIN tabRows = 1..Len(tabRows)
      BY <3>1
    <3>. QED  BY <3>2 DEF WindowInv, RowsInv
  <2>3. ASSUME NEW r \in DOMAIN tabRows, NEW i \in Range(tabRows[r]) PROVE rowOf[i] = r
    <3>1. RowFits(lastWidth, tabRows[r])
      <4>1. PackedWell(lastWidth, PackedUpTo(lastWidth)[Len(ButtonWidths)], Len(ButtonWidths))
        BY <2>1, RowsArePacked
      <4>2. r \in 1..Len(tabRows)
        BY <2>2, <2>3 DEF WindowInv, RowsInv
      <4>. QED  BY <2>1, <4>1, <4>2 DEF PackedWell, PackedRows
    <3>2. Contains(tabRows[r], i) /\ i \in DOMAIN ButtonWidths
      BY <3>1 DEF RowFits, Contains, Range, TabButtons
    <3>. QED  BY <1>4, <2>3, <3>2 DEF WindowInv, RowsInv
  <2>4. /\ InRows(tabRows, Len(ButtonWidths))
        /\ \A r \in DOMAIN tabRows :
             /\ Len(tabRows[r]) > 1 => RowWidth(tabRows[r]) <= lastWidth
             /\ r < Len(tabRows) => RowWidth(Append(tabRows[r], tabRows[r + 1][1])) > lastWidth
    BY <1>4, <2>1, RowsInOrder
  <2>. QED  BY <2>2, <2>3, <2>4
<1>. QED  BY <1>1, <1>2, <1>3, <1>4 DEF WindowKept

THEOREM WindowStaysKept == WindowSpec => []WindowKept
<1>1. WindowInv /\ [WindowNext]_windowVars => WindowInv'
  BY RowsStep, BarStep, FileStep DEF WindowInv
<1>2. WindowSpec => []WindowInv
  BY <1>1, WindowStart, PTL DEF WindowSpec
<1>. QED  BY <1>2, WindowIsKept, PTL

-----------------------------------------------------------------------------
(* LidarFrames: what is published of a frame is what was received of it.   *)

\* How many chunks a frame has.
Many(f) == Len(Sizes[f])

LEMMA FrameShape ==
  ASSUME NEW f \in Frames
  PROVE  /\ f \in Nat \ {0} /\ Many(f) \in Nat \ {0} /\ LastIndex(f) = Many(f) - 1 /\ Chunks(f) = 0..(Many(f) - 1)
         /\ \A i \in Chunks(f) : i \in Nat /\ Size(f, i) \in Nat \ {0}
         /\ 0 \in Chunks(f) /\ LastIndex(f) \in Chunks(f)
<1>. DEFINE R == Seq(Nat \ {0})
<1>. HIDE DEF R
<1>1. Sizes \in Seq(R) /\ LastIndex(f) >= 0
  BY LidarAssumption DEF R
<1>2. f \in Nat \ {0} /\ Sizes[f] \in R
  BY <1>1 DEF Frames
<1>3. PICK s \in Seq(Nat \ {0}) : s = Sizes[f]
  BY <1>2 DEF R
<1>4. Len(s) \in Nat /\ Len(s) - 1 >= 0
  BY <1>1, <1>3 DEF LastIndex
<1>5. \A i \in 0..(Len(s) - 1) : i \in Nat /\ s[i + 1] \in Nat \ {0}
  <2>1. \A i \in 0..(Len(s) - 1) : i \in Nat /\ i + 1 \in 1..Len(s)
    BY <1>4
  <2>. QED  BY <2>1
<1>6. 0 \in 0..(Len(s) - 1) /\ Len(s) - 1 \in 0..(Len(s) - 1)
  BY <1>4
<1>. QED  BY <1>2, <1>3, <1>4, <1>5, <1>6 DEF Many, LastIndex, Chunks, Size

LEMMA StartsByOne ==
  ASSUME NEW f \in Frames
  PROVE  /\ \A i \in 0..Many(f) : Start(f, i) \in Nat
         /\ Start(f, 0) = 0
         /\ \A i \in Chunks(f) : Start(f, i + 1) = Start(f, i) + Size(f, i)
<1>0. PICK n \in Nat \ {0} : n = Many(f) /\ Chunks(f) = 0..(n - 1)
  BY FrameShape
<1>. DEFINE at == CHOOSE g : g = [i \in 0..n |-> IF i = 0 THEN 0 ELSE g[i - 1] + Size(f, i - 1)]
            step == [i \in Nat |-> [x \in Nat |-> IF i \in 1..n THEN x + Size(f, i - 1) ELSE x]]
<1>1. Starts(f) = at
  BY <1>0 DEF Starts, Many
<1>2. \A i \in 1..n : Size(f, i - 1) \in Nat
  <2>1. \A i \in 1..n : i - 1 \in 0..(n - 1)
    OBVIOUS
  <2>. QED  BY <1>0, <2>1, FrameShape
<1>3. StepsIn(Nat, 0, step) /\ \A i \in 1..n : \A x \in Nat : step[i][x] = x + Size(f, i - 1)
  BY <1>2 DEF StepsIn
<1>4. PICK g : RunsTo(g, Nat, 0, n, step)
  <2>. HIDE DEF step
  <2>. QED  BY <1>3, RecursionUpTo
<1>5. g = [i \in 0..n |-> IF i = 0 THEN 0 ELSE g[i - 1] + Size(f, i - 1)]
  <2>. HIDE DEF step
  <2>1. ASSUME NEW i \in 0..n, i # 0 PROVE step[i][g[i - 1]] = g[i - 1] + Size(f, i - 1)
    <3>1. i \in 1..n /\ i - 1 \in 0..n
      BY <2>1
    <3>2. g[i - 1] \in Nat
      BY <3>1, <1>4 DEF RunsTo
    <3>. QED  BY <1>3, <3>1, <3>2
  <2>. QED  BY <2>1, <1>4 DEF RunsTo
<1>6. at = [i \in 0..n |-> IF i = 0 THEN 0 ELSE at[i - 1] + Size(f, i - 1)]
  BY <1>5
<1>. HIDE DEF at
<1>7. at[0] = 0 /\ \A i \in 1..n : at[i] = at[i - 1] + Size(f, i - 1)
  <2>1. 0 \in 0..n /\ \A i \in 1..n : i \in 0..n /\ i # 0
    OBVIOUS
  <2>. QED  BY <1>6, <2>1
<1>8. \A i \in 0..n : at[i] \in Nat
  <2>1. at[0] \in Nat /\ \A i \in 1..n : at[i - 1] \in Nat => at[i] \in Nat
    BY <1>2, <1>7
  <2>. QED  BY <2>1, HoldsUpTo
<1>9. \A i \in 0..(n - 1) : at[i + 1] = at[i] + Size(f, i)
  <2>1. \A i \in 0..(n - 1) : i + 1 \in 1..n /\ (i + 1) - 1 = i
    OBVIOUS
  <2>. QED  BY <1>7, <2>1
<1>. QED  BY <1>0, <1>1, <1>7, <1>8, <1>9 DEF Start

LEMMA StartsAscend ==
  ASSUME NEW f \in Frames, NEW i \in 0..Many(f), NEW k \in 0..Many(f), i < k
  PROVE  Start(f, i) < Start(f, k) /\ Start(f, i) \in Nat /\ Start(f, k) \in Nat
<1>. DEFINE T == {d \in Nat : i + 1 + d <= Many(f) => Start(f, i) < Start(f, i + 1 + d)}
<1>0. /\ Many(f) \in Nat /\ Chunks(f) = 0..(Many(f) - 1) /\ i \in Nat /\ k \in Nat
      /\ \A m \in Chunks(f) : m \in Nat /\ Size(f, m) \in Nat \ {0}
  BY FrameShape
<1>1. ASSUME NEW m \in Nat, m + 1 <= Many(f)
      PROVE  Start(f, m) < Start(f, m + 1) /\ Start(f, m) \in Nat /\ Start(f, m + 1) \in Nat
  <2>1. m \in Chunks(f) /\ m \in 0..Many(f) /\ m + 1 \in 0..Many(f)
    BY <1>0, <1>1
  <2>2. Start(f, m + 1) = Start(f, m) + Size(f, m) /\ Start(f, m) \in Nat /\ Start(f, m + 1) \in Nat
    BY <2>1, StartsByOne
  <2>. QED  BY <1>0, <2>1, <2>2
<1>2. 0 \in T
  BY <1>0, <1>1
<1>3. ASSUME NEW d \in Nat, d \in T PROVE d + 1 \in T
  <2>1. CASE i + 1 + (d + 1) <= Many(f)
    <3>1. PICK m \in Nat : m = i + 1 + d /\ m + 1 <= Many(f) /\ m <= Many(f) /\ i + 1 + (d + 1) = m + 1
      BY <1>0, <2>1
    <3>2. Start(f, i) < Start(f, m)
      BY <1>3, <3>1
    <3>3. Start(f, m) < Start(f, m + 1) /\ Start(f, m) \in Nat /\ Start(f, m + 1) \in Nat
      BY <1>1, <3>1
    <3>4. Start(f, i) \in Nat
      BY StartsByOne
    <3>5. Start(f, i) < Start(f, m + 1)
      BY <3>2, <3>3, <3>4
    <3>. QED  BY <3>1, <3>5
  <2>. QED  BY <1>0, <2>1
<1>. HIDE DEF T
<1>4. \A d \in Nat : d \in T
  BY <1>2, <1>3, Induct
<1>5. PICK d \in Nat : i + 1 + d = k /\ k <= Many(f)
  <2>1. k - i - 1 \in Nat /\ i + 1 + (k - i - 1) = k /\ k <= Many(f)
    BY <1>0
  <2>. QED  BY <2>1
<1>6. Start(f, i) < Start(f, k)
  BY <1>4, <1>5 DEF T
<1>. QED  BY <1>6, StartsByOne

\* The chunk that has a byte, if it is before the end of chunk m - 1.
LEMMA ByteIsFound ==
  ASSUME NEW f \in Frames, NEW i \in 0..Many(f), NEW m \in 0..Many(f), NEW b \in Nat,
         Start(f, i) <= b, b < Start(f, m)
  PROVE  \E k \in Chunks(f) : i <= k /\ k < m /\ Start(f, k) <= b /\ b < Start(f, k + 1)
<1>0. /\ Many(f) \in Nat /\ Chunks(f) = 0..(Many(f) - 1) /\ i \in Nat /\ m \in Nat
      /\ \A k \in 0..Many(f) : Start(f, k) \in Nat
  BY FrameShape, StartsByOne
<1>. DEFINE T == {k \in Nat : k <= Many(f) /\ b < Start(f, k)}
<1>1. m \in T
  BY <1>0
<1>2. PICK k \in T : \A o \in T : k <= o
  <2>. HIDE DEF T
  <2>1. T \subseteq Nat
    BY DEF T
  <2>. QED  BY <1>1, <2>1, LeastNatural
<1>3. k \in 0..Many(f) /\ k <= m /\ b < Start(f, k)
  BY <1>0, <1>1, <1>2
<1>4. i < k
  <2>1. SUFFICES ASSUME ~(i < k) PROVE FALSE
    OBVIOUS
  <2>2. k = i \/ k < i
    BY <1>0, <1>3, <2>1
  <2>3. k < i => Start(f, k) < Start(f, i)
    BY <1>3, StartsAscend
  <2>. QED  BY <1>0, <1>3, <2>2, <2>3
<1>5. k - 1 \in Chunks(f) /\ i <= k - 1 /\ k - 1 < m /\ (k - 1) + 1 = k /\ k - 1 \in 0..Many(f)
  BY <1>0, <1>3, <1>4
<1>6. ~(b < Start(f, k - 1))
  <2>1. k - 1 \notin T
    BY <1>0, <1>2, <1>3, <1>5
  <2>. QED  BY <1>0, <1>5, <2>1
<1>7. PICK c \in Chunks(f) : c = k - 1 /\ c + 1 = k /\ c \in 0..Many(f) /\ i <= c /\ c < m
  BY <1>5
<1>8. Start(f, c) \in Nat /\ ~(b < Start(f, c))
  BY <1>0, <1>6, <1>7
<1>. QED  BY <1>3, <1>7, <1>8

LEMMA Rounded ==
  ASSUME NEW a \in Int, NEW s \in Nat \ {0}, NEW j \in Int
  PROVE  /\ j < a \div s <=> (j + 1) * s <= a
         /\ -((-a) \div s) <= j <=> a <= j * s
<1>1. ASSUME NEW x \in Int, NEW k \in Int PROVE k <= x \div s <=> k * s <= x
  <2>1. PICK q \in Int, r \in Int : q = x \div s /\ x = q * s + r /\ 0 <= r /\ r < s
    OBVIOUS
  <2>2. k <= q => k * s <= q * s
    <3>1. ASSUME NEW d \in Nat PROVE (q - d) * s = q * s - d * s /\ d * s >= 0
      OBVIOUS
    <3>2. k <= q => q - k \in Nat /\ q - (q - k) = k
      OBVIOUS
    <3>. QED  BY <3>1, <3>2
  <2>3. k > q => k * s >= q * s + s
    <3>1. ASSUME NEW d \in Nat PROVE (q + 1 + d) * s = q * s + s + d * s /\ d * s >= 0
      OBVIOUS
    <3>2. k > q => k - q - 1 \in Nat /\ q + 1 + (k - q - 1) = k
      OBVIOUS
    <3>. QED  BY <3>1, <3>2
  <2>4. q * s \in Int /\ k * s \in Int
    OBVIOUS
  <2>. QED  BY <2>1, <2>2, <2>3, <2>4
<1>2. j < a \div s <=> j + 1 <= a \div s
  OBVIOUS
<1>3. -((-a) \div s) <= j <=> -j <= (-a) \div s
  OBVIOUS
<1>4. (-j) * s = -(j * s) /\ j * s \in Int
  OBVIOUS
<1>5. j + 1 \in Int /\ -j \in Int /\ -a \in Int
  OBVIOUS
<1>6. j + 1 <= a \div s <=> (j + 1) * s <= a
  BY <1>1, <1>5
<1>7. -j <= (-a) \div s <=> (-j) * s <= -a
  BY <1>1, <1>5
<1>. QED  BY <1>2, <1>3, <1>4, <1>5, <1>6, <1>7


\* A sequence extended by at most one element keeps its elements.
LEMMA Extended ==
  ASSUME NEW p, p \in Seq(Range(p)), NEW a, a = << >> \/ \E r : a = <<r>>
  PROVE  /\ p \o a \in Seq(Range(p \o a))
         /\ \A n \in DOMAIN (p \o a) :
              \/ n \in DOMAIN p /\ (p \o a)[n] = p[n]
              \/ n = Len(p) + 1 /\ a # << >> /\ (p \o a)[n] = a[1]
<1>1. CASE a = << >>
  <2>1. p \o a = p
    BY <1>1
  <2>. QED
    BY <2>1
<1>2. CASE a # << >>
  <2>1. PICK r : a = <<r>>
    BY <1>2
  <2>2. /\ Len(p \o a) = Len(p) + 1
        /\ \A n \in 1..Len(p) : (p \o a)[n] = p[n]
        /\ (p \o a)[Len(p) + 1] = a[1]
        /\ p \o a \in Seq(Range(p) \cup {r})
    BY <2>1
  <2>3. /\ DOMAIN p = 1..Len(p) /\ DOMAIN (p \o a) = 1..(Len(p) + 1) /\ Len(p) \in Nat
    BY <2>2
  <2>4. \A n \in 1..Len(p \o a) : (p \o a)[n] \in Range(p \o a)
    BY <2>2, <2>3 DEF Range
  <2>5. p \o a \in Seq(Range(p \o a))
    BY <2>2, <2>4
  <2>. QED
    BY <2>2, <2>3, <2>5, <1>2
<1>. QED
  BY <1>1, <1>2

\* _parse_runs gives at most one packet, of the frame and chunks it was given.
LEMMA AtMostOnePacket ==
  ASSUME NEW f, NEW is
  PROVE  \/ Parsed(f, is) = << >>
         \/ \E r : Parsed(f, is) = <<r>> /\ r.frame = f /\ r.chunks = is
<1>. DEFINE whole == UNION {Recovered(f, run) : run \in Runs(f, is)}
            header == \E run \in Runs(f, is) : run.offset = 0 /\ run.length >= Header
            r == [frame |-> f, chunks |-> is, points |-> whole]
<1>1. Parsed(f, is) = IF header THEN <<r>> ELSE << >>
  BY Zenon DEF Parsed
<1>2. r.frame = f /\ r.chunks = is
  OBVIOUS
<1>. HIDE DEF header, r
<1>. QED
  BY <1>1, <1>2

\* Publishing chunks that have arrived and are in no packet.
LEMMA Publishing ==
  ASSUME NEW p, NEW got, Fine(p, got), NEW f, NEW is, Apart(p, f, is),
         \A i \in is : <<f, i>> \in got
  PROVE  /\ Fine(p \o Parsed(f, is), got)
         /\ \A g, js : Apart(p, g, js) /\ (g = f => is \cap js = {})
              => Apart(p \o Parsed(f, is), g, js)
<1>. DEFINE a == Parsed(f, is)
<1>1. a = << >> \/ \E r : a = <<r>> /\ r.frame = f /\ r.chunks = is
  BY AtMostOnePacket
<1>2. a # << >> => a[1].frame = f /\ a[1].chunks = is
  BY <1>1
<1>3. p \in Seq(Range(p)) /\ DOMAIN p = 1..Len(p) /\ Len(p) \in Nat
  BY DEF Fine
<1>. HIDE DEF a
<1>4. /\ p \o a \in Seq(Range(p \o a))
      /\ \A n \in DOMAIN (p \o a) :
           \/ n \in DOMAIN p /\ (p \o a)[n] = p[n]
           \/ n = Len(p) + 1 /\ a # << >> /\ (p \o a)[n] = a[1]
  BY <1>1, <1>3, Extended
<1>. DEFINE q == p \o a
<1>5. /\ q \in Seq(Range(q))
      /\ \A n \in DOMAIN q :
           \/ n \in DOMAIN p /\ q[n] = p[n]
           \/ n = Len(p) + 1 /\ q[n].frame = f /\ q[n].chunks = is
  BY <1>2, <1>4
<1>. HIDE DEF q
<1>6. \A n \in DOMAIN q : \A i \in q[n].chunks : <<q[n].frame, i>> \in got
  BY <1>5 DEF Fine
<1>7. \A m, n \in DOMAIN q :
        m # n /\ q[m].frame = q[n].frame => q[m].chunks \cap q[n].chunks = {}
  BY <1>5 DEF Fine, Apart
<1>8. Fine(q, got)
  BY <1>5, <1>6, <1>7 DEF Fine
<1>9. \A g, js : Apart(p, g, js) /\ (g = f => is \cap js = {}) => Apart(q, g, js)
  BY <1>5 DEF Apart
<1>. QED
  BY <1>8, <1>9 DEF q, a

\* What _handle_chunked and _flush_partial keep apart stays so when a chunk
\* joins an assembly of other chunks that have arrived.
LEMMA Joining ==
  ASSUME NEW p, NEW got, Fine(p, got), NEW f, NEW i, NEW is, <<f, i>> \in got,
         Apart(p, f, is \cup {i}), \A k \in is : <<f, k>> \in got
  PROVE  /\ Fine(p \o Parsed(f, is \cup {i}), got)
         /\ Apart(p \o Parsed(f, is \cup {i}), 0, {})
<1>1. Apart(p, 0, {})
  BY DEF Apart
<1>2. \A k \in is \cup {i} : <<f, k>> \in got
  OBVIOUS
<1>. QED
  BY <1>1, <1>2, Publishing

\* IInv is an invariant for every value of the constants.
THEOREM FramesInvariant == Spec => []IInv
<1>1. Init => IInv
  BY DEF Init, IInv, Fine, Apart, Range
<1>2. IInv /\ [Next]_vars => IInv'
  <2>. SUFFICES ASSUME IInv, [Next]_vars PROVE IInv'
    OBVIOUS
  <2>1. CASE UNCHANGED vars
    BY <2>1 DEF vars, IInv, Fine, Apart
  <2>2. CASE Next
    <3>1. PICK f \in Frames :
            Deliver(f) \/ \E i \in Chunks(f) : StartFrame(f, i) \/ AddChunk(f, i) \/ TooOld(f, i)
      BY <2>2 DEF Next
    <3>2. network' = network
      BY <3>1 DEF Deliver, StartFrame, AddChunk, TooOld, Arrives
    <3>3. CASE network = "duplicating"
      BY <3>2, <3>3 DEF IInv
    <3>4. CASE network # "duplicating"
      <4>1. /\ Fine(published, arrived) /\ Apart(published, frame, chunks)
            /\ \A k \in chunks : <<frame, k>> \in arrived
        BY <3>4 DEF IInv
      <4>2. ASSUME NEW i, Arrives(f, i)
            PROVE  /\ <<f, i>> \notin arrived /\ <<f, i>> \in arrived'
                   /\ arrived \subseteq arrived'
                   /\ Fine(published, arrived') /\ Apart(published, f, {i})
        BY <3>4, <4>1, <4>2 DEF Arrives, Fine, Apart
      <4>3. ASSUME NEW i, Arrives(f, i)
            PROVE  /\ Fine(published \o Flushed, arrived')
                   /\ \A g, js : Apart(published, g, js) /\ (g = frame => chunks \cap js = {})
                        => Apart(published \o Flushed, g, js)
        <5>1. CASE chunks = {}
          <6>1. published \o Flushed = published
            BY <5>1, <4>1 DEF Flushed, Fine
          <6>. QED
            BY <6>1, <4>2, <4>3
        <5>2. CASE chunks # {}
          <6>1. Flushed = Parsed(frame, chunks)
            BY <5>2 DEF Flushed
          <6>2. \A k \in chunks : <<frame, k>> \in arrived'
            BY <4>1, <4>2, <4>3
          <6>. QED
            BY <6>1, <6>2, <4>1, <4>2, <4>3, Publishing
        <5>. QED
          BY <5>1, <5>2
      <4>4. CASE Deliver(f)
        <5>1. Arrives(f, 0) /\ published' = published \o Parsed(f, {0})
              /\ frame' = frame /\ chunks' = chunks
          BY <4>4 DEF Deliver
        <5>2. frame = f => {0} \cap chunks = {}
          BY <4>1, <4>2, <5>1
        <5>3. /\ Fine(published \o Parsed(f, {0}), arrived')
              /\ Apart(published \o Parsed(f, {0}), frame, chunks)
          BY <4>1, <4>2, <5>1, <5>2, Publishing
        <5>4. \A k \in chunks' : <<frame', k>> \in arrived'
          BY <4>1, <4>2, <5>1
        <5>. QED
          BY <5>1, <5>3, <5>4 DEF IInv, Fine, Apart
      <4>5. ASSUME NEW i \in Chunks(f), StartFrame(f, i) PROVE IInv'
        <5>1. frame # f /\ Arrives(f, i) /\ Join(f, i, {}, Flushed)
          BY <4>5 DEF StartFrame
        <5>2. Apart(published \o Flushed, f, {i}) /\ Fine(published \o Flushed, arrived')
          BY <5>1, <4>2, <4>3
        <5>3. {} \cup {i} = {i} /\ <<f, i>> \in arrived'
          BY <5>1, <4>2
        <5>4. CASE {i} = Chunks(f)
          <6>1. /\ published' = (published \o Flushed) \o Parsed(f, {i})
                /\ frame' = 0 /\ chunks' = {}
            BY <5>1, <5>3, <5>4 DEF Join
          <6>2. /\ Fine((published \o Flushed) \o Parsed(f, {i}), arrived')
                /\ Apart((published \o Flushed) \o Parsed(f, {i}), 0, {})
            BY <5>2, <5>3, Joining
          <6>. QED
            BY <6>1, <6>2 DEF IInv, Fine, Apart
        <5>5. CASE {i} # Chunks(f)
          <6>1. published' = published \o Flushed /\ frame' = f /\ chunks' = {i}
            BY <5>1, <5>3, <5>5 DEF Join
          <6>. QED
            BY <6>1, <5>2, <5>3 DEF IInv, Fine, Apart
        <5>. QED
          BY <5>4, <5>5
      <4>6. ASSUME NEW i \in Chunks(f), AddChunk(f, i) PROVE IInv'
        <5>1. frame = f /\ Arrives(f, i) /\ Join(f, i, chunks, << >>)
          BY <4>6 DEF AddChunk
        <5>2. /\ Apart(published, f, chunks \cup {i}) /\ Fine(published, arrived')
              /\ published \o << >> = published /\ <<f, i>> \in arrived'
              /\ \A k \in chunks : <<f, k>> \in arrived'
          BY <5>1, <4>1, <4>2 DEF Apart, Fine
        <5>3. CASE chunks \cup {i} = Chunks(f)
          <6>1. /\ published' = published \o Parsed(f, chunks \cup {i})
                /\ frame' = 0 /\ chunks' = {}
            BY <5>1, <5>2, <5>3 DEF Join
          <6>2. /\ Fine(published \o Parsed(f, chunks \cup {i}), arrived')
                /\ Apart(published \o Parsed(f, chunks \cup {i}), 0, {})
            BY <5>2, Joining
          <6>. QED
            BY <6>1, <6>2 DEF IInv, Fine, Apart
        <5>4. CASE chunks \cup {i} # Chunks(f)
          <6>1. published' = published /\ frame' = f /\ chunks' = chunks \cup {i}
            BY <5>1, <5>2, <5>4 DEF Join
          <6>. QED
            BY <6>1, <5>2 DEF IInv, Fine, Apart
        <5>. QED
          BY <5>3, <5>4
      <4>7. ASSUME NEW i \in Chunks(f), TooOld(f, i) PROVE IInv'
        <5>1. Arrives(f, i) /\ published' = published \o Flushed /\ frame' = 0 /\ chunks' = {}
          BY <4>7 DEF TooOld
        <5>2. Fine(published \o Flushed, arrived') /\ Apart(published \o Flushed, 0, {})
          BY <5>1, <4>3 DEF Apart
        <5>. QED
          BY <5>1, <5>2 DEF IInv, Fine, Apart
      <4>. QED
        BY <3>1, <4>4, <4>5, <4>6, <4>7
    <3>. QED
      BY <3>3, <3>4
  <2>. QED
    BY <2>1, <2>2
<1>. QED
  BY <1>1, <1>2, PTL DEF Spec

\* Unless the network duplicates datagrams, no chunk of a frame is in two of
\* the packets the receiver gives to on_packet.
THEOREM ChunksPublishedOnce == Spec => []NoChunkTwice
<1>1. IInv => NoChunkTwice
  BY DEF IInv, Fine, NoChunkTwice
<1>. QED
  BY <1>1, FramesInvariant, PTL


\* The used chunks from i on are those up to k.
BlockEnds(used, i, k) == k \in used /\ i <= k /\ i..k \subseteq used /\ k + 1 \notin used

LEMMA BlockIsLongest ==
  ASSUME NEW used, used \subseteq Int, NEW i \in Int, NEW k, BlockEnds(used, i, k), NEW m \in Int, i <= m, i..m \subseteq used
  PROVE  m <= k
<1>1. k \in Int /\ i <= k /\ k + 1 \notin used
  BY DEF BlockEnds
<1>. QED  BY <1>1

\* A run of _chunk_runs is a block of the used chunks.
LEMMA RunShape ==
  ASSUME NEW f \in Frames, NEW used, used \subseteq Chunks(f), NEW i \in used
  PROVE  \E k \in Chunks(f) :
           /\ BlockEnds(used, i, k) /\ k + 1 \in 0..Many(f) /\ i \in 0..Many(f)
           /\ Run(f, i, used) = [first |-> i, offset |-> i * Size(f, 0), length |-> Start(f, k + 1) - Start(f, i)]
<1>. DEFINE T == {k \in Nat : i < k /\ k \notin used}
<1>0. /\ Many(f) \in Nat /\ Chunks(f) = 0..(Many(f) - 1) /\ i \in Nat /\ i \in 0..(Many(f) - 1)
      /\ \A k \in used : k \in 0..(Many(f) - 1)
  BY FrameShape
<1>1. Many(f) \in T
  BY <1>0
<1>2. PICK n \in T : \A o \in T : n <= o
  <2>. HIDE DEF T
  <2>1. T \subseteq Nat
    BY DEF T
  <2>. QED  BY <1>1, <2>1, LeastNatural
<1>3. PICK e \in Int : e = n - 1 /\ e + 1 = n /\ i <= e /\ n \in Nat /\ n \notin used /\ i < n
  BY <1>0, <1>2
<1>4. i..e \subseteq used
  <2>1. ASSUME NEW m \in i..e PROVE m \in used
    <3>1. m \in Nat /\ m < n /\ i <= m
      BY <1>0, <1>3, <2>1
    <3>2. m \notin T
      BY <1>2, <1>3, <3>1
    <3>. QED  BY <1>0, <3>1, <3>2
  <2>. QED  BY <2>1
<1>5. e \in used
  BY <1>0, <1>3, <1>4
<1>6. BlockEnds(used, i, e)
  BY <1>3, <1>4, <1>5 DEF BlockEnds
<1>7. PICK k : k = CHOOSE c \in used : i <= c /\ i..c \subseteq used /\ c + 1 \notin used
  OBVIOUS
<1>8. k \in used /\ BlockEnds(used, i, k)
  BY <1>6, <1>7 DEF BlockEnds
<1>9. Run(f, i, used) = [first |-> i, offset |-> i * Size(f, 0), length |-> Start(f, k + 1) - Start(f, i)]
  BY <1>7 DEF Run
<1>10. k \in Chunks(f) /\ k + 1 \in 0..Many(f) /\ i \in 0..Many(f)
  BY <1>0, <1>8
<1>. QED  BY <1>8, <1>9, <1>10

\* The offset a run is given is its position, if the chunks before it have the
\* size of chunk 0.
LEMMA OffsetIsStart ==
  ASSUME NEW f \in Frames, NEW n \in 0..Many(f), \A k \in Chunks(f) : k < n => Size(f, k) = Size(f, 0)
  PROVE  n * Size(f, 0) = Start(f, n)
<1>0. PICK s \in Nat : s = Size(f, 0)
  BY FrameShape
<1>1. Many(f) \in Nat /\ Chunks(f) = 0..(Many(f) - 1) /\ n \in Nat
  BY FrameShape
<1>. DEFINE T == {k \in Nat : k <= n => Start(f, k) = k * s}
<1>2. 0 \in T
  BY StartsByOne
<1>3. ASSUME NEW k \in Nat, k \in T PROVE k + 1 \in T
  <2>1. CASE k + 1 <= n
    <3>1. k <= n /\ k \in Chunks(f) /\ k < n
      BY <1>1, <2>1
    <3>2. Start(f, k + 1) = Start(f, k) + s /\ Start(f, k) = k * s
      BY <1>0, <1>3, <3>1, StartsByOne
    <3>3. (k + 1) * s = k * s + s
      OBVIOUS
    <3>. QED  BY <3>2, <3>3
  <2>. QED  BY <1>1, <2>1
<1>. HIDE DEF T
<1>4. \A k \in Nat : k \in T
  BY <1>2, <1>3, Induct
<1>. QED  BY <1>0, <1>1, <1>4 DEF T

\* Which points _parse_runs takes from a run: those that lie in it.
LEMMA PointsOfRun ==
  ASSUME NEW f \in Frames, NEW run, run.offset \in Nat, run.length \in Nat, NEW j
  PROVE  /\ j \in RunPoints(f, run) <=>
              /\ j \in Nat /\ j < Width[f] /\ j < MaxPoints
              /\ run.offset <= Header + j * Stride
              /\ Header + (j + 1) * Stride <= run.offset + run.length
         /\ j \in Nat => j * Stride \in Nat /\ (j + 1) * Stride = j * Stride + Stride
<1>. DEFINE lo    == IF run.offset > Header THEN run.offset ELSE Header
            shown == IF Width[f] < MaxPoints THEN Width[f] ELSE MaxPoints
<1>0. Stride \in Nat \ {0} /\ Header \in Nat /\ MaxPoints \in Nat /\ Width[f] \in Nat
  BY LidarAssumption
<1>1. PICK a \in Int : a = lo - Header
  BY <1>0
<1>2. PICK c \in Int : c = run.offset + run.length - Header
  BY <1>0
<1>3. PICK first \in Int : first = -((-a) \div Stride)
  <2>1. -a \in Int
    OBVIOUS
  <2>2. (-a) \div Stride \in Int
    BY <1>0, <2>1
  <2>. QED  BY <2>2
<1>4. PICK whole \in Int : whole = c \div Stride
  BY <1>0
<1>5. PICK last \in Int : last = IF whole < shown THEN whole ELSE shown
  BY <1>0
<1>6. RunPoints(f, run) = first..(last - 1)
  BY <1>1, <1>2, <1>3, <1>4, <1>5 DEF RunPoints
<1>7. ASSUME NEW k \in Int
      PROVE  k \in first..(last - 1) <=>
               k < shown /\ a <= k * Stride /\ (k + 1) * Stride <= c
  <2>1. first <= k <=> a <= k * Stride
    BY <1>0, <1>3, Rounded
  <2>2. k < whole <=> (k + 1) * Stride <= c
    BY <1>0, <1>4, Rounded
  <2>3. k \in first..(last - 1) <=> first <= k /\ k < last
    OBVIOUS
  <2>4. k < last <=> k < whole /\ k < shown
    BY <1>0, <1>5
  <2>. QED  BY <2>1, <2>2, <2>3, <2>4
<1>8. ASSUME NEW k \in Int PROVE k * Stride \in Int /\ (k + 1) * Stride = k * Stride + Stride /\ (k * Stride >= 0 <=> k >= 0)
  <2>1. ASSUME NEW d \in Nat, NEW s \in Nat \ {0} PROVE d * s >= 0 /\ (-1 - d) * s = -s - d * s /\ d * s \in Int
    OBVIOUS
  <2>2. k >= 0 => k * Stride >= 0
    BY <1>0, <2>1
  <2>3. CASE ~(k >= 0)
    <3>1. PICK d \in Nat : k = -1 - d
      <4>1. -1 - k \in Nat /\ k = -1 - (-1 - k)
        BY <2>3
      <4>. QED  BY <4>1
    <3>2. d * Stride >= 0 /\ k * Stride = -Stride - d * Stride /\ d * Stride \in Int
      BY <1>0, <2>1, <3>1
    <3>3. k * Stride < 0
      BY <1>0, <3>2
    <3>4. k * Stride \in Int /\ (k + 1) * Stride = k * Stride + Stride
      BY <1>0
    <3>. QED  BY <2>3, <3>3, <3>4
  <2>4. k * Stride \in Int /\ (k + 1) * Stride = k * Stride + Stride
    BY <1>0
  <2>. QED  BY <2>2, <2>3, <2>4
<1>9. ASSUME NEW k \in Int
      PROVE  k \in RunPoints(f, run) <=>
              /\ k \in Nat /\ k < Width[f] /\ k < MaxPoints
              /\ run.offset <= Header + k * Stride
              /\ Header + (k + 1) * Stride <= run.offset + run.length
  <2>1. k < shown <=> k < Width[f] /\ k < MaxPoints
    BY <1>0
  <2>2. a <= k * Stride <=> k \in Nat /\ run.offset <= Header + k * Stride
    <3>1. PICK x \in Int : x = k * Stride /\ (x >= 0 <=> k >= 0)
      BY <1>8
    <3>2. PICK o \in Nat : o = run.offset
      OBVIOUS
    <3>3. a = IF o > Header THEN o - Header ELSE 0
      BY <1>0, <1>1, <3>2
    <3>4. a <= x <=> x >= 0 /\ o <= Header + x
      BY <1>0, <3>3
    <3>. QED  BY <3>1, <3>2, <3>4
  <2>3. (k + 1) * Stride <= c <=> Header + (k + 1) * Stride <= run.offset + run.length
    <3>1. PICK x \in Int : x = (k + 1) * Stride
      BY <1>8, <1>0
    <3>. QED  BY <1>0, <1>2, <3>1
  <2>. QED  BY <1>6, <1>7, <2>1, <2>2, <2>3
<1>10. j \in RunPoints(f, run) => j \in Int
  BY <1>6
<1>11. j \in Nat => j \in Int
  OBVIOUS
<1>12. j \in Nat => j * Stride \in Nat /\ (j + 1) * Stride = j * Stride + Stride
  BY <1>8, <1>11
<1>. QED  BY <1>9, <1>10, <1>11, <1>12

\* The chunks whose position is taken as known are received ones, begin with
\* chunk 0, and are all of them when the chunks have one size.
LEMMA UsedAreReceived ==
  ASSUME NEW f \in Frames, NEW got, got \subseteq Chunks(f)
  PROVE  /\ UsedChunks(f, got) \subseteq got
         /\ UsedChunks(f, got) # {} => 0 \in got
         /\ Uniform(f) /\ 0 \in got => UsedChunks(f, got) = got
<1>1. Uniform(f) => \A i \in got : i = LastIndex(f) \/ Size(f, i) = Size(f, 0)
  BY DEF Uniform
<1>. QED  BY <1>1 DEF UsedChunks

\* A received chunk below a used one has the size of chunk 0, when every
\* missing one below a received one has.
LEMMA SizesBelow ==
  ASSUME NEW f \in Frames, NEW got, got \subseteq Chunks(f),
         \A m \in Chunks(f) \ got : (\E k \in got : m < k) => Size(f, m) = Size(f, 0),
         NEW i \in UsedChunks(f, got), NEW k \in Chunks(f), k < i
  PROVE  Size(f, k) = Size(f, 0)
<1>1. i \in got /\ i \in Chunks(f)
  BY UsedAreReceived
<1>2. k # LastIndex(f) /\ k \in Int /\ k \in 0..i
  BY SMTT(30), <1>1, FrameShape
<1>3. CASE k \notin got
  BY <1>1, <1>3
<1>4. CASE k \in got
  <2>. DEFINE asChunk0(x) == x = LastIndex(f) \/ Size(f, x) = Size(f, 0)
  <2>1. asChunk0(k)
    <3>1. CASE \A x \in got : asChunk0(x)
      BY <1>4, <3>1
    <3>2. CASE ~\A x \in got : asChunk0(x)
      <4>1. \A x \in 0..i : x \in got /\ asChunk0(x)
        BY <3>2 DEF UsedChunks
      <4>. QED  BY <1>2, <4>1
    <3>. QED  BY <3>1, <3>2
  <2>. QED  BY <1>2, <2>1
<1>. QED  BY <1>3, <1>4

\* A packet is made of the runs of the chunks it was given.
LEMMA PacketOf ==
  ASSUME NEW f, NEW got, NEW p, Parsed(f, got) = <<p>>
  PROVE  /\ p.frame = f /\ p.chunks = got
         /\ p.points = UNION {Recovered(f, run) : run \in Runs(f, got)}
         /\ Runs(f, got) # {}
<1>. DEFINE header == \E run \in Runs(f, got) : run.offset = 0 /\ run.length >= Header
            whole == UNION {Recovered(f, run) : run \in Runs(f, got)}
            r == [frame |-> f, chunks |-> got, points |-> whole]
<1>1. Parsed(f, got) = IF header THEN <<r>> ELSE << >>
  BY Zenon DEF Parsed
<1>2. r.frame = f /\ r.chunks = got /\ r.points = whole
  OBVIOUS
<1>3. header => Runs(f, got) # {}
  OBVIOUS
<1>. HIDE DEF header, r, whole
<1>4. header
  <2>1. << >> # <<p>>
    OBVIOUS
  <2>. QED  BY <1>1, <2>1
<1>5. <<r>> = <<p>> => r = p
  OBVIOUS
<1>6. r = p
  BY <1>1, <1>4, <1>5
<1>. QED  BY <1>2, <1>3, <1>4, <1>6 DEF whole

\* A run of received chunks: its first chunk, its last, and what is between.
LEMMA RunOf ==
  ASSUME NEW f \in Frames, NEW got, got \subseteq Chunks(f), NEW run \in Runs(f, got)
  PROVE  \E i \in UsedChunks(f, got), k \in Chunks(f) :
           /\ BlockEnds(UsedChunks(f, got), i, k) /\ k + 1 \in 0..Many(f) /\ i \in 0..Many(f) /\ i \in Nat /\ i < k + 1
           /\ run.first = i /\ run.offset = i * Size(f, 0) /\ run.length = Start(f, k + 1) - Start(f, i)
           /\ run.offset \in Nat /\ run.length \in Nat /\ Start(f, i) \in Nat /\ Start(f, k + 1) \in Nat
<1>. DEFINE used == UsedChunks(f, got)
<1>1. PICK i \in used : run = Run(f, i, used)
  BY DEF Runs
<1>2. used \subseteq Chunks(f)
  BY UsedAreReceived
<1>3. PICK k \in Chunks(f) :
        /\ BlockEnds(used, i, k) /\ k + 1 \in 0..Many(f) /\ i \in 0..Many(f)
        /\ Run(f, i, used) = [first |-> i, offset |-> i * Size(f, 0), length |-> Start(f, k + 1) - Start(f, i)]
  <2>. HIDE DEF used
  <2>. QED  BY <1>2, RunShape
<1>4. i \in Nat /\ k \in Nat /\ i <= k
  BY <1>2, <1>3, FrameShape DEF BlockEnds
<1>5. i < k + 1
  BY <1>4
<1>6. Start(f, i) < Start(f, k + 1) /\ Start(f, i) \in Nat /\ Start(f, k + 1) \in Nat
  BY <1>3, <1>5, StartsAscend
<1>7. Start(f, k + 1) - Start(f, i) \in Nat
  BY <1>6
<1>8. i * Size(f, 0) \in Nat
  <2>1. PICK s \in Nat : s = Size(f, 0)
    BY FrameShape
  <2>. QED  BY <1>4, <2>1
<1>9. run.first = i /\ run.offset = i * Size(f, 0) /\ run.length = Start(f, k + 1) - Start(f, i)
  BY <1>1, <1>3
<1>. QED  BY <1>3, <1>4, <1>5, <1>6, <1>7, <1>8, <1>9

\* Every point is read from its own position, unless a chunk of another size
\* is missing below a received one.
LEMMA PacketsAreRight ==
  ASSUME NEW f \in Frames, NEW got, got \subseteq Chunks(f), NEW p, Parsed(f, got) = <<p>>,
         \A m \in Chunks(f) \ got : (\E k \in got : m < k) => Size(f, m) = Size(f, 0)
  PROVE  Right(p)
<1>1. p.points = UNION {Recovered(f, run) : run \in Runs(f, got)}
  BY PacketOf
<1>2. ASSUME NEW pt \in p.points PROVE pt[2] = Header + pt[1] * Stride
  <2>1. PICK run \in Runs(f, got) : pt \in Recovered(f, run)
    BY <1>1
  <2>2. PICK i \in UsedChunks(f, got), k \in Chunks(f) :
           /\ i \in 0..Many(f) /\ i \in Nat
           /\ run.first = i /\ run.offset = i * Size(f, 0)
           /\ run.offset \in Nat /\ run.length \in Nat /\ Start(f, i) \in Nat
    BY <2>1, RunOf
  <2>3. run.offset = Start(f, i)
    BY <2>2, SizesBelow, OffsetIsStart
  <2>4. PICK j \in RunPoints(f, run) : pt = <<j, Header + j * Stride - run.offset + Start(f, run.first)>>
    BY <2>1 DEF Recovered
  <2>5. j \in Nat /\ j * Stride \in Nat
    BY <2>2, <2>4, PointsOfRun
  <2>6. pt[1] = j /\ pt[2] = Header + j * Stride - run.offset + Start(f, run.first)
    BY <2>4
  <2>. QED  BY <2>2, <2>3, <2>5, <2>6, LidarAssumption
<1>. QED  BY <1>2 DEF Right

\* Bytes that were all received lie in one block of received chunks.
LEMMA BytesInBlock ==
  ASSUME NEW f \in Frames, NEW got, got \subseteq Chunks(f), NEW a \in Nat, NEW b \in Nat, a < b,
         \A x \in a..(b - 1) : \E i \in got : Start(f, i) <= x /\ x < Start(f, i + 1)
  PROVE  \E i \in got, k \in got :
           i - 1 \notin got /\ BlockEnds(got, i, k) /\ Start(f, i) <= a /\ b <= Start(f, k + 1)
<1>0. /\ Many(f) \in Nat /\ Chunks(f) = 0..(Many(f) - 1)
      /\ \A k \in got : k \in Nat /\ k \in 0..Many(f) /\ k + 1 \in 0..Many(f)
      /\ \A k \in 0..Many(f) : Start(f, k) \in Nat
  <2>1. PICK n \in Nat \ {0} : n = Many(f) /\ Chunks(f) = 0..(n - 1)
    BY FrameShape
  <2>2. \A k \in got : k \in 0..(n - 1)
    BY <2>1
  <2>3. \A k \in got : k \in Nat /\ k \in 0..n /\ k + 1 \in 0..n
    BY <2>2
  <2>. QED  BY <2>1, <2>3, StartsByOne
<1>1. PICK c \in got : Start(f, c) <= a /\ a < Start(f, c + 1)
  <2>1. a \in a..(b - 1)
    OBVIOUS
  <2>. QED  BY <2>1
<1>. DEFINE T == {s \in Nat : s <= c /\ s..c \subseteq got}
<1>2. c \in T
  <2>1. c..c = {c}
    BY <1>0
  <2>. QED  BY <1>0, <2>1
<1>3. PICK i \in T : \A o \in T : i <= o
  <2>. HIDE DEF T
  <2>1. T \subseteq Nat
    BY DEF T
  <2>. QED  BY <1>2, <2>1, LeastNatural
<1>4. i \in Nat /\ i <= c /\ i..c \subseteq got /\ i \in got /\ c \in Nat
  <2>1. i \in Nat /\ i <= c /\ i..c \subseteq got /\ c \in Nat
    BY <1>0
  <2>2. i \in i..c
    BY <2>1
  <2>. QED  BY <2>1, <2>2
<1>5. i - 1 \notin got
  <2>1. SUFFICES ASSUME i - 1 \in got PROVE FALSE
    OBVIOUS
  <2>2. i - 1 \in Nat /\ i - 1 <= c /\ ~(i <= i - 1)
    BY <1>0, <1>4, <2>1
  <2>3. \A m \in (i - 1)..c : m \in got
    <3>1. \A m \in (i - 1)..c : m = i - 1 \/ m \in i..c
      BY <1>4
    <3>. QED  BY <1>4, <2>1, <3>1
  <2>4. i - 1 \in T
    BY <2>2, <2>3
  <2>. QED  BY <1>3, <2>2, <2>4
<1>6. PICK k \in Chunks(f) : BlockEnds(got, i, k) /\ k + 1 \in 0..Many(f)
  BY <1>4, RunShape
<1>7. c <= k /\ k \in got /\ k \in Nat
  <2>1. got \subseteq Int /\ c \in Int /\ i \in Int
    BY <1>0
  <2>. QED  BY <1>0, <1>4, <1>6, <2>1, BlockIsLongest DEF BlockEnds
<1>8. Start(f, i) <= a
  <2>1. i < c => Start(f, i) < Start(f, c)
    BY <1>0, <1>4, StartsAscend
  <2>2. Start(f, i) \in Nat /\ Start(f, c) \in Nat
    BY <1>0, <1>4
  <2>. QED  BY <1>1, <1>4, <2>1, <2>2
<1>9. b <= Start(f, k + 1)
  <2>1. SUFFICES ASSUME ~(b <= Start(f, k + 1)) PROVE FALSE
    OBVIOUS
  <2>2. PICK x \in Nat : x = Start(f, k + 1)
    BY <1>0, <1>6
  <2>3. c + 1 <= k + 1 /\ (c + 1 < k + 1 => Start(f, c + 1) < Start(f, k + 1))
    BY <1>0, <1>1, <1>6, <1>7, StartsAscend
  <2>4. Start(f, c + 1) \in Nat /\ Start(f, c + 1) <= x
    BY SMTT(30), <1>0, <1>1, <1>7, <2>2, <2>3
  <2>5. x \in a..(b - 1)
    BY <1>1, <2>1, <2>2, <2>4
  <2>6. PICK d \in got : Start(f, d) <= x /\ x < Start(f, d + 1)
    BY <2>5
  <2>7. ~(d + 1 <= k + 1)
    <3>1. d + 1 < k + 1 => Start(f, d + 1) < Start(f, k + 1)
      BY <1>0, <1>6, <2>6, StartsAscend
    <3>2. Start(f, d + 1) \in Nat /\ d + 1 \in Nat /\ k + 1 \in Nat
      BY <1>0, <1>7, <2>6
    <3>. QED  BY <2>2, <2>6, <3>1, <3>2
  <2>8. ~(k + 1 < d)
    <3>1. k + 1 < d => Start(f, k + 1) < Start(f, d)
      BY <1>0, <1>6, <2>6, StartsAscend
    <3>2. Start(f, d) \in Nat
      BY <1>0, <2>6
    <3>. QED  BY <2>2, <2>6, <3>1, <3>2
  <2>9. d = k + 1
    BY <1>0, <1>7, <2>6, <2>7, <2>8
  <2>. QED  BY <1>6, <2>6, <2>9 DEF BlockEnds
<1>. QED  BY <1>4, <1>5, <1>6, <1>7, <1>8, <1>9

\* In a frame whose chunks have one size, the offset of a run is its position.
LEMMA UniformOffset ==
  ASSUME NEW f \in Frames, Uniform(f), NEW i \in Chunks(f)
  PROVE  i * Size(f, 0) = Start(f, i)
<1>1. i \in 0..Many(f) /\ \A k \in Chunks(f) : k < i => k # LastIndex(f)
  <2>1. PICK n \in Nat \ {0} : n = Many(f) /\ Chunks(f) = 0..(n - 1) /\ LastIndex(f) = n - 1
    BY FrameShape
  <2>2. i \in 0..n /\ \A k \in 0..(n - 1) : k < i => k # n - 1
    BY <2>1
  <2>. QED  BY <2>1, <2>2
<1>2. \A k \in Chunks(f) : k < i => Size(f, k) = Size(f, 0)
  BY <1>1 DEF Uniform
<1>. QED  BY <1>1, <1>2, OffsetIsStart

\* A block of received chunks is a run.
LEMMA BlockIsRun ==
  ASSUME NEW f \in Frames, NEW got, got \subseteq Chunks(f), UsedChunks(f, got) = got,
         NEW i \in got, i - 1 \notin got, NEW k, BlockEnds(got, i, k)
  PROVE  \E run \in Runs(f, got) :
           run.first = i /\ run.offset = i * Size(f, 0) /\ run.length = Start(f, k + 1) - Start(f, i)
<1>1. PICK c \in Chunks(f) :
        /\ BlockEnds(got, i, c)
        /\ Run(f, i, got) = [first |-> i, offset |-> i * Size(f, 0), length |-> Start(f, c + 1) - Start(f, i)]
  BY RunShape
<1>2. got \subseteq Int
  BY FrameShape
<1>3. c = k
  <2>1. c \in Int /\ k \in Int /\ i \in Int /\ i <= c /\ i <= k /\ i..c \subseteq got /\ i..k \subseteq got
    BY <1>1, <1>2 DEF BlockEnds
  <2>2. c <= k /\ k <= c
    BY <1>1, <1>2, <2>1, BlockIsLongest
  <2>. QED  BY <2>1, <2>2
<1>4. PICK run : run = Run(f, i, got)
  OBVIOUS
<1>5. run \in Runs(f, got)
  BY <1>4 DEF Runs
<1>. QED  BY <1>1, <1>3, <1>4, <1>5

\* When the chunks have one size, a packet has every point, up to max_points,
\* of which all bytes were received, and no other.
LEMMA PacketsAreComplete ==
  ASSUME NEW f \in Frames, NEW got, got \subseteq Chunks(f), NEW p, Parsed(f, got) = <<p>>, Uniform(f)
  PROVE  AllPoints(p)
<1>0. /\ p.frame = f /\ p.chunks = got
      /\ p.points = UNION {Recovered(f, run) : run \in Runs(f, got)}
      /\ Stride \in Nat \ {0} /\ Header \in Nat /\ MaxPoints \in Nat /\ Width[f] \in Nat
      /\ \A i \in got : i \in Chunks(f)
  BY PacketOf, LidarAssumption
<1>1. UsedChunks(f, got) = got
  <2>1. UsedChunks(f, got) # {}
    BY PacketOf DEF Runs
  <2>. QED  BY <2>1, UsedAreReceived
<1>2. ASSUME NEW pt \in p.points
      PROVE  pt[1] \in 0..(Width[f] - 1) /\ pt[1] < MaxPoints /\ Whole(f, got, pt[1])
  <2>1. PICK run \in Runs(f, got) : pt \in Recovered(f, run)
    BY <1>0
  <2>2. PICK i \in got, k \in Chunks(f) :
           /\ BlockEnds(got, i, k) /\ k + 1 \in 0..Many(f) /\ i \in 0..Many(f)
           /\ run.offset = i * Size(f, 0) /\ run.length = Start(f, k + 1) - Start(f, i)
           /\ run.offset \in Nat /\ run.length \in Nat /\ Start(f, i) \in Nat /\ Start(f, k + 1) \in Nat
    BY <1>1, <2>1, RunOf
  <2>3. run.offset = Start(f, i) /\ run.offset + run.length = Start(f, k + 1)
    BY <1>0, <2>2, UniformOffset
  <2>4. PICK j \in RunPoints(f, run) : pt[1] = j
    BY <2>1 DEF Recovered
  <2>5. /\ j \in Nat /\ j < Width[f] /\ j < MaxPoints
        /\ Start(f, i) <= Header + j * Stride
        /\ Header + (j + 1) * Stride <= Start(f, k + 1)
        /\ j * Stride \in Nat /\ (j + 1) * Stride = j * Stride + Stride
    BY <2>2, <2>3, <2>4, PointsOfRun
  <2>6. ASSUME NEW b \in (Header + j * Stride)..(Header + (j + 1) * Stride - 1)
        PROVE  \E c \in got : Start(f, c) <= b /\ b < Start(f, c + 1)
    <3>1. b \in Nat /\ Start(f, i) <= b /\ b < Start(f, k + 1)
      BY <1>0, <2>2, <2>5, <2>6
    <3>2. PICK c \in Chunks(f) : i <= c /\ c < k + 1 /\ Start(f, c) <= b /\ b < Start(f, c + 1)
      BY <2>2, <3>1, ByteIsFound
    <3>3. i \in Int /\ k \in Int /\ c \in Int
      BY <1>0, FrameShape
    <3>4. c \in i..k
      BY <3>2, <3>3
    <3>. QED  BY <2>2, <3>2, <3>4 DEF BlockEnds
  <2>7. Whole(f, got, j)
    BY <2>6 DEF Whole
  <2>. QED  BY <1>0, <2>4, <2>5, <2>7
<1>3. ASSUME NEW j \in 0..(Width[f] - 1), j < MaxPoints, Whole(f, got, j)
      PROVE  \E pt \in p.points : pt[1] = j
  <2>0. j \in Nat /\ j < Width[f]
    BY <1>0
  <2>1. j * Stride \in Nat /\ (j + 1) * Stride = j * Stride + Stride
    <3>1. ASSUME NEW s \in Nat \ {0} PROVE j * s \in Nat /\ (j + 1) * s = j * s + s
      BY <2>0
    <3>. QED  BY <1>0, <3>1
  <2>2. PICK a \in Nat, b \in Nat : a = Header + j * Stride /\ b = Header + (j + 1) * Stride /\ a < b
    BY <1>0, <2>1
  <2>3. \A x \in a..(b - 1) : \E c \in got : Start(f, c) <= x /\ x < Start(f, c + 1)
    <3>1. a..(b - 1) = (Header + j * Stride)..(Header + (j + 1) * Stride - 1)
      <4>1. PICK y \in Nat : y = (j + 1) * Stride
        BY <1>0, <2>1
      <4>2. b - 1 = Header + (y - 1)
        BY <1>0, <2>2, <4>1
      <4>. QED  BY <2>2, <4>1, <4>2, Zenon
    <3>. QED  BY <1>3, <3>1, Zenon DEF Whole
  <2>4. PICK i \in got, k \in got :
          i - 1 \notin got /\ BlockEnds(got, i, k) /\ Start(f, i) <= a /\ b <= Start(f, k + 1)
    BY <2>2, <2>3, BytesInBlock
  <2>5. PICK run \in Runs(f, got) :
          run.offset = i * Size(f, 0) /\ run.length = Start(f, k + 1) - Start(f, i)
    BY <1>1, <2>4, BlockIsRun
  <2>6. run.offset \in Nat /\ run.length \in Nat
    BY <2>5, RunOf
  <2>7. run.offset = Start(f, i)
    BY <1>0, <2>5, UniformOffset
  <2>8. Start(f, k + 1) \in Nat
    <3>1. k + 1 \in 0..Many(f)
      <4>1. PICK n \in Nat : n = Many(f) /\ k \in 0..(n - 1)
        BY <1>0, FrameShape
      <4>. QED  BY <4>1
    <3>. QED  BY <3>1, StartsByOne
  <2>9. run.offset <= Header + j * Stride /\ Header + (j + 1) * Stride <= run.offset + run.length
    BY <2>2, <2>4, <2>5, <2>6, <2>7, <2>8
  <2>10. j \in RunPoints(f, run)
    BY <1>3, <2>0, <2>6, <2>9, PointsOfRun
  <2>11. <<j, Header + j * Stride - run.offset + Start(f, run.first)>> \in p.points
    BY <1>0, <2>10 DEF Recovered
  <2>. QED  BY <2>11
<1>4. {pt[1] : pt \in p.points} = {j \in 0..(Width[f] - 1) : j < MaxPoints /\ Whole(f, got, j)}
  BY <1>2, <1>3
<1>. QED  BY <1>0, <1>4 DEF AllPoints

\* A frame whose header arrived is published.
LEMMA HeaderIsEnough ==
  ASSUME NEW f \in Frames, NEW got, got \subseteq Chunks(f), Uniform(f), HeaderReceived(f, got)
  PROVE  Parsed(f, got) # << >>
<1>0. Header \in Nat \ {0} /\ \A i \in got : i \in Chunks(f) /\ i \in Nat
  BY LidarAssumption, FrameShape
<1>1. \A x \in 0..(Header - 1) : \E i \in got : Start(f, i) <= x /\ x < Start(f, i + 1)
  BY DEF HeaderReceived
<1>2. PICK i \in got, k \in got :
        i - 1 \notin got /\ BlockEnds(got, i, k) /\ Start(f, i) <= 0 /\ Header <= Start(f, k + 1)
  <2>1. PICK h \in Nat : h = Header /\ 0 < h /\ 0 \in Nat
    BY <1>0
  <2>. QED  BY <1>1, <2>1, BytesInBlock
<1>3. i = 0 /\ Start(f, 0) = 0
  <2>1. PICK n \in Nat : n = Many(f) /\ i \in 0..(n - 1) /\ 0 \in 0..n /\ i \in 0..n
    BY SMTT(30), <1>0, FrameShape
  <2>2. 0 < i => Start(f, 0) < Start(f, i)
    BY <2>1, StartsAscend
  <2>3. Start(f, 0) = 0 /\ Start(f, i) \in Nat
    BY <2>1, StartsByOne
  <2>. QED  BY <1>2, <2>1, <2>2, <2>3
<1>4. UsedChunks(f, got) = got
  BY <1>3, UsedAreReceived
<1>5. PICK run \in Runs(f, got) : run.offset = i * Size(f, 0) /\ run.length = Start(f, k + 1) - Start(f, i)
  BY <1>2, <1>4, BlockIsRun
<1>6. run.offset = 0 /\ run.length >= Header
  <2>1. Start(f, k + 1) \in Nat
    <3>1. PICK n \in Nat : n = Many(f) /\ k \in 0..(n - 1)
      BY <1>0, FrameShape
    <3>. QED  BY <3>1, StartsByOne
  <2>2. PICK s \in Nat : s = Size(f, 0)
    BY FrameShape
  <2>. QED  BY <1>0, <1>2, <1>3, <1>5, <2>1, <2>2
<1>. DEFINE r == [frame |-> f, chunks |-> got, points |-> UNION {Recovered(f, o) : o \in Runs(f, got)}]
<1>7. Parsed(f, got) = <<r>>
  BY <1>5, <1>6, Zenon DEF Parsed
<1>. QED  BY <1>7

\* The packets of a frame; the sequences of packets the receiver publishes.
PacketsOf(s, f)     == {n \in DOMAIN s : s[n].frame = f}
Unpublished(s, f)   == PacketsOf(s, f) = {}
Once(s, f, got) ==
  IF Parsed(f, got) = << >> THEN Unpublished(s, f)
  ELSE \E n : PacketsOf(s, f) = {n} /\ s[n].chunks = got
Made(s) ==
  /\ s \in Seq(Range(s))
  /\ \A n \in DOMAIN s : \E f \in Frames : \E got \in SUBSET Chunks(f) : Parsed(f, got) = <<s[n]>>

LEMMA OnePacketMore ==
  ASSUME NEW s, Made(s), NEW f \in Frames, NEW got, got \subseteq Chunks(f), NEW t, t = s \o Parsed(f, got)
  PROVE  /\ Made(t)
         /\ Unpublished(s, f) => Once(t, f, got)
         /\ \A g : g # f => /\ Unpublished(s, g) => Unpublished(t, g)
                            /\ \A h : Once(s, g, h) => Once(t, g, h)
<1>1. CASE Parsed(f, got) = << >>
  <2>1. t = s
    BY <1>1 DEF Made
  <2>. QED  BY <1>1, <2>1 DEF Once
<1>2. CASE Parsed(f, got) # << >>
  <2>1. PICK p : Parsed(f, got) = <<p>> /\ p.frame = f /\ p.chunks = got
    BY <1>2, AtMostOnePacket
  <2>2. PICK l \in Nat : l = Len(s) /\ DOMAIN s = 1..l /\ s \in Seq(Range(s))
    BY DEF Made
  <2>3. /\ Len(t) = l + 1 /\ DOMAIN t = 1..(l + 1)
        /\ \A n \in 1..l : t[n] = s[n]
        /\ t[l + 1] = p
    <3>1. PICK R : R = Range(s) \cup {p}
      OBVIOUS
    <3>2. s \in Seq(R) /\ <<p>> \in Seq(R) /\ t = s \o <<p>> /\ Len(<<p>>) = 1 /\ <<p>>[1] = p
      BY <2>1, <2>2, <3>1
    <3>. QED  BY <2>2, <3>2
  <2>4. t \in Seq(Range(t))
    BY <2>1, <2>2, Extended
  <2>5. DOMAIN t = DOMAIN s \cup {l + 1} /\ l + 1 \notin DOMAIN s
    BY <2>2, <2>3
  <2>6. PacketsOf(t, f) = PacketsOf(s, f) \cup {l + 1}
    BY <2>1, <2>2, <2>3, <2>5 DEF PacketsOf
  <2>7. ASSUME NEW g, g # f PROVE PacketsOf(t, g) = PacketsOf(s, g)
    BY <2>1, <2>2, <2>3, <2>5, <2>7 DEF PacketsOf
  <2>8. Made(t)
    <3>1. ASSUME NEW n \in DOMAIN t PROVE \E g \in Frames : \E h \in SUBSET Chunks(g) : Parsed(g, h) = <<t[n]>>
      <4>1. CASE n \in DOMAIN s
        BY <2>2, <2>3, <4>1 DEF Made
      <4>2. CASE n = l + 1
        BY <2>1, <2>3, <4>2
      <4>. QED  BY <2>5, <4>1, <4>2
    <3>. QED  BY <2>4, <3>1 DEF Made
  <2>9. Unpublished(s, f) => Once(t, f, got)
    BY <1>2, <2>1, <2>3, <2>6 DEF Unpublished, Once
  <2>10. ASSUME NEW g, g # f, NEW h, Once(s, g, h) PROVE Once(t, g, h)
    <3>1. CASE Parsed(g, h) = << >>
      BY <2>7, <2>10, <3>1 DEF Once, Unpublished
    <3>2. CASE Parsed(g, h) # << >>
      <4>1. PICK n : PacketsOf(s, g) = {n} /\ s[n].chunks = h
        BY <2>10, <3>2 DEF Once
      <4>2. n \in DOMAIN s
        BY <4>1 DEF PacketsOf
      <4>3. PacketsOf(t, g) = {n} /\ t[n].chunks = h
        BY <2>2, <2>3, <2>7, <2>10, <4>1, <4>2
      <4>. QED  BY <3>2, <4>3 DEF Once
    <3>. QED  BY <3>1, <3>2
  <2>. QED  BY <2>7, <2>8, <2>9, <2>10 DEF Unpublished
<1>. QED  BY <1>1, <1>2

\* The assembly is of chunks of a frame, and datagrams carry chunks of frames.
Held == /\ frame = 0 => chunks = {}
        /\ frame # 0 => frame \in Frames /\ chunks \subseteq Chunks(frame)
        /\ \A c \in arrived : c[1] \in Frames /\ c[2] \in Chunks(c[1])

LEMMA FlushedKeeps ==
  ASSUME Held, Made(published), NEW t, t = published \o Flushed
  PROVE  /\ Made(t)
         /\ \A g : g # frame => /\ Unpublished(published, g) => Unpublished(t, g)
                                /\ \A h : Once(published, g, h) => Once(t, g, h)
         /\ chunks = {} /\ Unpublished(published, frame) => Unpublished(t, frame)
         /\ chunks # {} /\ Unpublished(published, frame) => Once(t, frame, chunks)
<1>1. CASE chunks = {}
  <2>1. t = published
    BY <1>1 DEF Flushed, Made
  <2>. QED  BY <1>1, <2>1
<1>2. CASE chunks # {}
  <2>1. frame \in Frames /\ chunks \subseteq Chunks(frame)
    BY <1>2 DEF Held
  <2>2. t = published \o Parsed(frame, chunks)
    BY <1>2 DEF Flushed
  <2>. QED  BY <1>2, <2>1, <2>2, OnePacketMore
<1>. QED  BY <1>1, <1>2

LEMMA JoinKeeps ==
  ASSUME NEW f \in Frames, NEW i, NEW got, got \cup {i} \subseteq Chunks(f), NEW before, Join(f, i, got, before),
         NEW s, s = published \o before, Made(s)
  PROVE  /\ Made(published')
         /\ \A g : g # f => /\ Unpublished(s, g) => Unpublished(published', g)
                            /\ \A h : Once(s, g, h) => Once(published', g, h)
         /\ \/ frame' = 0 /\ chunks' = {}
            \/ frame' = f /\ chunks' \subseteq Chunks(f)
         /\ Unpublished(s, f) =>
              \/ /\ got \cup {i} = Chunks(f) /\ frame' = 0
                 /\ Once(published', f, got \cup {i})
              \/ /\ got \cup {i} # Chunks(f) /\ frame' = f /\ chunks' = got \cup {i}
                 /\ Unpublished(published', f)
<1>1. CASE got \cup {i} = Chunks(f)
  <2>1. published' = s \o Parsed(f, got \cup {i}) /\ frame' = 0 /\ chunks' = {}
    BY <1>1 DEF Join
  <2>2. PICK t : t = published'
    OBVIOUS
  <2>3. PICK all : all = got \cup {i} /\ all \subseteq Chunks(f)
    OBVIOUS
  <2>4. t = s \o Parsed(f, all)
    BY <2>1, <2>2, <2>3
  <2>5. /\ Made(t)
        /\ Unpublished(s, f) => Once(t, f, all)
        /\ \A g : g # f => /\ Unpublished(s, g) => Unpublished(t, g)
                           /\ \A h : Once(s, g, h) => Once(t, g, h)
    <3>1. f \in Frames /\ Made(s) /\ all \subseteq Chunks(f) /\ t = s \o Parsed(f, all)
      BY <2>3, <2>4
    <3>. QED  BY ONLY <3>1, OnePacketMore
  <2>. QED  BY <1>1, <2>1, <2>2, <2>3, <2>5
<1>2. CASE got \cup {i} # Chunks(f)
  <2>1. published' = s /\ frame' = f /\ chunks' = got \cup {i}
    BY <1>2 DEF Join
  <2>. QED  BY <1>2, <2>1
<1>. QED  BY <1>1, <1>2

\* What a frame has received, when no more can come; what is held of it.
Over(f) == Got(f) = Chunks(f) \/ \E c \in arrived : c[1] > f
KeptOf(f) ==
  /\ f = frame => Unpublished(published, f) /\ chunks = Got(f) /\ Got(f) # Chunks(f)
  /\ f # frame => \/ Got(f) = {} /\ Unpublished(published, f)
                  \/ Got(f) # {} /\ Over(f) /\ Once(published, f, Got(f))
FramesInv ==
  /\ Held /\ Made(published)
  /\ network = "ordered" => \A f \in Frames \ (Plain \cup aged) : KeptOf(f)

\* A datagram that keeps the order is of no frame that is over.
LEMMA InOrderArrival ==
  ASSUME Held, NEW f \in Frames, NEW i \in Chunks(f), Arrives(f, i)
  PROVE  /\ network' = network /\ arrived' = arrived \cup {<<f, i>>}
         /\ \A c \in arrived' : c[1] \in Frames /\ c[2] \in Chunks(c[1])
         /\ Got(f)' = Got(f) \cup {i}
         /\ \A g \in Frames : g # f => Got(g)' = Got(g) /\ (Over(g) => Over(g)')
         /\ network = "ordered" => ~Over(f) /\ \A g \in Frames : g # f /\ Got(g) # {} => Over(g)'
<1>1. network' = network /\ arrived' = arrived \cup {<<f, i>>}
  BY DEF Arrives
<1>2. \A c \in arrived' : c[1] \in Frames /\ c[2] \in Chunks(c[1])
  <2>1. <<f, i>>[1] = f /\ <<f, i>>[2] = i
    OBVIOUS
  <2>. QED  BY <1>1, <2>1 DEF Held
<1>3. \A g, k : <<g, k>> = <<f, i>> <=> g = f /\ k = i
  OBVIOUS
<1>4. Got(f)' = Got(f) \cup {i}
  BY <1>1, <1>3 DEF Got, Chunks, LastIndex
<1>5. ASSUME NEW g \in Frames, g # f PROVE Got(g)' = Got(g) /\ (Over(g) => Over(g)')
  <2>1. Got(g)' = Got(g)
    BY <1>1, <1>3, <1>5 DEF Got, Chunks, LastIndex
  <2>. QED  BY <1>1, <2>1 DEF Over, Chunks, LastIndex
<1>6. ASSUME network = "ordered" PROVE ~Over(f)
  <2>1. \A c \in arrived : (c[1] < f \/ (c[1] = f /\ c[2] < i)) /\ c[1] \in Frames
    BY <1>6 DEF Arrives, Held
  <2>2. f \in Nat /\ \A c \in arrived : c[1] \in Nat
    BY <2>1, FrameShape
  <2>3. ~\E c \in arrived : c[1] > f
    BY <2>1, <2>2
  <2>4. Got(f) # Chunks(f)
    <3>1. SUFFICES ASSUME Got(f) = Chunks(f) PROVE FALSE
      OBVIOUS
    <3>2. PICK n \in Nat : LastIndex(f) = n /\ n \in Chunks(f) /\ Chunks(f) = 0..n
      <4>1. PICK m \in Nat \ {0} : m = Many(f)
        BY FrameShape
      <4>2. m - 1 \in Nat
        OBVIOUS
      <4>. QED  BY <4>1, <4>2, FrameShape
    <3>3. <<f, n>> \in arrived
      BY <3>1, <3>2 DEF Got
    <3>4. <<f, n>>[1] = f /\ <<f, n>>[2] = n
      OBVIOUS
    <3>5. f < f \/ n < i
      BY <2>1, <3>3, <3>4
    <3>. QED  BY <2>2, <3>2, <3>5
  <2>. QED  BY <2>3, <2>4 DEF Over
<1>7. ASSUME network = "ordered", NEW g \in Frames, g # f, Got(g) # {} PROVE Over(g)'
  <2>1. PICK k : <<g, k>> \in arrived
    BY <1>7 DEF Got
  <2>2. <<g, k>>[1] = g
    OBVIOUS
  <2>3. g < f \/ g = f
    BY <1>7, <2>1, <2>2 DEF Arrives
  <2>4. <<f, i>> \in arrived' /\ <<f, i>>[1] = f
    BY <1>1
  <2>5. f > g
    BY <1>7, <2>3, FrameShape
  <2>. QED  BY <2>4, <2>5 DEF Over
<1>. QED  BY <1>1, <1>2, <1>4, <1>5, <1>6, <1>7

\* What was published and is held stays as the frame's chunks demand, for a
\* frame the step does not touch.
LEMMA OthersAreKept ==
  ASSUME NEW g, KeptOf(g), g # frame, g # frame', Got(g)' = Got(g), Over(g) => Over(g)',
         Unpublished(published, g) => Unpublished(published', g),
         \A h : Once(published, g, h) => Once(published', g, h)
  PROVE  KeptOf(g)'
<1>1. PICK got : got = Got(g)
  OBVIOUS
<1>2. \/ got = {} /\ Unpublished(published', g)
      \/ got # {} /\ Over(g)' /\ Once(published', g, got)
  BY <1>1 DEF KeptOf
<1>3. PICK s : s = published'
  OBVIOUS
<1>4. \/ got = {} /\ Unpublished(s, g)
      \/ got # {} /\ Over(g)' /\ Once(s, g, got)
  BY <1>2, <1>3
<1>. QED  BY <1>1, <1>3, <1>4 DEF KeptOf

\* A datagram without a chunk header.
LEMMA DeliverKeeps ==
  ASSUME FramesInv, NEW f \in Frames, Deliver(f)
  PROVE  FramesInv'
<1>1. f \in Plain /\ Arrives(f, 0) /\ published' = published \o Parsed(f, {0}) /\ frame' = frame /\ chunks' = chunks /\ aged' = aged
  BY DEF Deliver
<1>2. 0 \in Chunks(f) /\ Held /\ Made(published)
  BY FrameShape DEF FramesInv
<1>3. /\ network' = network
      /\ \A c \in arrived' : c[1] \in Frames /\ c[2] \in Chunks(c[1])
      /\ \A g \in Frames : g # f => Got(g)' = Got(g) /\ (Over(g) => Over(g)')
  BY <1>1, <1>2, InOrderArrival
<1>4. /\ Made(published')
      /\ \A g : g # f => /\ Unpublished(published, g) => Unpublished(published', g)
                         /\ \A h : Once(published, g, h) => Once(published', g, h)
  <2>1. PICK t : t = published' /\ t = published \o Parsed(f, {0}) /\ {0} \subseteq Chunks(f)
    BY <1>1, <1>2
  <2>2. /\ Made(t)
        /\ \A g : g # f => /\ Unpublished(published, g) => Unpublished(t, g)
                           /\ \A h : Once(published, g, h) => Once(t, g, h)
    BY <1>2, <2>1, OnePacketMore
  <2>. QED  BY <2>1, <2>2
<1>5. Held'
  BY <1>1, <1>2, <1>3 DEF Held, Chunks, LastIndex
<1>6. ASSUME network' = "ordered", NEW g \in Frames \ (Plain \cup aged') PROVE KeptOf(g)'
  <2>1. g # f /\ g \in Frames /\ g \in Frames \ (Plain \cup aged) /\ network = "ordered"
    BY <1>1, <1>3, <1>6
  <2>2. KeptOf(g)
    BY <2>1 DEF FramesInv
  <2>3. CASE g = frame
    <3>1. Got(g)' = Got(g) /\ Unpublished(published', g) /\ chunks = Got(g) /\ Got(g) # Chunks(g)
      BY <1>3, <1>4, <2>1, <2>2, <2>3 DEF KeptOf
    <3>2. PICK s : s = published'
      OBVIOUS
    <3>. QED  BY <1>1, <2>3, <3>1, <3>2 DEF KeptOf, Chunks, LastIndex
  <2>4. CASE g # frame
    BY <1>1, <1>3, <1>4, <2>1, <2>2, <2>4, OthersAreKept
  <2>. QED  BY <2>3, <2>4
<1>. QED  BY <1>4, <1>5, <1>6 DEF FramesInv

\* A chunk of another frame.
LEMMA StartFrameKeeps ==
  ASSUME FramesInv, NEW f \in Frames, NEW i \in Chunks(f), StartFrame(f, i)
  PROVE  FramesInv'
<1>1. frame # f /\ f \notin Plain /\ Arrives(f, i) /\ Join(f, i, {}, Flushed) /\ aged' = aged
  BY DEF StartFrame
<1>2. Held /\ Made(published)
  BY DEF FramesInv
<1>3. /\ network' = network
      /\ \A c \in arrived' : c[1] \in Frames /\ c[2] \in Chunks(c[1])
      /\ Got(f)' = Got(f) \cup {i}
      /\ \A g \in Frames : g # f => Got(g)' = Got(g) /\ (Over(g) => Over(g)')
      /\ network = "ordered" => ~Over(f) /\ \A g \in Frames : g # f /\ Got(g) # {} => Over(g)'
  BY <1>1, <1>2, InOrderArrival
<1>4. PICK s : s = published \o Flushed
  OBVIOUS
<1>5. /\ Made(s)
      /\ \A g : g # frame => /\ Unpublished(published, g) => Unpublished(s, g)
                             /\ \A h : Once(published, g, h) => Once(s, g, h)
      /\ chunks = {} /\ Unpublished(published, frame) => Unpublished(s, frame)
      /\ chunks # {} /\ Unpublished(published, frame) => Once(s, frame, chunks)
  BY <1>2, <1>4, FlushedKeeps
<1>6. PICK t : t = published'
  OBVIOUS
<1>7. /\ Made(t)
      /\ \A g : g # f => /\ Unpublished(s, g) => Unpublished(t, g)
                         /\ \A h : Once(s, g, h) => Once(t, g, h)
      /\ \/ frame' = 0 /\ chunks' = {}
         \/ frame' = f /\ chunks' \subseteq Chunks(f)
      /\ Unpublished(s, f) =>
           \/ /\ {i} = Chunks(f) /\ frame' = 0
              /\ Once(t, f, {i})
           \/ /\ {i} # Chunks(f) /\ frame' = f /\ chunks' = {i}
              /\ Unpublished(t, f)
  <2>1. PICK none, all, b : /\ none = {} /\ all = none \cup {i} /\ all = {i} /\ all \subseteq Chunks(f)
                            /\ b = Flushed /\ Join(f, i, none, b)
    BY <1>1
  <2>2. /\ Made(t)
        /\ \A g : g # f => /\ Unpublished(s, g) => Unpublished(t, g)
                           /\ \A h : Once(s, g, h) => Once(t, g, h)
        /\ \/ frame' = 0 /\ chunks' = {}
           \/ frame' = f /\ chunks' \subseteq Chunks(f)
        /\ Unpublished(s, f) =>
             \/ /\ all = Chunks(f) /\ frame' = 0
                /\ Once(t, f, all)
             \/ /\ all # Chunks(f) /\ frame' = f /\ chunks' = all
                /\ Unpublished(t, f)
    <3>1. f \in Frames /\ none \cup {i} \subseteq Chunks(f) /\ s = published \o b /\ Made(s) /\ Join(f, i, none, b)
      BY <1>4, <1>5, <2>1
    <3>2. t = published' /\ all = none \cup {i}
      BY <1>6, <2>1
    <3>. QED  BY ONLY <3>1, <3>2, JoinKeeps
  <2>. QED  BY <2>1, <2>2
<1>8. Held'
  BY <1>3, <1>7, FrameShape DEF Held, Chunks, LastIndex
<1>9. ASSUME network' = "ordered", NEW g \in Frames \ (Plain \cup aged') PROVE KeptOf(g)'
  <2>1. g \in Frames \ (Plain \cup aged) /\ network = "ordered" /\ KeptOf(g) /\ g \in Nat \ {0}
    BY <1>1, <1>3, <1>9, FrameShape DEF FramesInv
  <2>2. CASE g = f
    <3>1. Got(f) = {} /\ Unpublished(published, f)
      BY <1>1, <1>3, <2>1, <2>2 DEF KeptOf
    <3>2. Unpublished(s, f)
      BY <1>1, <1>5, <3>1
    <3>3. Got(f)' = {i}
      BY <1>3, <3>1
    <3>4. CASE {i} = Chunks(f)
      <4>1. frame' = 0 /\ Once(t, f, {i})
        BY <1>7, <3>2, <3>4
      <4>2. Over(f)'
        BY <3>3, <3>4 DEF Over, Chunks, LastIndex
      <4>. QED  BY <1>6, <2>1, <2>2, <3>3, <4>1, <4>2 DEF KeptOf
    <3>5. CASE {i} # Chunks(f)
      <4>1. frame' = f /\ chunks' = {i} /\ Unpublished(t, f)
        BY <1>7, <3>2, <3>5
      <4>. QED  BY <1>6, <2>1, <2>2, <3>3, <3>5, <4>1 DEF KeptOf, Chunks, LastIndex
    <3>. QED  BY <3>4, <3>5
  <2>3. CASE g # f /\ g = frame
    <3>1. Unpublished(published, g) /\ chunks = Got(g) /\ Got(g)' = Got(g)
      BY <1>3, <2>1, <2>3 DEF KeptOf
    <3>2. g # frame'
      BY <1>7, <2>1, <2>3
    <3>3. CASE chunks = {}
      <4>1. Got(g)' = {} /\ Unpublished(t, g)
        BY <1>5, <1>7, <2>3, <3>1, <3>3
      <4>. QED  BY <1>6, <3>2, <4>1 DEF KeptOf
    <3>4. CASE chunks # {}
      <4>1. PICK got : got = Got(g) /\ got # {}
        BY <3>1, <3>4
      <4>2. Once(t, g, got) /\ Got(g)' = got
        BY <1>5, <1>7, <2>3, <3>1, <3>4, <4>1
      <4>3. Over(g)'
        BY <1>3, <2>1, <2>3, <4>1
      <4>. QED  BY <1>6, <3>2, <4>1, <4>2, <4>3 DEF KeptOf
    <3>. QED  BY <3>3, <3>4
  <2>4. CASE g # f /\ g # frame
    <3>1. g # frame' /\ Got(g)' = Got(g) /\ (Over(g) => Over(g)')
      BY <1>3, <1>7, <2>1, <2>4
    <3>2. /\ Unpublished(published, g) => Unpublished(published', g)
          /\ \A h : Once(published, g, h) => Once(published', g, h)
      BY <1>5, <1>6, <1>7, <2>4
    <3>. QED  BY <2>1, <2>4, <3>1, <3>2, OthersAreKept
  <2>. QED  BY <2>2, <2>3, <2>4
<1>10. Made(published')
  BY <1>6, <1>7
<1>. QED  BY <1>8, <1>9, <1>10 DEF FramesInv

\* A chunk of the frame that is assembled.
LEMMA AddChunkKeeps ==
  ASSUME FramesInv, NEW f \in Frames, NEW i \in Chunks(f), AddChunk(f, i)
  PROVE  FramesInv'
<1>1. frame = f /\ Arrives(f, i) /\ Join(f, i, chunks, << >>) /\ aged' = aged
  BY DEF AddChunk
<1>2. Held /\ Made(published) /\ chunks \subseteq Chunks(f) /\ f # 0
  BY <1>1, FrameShape DEF FramesInv, Held
<1>3. /\ network' = network
      /\ \A c \in arrived' : c[1] \in Frames /\ c[2] \in Chunks(c[1])
      /\ Got(f)' = Got(f) \cup {i}
      /\ \A g \in Frames : g # f => Got(g)' = Got(g) /\ (Over(g) => Over(g)')
  BY <1>1, <1>2, InOrderArrival
<1>4. PICK s : s = published /\ s = published \o << >> /\ Made(s)
  BY <1>2 DEF Made
<1>5. PICK t : t = published'
  OBVIOUS
<1>6. PICK all : all = chunks \cup {i} /\ all \subseteq Chunks(f) /\ all # {}
  BY <1>2
<1>7. /\ Made(t)
      /\ \A g : g # f => /\ Unpublished(s, g) => Unpublished(t, g)
                         /\ \A h : Once(s, g, h) => Once(t, g, h)
      /\ \/ frame' = 0 /\ chunks' = {}
         \/ frame' = f /\ chunks' \subseteq Chunks(f)
      /\ Unpublished(s, f) =>
           \/ /\ all = Chunks(f) /\ frame' = 0
              /\ Once(t, f, all)
           \/ /\ all # Chunks(f) /\ frame' = f /\ chunks' = all
              /\ Unpublished(t, f)
  BY <1>1, <1>4, <1>5, <1>6, JoinKeeps
<1>8. Held'
  BY <1>2, <1>3, <1>7, FrameShape DEF Held, Chunks, LastIndex
<1>9. ASSUME network' = "ordered", NEW g \in Frames \ (Plain \cup aged') PROVE KeptOf(g)'
  <2>1. g \in Frames \ (Plain \cup aged) /\ network = "ordered" /\ KeptOf(g) /\ g \in Nat \ {0}
    BY <1>1, <1>3, <1>9, FrameShape DEF FramesInv
  <2>2. CASE g = f
    <3>1. Unpublished(s, f) /\ Got(f)' = all
      BY <1>1, <1>3, <1>4, <1>6, <2>1, <2>2 DEF KeptOf
    <3>2. CASE all = Chunks(f)
      <4>1. frame' = 0 /\ Once(t, f, all)
        BY <1>7, <3>1, <3>2
      <4>2. Over(f)'
        BY <3>1, <3>2 DEF Over, Chunks, LastIndex
      <4>. QED  BY <1>5, <1>6, <2>1, <2>2, <3>1, <4>1, <4>2 DEF KeptOf
    <3>3. CASE all # Chunks(f)
      <4>1. frame' = f /\ chunks' = all /\ Unpublished(t, f)
        BY <1>7, <3>1, <3>3
      <4>. QED  BY <1>5, <2>1, <2>2, <3>1, <3>3, <4>1 DEF KeptOf, Chunks, LastIndex
    <3>. QED  BY <3>2, <3>3
  <2>3. CASE g # f
    <3>1. g # frame /\ g # frame' /\ Got(g)' = Got(g) /\ (Over(g) => Over(g)')
      BY <1>1, <1>3, <1>7, <2>1, <2>3
    <3>2. /\ Unpublished(published, g) => Unpublished(published', g)
          /\ \A h : Once(published, g, h) => Once(published', g, h)
      BY <1>4, <1>5, <1>7, <2>3
    <3>. QED  BY <2>1, <3>1, <3>2, OthersAreKept
  <2>. QED  BY <2>2, <2>3
<1>10. Made(published')
  BY <1>5, <1>7
<1>. QED  BY <1>8, <1>9, <1>10 DEF FramesInv

\* An assembly that is too old.
LEMMA TooOldKeeps ==
  ASSUME FramesInv, NEW f \in Frames, NEW i \in Chunks(f), TooOld(f, i)
  PROVE  FramesInv'
<1>1. /\ frame = f /\ Arrives(f, i) /\ frame' = 0 /\ chunks' = {} /\ aged' = aged \cup {f}
      /\ published' = published \o Flushed
  BY DEF TooOld
<1>2. Held /\ Made(published)
  BY DEF FramesInv
<1>3. /\ network' = network
      /\ \A c \in arrived' : c[1] \in Frames /\ c[2] \in Chunks(c[1])
      /\ \A g \in Frames : g # f => Got(g)' = Got(g) /\ (Over(g) => Over(g)')
  BY <1>1, <1>2, InOrderArrival
<1>4. PICK s : s = published' /\ s = published \o Flushed
  BY <1>1
<1>5. /\ Made(s)
      /\ \A g : g # f => /\ Unpublished(published, g) => Unpublished(s, g)
                         /\ \A h : Once(published, g, h) => Once(s, g, h)
  BY <1>1, <1>2, <1>4, FlushedKeeps
<1>6. Held'
  BY <1>1, <1>3, FrameShape DEF Held, Chunks, LastIndex
<1>7. ASSUME network' = "ordered", NEW g \in Frames \ (Plain \cup aged') PROVE KeptOf(g)'
  <2>1. g \in Frames \ (Plain \cup aged) /\ g # f /\ network = "ordered" /\ g \in Nat \ {0}
    BY <1>1, <1>3, <1>7, FrameShape
  <2>2. KeptOf(g)
    BY <2>1 DEF FramesInv
  <2>3. g # frame /\ g # frame' /\ Got(g)' = Got(g) /\ (Over(g) => Over(g)')
    BY <1>1, <1>3, <2>1
  <2>4. /\ Unpublished(published, g) => Unpublished(published', g)
        /\ \A h : Once(published, g, h) => Once(published', g, h)
    BY <1>4, <1>5, <2>1
  <2>. QED  BY <2>2, <2>3, <2>4, OthersAreKept
<1>8. Made(published')
  BY <1>4, <1>5
<1>. QED  BY <1>6, <1>7, <1>8 DEF FramesInv

\* FramesInv is an invariant for all sizes of chunks, points and headers.
THEOREM FramesInvHolds == Spec => []FramesInv
<1>1. Init => FramesInv
  <2>. SUFFICES ASSUME Init PROVE FramesInv
    OBVIOUS
  <2>1. Held
    BY DEF Init, Held
  <2>2. Made(published)
    BY DEF Init, Made, Range
  <2>3. ASSUME NEW f \in Frames PROVE KeptOf(f)
    BY FrameShape DEF Init, KeptOf, Got, Unpublished, PacketsOf
  <2>. QED  BY <2>1, <2>2, <2>3 DEF FramesInv
<1>2. FramesInv /\ [Next]_vars => FramesInv'
  <2>. SUFFICES ASSUME FramesInv, [Next]_vars PROVE FramesInv'
    OBVIOUS
  <2>1. CASE UNCHANGED vars
    <3>1. Held' /\ Made(published')
      BY <2>1 DEF vars, FramesInv, Held, Chunks, LastIndex
    <3>2. \A f : Got(f)' = Got(f) /\ (Over(f) => Over(f)')
      BY <2>1 DEF vars, Got, Over, Chunks, LastIndex
    <3>3. ASSUME NEW f, KeptOf(f) PROVE KeptOf(f)'
      BY <2>1, <3>2, <3>3 DEF vars, KeptOf, Chunks, LastIndex
    <3>. QED  BY <2>1, <3>1, <3>3 DEF vars, FramesInv
  <2>2. ASSUME NEW f \in Frames, Deliver(f) PROVE FramesInv'
    BY <2>2, DeliverKeeps
  <2>3. ASSUME NEW f \in Frames, NEW i \in Chunks(f), StartFrame(f, i) PROVE FramesInv'
    BY <2>3, StartFrameKeeps
  <2>4. ASSUME NEW f \in Frames, NEW i \in Chunks(f), AddChunk(f, i) PROVE FramesInv'
    BY <2>4, AddChunkKeeps
  <2>5. ASSUME NEW f \in Frames, NEW i \in Chunks(f), TooOld(f, i) PROVE FramesInv'
    BY <2>5, TooOldKeeps
  <2>. QED  BY <2>1, <2>2, <2>3, <2>4, <2>5 DEF Next
<1>. QED  BY <1>1, <1>2, PTL DEF Spec

\* The points of every packet are right, and complete when the chunks have one
\* size, whatever was lost, reordered or duplicated.
LEMMA MadeIsRecovered ==
  ASSUME Made(published)
  PROVE  PointsRecovered
<1>. DEFINE missing(p) == {i \in Chunks(p.frame) \ p.chunks : \E k \in p.chunks : i < k}
<1>1. ASSUME NEW p, NEW f \in Frames, NEW got \in SUBSET Chunks(f), Parsed(f, got) = <<p>>
      PROVE  /\ (\A i \in missing(p) : Size(p.frame, i) = Size(p.frame, 0)) => Right(p)
             /\ Uniform(p.frame) => AllPoints(p)
  <2>1. p.frame = f /\ p.chunks = got
    BY <1>1, PacketOf
  <2>2. ASSUME \A i \in missing(p) : Size(f, i) = Size(f, 0) PROVE Right(p)
    <3>1. \A m \in Chunks(f) \ got : (\E k \in got : m < k) => Size(f, m) = Size(f, 0)
      BY <2>1, <2>2
    <3>. QED  BY <1>1, <3>1, PacketsAreRight
  <2>3. Uniform(f) => AllPoints(p)
    BY <1>1, PacketsAreComplete
  <2>. QED  BY <2>1, <2>2, <2>3
<1>2. ASSUME NEW n \in DOMAIN published
      PROVE  /\ (\A i \in missing(published[n]) : Size(published[n].frame, i) = Size(published[n].frame, 0)) => Right(published[n])
             /\ Uniform(published[n].frame) => AllPoints(published[n])
  <2>1. PICK f \in Frames : \E got \in SUBSET Chunks(f) : Parsed(f, got) = <<published[n]>>
    BY DEF Made
  <2>2. PICK p : p = published[n]
    OBVIOUS
  <2>3. PICK got \in SUBSET Chunks(f) : Parsed(f, got) = <<p>>
    BY <2>1, <2>2
  <2>4. /\ (\A i \in missing(p) : Size(p.frame, i) = Size(p.frame, 0)) => Right(p)
        /\ Uniform(p.frame) => AllPoints(p)
    BY <1>1, <2>3
  <2>. QED  BY <2>2, <2>4
<1>. QED  BY <1>2, Zenon DEF PointsRecovered

LEMMA KeptAsReceived ==
  ASSUME FramesInv
  PROVE  PublishedAsReceived
<1>. SUFFICES ASSUME network = "ordered", NEW f \in Frames \ (Plain \cup aged)
     PROVE  /\ f = frame => PacketsOf(published, f) = {} /\ Got(f) # Chunks(f)
            /\ f # frame /\ Uniform(f) /\ HeaderReceived(f, Got(f)) => Cardinality(PacketsOf(published, f)) = 1
            /\ \A n \in PacketsOf(published, f) : published[n].chunks = Got(f)
  BY DEF PublishedAsReceived, PacketsOf
<1>1. KeptOf(f) /\ f \in Frames
  BY DEF FramesInv
<1>2. PICK got : got = Got(f) /\ got \subseteq Chunks(f)
  BY DEF Got
<1>3. CASE f = frame
  BY <1>1, <1>3 DEF KeptOf, Unpublished
<1>4. CASE f # frame /\ got = {}
  <2>1. PacketsOf(published, f) = {}
    BY <1>1, <1>2, <1>4, LidarAssumption DEF KeptOf, Once, Unpublished
  <2>2. ~HeaderReceived(f, got)
    <3>1. 0 \in 0..(Header - 1)
      BY LidarAssumption
    <3>. QED  BY <1>4, <3>1 DEF HeaderReceived
  <2>. QED  BY <1>2, <1>4, <2>1, <2>2
<1>5. CASE f # frame /\ got # {}
  <2>1. Once(published, f, got)
    BY <1>1, <1>2, <1>5 DEF KeptOf
  <2>2. CASE Parsed(f, got) = << >>
    <3>1. PacketsOf(published, f) = {}
      BY <2>1, <2>2 DEF Once, Unpublished
    <3>2. ~(Uniform(f) /\ HeaderReceived(f, got))
      BY <1>1, <1>2, <2>2, HeaderIsEnough
    <3>. QED  BY <1>2, <1>5, <3>1, <3>2
  <2>3. CASE Parsed(f, got) # << >>
    <3>1. PICK n : PacketsOf(published, f) = {n} /\ published[n].chunks = got
      BY <2>1, <2>3 DEF Once
    <3>2. Cardinality({n}) = 1
      BY FS_Singleton
    <3>. QED  BY <1>2, <1>5, <3>1, <3>2
  <2>. QED  BY <2>2, <2>3
<1>. QED  BY <1>2, <1>3, <1>4, <1>5

\* What LidarReceiver publishes is what it received: with a network that keeps
\* the order every frame once, with all its chunks that arrived; with any
\* network only points read from their own position, and all of them.
THEOREM FramesStayKept == Spec => []FramesKept
<1>1. FramesInv => FramesKept
  BY MadeIsRecovered, KeptAsReceived DEF FramesInv, FramesKept
<1>. QED  BY <1>1, FramesInvHolds, PTL

-----------------------------------------------------------------------------
(* What the run checks of several of them together.                        *)

\* What a panel, a tab of the monitor or the window kept, its next start shows:
\* for any panels' files, any number of tabs and of buttons of any width.
THEOREM StateStaysRestored ==
  SavedSpec /\ TabsSpec /\ FieldsSpec /\ WindowSpec => []StateRestored
<1>1. PanelsRestored /\ TabsRestored /\ FieldsRestored /\ WindowKept => StateRestored
  BY DEF StateRestored
<1>. QED  BY <1>1, PanelsStayRestored, TabsStayRestored, FieldsStayRestored, WindowStaysKept, PTL
=============================================================================
