------------------------------ MODULE RoutePlan ------------------------------
(***************************************************************************)
(* The route of a map: mgeo/calc_mgeo_path.py reads the nodes and links of *)
(* a MGeo map, gives each link its cost and asks e_dijkstra.py for the     *)
(* links from one node to another.  A file of version 2 leaves out a node  *)
(* without a list of junctions; a file of version 1 is not read: its       *)
(* loader appends to what are dictionaries now.  A link to change lanes    *)
(* leads over several others.  Lengths are those of whole metres.          *)
(***************************************************************************)
EXTENDS Integers, Sequences, FiniteSets, FiniteSetsExt

CONSTANTS
  MapFiles,   \* records: version, nodes, listed (those with junctions), links
  Trips       \* pairs of nodes: where the route starts and ends

VARIABLES
  mapFile, trip,
  planner,    \* "load", "search", "trace", "links", "route", "none" (no route) or "raised"
  settled,    \* s: the nodes that were selected
  distance, fromNode,
  nodePath, linkPath

routeVars == <<mapFile, trip, planner, settled, distance, fromNode, nodePath, linkPath>>

Infinity == 1000000
\* No route costs as much as infinity: neither of the links, nor of the changes of lane.
ASSUME RouteAssumption ==
  \A file \in MapFiles :
    /\ file.nodes \subseteq Nat /\ IsFiniteSet(file.nodes) /\ DOMAIN file.links \subseteq Nat
    /\ \A l \in DOMAIN file.links :
         /\ file.links[l].length \in Nat /\ file.links[l].over \in Seq(DOMAIN file.links)
         /\ \A k \in DOMAIN file.links :
              (file.links[k].length + 500 * Len(file.links[l].over)) * Cardinality(file.nodes) < Infinity
Plus(a, b) == IF a + b < Infinity THEN a + b ELSE Infinity

RouteInit ==
  /\ mapFile \in MapFiles /\ trip \in Trips /\ planner = "load"
  /\ settled = {} /\ distance = << >> /\ fromNode = << >> /\ nodePath = << >> /\ linkPath = << >>

-----------------------------------------------------------------------------
(* The map.                                                                *)

Nodes == mapFile.nodes \cap mapFile.listed
Roads == DOMAIN mapFile.links
Road(l) == mapFile.links[l]
ChangesLane(l) == Len(Road(l).over) > 0
\* set_values_for_lane_change_link: from the first link of its path to the last.
FromNode(l) == IF ChangesLane(l) THEN Road(Road(l).over[1]).from ELSE Road(l).from
ToNode(l) == IF ChangesLane(l) THEN Road(Road(l).over[Len(Road(l).over)]).to ELSE Road(l).to

\* The penalty of one change of lane over x metres, in whole numbers, between those of
\* the distances it is given for (np.interp); infinity below the first of them.
PenaltyAt == <<<<10, 500>>, <<50, 300>>, <<100, 200>>, <<500, 50>>, <<1000, 20>>, <<2000, 10>>>>
Interpolated(x, i) ==
  PenaltyAt[i][2] - ((x - PenaltyAt[i][1]) * (PenaltyAt[i][2] - PenaltyAt[i + 1][2]))
                    \div (PenaltyAt[i + 1][1] - PenaltyAt[i][1])
Penalty(x) ==
  IF x < 10 THEN Infinity
  ELSE IF x > 2000 THEN 10
  ELSE Interpolated(x, CHOOSE i \in 1..5 : PenaltyAt[i][1] <= x /\ x <= PenaltyAt[i + 1][1])
Cost(l) ==
  IF ~ChangesLane(l) THEN Road(l).length
  ELSE LET laneChanges == Len(Road(l).over) - 1
           far     == Road(Road(l).over[laneChanges + 1]).length
           penalty == Penalty(far \div laneChanges)
       IN IF penalty = Infinity THEN Infinity ELSE far + laneChanges * penalty

\* What makes the loader or the weights raise: another version; a change of
\* lane without a path, or between nodes that were left out; a link that
\* leads from a node to one that was left out.
Unreadable ==
  \/ mapFile.version # 2
  \/ \E l \in Roads : ChangesLane(l) /\ \/ Len(Road(l).over) < 2
                                        \/ ~({FromNode(l), ToNode(l)} \subseteq Nodes)
  \/ \E l \in Roads : FromNode(l) \in Nodes /\ ToNode(l) \notin Nodes

RoadsBetween(n, m) == {l \in Roads : FromNode(l) = n /\ ToNode(l) = m}
\* get_weight_matrix.
Weight(n, m) == Min({Cost(l) : l \in RoadsBetween(n, m)} \cup {IF n = m /\ RoadsBetween(n, m) = {} THEN 0 ELSE Infinity})

-----------------------------------------------------------------------------
(* find_shortest_path.                                                     *)

Raise == planner' = "raised" /\ UNCHANGED <<mapFile, trip, settled, distance, fromNode, nodePath, linkPath>>

LoadFails == planner = "load" /\ (Unreadable \/ trip[1] \notin Nodes) /\ Raise
LoadMap ==
  /\ planner = "load" /\ ~Unreadable /\ trip[1] \in Nodes
  /\ planner' = "search" /\ settled' = {trip[1]}
  /\ distance' = [n \in Nodes |-> Weight(trip[1], n)]
  /\ fromNode' = [n \in Nodes |-> trip[1]]
  /\ UNCHANGED <<mapFile, trip, nodePath, linkPath>>

\* Mutant: the first that is reached is taken for the nearest.
FirstReached ==
  LET near == {n \in Nodes \ settled : distance[n] < Infinity}
  IN IF near = {} THEN Max(Nodes) ELSE Min(near)
\* find_nearest_node_idx: the first of the nearest, the last node of all if
\* none can be reached.
NearestNode ==
  LET near == {n \in Nodes \ settled : distance[n] < Infinity}
  IN IF near = {} THEN Max(Nodes)
     ELSE Min({n \in near : \A m \in near : distance[n] <= distance[m]})
\* One round of the loop, n is selected.
Relaxed(n, m) == Plus(distance[n], Weight(n, m))
Settle ==
  /\ planner = "search" /\ Cardinality(settled) < Cardinality(Nodes)
  /\ \E n \in {NearestNode} :
       LET closer == {m \in Nodes \ (settled \cup {n}) : Relaxed(n, m) < distance[m]}
       IN /\ settled' = settled \cup {n}
          /\ distance' = [m \in Nodes |-> IF m \in closer THEN Relaxed(n, m) ELSE distance[m]]
          /\ fromNode' = [m \in Nodes |-> IF m \in closer THEN n ELSE fromNode[m]]
  \* What cannot be reached any more ends the rounds: they change nothing.
  /\ planner' = IF NearestNode \in settled THEN "trace" ELSE planner
  /\ nodePath' = IF NearestNode \in settled THEN <<trip[2]>> ELSE nodePath
  /\ UNCHANGED <<mapFile, trip, linkPath>>
AllSettled ==
  /\ planner = "search" /\ settled = Nodes /\ planner' = "trace" /\ nodePath' = <<trip[2]>>
  /\ UNCHANGED <<mapFile, trip, settled, distance, fromNode, linkPath>>

\* From the end back to the start; an end that is not in the map has no entry.
TraceBack ==
  /\ planner = "trace" /\ nodePath[1] # trip[1] /\ nodePath[1] \in Nodes
  /\ nodePath' = <<fromNode[nodePath[1]]>> \o nodePath
  /\ UNCHANGED <<mapFile, trip, planner, settled, distance, fromNode, linkPath>>
TraceFails == planner = "trace" /\ nodePath[1] \notin Nodes /\ Raise
TraceEnds ==
  /\ planner = "trace" /\ nodePath[1] = trip[1]
  /\ planner' = IF Len(nodePath) = 1 THEN "none" ELSE "links"
  /\ UNCHANGED <<mapFile, trip, settled, distance, fromNode, nodePath, linkPath>>

\* find_shortest_link_leading_to_node for the next two nodes: it raises if
\* there is no link, and gives none if each costs infinity.
Step == Len(linkPath) + 1
Candidates == {l \in RoadsBetween(nodePath[Step], nodePath[Step + 1]) : Cost(l) < Infinity}
TakeLink ==
  /\ planner = "links" /\ Candidates # {}
  /\ linkPath' = Append(linkPath, Min({l \in Candidates : \A k \in Candidates : Cost(l) <= Cost(k)}))
  /\ planner' = IF Step = Len(nodePath) - 1 THEN "route" ELSE planner
  /\ UNCHANGED <<mapFile, trip, settled, distance, fromNode, nodePath>>
NoLink == planner = "links" /\ Candidates = {} /\ Raise

RouteNext ==
  \/ LoadFails \/ LoadMap \/ Settle \/ AllSettled
  \/ TraceBack \/ TraceFails \/ TraceEnds \/ TakeLink \/ NoLink
RouteSpec == RouteInit /\ [][RouteNext]_routeVars

-----------------------------------------------------------------------------
\* The reference: the least costs from the start over at most k links, and over as
\* many as there are nodes.
OverOneMore(costs) ==
  [n \in Nodes |-> LET into == {l \in Roads : ToNode(l) = n /\ FromNode(l) \in Nodes}
                   IN Min({costs[n]} \cup {Plus(costs[FromNode(l)], Cost(l)) : l \in into})]
LeastCosts(start) ==
  LET least[k \in 0..Cardinality(Nodes)] ==
        IF k = 0 THEN [n \in Nodes |-> IF n = start THEN 0 ELSE Infinity] ELSE OverOneMore(least[k - 1])
  IN least
LeastCost(start, end) == LeastCosts(start)[Cardinality(Nodes)][end]
Reachable == {trip[1], trip[2]} \subseteq Nodes /\ LeastCost(trip[1], trip[2]) < Infinity

CostsUpTo(path) ==
  LET upTo[i \in 0..Len(path)] == IF i = 0 THEN 0 ELSE upTo[i - 1] + Cost(path[i]) IN upTo

\* A route leads from the start to the end over links of the map that follow
\* each other, and no other costs less; there is one exactly if the map can
\* be read and the end can be reached, else the planner raises.  While it
\* searches, what it has selected is final.
RouteRight ==
  /\ planner \in {"search", "trace"} =>
       \A n \in settled \ {trip[1]} : distance[n] = LeastCost(trip[1], n)
  /\ planner = "route" =>
       /\ FromNode(linkPath[1]) = trip[1] /\ ToNode(linkPath[Len(linkPath)]) = trip[2]
       /\ \A i \in 1..(Len(linkPath) - 1) : ToNode(linkPath[i]) = FromNode(linkPath[i + 1])
       /\ CostsUpTo(linkPath)[Len(linkPath)] = LeastCost(trip[1], trip[2])
  /\ planner = "raised" => Unreadable \/ ~Reachable
  /\ planner = "none" => trip[1] = trip[2]

-----------------------------------------------------------------------------
(***************************************************************************)
(* Following a path (autonomous_driving.py, localization/path_manager.py): *)
(* each state of the vehicle is matched with the nearest of the points     *)
(* around the one found last, and the driver gets the path from there and  *)
(* the velocity planned for it.  Points are counted from 0; the vehicle is *)
(* on a point of the path, where driving, a playback or a scenario took it. *)
(***************************************************************************)
CONSTANTS
  PathPoints,         \* the coordinates of the points, all different
  Behind, Ahead,  \* how far around the last point is searched: 5 and 100
  LocalSize,      \* local_path_size
  Tail10,         \* the points before the end where an open path stops: 10
  MaxMoves        \* bound on the states of the vehicle
ASSUME FollowAssumption ==
  /\ Behind \in Nat /\ Ahead \in Nat /\ LocalSize \in Nat \ {0} /\ Tail10 \in Nat /\ MaxMoves \in Nat
  /\ PathPoints \in Seq(Int \X Int) /\ PathPoints # << >>
  /\ \A i, j \in DOMAIN PathPoints : PathPoints[i] = PathPoints[j] => i = j

VARIABLES
  isClosed, window,   \* is_closed_path, window_size
  velocityProfile,
  onPoint,            \* the point the vehicle is on
  lastWaypoint,       \* _last_wp
  localPath, planned, \* what get_local_path returned last
  strayed,            \* history: did the vehicle jump, and was not found since?
  moves

followVars == <<isClosed, window, velocityProfile, onPoint, lastWaypoint, localPath, planned,
                strayed, moves>>

Count == Len(PathPoints)
Point(i) == PathPoints[i + 1]
Constantly(n, x) == [i \in 1..n |-> x]
AtLeast0(n) == Max({n, 0})

\* set_velocity_profile; "curve" is a velocity computed from the curvature.
Profile(closed, w) ==
  Constantly(w, "full") \o Constantly(AtLeast0(Count - 2 * w), "curve") \o Constantly(AtLeast0(w - Tail10), "full")
  \o Constantly(Tail10, IF closed THEN "full" ELSE "stop")

FollowInit ==
  /\ isClosed \in BOOLEAN /\ window \in 1..Count /\ velocityProfile = Profile(isClosed, window)
  /\ onPoint = 0 /\ lastWaypoint = 0 /\ localPath = << >> /\ planned = "none"
  /\ strayed = FALSE /\ moves = 0

SquareDistance(i, j) ==
  (Point(i)[1] - Point(j)[1]) * (Point(i)[1] - Point(j)[1])
  + (Point(i)[2] - Point(j)[2]) * (Point(i)[2] - Point(j)[2])
\* Mutant: the search does not wrap around the end of a closed path.
WindowCut(o) == lastWaypoint + o
Window(o) == IF isClosed THEN (lastWaypoint + o) % Count ELSE lastWaypoint + o
Offsets == {o \in (-Behind)..Ahead : Window(o) \in 0..(Count - 1)}
\* The first of the nearest in the order of the search.
Nearest(v) ==
  LET near == {o \in Offsets : \A q \in Offsets :
                 SquareDistance(Window(o), v) <= SquareDistance(Window(q), v)}
  IN Window(Min(near))

Indices(from, count) == [i \in 1..count |-> from + i - 1]
\* path[:n] is cut at the end of the path; on a closed one more is added than is missing.
PathFrom(w) ==
  IF w + LocalSize < Count THEN Indices(w, LocalSize)
  ELSE Indices(w, Count - w)
       \o (IF isClosed THEN Indices(0, Min({Count, LocalSize + Count - w})) ELSE << >>)

\* execute, for the next state of the vehicle.
Follow(v) ==
  /\ onPoint' = v /\ lastWaypoint' = Nearest(v)
  /\ localPath' = PathFrom(Nearest(v)) /\ planned' = velocityProfile[Nearest(v) + 1]
  /\ UNCHANGED <<isClosed, window, velocityProfile>>
IsNear(v) ==
  \E d \in (-Behind)..Ahead : v = IF isClosed THEN (onPoint + d) % Count ELSE onPoint + d
DriveOn(v) == IsNear(v) /\ Follow(v) /\ strayed' = (strayed /\ Nearest(v) # v)
JumpTo(v) == ~IsNear(v) /\ Follow(v) /\ strayed' = (Nearest(v) # v)

FollowNext ==
  /\ moves < MaxMoves /\ moves' = moves + 1
  /\ \E v \in 0..(Count - 1) : DriveOn(v) \/ JumpTo(v)
FollowSpec == FollowInit /\ [][FollowNext]_followVars

-----------------------------------------------------------------------------
\* While the vehicle moves no further than the search between two of its
\* states, the waypoint is where it is, across the end of a closed path as
\* well; and once found again after a jump.  The local path goes on from the
\* waypoint without a gap, to the end of an open path and on a closed one as
\* far as asked, or to the end of another round.  There is a velocity for
\* every point, and at the last points of an open path it is 0 if the window
\* has at least their number and at most half of the path.
FollowRight ==
  /\ ~strayed => lastWaypoint = onPoint
  /\ localPath # << >> =>
       /\ localPath[1] = lastWaypoint
       /\ \A i \in 1..(Len(localPath) - 1) : localPath[i + 1] = (localPath[i] + 1) % Count
       /\ isClosed => Len(localPath) >= Min({LocalSize, 2 * Count - lastWaypoint})
       /\ ~isClosed => Len(localPath) = Min({LocalSize, Count - lastWaypoint})
  /\ Len(velocityProfile) >= Count
  /\ window >= Tail10 /\ 2 * window <= Count =>
       \A i \in 1..Count :
         (velocityProfile[i] = "stop") <=> ~isClosed /\ i > Count - Tail10

\* A route leads from its start to its end, and the path is followed along it.
RoutesRight == RouteRight /\ FollowRight
=============================================================================
