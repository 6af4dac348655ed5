----------------------------- MODULE LaneDetect -----------------------------
(***************************************************************************)
(* LaneDetector of lane_control/lane_detector.py, which makes of a picture *)
(* what LaneDrive calls a view.  It remembers the curve it last fitted to  *)
(* the mark on either side, looks for marks near these curves if it has    *)
(* both and in the whole picture if not, and gives a curve up after it has *)
(* missed it in MaxMiss pictures.                                          *)
(*                                                                         *)
(* A curve stands for the pixel where it meets the bottom of the picture.  *)
(* The preprocessor and the pixel search are one choice: where each side   *)
(* has a mark that a search of the whole picture would fit, if it has one. *)
(* The curve of a mark is the one through it: no outlier that a quadratic fit *)
(* follows, and a median of lower pixels that lies where the curve does.   *)
(* An offset is in half pixels; NoOffset is NaN.                           *)
(***************************************************************************)
EXTENDS LaneDrive

CONSTANTS Pixels,             \* where a curve may meet the bottom
          Nowhere,            \* no mark, no curve
          NoOffset,
          PictureWidth,       \* img_w
          RoadEdge,           \* BEV_DST_MARGIN
          Narrowest, Widest,  \* the widths of a lane, and what a lane has if
          OneLaneWidth,       \* only one side of it is seen
          LeftLimit, RightLimit,  \* 65 % and 35 % of the width
          Reach,              \* margin
          MaxMiss             \* _CACHE_MAX_MISS

ASSUME DetectAssumption ==
  /\ Pixels \subseteq Int /\ Nowhere \notin Int /\ NoOffset \notin Int
  /\ {PictureWidth, RoadEdge, Narrowest, Widest, OneLaneWidth, LeftLimit, RightLimit, Reach, MaxMiss} \subseteq Nat
  /\ RoadEdge > 0
  /\ OneLaneWidth <= PictureWidth
  /\ 2 * LeftLimit + OneLaneWidth <= 2 * PictureWidth /\ OneLaneWidth <= 2 * RightLimit

Sides == {"left", "right"}
Curves == Pixels \cup {Nowhere}

VARIABLES
  curve,       \* _prev_left, _prev_right
  missed,      \* _left_miss_cnt, _right_miss_cnt
  sighted,     \* left_detected, right_detected of the last result
  offset,      \* offset_m of the last result
  unseen,      \* history: pictures since the curve of a side was fitted
  basis,       \* history: unseen of the curves the offset comes from
  overlooked   \* history: pictures in a row that showed a mark which was not found

detectVars == <<curve, missed, sighted, offset, unseen, basis, overlooked>>

DetectInit ==
  /\ curve = [s \in Sides |-> Nowhere] /\ missed = [s \in Sides |-> 0]
  /\ sighted = {} /\ offset = NoOffset /\ unseen = [s \in Sides |-> 0] /\ basis = {}
  /\ overlooked = [s \in Sides |-> 0]

-----------------------------------------------------------------------------
(* detect: the search.                                                     *)

SearchesNear == curve["left"] # Nowhere /\ curve["right"] # Nowhere
InReach(x, c) == x - c < Reach /\ c - x < Reach
\* _search_around_poly, or _sliding_window.
Found(marks, s) ==
  marks[s] # Nowhere /\ (SearchesNear => InReach(marks[s], curve[s]))

\* _fit_and_result: the curves of the result, the remembered one for a side that
\* is missed.
Fitted(marks, s) == IF Found(marks, s) THEN marks[s] ELSE curve[s]
Lapses(marks, s) == ~Found(marks, s) /\ missed[s] + 1 > MaxMiss
\* Mutant: a side that is missed keeps its curve.
KeptForever(marks, s) == Fitted(marks, s)
Kept(marks, s) == IF Lapses(marks, s) THEN Nowhere ELSE Fitted(marks, s)

-----------------------------------------------------------------------------
(* _fit_and_result: the offset.                                            *)

AtBottom(marks, s) == Clip(Fitted(marks, s), 0, PictureWidth)
FoundSides(marks) == {s \in Sides : Found(marks, s)}
FittedSides(marks) == {s \in Sides : Fitted(marks, s) # Nowhere}
OffRoad(marks) ==
  {s \in Sides : IF s = "left" THEN AtBottom(marks, s) < RoadEdge ELSE AtBottom(marks, s) > PictureWidth - RoadEdge}
Gap(marks) == AtBottom(marks, "right") - AtBottom(marks, "left")

\* _single_lane_fallback: the other side is a lane's width away.
FromOneSide(s, x) ==
  IF s = "left"
    THEN IF RoadEdge <= x /\ x <= LeftLimit THEN 2 * x + OneLaneWidth - PictureWidth ELSE NoOffset
    ELSE IF RightLimit <= x /\ x <= PictureWidth - RoadEdge THEN 2 * x - OneLaneWidth - PictureWidth ELSE NoOffset

\* The result is an offset made of the curves of some sides; curves are dropped,
\* and sides seen.  Bound: the histories stop at MaxMiss + 2.
Further(n) == Least(n + 1, MaxMiss + 2)
Give(marks, sides, metres, dropped, sees) ==
  /\ curve' = [s \in Sides |-> IF s \in dropped THEN Nowhere ELSE Kept(marks, s)]
  /\ missed' = [s \in Sides |-> IF s \in dropped \/ Found(marks, s) \/ Lapses(marks, s) THEN 0 ELSE missed[s] + 1]
  /\ sighted' = sees /\ offset' = metres
  /\ unseen' = [s \in Sides |-> IF Found(marks, s) THEN 0 ELSE Further(unseen[s])]
  /\ basis' = {unseen'[s] : s \in sides}
  /\ overlooked' = [s \in Sides |-> IF marks[s] = Nowhere \/ Found(marks, s) THEN 0 ELSE Further(overlooked[s])]

NoCurve(marks) == FittedSides(marks) = {} /\ Give(marks, {}, 0, {}, {})
\* A remembered curve alone gives no offset.
OneCurve(marks) == \E s \in Sides :
  /\ FittedSides(marks) = {s}
  /\ IF Found(marks, s) THEN Give(marks, {s}, FromOneSide(s, Fitted(marks, s)), {}, {s})
                        ELSE Give(marks, {}, NoOffset, {}, {})
TwoCurves(marks) == FittedSides(marks) = Sides
CurveOffRoad(marks) ==
  /\ TwoCurves(marks) /\ OffRoad(marks) # {}
  /\ Give(marks, {}, NoOffset, OffRoad(marks), FoundSides(marks))
\* The right curve has run into the left one: found or not, it counts as missed.
NarrowLane(marks) ==
  /\ TwoCurves(marks) /\ OffRoad(marks) = {} /\ Gap(marks) < Narrowest
  /\ Give(marks, {"left"}, FromOneSide("left", Fitted(marks, "left")), {"right"}, FoundSides(marks) \ {"right"})
\* Of two curves too far apart, the one that is seen counts.
WideLane(marks) ==
  /\ TwoCurves(marks) /\ OffRoad(marks) = {} /\ Gap(marks) >= Narrowest /\ Gap(marks) > Widest
  /\ \/ \E s \in Sides : /\ FoundSides(marks) = {s}
                         /\ Give(marks, {s}, FromOneSide(s, Fitted(marks, s)), {}, {s})
     \/ FoundSides(marks) \in {{}, Sides} /\ Give(marks, {}, NoOffset, {}, FoundSides(marks))
WholeLane(marks) ==
  /\ TwoCurves(marks) /\ OffRoad(marks) = {} /\ Gap(marks) \in Narrowest..Widest
  /\ Give(marks, Sides, AtBottom(marks, "left") + AtBottom(marks, "right") - PictureWidth, {}, FoundSides(marks))

DetectNext == \E marks \in [Sides -> Curves] :
  \/ NoCurve(marks) \/ OneCurve(marks) \/ CurveOffRoad(marks)
  \/ NarrowLane(marks) \/ WideLane(marks) \/ WholeLane(marks)
DetectSpec == DetectInit /\ [][DetectNext]_detectVars

\* What LaneController takes the result for, and LaneDrive calls a view.
ViewOf == IF sighted = {} THEN "none" ELSE IF offset = NoOffset THEN "wide" ELSE "lane"

-----------------------------------------------------------------------------
\* A curve is remembered for MaxMiss pictures at most, and a mark in sight is
\* found again after MaxMiss + 1: until then the detector may search for it near
\* a curve it has left.
FoundAgain ==
  \A s \in Sides :
    /\ curve[s] # Nowhere => unseen[s] <= MaxMiss
    /\ overlooked[s] <= MaxMiss + 1

\* The controller steers on an offset only if a curve it comes from is of this
\* picture, and the other one at most MaxMiss + 1 pictures old; the middle of the
\* lane is then within the picture.
OffsetSeen ==
  ViewOf = "lane" =>
    /\ 0 \in basis /\ \A n \in basis : n <= MaxMiss + 1
    /\ offset \in -PictureWidth..PictureWidth

\* The detector never searches near a pair of curves that lie off the road, cross
\* or nearly touch.
PairOnRoad ==
  SearchesNear =>
    /\ curve["left"] >= RoadEdge /\ curve["right"] <= PictureWidth - RoadEdge
    /\ curve["right"] - curve["left"] >= Narrowest

LaneFound == FoundAgain /\ OffsetSeen /\ PairOnRoad
\* The lane is found in the pictures, and driven in.
LaneKept == LaneDriven /\ LaneFound
=============================================================================
