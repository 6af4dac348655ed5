---------------------------- MODULE PanelsProofs ----------------------------
(***************************************************************************)
(* The safety properties of the panels that start threads and runners,     *)
(* each of its own specification, for all values of the constants: any     *)
(* number of clicks, requests, rows and steps.                             *)
(***************************************************************************)
EXTENDS ScenarioClock, SuiteLoad, Playback, AdDrive, LaneDetect, LaneTab, FiniteSetTheorems, SequenceTheorems, TLAPS

-----------------------------------------------------------------------------
(* LaneDrive.                                                              *)

LaneTypes ==
  /\ lane \in {"none", "running", "controller", "camera", "brake", "stopped"}
  /\ loopRuns \in BOOLEAN /\ loop \in {"none", "head", "step", "send", "ended"}
  /\ view \in Views /\ lastView \in Views \cup {NoFrame} /\ steer \in -SteerMax..SteerMax
  /\ lost \in Nat /\ invalid \in Nat /\ streak \in Nat /\ seen \in Nat /\ longest \in Nat
  /\ ready \in BOOLEAN /\ laneLink \in {"up", "lost", "none"} /\ afterBrake \in Nat

\* The controller's own streak is the number of steps in a row that saw a lane;
\* the loop is told to end before the brake is sent, and has no second step to
\* send once a control followed the brake.
LaneInv ==
  /\ LaneTypes
  /\ streak = seen /\ longest >= seen /\ ReadyAfterLanes
  /\ lane \in {"camera", "brake", "stopped"} => ~loopRuns
  /\ afterBrake <= 1
  /\ afterBrake = 1 => lane = "stopped" /\ loop \in {"head", "ended"}

\* A rate limit gives no steering beyond the limit the wanted one keeps.
LEMMA SteeredInLimit ==
  ASSUME LaneTypes, NEW wanted \in WantedSteers
  PROVE  Steered(wanted) \in -SteerMax..SteerMax
<1>1. wanted \in -SteerMax..SteerMax /\ SteerRate \in Nat /\ SteerMax \in Nat
  BY LaneAssumption
<1>2. RateDown \in Nat
  BY <1>1 DEF RateDown, LaneTypes
<1>3. RateUp \in Nat
  <2>1. CASE invalid > 0
    <3>1. Least(invalid * 40, 2000) \in Nat
      BY DEF Least, LaneTypes
    <3>. DEFINE k == Least(invalid * 40, 2000)
    <3>2. SteerRate * k \in Nat
      BY <1>1, <3>1
    <3>3. ((SteerRate * k) \div 1000) \in Nat
      <4>. HIDE DEF k
      <4>. QED  BY <3>2
    <3>. QED  BY <1>1, <2>1, <3>3 DEF RateUp
  <2>2. CASE ~(invalid > 0)
    BY <1>1, <2>2 DEF RateUp
  <2>. QED  BY <2>1, <2>2
<1>. HIDE DEF RateDown, RateUp
<1>. QED  BY <1>1, <1>2, <1>3 DEF Steered, Clip, Least, Most, LaneTypes

\* The decay brings the steering nearer to 0.
LEMMA DecayedInLimit ==
  ASSUME LaneTypes, NEW n \in Nat
  PROVE  Decayed(n) \in -SteerMax..SteerMax
<1>. DEFINE d == Decay(n)
<1>1. d \in 0..1000
  BY DEF Decay, Most
<1>2. SteerMax \in Nat
  BY LaneAssumption
<1>. HIDE DEF d
<1>3. ASSUME NEW x \in 0..SteerMax PROVE (x * d) \div 1000 \in 0..SteerMax
  <2>1. x * d >= 0 /\ x * d <= x * 1000
    BY <1>1, <1>2, <1>3
  <2>. DEFINE y == x * d
  <2>2. y \in 0..(x * 1000)
    BY <2>1, <1>1, <1>2, <1>3
  <2>. HIDE DEF y
  <2>3. (y \div 1000) \in 0..x
    BY <2>2, <1>2, <1>3
  <2>. QED  BY <2>3, <1>2, <1>3 DEF y
<1>4. CASE steer >= 0
  <2>1. Decayed(n) = (steer * d) \div 1000
    BY <1>4 DEF Decayed, d
  <2>2. steer \in 0..SteerMax
    BY <1>2, <1>4 DEF LaneTypes
  <2>. QED  BY <1>2, <1>3, <2>1, <2>2
<1>5. CASE ~(steer >= 0)
  <2>1. Decayed(n) = -((-steer * d) \div 1000)
    BY <1>5 DEF Decayed, d
  <2>. DEFINE x == -steer
  <2>2. x \in 0..SteerMax
    BY <1>2, <1>5 DEF LaneTypes
  <2>3. (x * d) \div 1000 \in 0..SteerMax
    BY <1>3, <2>2
  <2>. DEFINE y == (x * d) \div 1000
  <2>4. Decayed(n) = -y
    <3>1. x * d = -(steer * d)
      BY <1>1, <1>2 DEF LaneTypes
    <3>. QED  BY <2>1, <3>1
  <2>5. y \in 0..SteerMax
    BY <2>3
  <2>. HIDE DEF y
  <2>. QED  BY <1>2, <2>4, <2>5
<1>. QED  BY <1>4, <1>5

\* Every step of the lane runner keeps the invariant.
LEMMA LaneStep ==
  ASSUME LaneInv, [LaneNext]_laneVars
  PROVE  LaneInv'
<1>. USE LaneAssumption DEF LaneInv, LaneTypes, ReadyAfterLanes, steerVars, Views
<1>1. CASE StartLc
  BY <1>1 DEF StartLc
<1>2. CASE StopLc
  BY <1>2 DEF StopLc
<1>3. CASE StopController
  BY <1>3 DEF StopController
<1>4. CASE StopCamera
  BY <1>4 DEF StopCamera
<1>5. CASE SendBrake
  BY <1>5 DEF SendBrake
<1>6. CASE CameraUp
  BY <1>6 DEF CameraUp
<1>7. CASE CameraEnds
  BY <1>7 DEF CameraEnds
<1>8. CASE LaneLinkLost
  BY <1>8 DEF LaneLinkLost
<1>9. ASSUME NEW v \in Views, Frame(v) PROVE LaneInv'
  BY <1>9 DEF Frame
<1>10. CASE LoopHead
  BY <1>10 DEF LoopHead
<1>11. CASE Detect
  <2>1. steer' \in -SteerMax..SteerMax
    <3>1. CASE view = "lane" /\ \E wanted \in WantedSteers : steer' = Steered(wanted)
      BY <3>1, SteeredInLimit
    <3>2. CASE view = "wide" /\ steer' = steer
      BY <3>2
    <3>3. CASE view = "none" /\ steer' = Decayed(lost + 1)
      <4>1. lost + 1 \in Nat
        BY SMTT(30)
      <4>. QED  BY <3>3, <4>1, DecayedInLimit
    <3>. QED  BY <1>11, <3>1, <3>2, <3>3 DEF Detect
  <2>2. /\ streak' = seen' /\ seen' \in Nat /\ longest' \in Nat /\ longest' >= seen' /\ longest' >= longest
        /\ ready' \in BOOLEAN /\ lost' \in Nat /\ invalid' \in Nat
    BY <1>11 DEF Detect, Streak, Most
  <2>3. ready' => longest' >= MinDetGo
    BY <1>11, <2>2 DEF Detect, Streak, Most
  <2>4. afterBrake = 0
    BY <1>11 DEF Detect
  <2>. QED  BY <1>11, <2>1, <2>2, <2>3, <2>4 DEF Detect
<1>12. CASE SendLane
  <2>1. CASE laneLink = "up" /\ lane = "stopped"
    <3>1. afterBrake = 0
      BY <1>12, <2>1 DEF SendLane
    <3>. QED  BY <1>12, <2>1, <3>1 DEF SendLane
  <2>2. CASE laneLink = "up" /\ lane # "stopped"
    BY <1>12, <2>2 DEF SendLane
  <2>3. CASE laneLink # "up"
    BY <1>12, <2>3 DEF SendLane
  <2>. QED  BY <2>1, <2>2, <2>3
<1>13. CASE UNCHANGED laneVars
  BY <1>13 DEF laneVars
<1>. QED
  BY <1>1, <1>2, <1>3, <1>4, <1>5, <1>6, <1>7, <1>8, <1>9, <1>10, <1>11, <1>12, <1>13
  DEF LaneNext, LoopGoes

\* The steering stays within its limit, the vehicle sets off only after enough
\* steps with a lane, and at most one control follows the brake of Stop.
LEMMA LaneIsDriven == LaneSpec => []LaneDriven
<1>1. LaneInit => LaneInv
  <2>. SUFFICES ASSUME LaneInit PROVE LaneInv
    OBVIOUS
  <2>1. steer \in -SteerMax..SteerMax
    BY LaneAssumption DEF LaneInit
  <2>2. LaneTypes
    BY <2>1 DEF LaneInit, LaneTypes, Views
  <2>. QED  BY <2>2 DEF LaneInit, LaneInv, ReadyAfterLanes
<1>2. LaneInv /\ [LaneNext]_laneVars => LaneInv'
  BY LaneStep
<1>3. LaneInv => LaneDriven
  BY DEF LaneInv, LaneTypes, LaneDriven, SteerBounded, OneAfterBrake
<1>. QED  BY <1>1, <1>2, <1>3, PTL DEF LaneSpec

-----------------------------------------------------------------------------
(* LaneDetect.                                                             *)

DetectType ==
  /\ curve \in [Sides -> Curves] /\ missed \in [Sides -> Nat] /\ unseen \in [Sides -> Nat]
  /\ overlooked \in [Sides -> Nat] /\ offset \in Int \cup {NoOffset} /\ sighted \subseteq Sides

\* What the histories are held by: the counters of the detector itself.
Counted ==
  \A s \in Sides :
    /\ missed[s] <= MaxMiss
    /\ curve[s] # Nowhere => unseen[s] <= missed[s]
    /\ SearchesNear => overlooked[s] <= missed[s]

DetectInv == DetectType /\ Counted /\ LaneFound

\* A curve that is fitted is a place; the one of a mark that is found is new.
LEMMA FittedPlace ==
  ASSUME DetectInv, NEW marks \in [Sides -> Curves], NEW s \in Sides
  PROVE  /\ Fitted(marks, s) \in Curves /\ Kept(marks, s) \in {Fitted(marks, s), Nowhere}
         /\ Found(marks, s) => Fitted(marks, s) # Nowhere
         /\ Found(marks, s) => Kept(marks, s) = Fitted(marks, s)
         /\ Fitted(marks, s) # Nowhere => Fitted(marks, s) \in Int /\ AtBottom(marks, s) \in 0..PictureWidth
<1>1. curve[s] \in Curves /\ marks[s] \in Curves
  BY DEF DetectInv, DetectType
<1>2. Found(marks, s) => marks[s] # Nowhere
  BY DEF Found
<1>3. Fitted(marks, s) \in Curves /\ (Found(marks, s) => Fitted(marks, s) = marks[s])
  BY <1>1 DEF Fitted
<1>4. /\ Kept(marks, s) \in {Fitted(marks, s), Nowhere}
      /\ Found(marks, s) => Kept(marks, s) = Fitted(marks, s)
  BY DEF Kept, Lapses
<1>5. ASSUME Fitted(marks, s) # Nowhere
      PROVE  Fitted(marks, s) \in Int /\ AtBottom(marks, s) \in 0..PictureWidth
  <2>1. Fitted(marks, s) \in Int
    BY <1>3, <1>5, DetectAssumption DEF Curves
  <2>. QED  BY <2>1, DetectAssumption DEF AtBottom, Clip, Least, Most
<1>. QED
  BY <1>2, <1>3, <1>4, <1>5

\* Whatever the result, the curves and counters move together.
LEMMA GiveKeeps ==
  ASSUME DetectInv, NEW marks \in [Sides -> Curves], NEW sides \in SUBSET Sides,
         NEW metres \in Int \cup {NoOffset}, NEW dropped \in SUBSET Sides, NEW sees \in SUBSET Sides,
         Give(marks, sides, metres, dropped, sees)
  PROVE  /\ DetectType' /\ Counted' /\ FoundAgain'
         /\ \A s \in Sides : unseen'[s] <= MaxMiss + 1 \/ Fitted(marks, s) = Nowhere
         /\ \A s \in Sides : Found(marks, s) => unseen'[s] = 0
<1>1. DetectType'
  BY FittedPlace, DetectAssumption DEF Give, DetectInv, DetectType, Further, Least, Curves
<1>2. ASSUME NEW s \in Sides
      PROVE  /\ missed'[s] <= MaxMiss /\ (curve'[s] # Nowhere => unseen'[s] <= missed'[s])
             /\ (unseen'[s] <= MaxMiss + 1 \/ Fitted(marks, s) = Nowhere)
             /\ (Found(marks, s) => unseen'[s] = 0)
  BY <1>2, FittedPlace, DetectAssumption
  DEF Give, DetectInv, DetectType, Counted, Further, Least, Fitted, Kept, Lapses, LaneFound, FoundAgain
<1>3. ASSUME NEW s \in Sides
      PROVE  /\ (SearchesNear => overlooked'[s] <= missed[s] + 1)
             /\ (~SearchesNear => overlooked'[s] = 0)
             /\ overlooked'[s] <= MaxMiss + 1
  BY <1>3, DetectAssumption DEF Give, DetectInv, DetectType, Counted, Further, Least, Found, LaneFound, FoundAgain
<1>4. ASSUME NEW s \in Sides, SearchesNear'
      PROVE  overlooked'[s] <= missed'[s]
  <2>1. curve'[s] # Nowhere
    BY <1>4 DEF SearchesNear, Sides
  <2>2. s \notin dropped /\ ~Lapses(marks, s)
    BY <2>1, DetectAssumption DEF Give, Kept
  <2>3. CASE Found(marks, s)
    BY <2>3, <1>1 DEF Give, DetectType
  <2>4. CASE ~Found(marks, s)
    BY <2>2, <2>4, <1>1, <1>3 DEF Give, DetectInv, DetectType
  <2>. QED  BY <2>3, <2>4
<1>5. Counted'
  BY <1>2, <1>4 DEF Counted
<1>6. FoundAgain'
  BY <1>1, <1>2, <1>3, DetectAssumption DEF FoundAgain, DetectType
<1>. QED  BY <1>1, <1>2, <1>5, <1>6

\* The middle of a lane one side of which is seen is within the picture.
LEMMA OneSideInside ==
  ASSUME NEW s \in Sides, NEW x \in Int
  PROVE  FromOneSide(s, x) \in (-PictureWidth..PictureWidth) \cup {NoOffset}
BY DetectAssumption DEF FromOneSide, Sides

\* Of a pair that is given up at one side, no pair is left.
LEMMA PairBroken ==
  ASSUME DetectInv, NEW marks \in [Sides -> Curves], NEW sides \in SUBSET Sides,
         NEW metres \in Int \cup {NoOffset}, NEW dropped \in SUBSET Sides, NEW sees \in SUBSET Sides,
         Give(marks, sides, metres, dropped, sees),
         dropped # {} \/ ~TwoCurves(marks)
  PROVE  PairOnRoad'
<1>1. PICK s \in Sides : s \in dropped \/ Fitted(marks, s) = Nowhere
  BY DEF TwoCurves, FittedSides
<1>2. curve'[s] = Nowhere
  BY <1>1, FittedPlace DEF Give
<1>. QED  BY <1>2 DEF PairOnRoad, SearchesNear, Sides

\* A pair that is kept is the pair of the result.
LEMMA PairKept ==
  ASSUME DetectInv, NEW marks \in [Sides -> Curves], NEW sides \in SUBSET Sides,
         NEW metres \in Int \cup {NoOffset}, NEW sees \in SUBSET Sides,
         Give(marks, sides, metres, {}, sees),
         TwoCurves(marks), OffRoad(marks) = {}, Gap(marks) >= Narrowest
  PROVE  PairOnRoad'
<1>. SUFFICES ASSUME SearchesNear' PROVE PairOnRoad'
  BY DEF PairOnRoad
<1>1. \A s \in Sides : curve'[s] = Fitted(marks, s) /\ Fitted(marks, s) \in Int
  BY FittedPlace DEF Give, SearchesNear, Sides
<1>2. AtBottom(marks, "left") >= RoadEdge /\ AtBottom(marks, "right") <= PictureWidth - RoadEdge
  <2>1. "left" \notin OffRoad(marks) /\ "right" \notin OffRoad(marks)
    OBVIOUS
  <2>2. AtBottom(marks, "left") \in Int /\ AtBottom(marks, "right") \in Int
    BY <1>1, DetectAssumption DEF AtBottom, Clip, Least, Most, Sides
  <2>. QED  BY <2>1, <2>2, DetectAssumption DEF OffRoad, Sides
<1>. DEFINE l == Fitted(marks, "left")
            r == Fitted(marks, "right")
<1>3. l \in Int /\ r \in Int /\ curve'["left"] = l /\ curve'["right"] = r
  BY <1>1 DEF Sides
<1>4. /\ Clip(l, 0, PictureWidth) >= RoadEdge /\ Clip(r, 0, PictureWidth) <= PictureWidth - RoadEdge
      /\ Clip(r, 0, PictureWidth) - Clip(l, 0, PictureWidth) >= Narrowest
  BY <1>2 DEF Gap, AtBottom
<1>. HIDE DEF l, r
<1>5. PictureWidth \in Nat /\ RoadEdge \in Nat \ {0} /\ Narrowest \in Nat
  BY DetectAssumption
<1>6. l >= RoadEdge /\ r <= PictureWidth - RoadEdge /\ r - l >= Narrowest
  BY <1>3, <1>4, <1>5 DEF Clip, Least, Most
<1>. QED
  BY <1>3, <1>6 DEF PairOnRoad

\* Every picture keeps the invariant.
LEMMA DetectStep ==
  ASSUME DetectInv, DetectNext
  PROVE  DetectInv'
<1>. PICK marks \in [Sides -> Curves] :
       \/ NoCurve(marks) \/ OneCurve(marks) \/ CurveOffRoad(marks)
       \/ NarrowLane(marks) \/ WideLane(marks) \/ WholeLane(marks)
  BY DEF DetectNext
<1>. DEFINE FS == FoundSides(marks)
<1>0. FS \in SUBSET Sides /\ OffRoad(marks) \in SUBSET Sides
  BY DEF FoundSides, OffRoad
<1>1. CASE NoCurve(marks)
  <2>1. Give(marks, {}, 0, {}, {}) /\ ~TwoCurves(marks)
    BY <1>1 DEF NoCurve, TwoCurves, Sides
  <2>2. OffsetSeen'
    BY <2>1 DEF Give, OffsetSeen, ViewOf
  <2>. QED  BY <2>1, <2>2, GiveKeeps, PairBroken DEF DetectInv, LaneFound
<1>2. CASE OneCurve(marks)
  <2>1. PICK s \in Sides : FittedSides(marks) = {s} /\
          IF Found(marks, s) THEN Give(marks, {s}, FromOneSide(s, Fitted(marks, s)), {}, {s})
                             ELSE Give(marks, {}, NoOffset, {}, {})
    BY <1>2 DEF OneCurve
  <2>2. Fitted(marks, s) \in Int /\ ~TwoCurves(marks)
    BY <2>1, FittedPlace DEF TwoCurves, FittedSides, Sides
  <2>3. FromOneSide(s, Fitted(marks, s)) \in Int \cup {NoOffset}
    BY <2>2, OneSideInside, DetectAssumption
  <2>4. CASE Found(marks, s)
    <3>1. Give(marks, {s}, FromOneSide(s, Fitted(marks, s)), {}, {s})
      BY <2>1, <2>4
    <3>2. DetectType' /\ Counted' /\ FoundAgain' /\ unseen'[s] = 0
      BY <3>1, <2>3, <2>4, GiveKeeps
    <3>3. OffsetSeen'
      BY <3>1, <3>2, <2>2, OneSideInside, DetectAssumption DEF Give, OffsetSeen, ViewOf
    <3>. QED  BY <3>1, <3>2, <3>3, <2>2, <2>3, PairBroken DEF DetectInv, LaneFound
  <2>5. CASE ~Found(marks, s)
    <3>1. Give(marks, {}, NoOffset, {}, {})
      BY <2>1, <2>5
    <3>2. OffsetSeen'
      BY <3>1 DEF Give, OffsetSeen, ViewOf
    <3>3. {} \in SUBSET Sides /\ NoOffset \in Int \cup {NoOffset}
      OBVIOUS
    <3>4. DetectType' /\ Counted' /\ FoundAgain'
      BY <3>1, <3>3, GiveKeeps
    <3>5. PairOnRoad'
      BY <3>1, <3>3, <2>2, PairBroken
    <3>. QED  BY <3>2, <3>4, <3>5 DEF DetectInv, LaneFound
  <2>. QED  BY <2>4, <2>5
<1>3. CASE CurveOffRoad(marks)
  <2>1. OffRoad(marks) # {} /\ Give(marks, {}, NoOffset, OffRoad(marks), FS)
    BY <1>3 DEF CurveOffRoad
  <2>2. OffsetSeen'
    BY <2>1 DEF Give, OffsetSeen, ViewOf
  <2>. QED  BY <2>1, <2>2, <1>0, GiveKeeps, PairBroken DEF DetectInv, LaneFound
<1>4. CASE NarrowLane(marks)
  <2>. DEFINE x == Fitted(marks, "left")
              m == FromOneSide("left", x)
  <2>1. Give(marks, {"left"}, m, {"right"}, FS \ {"right"}) /\ TwoCurves(marks)
    BY <1>4 DEF NarrowLane
  <2>2. x \in Int
    BY <2>1, FittedPlace DEF TwoCurves, FittedSides, Sides
  <2>3. m \in Int \cup {NoOffset} /\ m \in (-PictureWidth..PictureWidth) \cup {NoOffset}
    BY <2>2, OneSideInside, DetectAssumption DEF Sides
  <2>. HIDE DEF x, m, FS
  <2>4. /\ DetectType' /\ Counted' /\ FoundAgain' /\ PairOnRoad'
        /\ \A s \in Sides : Found(marks, s) => unseen'[s] = 0
    <3>1. {"left"} \in SUBSET Sides /\ {"right"} \in SUBSET Sides /\ FS \ {"right"} \in SUBSET Sides
      BY <1>0 DEF Sides
    <3>2. /\ DetectType' /\ Counted' /\ FoundAgain'
          /\ \A s \in Sides : Found(marks, s) => unseen'[s] = 0
      BY <3>1, <2>1, <2>3, GiveKeeps
    <3>3. PairOnRoad'
      BY <3>1, <2>1, <2>3, PairBroken
    <3>. QED  BY <3>2, <3>3
  <2>5. OffsetSeen'
    <3>. SUFFICES ASSUME ViewOf' = "lane" PROVE OffsetSeen'
      BY DEF OffsetSeen
    <3>1. "left" \in FS /\ offset' # NoOffset /\ offset' = m
      BY <2>1, <1>0 DEF Give, ViewOf, Sides
    <3>2. basis' = {0}
      BY <3>1, <2>1, <2>4 DEF Give, FS, FoundSides
    <3>. QED  BY <3>1, <3>2, <2>3, DetectAssumption DEF OffsetSeen
  <2>. QED  BY <2>4, <2>5 DEF DetectInv, LaneFound
<1>5. CASE WideLane(marks)
  <2>1. TwoCurves(marks) /\ OffRoad(marks) = {} /\ Gap(marks) >= Narrowest
    BY <1>5 DEF WideLane
  <2>2. CASE FS \in {{}, Sides} /\ Give(marks, {}, NoOffset, {}, FS)
    <3>1. OffsetSeen'
      BY <2>2 DEF Give, OffsetSeen, ViewOf
    <3>. QED  BY <2>1, <2>2, <3>1, <1>0, GiveKeeps, PairKept DEF DetectInv, LaneFound
  <2>3. CASE \E s \in Sides : FS = {s} /\ Give(marks, {s}, FromOneSide(s, Fitted(marks, s)), {}, {s})
    <3>1. PICK s \in Sides : FS = {s} /\ Give(marks, {s}, FromOneSide(s, Fitted(marks, s)), {}, {s})
      BY <2>3
    <3>2. Found(marks, s) /\ Fitted(marks, s) \in Int
      BY <3>1, FittedPlace DEF FoundSides
    <3>3. FromOneSide(s, Fitted(marks, s)) \in Int \cup {NoOffset}
      BY <3>2, OneSideInside, DetectAssumption
    <3>4. DetectType' /\ Counted' /\ FoundAgain' /\ PairOnRoad' /\ unseen'[s] = 0
      <4>1. {s} \in SUBSET Sides /\ {} \in SUBSET Sides
        OBVIOUS
      <4>2. DetectType' /\ Counted' /\ FoundAgain' /\ unseen'[s] = 0
        BY <4>1, <3>1, <3>2, <3>3, GiveKeeps
      <4>3. PairOnRoad'
        BY <4>1, <3>1, <3>3, <2>1, PairKept
      <4>. QED  BY <4>2, <4>3
    <3>5. OffsetSeen'
      BY <3>1, <3>2, <3>4, OneSideInside, DetectAssumption DEF Give, OffsetSeen, ViewOf
    <3>. QED  BY <3>4, <3>5 DEF DetectInv, LaneFound
  <2>. QED  BY <1>5, <2>2, <2>3 DEF WideLane
<1>6. CASE WholeLane(marks)
  <2>. DEFINE m == AtBottom(marks, "left") + AtBottom(marks, "right") - PictureWidth
  <2>1. /\ TwoCurves(marks) /\ OffRoad(marks) = {} /\ Gap(marks) \in Narrowest..Widest
        /\ Give(marks, Sides, m, {}, FS)
    BY <1>6 DEF WholeLane
  <2>2. \A s \in Sides : Fitted(marks, s) # Nowhere /\ AtBottom(marks, s) \in 0..PictureWidth
    BY <2>1, FittedPlace DEF TwoCurves, FittedSides
  <2>3. m \in -PictureWidth..PictureWidth
    BY <2>2, DetectAssumption DEF Sides
  <2>. HIDE DEF m, FS
  <2>4. /\ DetectType' /\ Counted' /\ FoundAgain'
        /\ \A s \in Sides : unseen'[s] <= MaxMiss + 1
        /\ \A s \in Sides : Found(marks, s) => unseen'[s] = 0
    <3>1. m \in Int \cup {NoOffset} /\ Sides \in SUBSET Sides /\ {} \in SUBSET Sides
      BY <2>3, DetectAssumption
    <3>2. FS \in SUBSET Sides
      BY <1>0 DEF FS
    <3>3. Give(marks, Sides, m, {}, FS)
      BY <2>1
    <3>. QED  BY <3>1, <3>2, <3>3, <2>2, GiveKeeps
  <2>5. PairOnRoad'
    <3>1. Gap(marks) >= Narrowest /\ m \in Int \cup {NoOffset}
      BY <2>1, <2>3, DetectAssumption
    <3>. QED  BY <2>1, <3>1, <1>0, PairKept
  <2>6. OffsetSeen'
    <3>. SUFFICES ASSUME ViewOf' = "lane" PROVE OffsetSeen'
      BY DEF OffsetSeen
    <3>1. PICK s \in Sides : Found(marks, s)
      BY <2>1 DEF Give, ViewOf, FS, FoundSides
    <3>2. basis' = {unseen'[q] : q \in Sides} /\ offset' = m
      BY <2>1 DEF Give
    <3>. QED  BY <3>1, <3>2, <2>3, <2>4 DEF OffsetSeen
  <2>. QED  BY <2>4, <2>5, <2>6 DEF DetectInv, LaneFound
<1>. QED
  BY <1>1, <1>2, <1>3, <1>4, <1>5, <1>6

\* The lane is looked for where it is, and steered on while it is seen
\* (detect, _fit_and_result and _single_lane_fallback).
LEMMA LaneIsFound == DetectSpec => []LaneFound
<1>1. DetectInit => DetectInv
  BY DetectAssumption
  DEF DetectInit, DetectInv, DetectType, Counted, LaneFound, FoundAgain, OffsetSeen, ViewOf, PairOnRoad,
      SearchesNear, Curves, Sides
<1>2. DetectInv /\ [DetectNext]_detectVars => DetectInv'
  <2>. SUFFICES ASSUME DetectInv, [DetectNext]_detectVars PROVE DetectInv'
    OBVIOUS
  <2>1. CASE DetectNext
    BY <2>1, DetectStep
  <2>2. CASE UNCHANGED detectVars
    BY <2>2 DEF detectVars, DetectInv, DetectType, Counted, LaneFound, FoundAgain, OffsetSeen, ViewOf,
                PairOnRoad, SearchesNear
  <2>. QED  BY <2>1, <2>2
<1>3. DetectInv => LaneFound
  BY DEF DetectInv
<1>. QED  BY <1>1, <1>2, <1>3, PTL DEF DetectSpec

\* The lane that is driven in is one that is seen: what drives keeps its limits,
\* and what it is told comes from curves of marks in the last pictures.
THEOREM LaneStaysKept == LaneSpec /\ DetectSpec => []LaneKept
<1>1. LaneDriven /\ LaneFound => LaneKept
  BY DEF LaneKept
<1>. QED  BY <1>1, LaneIsDriven, LaneIsFound, PTL

-----------------------------------------------------------------------------
(* AdDrive.                                                                *)

Asking == {"send", "wait", "woken", "late"}

AdTypes ==
  /\ {starting, listed, stopping, handing} \subseteq Runners \cup {NoRunner}
  /\ running \in [Runners -> BOOLEAN] /\ stage \in [Runners -> Stages]
  /\ asked \in [Runners -> SUBSET Nat] /\ current \in [Runners -> Nat]
  /\ response \in [Runners -> Nat] /\ info \in [Runners -> Nat] /\ lastId \in Nat
  /\ after \in [Runners -> Nat]

\* While its request is on the way a runner expects that answer and no other, and
\* what it has taken is that answer or nothing; at any other moment it expects none.
AskInv(r) ==
  IF stage[r] \in Asking
  THEN asked[r] \subseteq {current[r]} /\ response[r] \in {NoInfo, current[r]}
  ELSE asked[r] = {}
DriveInv(r) == source = "TCP" /\ stage[r] = "drive" => info[r] = current[r]
\* The control after stop() was that of the round in progress; the loop is back
\* at its head, which sees the flag.
LastInv(r) ==
  /\ after[r] <= 1
  /\ after[r] = 1 => ~running[r] /\ stage[r] \in {"head", "ended"}
AdInv == AdTypes /\ \A r \in Runners : AskInv(r) /\ DriveInv(r) /\ LastInv(r)

\* The step of one control loop.
LEMMA AdLoopStep ==
  ASSUME AdInv, NEW r \in Runners, LoopStep(r)
  PROVE  AdInv'
<1>. USE DEF AdTypes, Stages, Asking, To, panelVars, roundVars, fixedVars, sentVars, NoInfo
<1>1. CASE Head1(r)
  <2>1. AdTypes'
    BY <1>1 DEF Head1, AdInv
  <2>2. ASSUME NEW q \in Runners PROVE AskInv(q)' /\ DriveInv(q)' /\ LastInv(q)'
    BY <1>1, <2>1 DEF Head1, AdInv, AskInv, DriveInv, LastInv
  <2>. QED  BY <2>1, <2>2 DEF AdInv
<1>2. CASE ClearEvent(r)
  <2>1. AdTypes'
    BY <1>2 DEF ClearEvent, AdInv
  <2>2. ASSUME NEW q \in Runners PROVE AskInv(q)' /\ DriveInv(q)' /\ LastInv(q)'
    BY <1>2, <2>1 DEF ClearEvent, AdInv, AskInv, DriveInv, LastInv
  <2>. QED  BY <2>1, <2>2 DEF AdInv
<1>3. CASE NoteAsk(r)
  <2>1. AdTypes'
    BY <1>3 DEF NoteAsk, AdInv
  <2>2. ASSUME NEW q \in Runners PROVE AskInv(q)' /\ DriveInv(q)' /\ LastInv(q)'
    BY <1>3, <2>1 DEF NoteAsk, AdInv, AskInv, DriveInv, LastInv
  <2>. QED  BY <2>1, <2>2 DEF AdInv
<1>4. CASE SendAsk(r)
  <2>1. AdTypes'
    BY <1>4 DEF SendAsk, AdInv
  <2>2. ASSUME NEW q \in Runners PROVE AskInv(q)' /\ DriveInv(q)' /\ LastInv(q)'
    BY <1>4, <2>1 DEF SendAsk, AdInv, AskInv, DriveInv, LastInv
  <2>. QED  BY <2>1, <2>2 DEF AdInv
<1>5. CASE WaitEnds(r)
  <2>1. AdTypes'
    BY <1>5 DEF WaitEnds, AdInv
  <2>2. ASSUME NEW q \in Runners PROVE AskInv(q)' /\ DriveInv(q)' /\ LastInv(q)'
    BY <1>5, <2>1 DEF WaitEnds, AdInv, AskInv, DriveInv, LastInv
  <2>. QED  BY <2>1, <2>2 DEF AdInv
<1>6. CASE TakeInfo(r)
  <2>1. AdTypes'
    BY <1>6 DEF TakeInfo, Taken, AdInv
  <2>2. ASSUME NEW q \in Runners PROVE AskInv(q)' /\ DriveInv(q)' /\ LastInv(q)'
    BY <1>6, <2>1 DEF TakeInfo, Taken, AdInv, AskInv, DriveInv, LastInv
  <2>. QED  BY <2>1, <2>2 DEF AdInv
<1>7. CASE Drive(r)
  <2>1. AdTypes'
    BY <1>7 DEF Drive, AdInv
  <2>2. ASSUME NEW q \in Runners PROVE AskInv(q)' /\ DriveInv(q)' /\ LastInv(q)'
    BY <1>7, <2>1 DEF Drive, AdInv, AskInv, DriveInv, LastInv
  <2>. QED  BY <2>1, <2>2 DEF AdInv
<1>. QED  BY <1>1, <1>2, <1>3, <1>4, <1>5, <1>6, <1>7 DEF LoopStep

\* An answer reaches a runner only while that runner expects it.
LEMMA AdHandOver ==
  ASSUME AdInv, NEW id \in Asks, NEW ok \in BOOLEAN, HandOver(id, ok)
  PROVE  AdInv'
<1>. USE AdAssumption DEF AdTypes, Stages, Asking, Asks, panelVars, fixedVars, sentVars, NoInfo
<1>1. AdTypes'
  BY DEF HandOver, AdInv
<1>2. ASSUME NEW q \in Runners PROVE AskInv(q)' /\ DriveInv(q)' /\ LastInv(q)'
  BY <1>1, <1>2 DEF HandOver, AdInv, AskInv, DriveInv, LastInv
<1>. QED  BY <1>1, <1>2 DEF AdInv

\* Every step of the runners keeps the invariant.
LEMMA AdStep ==
  ASSUME AdInv, [AdNext]_adVars
  PROVE  AdInv'
<1>. USE AdAssumption DEF AdTypes, Stages, Asking, panelVars, roundVars, fixedVars, sentVars, NoInfo
<1>1. CASE StartAd
  <2>1. PICK r \in Runners : /\ stage[r] = "new" /\ starting' = r
                             /\ running' = [running EXCEPT ![r] = TRUE]
                             /\ stage' = [stage EXCEPT ![r] = "head"]
    BY <1>1 DEF StartAd
  <2>2. AdTypes'
    BY <1>1, <2>1 DEF StartAd, AdInv
  <2>3. ASSUME NEW q \in Runners PROVE AskInv(q)' /\ DriveInv(q)' /\ LastInv(q)'
    BY <1>1, <2>1, <2>2 DEF StartAd, AdInv, AskInv, DriveInv, LastInv
  <2>. QED  BY <2>2, <2>3 DEF AdInv
<1>2. CASE ListAd
  BY <1>2 DEF ListAd, AdInv, AskInv, DriveInv, LastInv
<1>3. CASE StopAd
  <2>1. AdTypes'
    BY <1>3 DEF StopAd, AdInv
  <2>2. ASSUME NEW q \in Runners PROVE AskInv(q)' /\ DriveInv(q)' /\ LastInv(q)'
    BY <1>3, <2>1 DEF StopAd, AdInv, AskInv, DriveInv, LastInv
  <2>. QED  BY <2>1, <2>2 DEF AdInv
<1>4. CASE ClearAd
  BY <1>4 DEF ClearAd, AdInv, AskInv, DriveInv, LastInv
<1>5. CASE SetEvent
  BY <1>5 DEF SetEvent, AdInv, AskInv, DriveInv, LastInv
<1>6. CASE LinkLost
  BY <1>6 DEF LinkLost, AdInv, AskInv, DriveInv, LastInv
<1>7. CASE UNCHANGED adVars
  BY <1>7 DEF adVars, AdInv, AskInv, DriveInv, LastInv
<1>. QED
  BY <1>1, <1>2, <1>3, <1>4, <1>5, <1>6, <1>7, AdLoopStep, AdHandOver DEF AdNext

\* Every control is computed from the answer to the request of its own round,
\* though answers come late and the event is set after the lock is given back,
\* and a runner sends one control at most after stop().
THEOREM ControlsStayRight == AdSpec => []ControlsRight
<1>1. AdInit => AdInv
  BY AdAssumption DEF AdInit, AdInv, AdTypes, AskInv, DriveInv, LastInv, Asking, Stages, NoInfo
<1>2. AdInv /\ [AdNext]_adVars => AdInv'
  BY AdStep
<1>3. AdInv => ControlsRight
  BY DEF AdInv, AdTypes, DriveInv, LastInv, ControlsRight, FreshInfo, LastControl
<1>. QED  BY <1>1, <1>2, <1>3, PTL DEF AdSpec

-----------------------------------------------------------------------------
(* SuiteLoad.                                                              *)

SuiteLoadTypes ==
  /\ sender \in [Loads -> {"new", "sending", "noting", "posting", "done"}]
  /\ answer \in [Loads -> {"none", "coming", "taken", "ignored"}]
  /\ pendingLoad \in Loads \cup {NoLoad} /\ latest \in Loads \cup {NoLoad}
  /\ overtaken \subseteq Loads

Handled(r) == latest = r /\ answer[r] \in {"taken", "ignored"} /\ r \notin overtaken

\* Where a load is in dispatch's thread, in the table and among the answers.
LoadInv(r) ==
  /\ sender[r] \in {"new", "sending"} => answer[r] = "none"
  /\ sender[r] = "noting" => answer[r] = "coming" \/ (answer[r] = "ignored" /\ r \in overtaken)
  /\ r \in {pendingLoad, latest} => sender[r] \in {"posting", "done"}
  /\ pendingLoad = r => /\ latest \in {r, NoLoad}
                        /\ answer[r] = "coming" \/ (answer[r] = "ignored" /\ r \in overtaken)
  /\ latest = r /\ answer[r] = "coming" => pendingLoad = r

\* When the answer to the latest load has been handled and overtook nothing, there
\* is no text left to be posted but its own.
OutcomeInv(r) ==
  Handled(r) =>
    /\ pendingLoad = NoLoad /\ watchdog.at # "read" /\ \A s \in Loads : sender[s] # "posting"
    /\ \/ suiteRx.at = "idle" /\ status = Text("outcome", r)
       \/ suiteRx.at = "answering" /\ suiteRx.of = r

SuiteInv == SuiteLoadTypes /\ \A r \in Loads : LoadInv(r) /\ OutcomeInv(r)

\* Every step of a load keeps the invariant.
LEMMA SuiteStep ==
  ASSUME SuiteInv, [SuiteNext]_suiteVars
  PROVE  SuiteInv'
<1>. USE SuiteAssumption DEF SuiteLoadTypes
<1>1. ASSUME NEW l \in Loads, ClickLoadSuite(l) PROVE SuiteInv'
  BY <1>1 DEF ClickLoadSuite, Sender, SuiteInv, LoadInv, OutcomeInv, Handled
<1>2. ASSUME NEW l \in Loads, NEW ok \in BOOLEAN, SendLoad(l, ok) PROVE SuiteInv'
  <2>1. SuiteLoadTypes'
    BY <1>2 DEF SendLoad, Sender, SuiteInv
  <2>2. ASSUME NEW r \in Loads PROVE LoadInv(r)'
    BY <1>2, <2>1 DEF SendLoad, Sender, SuiteInv, LoadInv
  <2>3. ASSUME NEW r \in Loads PROVE OutcomeInv(r)'
    BY <1>2, <2>1 DEF SendLoad, Sender, SuiteInv, LoadInv, OutcomeInv, Handled
  <2>. QED  BY <2>1, <2>2, <2>3 DEF SuiteInv
<1>3. ASSUME NEW l \in Loads, NoteLoad(l) PROVE SuiteInv'
  <2>1. SuiteLoadTypes'
    BY <1>3 DEF NoteLoad, Sender, SuiteInv
  <2>2. ASSUME NEW r \in Loads PROVE LoadInv(r)'
    BY <1>3, <2>1 DEF NoteLoad, Sender, SuiteInv, LoadInv
  <2>3. ASSUME NEW r \in Loads PROVE OutcomeInv(r)'
    BY <1>3, <2>1 DEF NoteLoad, Sender, SuiteInv, LoadInv, OutcomeInv, Handled
  <2>. QED  BY <2>1, <2>2, <2>3 DEF SuiteInv
<1>4. ASSUME NEW l \in Loads, PostLoading(l) PROVE SuiteInv'
  <2>1. SuiteLoadTypes'
    BY <1>4 DEF PostLoading, Sender, SuiteInv
  <2>2. ASSUME NEW r \in Loads PROVE LoadInv(r)'
    BY <1>4, <2>1 DEF PostLoading, Sender, SuiteInv, LoadInv
  <2>3. ASSUME NEW r \in Loads PROVE ~Handled(r)'
    BY <1>4, <2>1 DEF PostLoading, Sender, SuiteInv, OutcomeInv, Handled
  <2>. QED  BY <2>1, <2>2, <2>3 DEF SuiteInv, OutcomeInv
<1>5. ASSUME NEW l \in Loads, TakeResponse(l) PROVE SuiteInv'
  <2>1. SuiteLoadTypes'
    BY <1>5 DEF TakeResponse, SuiteInv
  <2>2. ASSUME NEW r \in Loads PROVE LoadInv(r)'
    BY <1>5, <2>1 DEF TakeResponse, Overtakes, SuiteInv, LoadInv
  <2>3. ASSUME NEW r \in Loads PROVE OutcomeInv(r)'
    <3>1. CASE r = l
      <4>1. CASE l \in overtaken'
        BY <3>1, <4>1 DEF OutcomeInv, Handled
      <4>2. CASE l \notin overtaken'
        <5>1. ~Overtakes(l)
          BY <1>5, <4>2 DEF TakeResponse
        <5>2. latest' = l => pendingLoad = l
          BY <1>5 DEF TakeResponse, SuiteInv, LoadInv
        <5>. QED  BY <1>5, <2>1, <3>1, <5>1, <5>2 DEF TakeResponse, Overtakes, OutcomeInv, Handled
      <4>. QED  BY <4>1, <4>2
    <3>2. CASE r # l
      <4>1. Handled(r)' => Handled(r)
        BY <1>5, <3>2 DEF TakeResponse, SuiteInv, Handled
      <4>2. Handled(r) => pendingLoad # l /\ OutcomeInv(r)
        BY DEF SuiteInv, OutcomeInv
      <4>. QED  BY <1>5, <4>1, <4>2 DEF TakeResponse, OutcomeInv
    <3>. QED  BY <3>1, <3>2
  <2>. QED  BY <2>1, <2>2, <2>3 DEF SuiteInv
<1>6. CASE PostOutcome
  BY <1>6 DEF PostOutcome, SuiteInv, LoadInv, OutcomeInv, Handled
<1>7. CASE LoseLoadRx
  BY <1>7 DEF LoseLoadRx, SuiteInv, LoadInv, OutcomeInv, Handled
<1>8. CASE PostLostRx
  BY <1>8 DEF PostLostRx, SuiteInv, LoadInv, OutcomeInv, Handled
<1>9. CASE LoseLoadUi
  BY <1>9 DEF LoseLoadUi, SuiteInv, LoadInv, OutcomeInv, Handled
<1>10. CASE PostLostUi
  BY <1>10 DEF PostLostUi, SuiteInv, LoadInv, OutcomeInv, Handled
<1>11. CASE WatchdogReads
  <2>1. ASSUME NEW r \in Loads PROVE LoadInv(r)'
    BY <1>11 DEF WatchdogReads, SuiteInv, LoadInv
  <2>2. ASSUME NEW r \in Loads, Handled(r)' PROVE OutcomeInv(r)'
    <3>1. Handled(r) /\ OutcomeInv(r)
      BY <1>11, <2>2 DEF WatchdogReads, SuiteInv, Handled
    <3>2. watchdog'.at # "read"
      BY <1>11, <3>1 DEF WatchdogReads, OutcomeInv
    <3>. QED  BY <1>11, <3>1, <3>2 DEF WatchdogReads, OutcomeInv
  <2>. QED  BY <1>11, <2>1, <2>2 DEF WatchdogReads, SuiteInv, OutcomeInv
<1>12. ASSUME NEW slow \in BOOLEAN, WatchdogSpeaks(slow) PROVE SuiteInv'
  <2>1. ASSUME NEW r \in Loads PROVE ~Handled(r)'
    BY <1>12, <2>1 DEF WatchdogSpeaks, SuiteInv, OutcomeInv, Handled
  <2>. QED  BY <1>12, <2>1 DEF WatchdogSpeaks, SuiteInv, LoadInv, OutcomeInv
<1>13. CASE WatchdogEnds
  BY <1>13 DEF WatchdogEnds, SuiteInv, LoadInv, OutcomeInv, Handled
<1>14. CASE UNCHANGED suiteVars
  BY <1>14 DEF suiteVars, SuiteInv, LoadInv, OutcomeInv, Handled
<1>. QED
  BY <1>1, <1>2, <1>3, <1>4, <1>5, <1>6, <1>7, <1>8, <1>9, <1>10, <1>11, <1>12, <1>13, <1>14
  DEF SuiteNext, WatchdogStep

\* An answer settles the load it belongs to, in the table and in the status,
\* whatever the watchdog, a loss and other loads post meanwhile.
THEOREM AnswersSettle == SuiteSpec => []AnswerSettles
<1>1. SuiteInit => SuiteInv
  BY SuiteAssumption DEF SuiteInit, SuiteInv, SuiteLoadTypes, LoadInv, OutcomeInv, Handled
<1>2. SuiteInv /\ [SuiteNext]_suiteVars => SuiteInv'
  BY SuiteStep
<1>3. SuiteInv => AnswerSettles
  BY SuiteAssumption DEF SuiteInv, SuiteLoadTypes, LoadInv, OutcomeInv, Handled, AnswerSettles,
    AnsweredLoadEnds, OutcomeShown
<1>. QED  BY <1>1, <1>2, <1>3, PTL DEF SuiteSpec

-----------------------------------------------------------------------------
(* Playback.                                                               *)

PlayTypes ==
  /\ kind \in Kinds /\ playing \in Players \cup {NoPlayer} /\ playable \in BOOLEAN
  /\ resets \subseteq Players /\ at \in [Players -> Places] /\ row \in [Players -> Nat \ {0}]
  /\ poses \in [Players -> Nat] /\ stopSet \subseteq Players
  /\ reply \in [Players -> {"none", "awaited", "answered", "freed"}]
  /\ onLink \subseteq Players /\ orphans \subseteq Players
  /\ tcp \in {"up", "failing", "freed", "down"} /\ plays \in Nat /\ late \in [Players -> Nat]

\* The player the disabled button stands for: in its loop, about to reset the panel,
\* or with its reset in the queue of the UI.
Holds(p) == InLoop(p) \/ at[p] = "reset" \/ p \in resets
HoldsInv(p) ==
  /\ Holds(p) => ~playable
  /\ p \in resets => at[p] \in {"done", "ended"}
  /\ \A q \in Players : Holds(p) /\ Holds(q) => p = q

\* A wait that a loss let go is one on a connection that is no more.
ReplyInv(p) ==
  /\ at[p] = "new" => reply[p] = "none"
  /\ at[p] \in {"stepped", "saved"} => reply[p] # "none"
  /\ at[p] = "save" => reply[p] \in {"answered", "freed"}
  /\ reply[p] = "freed" => tcp = "freed" \/ p \notin onLink

\* The messages a player has sent since its stop were all of the row it was in.
LateInv(p) ==
  /\ kind = "file" => at[p] # "sleep"
  /\ kind = "transform" => at[p] \notin {"step", "stepped", "save", "saved"}
  /\ at[p] = "control" => row[p] <= Rows /\ (kind = "transform" => poses[p] <= PosesOf[row[p]])
  /\ kind = "file" /\ late[p] > 0 =>
       late[p] = 1 /\ p \in stopSet /\ at[p] \notin {"new", "control", "step", "save", "sleep"}
  /\ kind = "transform" /\ late[p] > 0 =>
       /\ p \in stopSet /\ at[p] \notin {"new", "row", "sleep"}
       /\ row[p] <= Rows /\ late[p] <= PosesOf[row[p]]
       /\ at[p] = "control" => late[p] <= poses[p]

PlayInv ==
  /\ PlayTypes /\ SavedWhenStepped
  /\ \A p \in Players : HoldsInv(p) /\ ReplyInv(p) /\ LateInv(p)

\* A send goes through or raises.
LEMMA SendTypes ==
  ASSUME PlayTypes, NEW p \in Players, NEW next \in Places, SendsOn(p, next) \/ Raises(p)
  PROVE  /\ at' \in [Players -> Places] /\ late' \in [Players -> Nat]
         /\ \A q \in Players : q # p => at'[q] = at[q] /\ late'[q] = late[q]
         /\ at'[p] = next \/ (at'[p] = "ended" /\ late'[p] = late[p])
         /\ late'[p] = late[p] \/ (p \in stopSet /\ at'[p] = next /\ late'[p] = late[p] + 1)
         /\ at'[p] = next /\ p \in stopSet => late'[p] <= late[p] + 1
<1>1. CASE SendsOn(p, next)
  BY <1>1 DEF SendsOn, PlayTypes, Places
<1>2. CASE Raises(p)
  BY <1>2 DEF Raises, PlayTypes, Places
<1>. QED  BY <1>1, <1>2

\* The step of one playing thread.
LEMMA PlayerStepKeeps ==
  ASSUME PlayInv, NEW p \in Players, PlayerStep(p)
  PROVE  PlayInv'
<1>. USE PlaybackAssumption DEF PlayTypes, Kinds, Places, histVars
<1>1. CASE NextRow(p)
  <2>1. PlayTypes'
    BY <1>1 DEF NextRow, Shared, PlayInv
  <2>2. SavedWhenStepped'
    BY <1>1 DEF NextRow, Shared, PlayInv, SavedWhenStepped, ReplyInv, Reaches
  <2>3. ASSUME NEW q \in Players PROVE HoldsInv(q)'
    BY <1>1, <2>1 DEF NextRow, Shared, PlayInv, HoldsInv, Holds, InLoop
  <2>4. ASSUME NEW q \in Players PROVE ReplyInv(q)'
    BY <1>1, <2>1 DEF NextRow, Shared, PlayInv, ReplyInv
  <2>5. ASSUME NEW q \in Players PROVE LateInv(q)'
    BY <1>1, <2>1 DEF NextRow, Shared, PlayInv, LateInv
  <2>. QED  BY <2>1, <2>2, <2>3, <2>4, <2>5 DEF PlayInv
<1>2. CASE SendControl(p)
  <2>0. /\ UNCHANGED <<early, playable, resets>> /\ at[p] = "control"
        /\ \E next \in {"check", "control", "ended"} : at' = [at EXCEPT ![p] = next]
    BY <1>2 DEF SendControl, SendsOn, Raises, Shared
  <2>1. PlayTypes'
    <3>1. CASE kind = "transform" /\ poses[p] = PosesOf[row[p]] /\ at' = [at EXCEPT ![p] = "check"] /\ UNCHANGED <<poses, late>>
      BY <1>2, <3>1 DEF SendControl, Shared, PlayInv
    <3>2. CASE kind = "transform" /\ (SendsOn(p, "control") \/ Raises(p))
      <4>1. at' \in [Players -> Places] /\ late' \in [Players -> Nat]
        BY <3>2, SendTypes DEF PlayInv
      <4>2. poses' \in [Players -> Nat]
        BY <1>2, <3>2 DEF SendControl, PlayInv
      <4>. QED  BY <1>2, <4>1, <4>2 DEF SendControl, Shared, PlayInv
    <3>3. CASE kind = "file" /\ (SendsOn(p, "check") \/ Raises(p)) /\ UNCHANGED poses
      <4>1. at' \in [Players -> Places] /\ late' \in [Players -> Nat]
        BY <3>3, SendTypes DEF PlayInv
      <4>. QED  BY <1>2, <3>3, <4>1 DEF SendControl, Shared, PlayInv
    <3>. QED  BY <1>2, <3>1, <3>2, <3>3 DEF SendControl
  <2>2. SavedWhenStepped'
    BY <2>0 DEF PlayInv, SavedWhenStepped
  <2>3. ASSUME NEW q \in Players PROVE HoldsInv(q)'
    BY <2>0 DEF PlayInv, HoldsInv, Holds, InLoop
  <2>4. ASSUME NEW q \in Players PROVE ReplyInv(q)'
    BY <1>2, <2>1 DEF SendControl, SendsOn, Raises, Shared, PlayInv, ReplyInv
  <2>5. ASSUME NEW q \in Players PROVE LateInv(q)'
    <3>1. CASE q # p
      <4>1. at'[q] = at[q] /\ late'[q] = late[q]
        BY <1>2, <3>1, SendTypes DEF SendControl, PlayInv
      <4>2. poses'[q] = poses[q]
        BY <1>2, <3>1 DEF SendControl, PlayInv
      <4>3. UNCHANGED <<kind, row, stopSet>>
        BY <1>2 DEF SendControl, Shared
      <4>. QED  BY <3>1, <4>1, <4>2, <4>3 DEF PlayInv, LateInv
    <3>2. CASE q = p /\ kind = "transform" /\ poses[p] = PosesOf[row[p]] /\ at' = [at EXCEPT ![p] = "check"] /\ UNCHANGED <<poses, late>>
      BY <1>2, <2>1, <3>2 DEF SendControl, Shared, PlayInv, LateInv
    <3>3. CASE q = p /\ kind = "transform" /\ poses[p] < PosesOf[row[p]] /\ SendsOn(p, "control") /\ poses' = [poses EXCEPT ![p] = @ + 1]
      <4>1. row[p] \in 1..Rows /\ PosesOf[row[p]] \in Nat
        BY <1>2, <3>3 DEF SendControl, PlayInv, LateInv
      <4>. QED  BY <1>2, <2>1, <3>3, <4>1 DEF SendControl, SendsOn, Shared, PlayInv, LateInv
    <3>4. CASE q = p /\ Raises(p) /\ UNCHANGED poses
      BY <1>2, <2>1, <3>4 DEF SendControl, Raises, Shared, PlayInv, LateInv
    <3>5. CASE q = p /\ kind = "file" /\ SendsOn(p, "check") /\ UNCHANGED poses
      BY <1>2, <2>1, <3>5 DEF SendControl, SendsOn, Shared, PlayInv, LateInv
    <3>. QED  BY <1>2, <3>1, <3>2, <3>3, <3>4, <3>5 DEF SendControl
  <2>. QED  BY <2>1, <2>2, <2>3, <2>4, <2>5 DEF PlayInv
<1>3. CASE CheckStop(p)
  <2>1. PlayTypes'
    BY <1>3 DEF CheckStop, Shared, PlayInv
  <2>2. SavedWhenStepped'
    BY <1>3 DEF CheckStop, Shared, PlayInv, SavedWhenStepped, ReplyInv, Reaches
  <2>3. ASSUME NEW q \in Players PROVE HoldsInv(q)'
    BY <1>3, <2>1 DEF CheckStop, Shared, PlayInv, HoldsInv, Holds, InLoop
  <2>4. ASSUME NEW q \in Players PROVE ReplyInv(q)'
    BY <1>3, <2>1 DEF CheckStop, Shared, PlayInv, ReplyInv
  <2>5. ASSUME NEW q \in Players PROVE LateInv(q)'
    BY <1>3, <2>1 DEF CheckStop, Shared, PlayInv, LateInv
  <2>. QED  BY <2>1, <2>2, <2>3, <2>4, <2>5 DEF PlayInv
<1>4. CASE SendRequest(p)
  <2>1. PlayTypes'
    <3>1. at' \in [Players -> Places] /\ late' \in [Players -> Nat]
      BY <1>4, SendTypes DEF SendRequest, PlayInv
    <3>. QED  BY <1>4, <3>1 DEF SendRequest, Shared, PlayInv
  <2>2. SavedWhenStepped'
    BY <1>4 DEF SendRequest, SendsOn, Raises, Shared, PlayInv, SavedWhenStepped, ReplyInv, Reaches
  <2>3. ASSUME NEW q \in Players PROVE HoldsInv(q)'
    <3>1. /\ InLoop(p) /\ (at'[p] \in {"stepped", "saved", "ended"}) /\ UNCHANGED <<resets, playable>>
          /\ \A x \in Players : x # p => at'[x] = at[x]
      BY <1>4 DEF SendRequest, SendsOn, Raises, Shared, PlayInv, InLoop
    <3>2. \A x \in Players : Holds(x)' => Holds(x)
      BY <3>1 DEF Holds, InLoop
    <3>3. p \notin resets
      BY <3>1 DEF PlayInv, HoldsInv, InLoop
    <3>. QED  BY <3>1, <3>2, <3>3 DEF PlayInv, HoldsInv
  <2>4. ASSUME NEW q \in Players PROVE ReplyInv(q)'
    BY <1>4, <2>1 DEF SendRequest, SendsOn, Raises, Shared, PlayInv, ReplyInv
  <2>5. ASSUME NEW q \in Players PROVE LateInv(q)'
    BY <1>4, <2>1 DEF SendRequest, SendsOn, Raises, Shared, PlayInv, LateInv
  <2>. QED  BY <2>1, <2>2, <2>3, <2>4, <2>5 DEF PlayInv
<1>5. CASE GoesOn(p)
  <2>1. PlayTypes'
    BY <1>5 DEF GoesOn, After, Shared, PlayInv
  <2>2. SavedWhenStepped'
    BY <1>5 DEF GoesOn, After, Shared, PlayInv, SavedWhenStepped, ReplyInv, Reaches
  <2>3. ASSUME NEW q \in Players PROVE HoldsInv(q)'
    BY <1>5, <2>1 DEF GoesOn, After, Shared, PlayInv, HoldsInv, Holds, InLoop
  <2>4. ASSUME NEW q \in Players PROVE ReplyInv(q)'
    BY <1>5, <2>1 DEF GoesOn, After, Shared, PlayInv, ReplyInv
  <2>5. ASSUME NEW q \in Players PROVE LateInv(q)'
    BY <1>5, <2>1 DEF GoesOn, After, Shared, PlayInv, LateInv
  <2>. QED  BY <2>1, <2>2, <2>3, <2>4, <2>5 DEF PlayInv
<1>6. CASE GivesUp(p)
  <2>1. PlayTypes'
    BY <1>6 DEF GivesUp, Shared, PlayInv
  <2>2. SavedWhenStepped'
    BY <1>6 DEF GivesUp, Shared, PlayInv, SavedWhenStepped, ReplyInv, Reaches
  <2>3. ASSUME NEW q \in Players PROVE HoldsInv(q)'
    BY <1>6, <2>1 DEF GivesUp, Shared, PlayInv, HoldsInv, Holds, InLoop
  <2>4. ASSUME NEW q \in Players PROVE ReplyInv(q)'
    BY <1>6, <2>1 DEF GivesUp, Shared, PlayInv, ReplyInv
  <2>5. ASSUME NEW q \in Players PROVE LateInv(q)'
    BY <1>6, <2>1 DEF GivesUp, Shared, PlayInv, LateInv
  <2>. QED  BY <2>1, <2>2, <2>3, <2>4, <2>5 DEF PlayInv
<1>7. CASE Sleep(p)
  <2>1. PlayTypes'
    BY <1>7 DEF Sleep, Shared, PlayInv
  <2>2. SavedWhenStepped'
    BY <1>7 DEF Sleep, Shared, PlayInv, SavedWhenStepped, ReplyInv, Reaches
  <2>3. ASSUME NEW q \in Players PROVE HoldsInv(q)'
    BY <1>7, <2>1 DEF Sleep, Shared, PlayInv, HoldsInv, Holds, InLoop
  <2>4. ASSUME NEW q \in Players PROVE ReplyInv(q)'
    BY <1>7, <2>1 DEF Sleep, Shared, PlayInv, ReplyInv
  <2>5. ASSUME NEW q \in Players PROVE LateInv(q)'
    BY <1>7, <2>1 DEF Sleep, Shared, PlayInv, LateInv
  <2>. QED  BY <2>1, <2>2, <2>3, <2>4, <2>5 DEF PlayInv
<1>8. CASE PostReset(p)
  <2>1. PlayTypes'
    BY <1>8 DEF PostReset, Shared, PlayInv
  <2>2. SavedWhenStepped'
    BY <1>8 DEF PostReset, Shared, PlayInv, SavedWhenStepped, ReplyInv, Reaches
  <2>3. ASSUME NEW q \in Players PROVE HoldsInv(q)'
    BY <1>8, <2>1 DEF PostReset, Shared, PlayInv, HoldsInv, Holds, InLoop
  <2>4. ASSUME NEW q \in Players PROVE ReplyInv(q)'
    BY <1>8, <2>1 DEF PostReset, Shared, PlayInv, ReplyInv
  <2>5. ASSUME NEW q \in Players PROVE LateInv(q)'
    BY <1>8, <2>1 DEF PostReset, Shared, PlayInv, LateInv
  <2>. QED  BY <2>1, <2>2, <2>3, <2>4, <2>5 DEF PlayInv
<1>9. CASE OnDone(p)
  <2>1. PlayTypes'
    BY <1>9 DEF OnDone, Shared, PlayInv
  <2>2. SavedWhenStepped'
    BY <1>9 DEF OnDone, Shared, PlayInv, SavedWhenStepped, ReplyInv, Reaches
  <2>3. ASSUME NEW q \in Players PROVE HoldsInv(q)'
    BY <1>9, <2>1 DEF OnDone, Shared, PlayInv, HoldsInv, Holds, InLoop
  <2>4. ASSUME NEW q \in Players PROVE ReplyInv(q)'
    BY <1>9, <2>1 DEF OnDone, Shared, PlayInv, ReplyInv
  <2>5. ASSUME NEW q \in Players PROVE LateInv(q)'
    BY <1>9, <2>1 DEF OnDone, Shared, PlayInv, LateInv
  <2>. QED  BY <2>1, <2>2, <2>3, <2>4, <2>5 DEF PlayInv
<1>. QED  BY <1>1, <1>2, <1>3, <1>4, <1>5, <1>6, <1>7, <1>8, <1>9 DEF PlayerStep

\* Play, Stop, the reset of the panel, the simulator and the connection.
LEMMA PlayStep ==
  ASSUME PlayInv, [PlayNext]_playVars
  PROVE  PlayInv'
<1>. USE PlaybackAssumption DEF PlayTypes, Kinds, Places, threadVars, histVars
<1>1. CASE Play
  <2>1. PlayTypes'
    <3>1. plays' \in Nat
      <4>1. plays' = plays + 1
        BY <1>1 DEF Play
      <4>. QED  BY <4>1 DEF PlayInv
    <3>4. playable' \in BOOLEAN
      BY <1>1, Zenon DEF Play
    <3>2. playing' \in Players \cup {NoPlayer} /\ at' \in [Players -> Places] /\ onLink' \subseteq Players
      <4>1. CASE Alive(playing)
        BY <1>1, <4>1 DEF Play, PlayInv
      <4>2. CASE ~Alive(playing)
        <5>1. PICK p \in Players : /\ at[p] = "new" /\ playing' = p /\ at' = [at EXCEPT ![p] = "row"]
                                   /\ onLink' = IF tcp \in {"up", "failing"} THEN onLink \cup {p} ELSE onLink
          BY <1>1, <4>2 DEF Play
        <5>. QED  BY <5>1 DEF PlayInv
      <4>. QED  BY <4>1, <4>2
    <3>3. UNCHANGED <<kind, resets, row, poses, stopSet, reply, orphans, tcp, late>>
      BY <1>1 DEF Play
    <3>. QED  BY <3>1, <3>2, <3>3, <3>4 DEF PlayInv
  <2>2. SavedWhenStepped'
    BY <1>1 DEF Play, PlayInv, SavedWhenStepped
  <2>3. ASSUME NEW q \in Players PROVE HoldsInv(q)'
    BY <1>1, <2>1 DEF Play, PlayInv, HoldsInv, Holds, InLoop
  <2>4. ASSUME NEW q \in Players PROVE ReplyInv(q)'
    BY <1>1, <2>1 DEF Play, PlayInv, ReplyInv
  <2>5. ASSUME NEW q \in Players PROVE LateInv(q)'
    BY <1>1, <2>1 DEF Play, PlayInv, LateInv
  <2>. QED  BY <2>1, <2>2, <2>3, <2>4, <2>5 DEF PlayInv
<1>2. CASE StopPlay
  <2>1. PlayTypes'
    BY <1>2 DEF StopPlay, Alive, PlayInv
  <2>2. SavedWhenStepped'
    BY <1>2 DEF StopPlay, PlayInv, SavedWhenStepped
  <2>3. ASSUME NEW q \in Players PROVE HoldsInv(q)'
    BY <1>2, <2>1 DEF StopPlay, PlayInv, HoldsInv, Holds, InLoop
  <2>4. ASSUME NEW q \in Players PROVE ReplyInv(q)'
    BY <1>2, <2>1 DEF StopPlay, PlayInv, ReplyInv
  <2>5. ASSUME NEW q \in Players PROVE LateInv(q)'
    BY <1>2, <2>1 DEF StopPlay, PlayInv, LateInv
  <2>. QED  BY <2>1, <2>2, <2>3, <2>4, <2>5 DEF PlayInv
<1>3. CASE LinkFails
  <2>1. PlayTypes'
    BY <1>3 DEF LinkFails, PlayInv
  <2>2. SavedWhenStepped'
    BY <1>3 DEF LinkFails, PlayInv, SavedWhenStepped
  <2>3. ASSUME NEW q \in Players PROVE HoldsInv(q)'
    BY <1>3, <2>1 DEF LinkFails, PlayInv, HoldsInv, Holds, InLoop
  <2>4. ASSUME NEW q \in Players PROVE ReplyInv(q)'
    BY <1>3, <2>1 DEF LinkFails, PlayInv, ReplyInv
  <2>5. ASSUME NEW q \in Players PROVE LateInv(q)'
    BY <1>3, <2>1 DEF LinkFails, PlayInv, LateInv
  <2>. QED  BY <2>1, <2>2, <2>3, <2>4, <2>5 DEF PlayInv
<1>4. CASE FreeWaits
  <2>1. PlayTypes'
    BY <1>4 DEF FreeWaits, PlayInv
  <2>2. SavedWhenStepped'
    BY <1>4 DEF FreeWaits, PlayInv, SavedWhenStepped
  <2>3. ASSUME NEW q \in Players PROVE HoldsInv(q)'
    BY <1>4, <2>1 DEF FreeWaits, PlayInv, HoldsInv, Holds, InLoop
  <2>4. ASSUME NEW q \in Players PROVE ReplyInv(q)'
    BY <1>4, <2>1 DEF FreeWaits, PlayInv, ReplyInv
  <2>5. ASSUME NEW q \in Players PROVE LateInv(q)'
    BY <1>4, <2>1 DEF FreeWaits, PlayInv, LateInv
  <2>. QED  BY <2>1, <2>2, <2>3, <2>4, <2>5 DEF PlayInv
<1>5. CASE StopOnLoss
  <2>1. PlayTypes'
    BY <1>5 DEF StopOnLoss, Alive, PlayInv
  <2>2. SavedWhenStepped'
    BY <1>5 DEF StopOnLoss, PlayInv, SavedWhenStepped
  <2>3. ASSUME NEW q \in Players PROVE HoldsInv(q)'
    BY <1>5, <2>1 DEF StopOnLoss, PlayInv, HoldsInv, Holds, InLoop
  <2>4. ASSUME NEW q \in Players PROVE ReplyInv(q)'
    BY <1>5, <2>1 DEF StopOnLoss, PlayInv, ReplyInv
  <2>5. ASSUME NEW q \in Players PROVE LateInv(q)'
    BY <1>5, <2>1 DEF StopOnLoss, PlayInv, LateInv
  <2>. QED  BY <2>1, <2>2, <2>3, <2>4, <2>5 DEF PlayInv
<1>6. CASE Reconnected
  <2>1. PlayTypes'
    BY <1>6 DEF Reconnected, PlayInv
  <2>2. SavedWhenStepped'
    BY <1>6 DEF Reconnected, PlayInv, SavedWhenStepped
  <2>3. ASSUME NEW q \in Players PROVE HoldsInv(q)'
    BY <1>6, <2>1 DEF Reconnected, PlayInv, HoldsInv, Holds, InLoop
  <2>4. ASSUME NEW q \in Players PROVE ReplyInv(q)'
    BY <1>6, <2>1 DEF Reconnected, PlayInv, ReplyInv
  <2>5. ASSUME NEW q \in Players PROVE LateInv(q)'
    BY <1>6, <2>1 DEF Reconnected, PlayInv, LateInv
  <2>. QED  BY <2>1, <2>2, <2>3, <2>4, <2>5 DEF PlayInv
<1>7. CASE UNCHANGED playVars
  <2>1. PlayTypes'
    BY <1>7 DEF playVars, PlayInv
  <2>2. SavedWhenStepped'
    BY <1>7 DEF playVars, PlayInv, SavedWhenStepped
  <2>3. ASSUME NEW q \in Players PROVE HoldsInv(q)'
    BY <1>7, <2>1 DEF playVars, PlayInv, HoldsInv, Holds, InLoop
  <2>4. ASSUME NEW q \in Players PROVE ReplyInv(q)'
    BY <1>7, <2>1 DEF playVars, PlayInv, ReplyInv
  <2>5. ASSUME NEW q \in Players PROVE LateInv(q)'
    BY <1>7, <2>1 DEF playVars, PlayInv, LateInv
  <2>. QED  BY <2>1, <2>2, <2>3, <2>4, <2>5 DEF PlayInv
<1>8. ASSUME NEW p \in Players, ApplyReset(p) PROVE PlayInv'
  <2>1. PlayTypes'
    BY <1>8 DEF ApplyReset, PlayInv
  <2>2. SavedWhenStepped'
    BY <1>8 DEF ApplyReset, PlayInv, SavedWhenStepped
  <2>3. ASSUME NEW q \in Players PROVE HoldsInv(q)'
    BY <1>8, <2>1 DEF ApplyReset, PlayInv, HoldsInv, Holds, InLoop
  <2>4. ASSUME NEW q \in Players PROVE ReplyInv(q)'
    BY <1>8, <2>1 DEF ApplyReset, PlayInv, ReplyInv
  <2>5. ASSUME NEW q \in Players PROVE LateInv(q)'
    BY <1>8, <2>1 DEF ApplyReset, PlayInv, LateInv
  <2>. QED  BY <2>1, <2>2, <2>3, <2>4, <2>5 DEF PlayInv
<1>9. ASSUME NEW p \in Players, Answered(p) PROVE PlayInv'
  <2>1. PlayTypes'
    BY <1>9 DEF Answered, PlayInv
  <2>2. SavedWhenStepped'
    BY <1>9 DEF Answered, PlayInv, SavedWhenStepped
  <2>3. ASSUME NEW q \in Players PROVE HoldsInv(q)'
    BY <1>9, <2>1 DEF Answered, PlayInv, HoldsInv, Holds, InLoop
  <2>4. ASSUME NEW q \in Players PROVE ReplyInv(q)'
    BY <1>9, <2>1 DEF Answered, PlayInv, ReplyInv
  <2>5. ASSUME NEW q \in Players PROVE LateInv(q)'
    BY <1>9, <2>1 DEF Answered, PlayInv, LateInv
  <2>. QED  BY <2>1, <2>2, <2>3, <2>4, <2>5 DEF PlayInv
<1>. QED
  BY <1>1, <1>2, <1>3, <1>4, <1>5, <1>6, <1>7, <1>8, <1>9, PlayerStepKeeps DEF PlayNext

\* One thread at most drives the vehicles, a row is saved only when its step was
\* answered, and after Stop what is left of the row, at most, is sent.
THEOREM PlaysInStep == PlaySpec => []DrivesInStep
<1>1. PlayInit => PlayInv
  BY PlaybackAssumption DEF PlayInit, PlayInv, PlayTypes, Kinds, Places, SavedWhenStepped,
    HoldsInv, Holds, InLoop, ReplyInv, LateInv
<1>2. PlayInv /\ [PlayNext]_playVars => PlayInv'
  BY PlayStep
<1>3. PlayInv => DrivesInStep
  <2>. SUFFICES ASSUME PlayInv PROVE DrivesInStep
    OBVIOUS
  <2>1. OneDrives
    BY DEF PlayInv, HoldsInv, Holds, OneDrives
  <2>2. ASSUME NEW p \in Players
        PROVE late[p] <= IF kind = "file" THEN 1 ELSE PosesOf[IF row[p] > Rows THEN Rows ELSE row[p]]
    <3>1. late[p] \in Nat /\ row[p] \in Nat \ {0} /\ kind \in {"file", "transform"}
      BY DEF PlayInv, PlayTypes, Kinds
    <3>2. (IF row[p] > Rows THEN Rows ELSE row[p]) \in 1..Rows
      BY <3>1, PlaybackAssumption
    <3>3. PosesOf[IF row[p] > Rows THEN Rows ELSE row[p]] \in Nat
      BY <3>2, PlaybackAssumption
    <3>4. LateInv(p)
      BY DEF PlayInv
    <3>. QED  BY <3>1, <3>3, <3>4, PlaybackAssumption DEF LateInv
  <2>. QED  BY <2>1, <2>2 DEF PlayInv, DrivesInStep, StopTakesHold
<1>. QED  BY <1>1, <1>2, <1>3, PTL DEF PlaySpec

-----------------------------------------------------------------------------
(* DrivePanel.                                                             *)

\* The driving tab.  What is posted is the reset or a value.
TabItems == [what : {"reset"}] \cup [what : {"value"}, run : RunIds, vehicle : Slots, slot : Nat]
RunRecords == [step : BOOLEAN, at : {"new", "live", "done", "over", "gone"}, running : BOOLEAN]
TabTypes ==
  /\ startOn \in BOOLEAN /\ stepMode \in BOOLEAN /\ metAnother \in BOOLEAN /\ overdue \in BOOLEAN /\ gap \in BOOLEAN
  /\ slotOf \in [Slots -> Nat] /\ adRunners \subseteq RunIds /\ stepRunners \subseteq RunIds
  /\ runs \in [RunIds -> RunRecords] /\ clickAt \in {"idle", "called", "made"} /\ making \in RunIds \cup {0}
  /\ uiPosts \in Seq(TabItems) /\ cells \in [Slots -> [run : Nat, vehicle : Nat]]

\* The reset of the tab is to be shown, or a runner that will post it ends.
ResetComes == \E i \in 1..Len(uiPosts) : uiPosts[i].what = "reset"
EndComes == \E r \in RunIds :
  runs[r].at \in {"done", "over"} \/ (runs[r].at = "live" /\ runs[r].step /\ ~runs[r].running)

MakingInv ==
  /\ (making # 0) <=> (clickAt = "made")
  /\ ~metAnother /\ making # 0 => IF stepMode THEN runs[making].step /\ runs[making].at \in {"live", "done"}
                                             ELSE ~runs[making].step
ListedInv == ~metAnother =>
  /\ \A r \in stepRunners : runs[r].step /\ runs[r].at \in {"live", "done"}
  /\ \A r \in RunIds : runs[r].at = "live" => r \in Listed \/ r = making \/ ~runs[r].running
StartInv == ~metAnother =>
  IF startOn THEN Listed = {} /\ clickAt = "idle" ELSE clickAt # "idle" \/ Listed # {} \/ ResetComes \/ EndComes
CellsInv == ~metAnother /\ ~overdue =>
  ResetComes \/ EndComes \/ \A i \in Slots : cells[i] = Blank \/ cells[i].run \in Listed
SlotsInv == ~gap =>
  /\ \A v \in Slots : slotOf[v] \in {0, v}
  /\ \A i \in 1..Len(uiPosts) : uiPosts[i].what = "value" => uiPosts[i].slot = uiPosts[i].vehicle
  /\ \A i \in Slots : cells[i] = Blank \/ cells[i].vehicle = i
TabInv == TabTypes /\ MakingInv /\ ListedInv /\ StartInv /\ CellsInv /\ SlotsInv

\* An item that is posted.
LEMMA TabPush ==
  ASSUME TabTypes, NEW x \in TabItems, uiPosts' = Append(uiPosts, x)
  PROVE  /\ uiPosts' \in Seq(TabItems) /\ Len(uiPosts) \in Nat /\ Len(uiPosts') = Len(uiPosts) + 1
         /\ uiPosts'[Len(uiPosts) + 1] = x /\ \A i \in 1..Len(uiPosts) : uiPosts'[i] = uiPosts[i]
         /\ ResetComes \/ x.what = "reset" => ResetComes'
<1>1. /\ uiPosts' \in Seq(TabItems) /\ Len(uiPosts) \in Nat /\ Len(uiPosts') = Len(uiPosts) + 1
      /\ uiPosts'[Len(uiPosts) + 1] = x /\ \A i \in 1..Len(uiPosts) : uiPosts'[i] = uiPosts[i]
  BY DEF TabTypes
<1>. QED  BY <1>1 DEF ResetComes
\* The same of an item that is taken.
LEMMA TabPop ==
  ASSUME TabTypes, uiPosts # <<>>, uiPosts' = Tail(uiPosts)
  PROVE  /\ uiPosts' \in Seq(TabItems) /\ Head(uiPosts) \in TabItems /\ Head(uiPosts) = uiPosts[1]
         /\ Len(uiPosts) \in Nat \ {0} /\ Len(uiPosts') = Len(uiPosts) - 1
         /\ \A i \in 1..Len(uiPosts') : uiPosts'[i] = uiPosts[i + 1]
         /\ ResetComes /\ Head(uiPosts).what # "reset" => ResetComes'
<1>1. /\ uiPosts' \in Seq(TabItems) /\ Head(uiPosts) \in TabItems /\ Head(uiPosts) = uiPosts[1]
      /\ Len(uiPosts) \in Nat \ {0} /\ Len(uiPosts') = Len(uiPosts) - 1
      /\ \A i \in 1..Len(uiPosts') : uiPosts'[i] = uiPosts[i + 1]
  BY DEF TabTypes
<1>2. ASSUME NEW i \in 1..Len(uiPosts), uiPosts[i].what = "reset", Head(uiPosts).what # "reset" PROVE ResetComes'
  <2>1. i - 1 \in 1..Len(uiPosts') /\ uiPosts'[i - 1] = uiPosts[i]
    BY <1>1, <1>2
  <2>. QED  BY <1>2, <2>1 DEF ResetComes
<1>. QED  BY <1>1, <1>2 DEF ResetComes
\* Runners that are stopped.
LEMMA Silenced ==
  ASSUME TabTypes, NEW rs, Silence(rs)
  PROVE  /\ runs' \in [RunIds -> RunRecords]
         /\ \A r \in RunIds :
              /\ runs'[r].step = runs[r].step /\ runs'[r].at = runs[r].at
              /\ (r \in rs => ~runs'[r].running) /\ (r \notin rs => runs'[r].running = runs[r].running)
<1>1. runs' = [r \in RunIds |-> [runs[r] EXCEPT !.running = runs[r].running /\ r \notin rs]]
  BY DEF Silence
<1>2. ASSUME NEW r \in RunIds
      PROVE  /\ runs'[r] \in RunRecords
             /\ runs'[r].step = runs[r].step /\ runs'[r].at = runs[r].at
             /\ (r \in rs => ~runs'[r].running) /\ (r \notin rs => runs'[r].running = runs[r].running)
  <2>1. runs[r] \in RunRecords /\ runs'[r] = [runs[r] EXCEPT !.running = runs[r].running /\ r \notin rs]
    BY <1>1 DEF TabTypes
  <2>2. (runs[r].running /\ r \notin rs) \in BOOLEAN
    OBVIOUS
  <2>3. CASE r \in rs
    <3>1. runs'[r] = [runs[r] EXCEPT !.running = FALSE]
      BY <2>1, <2>3
    <3>. QED  BY <2>1, <2>3, <3>1 DEF RunRecords
  <2>4. CASE r \notin rs
    <3>1. runs'[r] = runs[r]
      BY <2>1, <2>4 DEF RunRecords
    <3>. QED  BY <2>1, <2>4, <3>1 DEF RunRecords
  <2>. QED  BY <2>3, <2>4
<1>. QED  BY <1>1, <1>2

\* Every step of the tab keeps the invariant: those of the callback thread,
LEMMA ClicksKeepTab ==
  ASSUME TabInv, PressStart \/ AlreadyRunning \/ StartRaises \/ MakeRunner \/ ListRunner \/ PressStop \/ RebuildRows
  PROVE  TabInv'
<1>. TabTypes /\ MakingInv /\ ListedInv /\ StartInv /\ CellsInv /\ SlotsInv
  BY DEF TabInv
<1>1. CASE PressStart
  <2>2. TabTypes'
    <3>1. PICK named \in SUBSET Slots \ {{}} :
            slotOf' = [v \in Slots |-> IF v \in named THEN Cardinality({u \in named : u <= v}) ELSE 0]
      BY <1>1 DEF PressStart
    <3>2. \A v \in Slots : Cardinality({u \in named : u <= v}) \in Nat
            <4>1. IsFiniteSet(Slots)
        BY DriveAssumption, FS_Interval DEF Slots
      <4>2. \A v \in Slots : {u \in named : u <= v} \subseteq Slots
        OBVIOUS
      <4>. QED  BY <4>1, <4>2, FS_Subset, FS_CardinalityType
    <3>3. slotOf' \in [Slots -> Nat]
      BY <3>1, <3>2
    <3>4. gap' \in BOOLEAN
      BY <1>1, Zenon DEF PressStart, TabTypes
    <3>. QED  BY <1>1, <3>3, <3>4 DEF PressStart, TabTypes
  <2>3. MakingInv'
    BY <1>1 DEF PressStart, MakingInv, TabTypes, RunRecords
  <2>4. ListedInv'
    BY <1>1 DEF PressStart, ListedInv, MakingInv, Listed, TabTypes, RunRecords
  <2>5. StartInv'
    BY <1>1 DEF PressStart, StartInv, ListedInv, MakingInv, Listed, ResetComes, EndComes, TabTypes, RunRecords
  <2>6. CellsInv'
    BY <1>1 DEF PressStart, CellsInv, ListedInv, Listed, ResetComes, EndComes, TabTypes, RunRecords, Blank
  <2>7. SlotsInv'
    BY <1>1 DEF PressStart, SlotsInv, TabTypes, Blank, Value, Reset
  <2>. QED  BY <2>2, <2>3, <2>4, <2>5, <2>6, <2>7 DEF TabInv
<1>2. CASE AlreadyRunning
  <2>2. TabTypes'
    BY <1>2 DEF AlreadyRunning, Busy, TabTypes, RunRecords, Blank
  <2>3. MakingInv'
    BY <1>2 DEF AlreadyRunning, Busy, MakingInv, TabTypes, RunRecords
  <2>4. ListedInv'
    BY <1>2 DEF AlreadyRunning, Busy, ListedInv, MakingInv, Listed, TabTypes, RunRecords
  <2>5. StartInv'
    BY <1>2 DEF AlreadyRunning, Busy, StartInv, ListedInv, MakingInv, Listed, ResetComes, EndComes, TabTypes, RunRecords
  <2>6. CellsInv'
    BY <1>2 DEF AlreadyRunning, Busy, CellsInv, ListedInv, Listed, ResetComes, EndComes, TabTypes, RunRecords, Blank
  <2>7. SlotsInv'
    BY <1>2 DEF AlreadyRunning, Busy, SlotsInv, TabTypes, Blank, Value, Reset
  <2>. QED  BY <2>2, <2>3, <2>4, <2>5, <2>6, <2>7 DEF TabInv
<1>3. CASE StartRaises
  <2>0. Reset \in TabItems /\ uiPosts' = Append(uiPosts, Reset) /\ Reset.what = "reset"
    BY <1>3 DEF StartRaises, TabItems, Reset
  <2>1. uiPosts' \in Seq(TabItems) /\ ResetComes' /\ Len(uiPosts) \in Nat /\ Len(uiPosts') = Len(uiPosts) + 1
        /\ uiPosts'[Len(uiPosts) + 1] = Reset /\ \A i \in 1..Len(uiPosts) : uiPosts'[i] = uiPosts[i]
    BY <2>0, TabPush
  <2>2. TabTypes'
    BY <1>3, <2>0, <2>1 DEF StartRaises, Busy, TabTypes, RunRecords, Blank
  <2>3. MakingInv'
    BY <1>3, <2>0, <2>1 DEF StartRaises, Busy, MakingInv, TabTypes, RunRecords
  <2>4. ListedInv'
    BY <1>3, <2>0, <2>1 DEF StartRaises, Busy, ListedInv, MakingInv, Listed, TabTypes, RunRecords
  <2>5. StartInv'
    BY <1>3, <2>0, <2>1 DEF StartRaises, Busy, StartInv, ListedInv, MakingInv, Listed, EndComes, TabTypes, RunRecords
  <2>6. CellsInv'
    BY <1>3, <2>0, <2>1 DEF StartRaises, Busy, CellsInv, ListedInv, Listed, EndComes, TabTypes, RunRecords, Blank
  <2>7. SlotsInv'
    BY <1>3, <2>0, <2>1 DEF StartRaises, Busy, SlotsInv, TabTypes, Blank, Value, Reset
  <2>. QED  BY <2>2, <2>3, <2>4, <2>5, <2>6, <2>7 DEF TabInv
<1>4. CASE MakeRunner
  <2>1. PICK q \in RunIds :
          /\ runs[q].at = "new" /\ making' = q
          /\ runs' = [runs EXCEPT ![q] = [step |-> stepMode, at |-> "live", running |-> TRUE]]
    BY <1>4 DEF MakeRunner
  <2>a. runs'[q].step = stepMode /\ runs'[q].at = "live" /\ runs'[q].running
        /\ (\A x \in RunIds : x # q => runs'[x] = runs[x]) /\ q # 0 /\ making = 0
    BY <1>4, <2>1 DEF MakeRunner, TabTypes, RunIds, MakingInv
  <2>2. TabTypes'
    BY <1>4 DEF MakeRunner, Busy, TabTypes, RunRecords, Blank
  <2>3. MakingInv'
    BY <1>4, <2>1, <2>a DEF MakeRunner, MakingInv, TabTypes
  <2>4. ListedInv'
    <3>1. \A x \in stepRunners : x \in RunIds /\ (~metAnother => x # q)
      BY <2>1 DEF TabTypes, ListedInv
    <3>. SUFFICES ASSUME ~metAnother' PROVE ListedInv'
      BY DEF ListedInv
    <3>2. ~metAnother /\ Listed' = Listed /\ stepRunners' = stepRunners
      BY <1>4 DEF MakeRunner, Listed
    <3>3. ASSUME NEW x \in stepRunners' PROVE runs'[x].step /\ runs'[x].at \in {"live", "done"}
      BY <2>a, <3>1, <3>2, <3>3 DEF ListedInv
    <3>4. ASSUME NEW x \in RunIds, runs'[x].at = "live"
          PROVE  x \in Listed' \/ x = making' \/ ~runs'[x].running
      <4>1. CASE x = q
        BY <2>1, <4>1
      <4>2. CASE x # q
        <5>1. runs'[x] = runs[x] /\ x # making
          BY <2>a, <4>2 DEF RunIds
        <5>2. x \in Listed \/ ~runs[x].running
          BY <3>2, <3>4, <5>1 DEF ListedInv
        <5>. QED  BY <3>2, <5>1, <5>2
      <4>. QED  BY <4>1, <4>2
    <3>. QED  BY <3>3, <3>4 DEF ListedInv
  <2>5. StartInv'
    BY <1>4 DEF MakeRunner, Busy, StartInv, ListedInv, MakingInv, Listed, ResetComes, EndComes, TabTypes, RunRecords
  <2>6. CellsInv'
    BY <1>4 DEF MakeRunner, Busy, CellsInv, ListedInv, Listed, ResetComes, EndComes, TabTypes, RunRecords, Blank
  <2>7. SlotsInv'
    BY <1>4 DEF MakeRunner, Busy, SlotsInv, TabTypes, Blank, Value, Reset
  <2>. QED  BY <2>2, <2>3, <2>4, <2>5, <2>6, <2>7 DEF TabInv
<1>5. CASE ListRunner
  <2>2. TabTypes'
    <3>1. making \in RunIds
      BY <1>5 DEF ListRunner, MakingInv, TabTypes
    <3>2. adRunners' \subseteq RunIds /\ stepRunners' \subseteq RunIds
      BY <1>5, <3>1 DEF ListRunner, TabTypes
    <3>. QED  BY <1>5, <3>2 DEF ListRunner, TabTypes
  <2>3. MakingInv'
    BY <1>5 DEF ListRunner, MakingInv, TabTypes, RunRecords
  <2>4. ListedInv'
    BY <1>5 DEF ListRunner, ListedInv, MakingInv, Listed, TabTypes, RunRecords
  <2>5. StartInv'
    BY <1>5 DEF ListRunner, StartInv, ListedInv, MakingInv, Listed, ResetComes, EndComes, TabTypes, RunRecords
  <2>6. CellsInv'
    BY <1>5 DEF ListRunner, CellsInv, ListedInv, Listed, ResetComes, EndComes, TabTypes, RunRecords, Blank
  <2>7. SlotsInv'
    BY <1>5 DEF ListRunner, SlotsInv, TabTypes, Blank, Value, Reset
  <2>. QED  BY <2>2, <2>3, <2>4, <2>5, <2>6, <2>7 DEF TabInv
<1>6. CASE PressStop
  <2>0. Reset \in TabItems /\ uiPosts' = Append(uiPosts, Reset) /\ Reset.what = "reset"
    BY <1>6 DEF PressStop, TabItems, Reset
  <2>1. uiPosts' \in Seq(TabItems) /\ ResetComes' /\ Len(uiPosts) \in Nat /\ Len(uiPosts') = Len(uiPosts) + 1
        /\ uiPosts'[Len(uiPosts) + 1] = Reset /\ \A i \in 1..Len(uiPosts) : uiPosts'[i] = uiPosts[i]
    BY <2>0, TabPush
  <2>a. /\ runs' \in [RunIds -> RunRecords]
        /\ \A x \in RunIds :
             /\ runs'[x].step = runs[x].step /\ runs'[x].at = runs[x].at
             /\ runs'[x].running => runs[x].running /\ x \notin (IF stepMode THEN stepRunners ELSE adRunners)
             /\ ~runs[x].running => ~runs'[x].running
    <3>1. CASE stepMode
      BY <1>6, <3>1, Silenced DEF PressStop
    <3>2. CASE ~stepMode
      BY <1>6, <3>2, Silenced DEF PressStop
    <3>. QED  BY <3>1, <3>2
  <2>2. TabTypes'
    BY <1>6, <2>0, <2>1, <2>a DEF PressStop, TabTypes
  <2>3. MakingInv'
    BY <1>6, <2>0, <2>1, <2>a DEF PressStop, MakingInv, TabTypes, RunRecords
  <2>4. ListedInv'
    BY <1>6, <2>0, <2>1, <2>a DEF PressStop, ListedInv, MakingInv, Listed, TabTypes, RunRecords
  <2>5. StartInv'
    BY <1>6, <2>0, <2>1, <2>a DEF PressStop, StartInv, ListedInv, MakingInv, Listed, EndComes, TabTypes, RunRecords
  <2>6. CellsInv'
    BY <1>6, <2>0, <2>1, <2>a DEF PressStop, CellsInv, ListedInv, Listed, EndComes, TabTypes, RunRecords, Blank
  <2>7. SlotsInv'
    BY <1>6, <2>0, <2>1, <2>a DEF PressStop, SlotsInv, TabTypes, Blank, Value, Reset
  <2>. QED  BY <2>2, <2>3, <2>4, <2>5, <2>6, <2>7 DEF TabInv
<1>7. CASE RebuildRows
  <2>2. TabTypes'
    BY <1>7 DEF RebuildRows, TabTypes, RunRecords, Blank
  <2>3. MakingInv'
    BY <1>7 DEF RebuildRows, MakingInv, TabTypes, RunRecords
  <2>4. ListedInv'
    BY <1>7 DEF RebuildRows, ListedInv, MakingInv, Listed, TabTypes, RunRecords
  <2>5. StartInv'
    BY <1>7 DEF RebuildRows, StartInv, ListedInv, MakingInv, Listed, ResetComes, EndComes, TabTypes, RunRecords
  <2>6. CellsInv'
    BY <1>7 DEF RebuildRows, CellsInv, ListedInv, Listed, ResetComes, EndComes, TabTypes, RunRecords, Blank
  <2>7. SlotsInv'
    BY <1>7 DEF RebuildRows, SlotsInv, TabTypes, Blank, Value, Reset
  <2>. QED  BY <2>2, <2>3, <2>4, <2>5, <2>6, <2>7 DEF TabInv
<1>. QED  BY <1>1, <1>2, <1>3, <1>4, <1>5, <1>6, <1>7
\* those of the main thread and the Receiver,
LEMMA MainKeepsTab ==
  ASSUME TabInv, StopStepping \/ ApplyTabReset \/ ApplyValue
  PROVE  TabInv'
<1>. TabTypes /\ MakingInv /\ ListedInv /\ StartInv /\ CellsInv /\ SlotsInv
  BY DEF TabInv
<1>1. CASE StopStepping
  <2>a. /\ runs' \in [RunIds -> RunRecords]
        /\ \A x \in RunIds :
             /\ runs'[x].step = runs[x].step /\ runs'[x].at = runs[x].at
             /\ x \in stepRunners => ~runs'[x].running
             /\ x \notin stepRunners => runs'[x].running = runs[x].running
    BY <1>1, Silenced DEF StopStepping
  <2>2. TabTypes'
    BY <1>1, <2>a DEF StopStepping, TabTypes, RunRecords, Blank
  <2>3. MakingInv'
    BY <1>1, <2>a DEF StopStepping, MakingInv, TabTypes, RunRecords
  <2>4. ListedInv'
    BY <1>1, <2>a DEF StopStepping, ListedInv, MakingInv, Listed, TabTypes, RunRecords
  <2>5. StartInv'
    BY <1>1, <2>a DEF StopStepping, StartInv, ListedInv, MakingInv, Listed, ResetComes, EndComes, TabTypes, RunRecords
  <2>6. CellsInv'
    BY <1>1, <2>a DEF StopStepping, CellsInv, ListedInv, Listed, ResetComes, EndComes, TabTypes, RunRecords, Blank
  <2>7. SlotsInv'
    BY <1>1, <2>a DEF StopStepping, SlotsInv, TabTypes, Blank, Value, Reset
  <2>. QED  BY <2>2, <2>3, <2>4, <2>5, <2>6, <2>7 DEF TabInv
<1>2. CASE ApplyTabReset
  <2>1. /\ uiPosts' \in Seq(TabItems) /\ Head(uiPosts) \in TabItems /\ Head(uiPosts) = uiPosts[1]
        /\ Len(uiPosts) \in Nat \ {0} /\ Len(uiPosts') = Len(uiPosts) - 1
        /\ \A i \in 1..Len(uiPosts') : uiPosts'[i] = uiPosts[i + 1]
        /\ ResetComes /\ Head(uiPosts).what # "reset" => ResetComes'
    BY <1>2, TabPop DEF ApplyTabReset
  <2>2. TabTypes'
    BY <1>2, <2>1 DEF ApplyTabReset, TabTypes, RunRecords, Blank
  <2>3. MakingInv'
    BY <1>2, <2>1 DEF ApplyTabReset, MakingInv, TabTypes, RunRecords
  <2>4. ListedInv'
    BY <1>2, <2>1 DEF ApplyTabReset, ListedInv, MakingInv, Listed, TabTypes, RunRecords
  <2>5. StartInv'
    BY <1>2, <2>1 DEF ApplyTabReset, StartInv, ListedInv, MakingInv, Listed, EndComes, TabTypes, RunRecords
  <2>6. CellsInv'
    BY <1>2, <2>1 DEF ApplyTabReset, CellsInv, ListedInv, Listed, EndComes, TabTypes, RunRecords, Blank
  <2>7. SlotsInv'
    BY <1>2, <2>1 DEF ApplyTabReset, SlotsInv, TabTypes, Blank, Value, Reset
  <2>. QED  BY <2>2, <2>3, <2>4, <2>5, <2>6, <2>7 DEF TabInv
<1>3. CASE ApplyValue
  <2>1. /\ uiPosts' \in Seq(TabItems) /\ Head(uiPosts) \in TabItems /\ Head(uiPosts) = uiPosts[1]
        /\ Len(uiPosts) \in Nat \ {0} /\ Len(uiPosts') = Len(uiPosts) - 1
        /\ \A i \in 1..Len(uiPosts') : uiPosts'[i] = uiPosts[i + 1]
        /\ ResetComes /\ Head(uiPosts).what # "reset" => ResetComes'
    BY <1>3, TabPop DEF ApplyValue
  <2>2. TabTypes'
    <3>1. Head(uiPosts) \in [what : {"value"}, run : RunIds, vehicle : Slots, slot : Nat]
      BY <1>3, <2>1 DEF ApplyValue, TabItems
    <3>2. [run |-> Head(uiPosts).run, vehicle |-> Head(uiPosts).vehicle] \in [run : Nat, vehicle : Nat]
      BY <3>1 DEF RunIds, Slots
    <3>3. cells' \in [Slots -> [run : Nat, vehicle : Nat]]
      BY <1>3, <3>2 DEF ApplyValue, TabTypes
    <3>4. overdue' \in BOOLEAN
      BY <1>3, Zenon DEF ApplyValue, TabTypes
    <3>. QED  BY <1>3, <2>1, <3>3, <3>4 DEF ApplyValue, TabTypes
  <2>3. MakingInv'
    BY <1>3, <2>1 DEF ApplyValue, MakingInv, TabTypes, RunRecords
  <2>4. ListedInv'
    BY <1>3, <2>1 DEF ApplyValue, ListedInv, MakingInv, Listed, TabTypes, RunRecords
  <2>5. StartInv'
    BY <1>3, <2>1 DEF ApplyValue, StartInv, ListedInv, MakingInv, Listed, EndComes, TabTypes, RunRecords
  <2>6. CellsInv'
    BY <1>3, <2>1 DEF ApplyValue, CellsInv, ListedInv, Listed, EndComes, TabTypes, RunRecords, Blank
  <2>7. SlotsInv'
    BY <1>3, <2>1 DEF ApplyValue, SlotsInv, TabTypes, Blank, Value, Reset
  <2>. QED  BY <2>2, <2>3, <2>4, <2>5, <2>6, <2>7 DEF TabInv
<1>. QED  BY <1>1, <1>2, <1>3
\* and those of the runners.
LEMMA RunnersKeepTab ==
  ASSUME TabInv, NEW r \in RunIds, AdThreadEnds(r) \/ StepThreadEnds(r) \/ TabOnDone(r) \/ TabOnDoneResets(r) \/ ReportValue(r)
  PROVE  TabInv'
<1>. TabTypes /\ MakingInv /\ ListedInv /\ StartInv /\ CellsInv /\ SlotsInv
  BY DEF TabInv
<1>1. CASE AdThreadEnds(r)
  <2>2. TabTypes'
    BY <1>1 DEF AdThreadEnds, TabTypes, RunRecords, Blank
  <2>3. MakingInv'
    BY <1>1 DEF AdThreadEnds, MakingInv, TabTypes, RunRecords
  <2>4. ListedInv'
    BY <1>1 DEF AdThreadEnds, ListedInv, MakingInv, Listed, TabTypes, RunRecords
  <2>5. StartInv'
    BY <1>1 DEF AdThreadEnds, StartInv, ListedInv, MakingInv, Listed, ResetComes, EndComes, TabTypes, RunRecords
  <2>6. CellsInv'
    BY <1>1 DEF AdThreadEnds, CellsInv, ListedInv, Listed, ResetComes, EndComes, TabTypes, RunRecords, Blank
  <2>7. SlotsInv'
    BY <1>1 DEF AdThreadEnds, SlotsInv, TabTypes, Blank, Value, Reset
  <2>. QED  BY <2>2, <2>3, <2>4, <2>5, <2>6, <2>7 DEF TabInv
<1>2. CASE StepThreadEnds(r)
  <2>2. TabTypes'
    BY <1>2 DEF StepThreadEnds, TabTypes, RunRecords, Blank
  <2>3. MakingInv'
    BY <1>2 DEF StepThreadEnds, MakingInv, TabTypes, RunRecords
  <2>4. ListedInv'
    BY <1>2 DEF StepThreadEnds, ListedInv, MakingInv, Listed, TabTypes, RunRecords
  <2>5. StartInv'
    BY <1>2 DEF StepThreadEnds, StartInv, ListedInv, MakingInv, Listed, ResetComes, EndComes, TabTypes, RunRecords
  <2>6. CellsInv'
    BY <1>2 DEF StepThreadEnds, CellsInv, ListedInv, Listed, ResetComes, EndComes, TabTypes, RunRecords, Blank
  <2>7. SlotsInv'
    BY <1>2 DEF StepThreadEnds, SlotsInv, TabTypes, Blank, Value, Reset
  <2>. QED  BY <2>2, <2>3, <2>4, <2>5, <2>6, <2>7 DEF TabInv
<1>3. CASE TabOnDone(r)
  <2>2. TabTypes'
    BY <1>3 DEF TabOnDone, TabTypes, RunRecords, Blank
  <2>3. MakingInv'
    BY <1>3 DEF TabOnDone, MakingInv, TabTypes, RunRecords
  <2>4. ListedInv'
    BY <1>3 DEF TabOnDone, ListedInv, MakingInv, Listed, TabTypes, RunRecords
  <2>5. StartInv'
    BY <1>3 DEF TabOnDone, StartInv, ListedInv, MakingInv, Listed, ResetComes, EndComes, TabTypes, RunRecords
  <2>6. CellsInv'
    BY <1>3 DEF TabOnDone, CellsInv, ListedInv, Listed, ResetComes, EndComes, TabTypes, RunRecords, Blank
  <2>7. SlotsInv'
    BY <1>3 DEF TabOnDone, SlotsInv, TabTypes, Blank, Value, Reset
  <2>. QED  BY <2>2, <2>3, <2>4, <2>5, <2>6, <2>7 DEF TabInv
<1>4. CASE TabOnDoneResets(r)
  <2>0. Reset \in TabItems /\ uiPosts' = Append(uiPosts, Reset) /\ Reset.what = "reset"
    BY <1>4 DEF TabOnDoneResets, TabItems, Reset
  <2>1. uiPosts' \in Seq(TabItems) /\ ResetComes' /\ Len(uiPosts) \in Nat /\ Len(uiPosts') = Len(uiPosts) + 1
        /\ uiPosts'[Len(uiPosts) + 1] = Reset /\ \A i \in 1..Len(uiPosts) : uiPosts'[i] = uiPosts[i]
    BY <2>0, TabPush
  <2>2. TabTypes'
    BY <1>4, <2>0, <2>1 DEF TabOnDoneResets, TabTypes, RunRecords, Blank
  <2>3. MakingInv'
    BY <1>4, <2>0, <2>1 DEF TabOnDoneResets, MakingInv, TabTypes, RunRecords
  <2>4. ListedInv'
    BY <1>4, <2>0, <2>1 DEF TabOnDoneResets, ListedInv, MakingInv, Listed, TabTypes, RunRecords
  <2>5. StartInv'
    BY <1>4, <2>0, <2>1 DEF TabOnDoneResets, StartInv, ListedInv, MakingInv, Listed, EndComes, TabTypes, RunRecords
  <2>6. CellsInv'
    BY <1>4, <2>0, <2>1 DEF TabOnDoneResets, CellsInv, ListedInv, Listed, EndComes, TabTypes, RunRecords, Blank
  <2>7. SlotsInv'
    BY <1>4, <2>0, <2>1 DEF TabOnDoneResets, SlotsInv, TabTypes, Blank, Value, Reset
  <2>. QED  BY <2>2, <2>3, <2>4, <2>5, <2>6, <2>7 DEF TabInv
<1>5. CASE ReportValue(r)
  <2>0. PICK v \in Slots : slotOf[v] # 0 /\ uiPosts' = Append(uiPosts, Value(r, v, slotOf[v]))
    BY <1>5 DEF ReportValue
  <2>a. Value(r, v, slotOf[v]) \in TabItems
    BY DEF Value, TabItems, TabTypes
  <2>1. uiPosts' \in Seq(TabItems) /\ (ResetComes => ResetComes') /\ Len(uiPosts) \in Nat /\ Len(uiPosts') = Len(uiPosts) + 1
        /\ uiPosts'[Len(uiPosts) + 1] = Value(r, v, slotOf[v]) /\ \A i \in 1..Len(uiPosts) : uiPosts'[i] = uiPosts[i]
    BY <2>0, <2>a, TabPush
  <2>2. TabTypes'
    BY <1>5, <2>0, <2>1 DEF ReportValue, TabTypes, RunRecords, Blank
  <2>3. MakingInv'
    BY <1>5, <2>0, <2>1 DEF ReportValue, MakingInv, TabTypes, RunRecords
  <2>4. ListedInv'
    BY <1>5, <2>0, <2>1 DEF ReportValue, ListedInv, MakingInv, Listed, TabTypes, RunRecords
  <2>5. StartInv'
    BY <1>5, <2>0, <2>1 DEF ReportValue, StartInv, ListedInv, MakingInv, Listed, EndComes, TabTypes, RunRecords
  <2>6. CellsInv'
    BY <1>5, <2>0, <2>1 DEF ReportValue, CellsInv, ListedInv, Listed, EndComes, TabTypes, RunRecords, Blank
  <2>7. SlotsInv'
    BY <1>5, <2>0, <2>1 DEF ReportValue, SlotsInv, TabTypes, Blank, Value, Reset
  <2>. QED  BY <2>2, <2>3, <2>4, <2>5, <2>6, <2>7 DEF TabInv
<1>. QED  BY <1>1, <1>2, <1>3, <1>4, <1>5

\* At rest, Start is offered exactly when no runner is listed, every runner that
\* drives is listed, and the rows show the values of listed runners, each in its
\* own row, as long as nothing met what was meant for another Start.
LEMMA TabShowsRunners == DriveSpec => []DriveTabTrue
<1>1. DriveInit => TabInv
  <2>. SUFFICES ASSUME DriveInit PROVE TabInv
    OBVIOUS
  <2>1. TabTypes
    <3>1. uiPosts \in Seq(TabItems) /\ slotOf \in [Slots -> Nat] /\ cells \in [Slots -> [run : Nat, vehicle : Nat]]
      BY DEF DriveInit, Blank
    <3>2. runs \in [RunIds -> RunRecords]
      BY DEF DriveInit, RunRecords
    <3>. QED  BY <3>1, <3>2 DEF DriveInit, TabTypes
  <2>2. MakingInv
    BY DEF DriveInit, MakingInv
  <2>3. ListedInv /\ StartInv
    BY DEF DriveInit, ListedInv, StartInv, Listed
  <2>4. CellsInv /\ SlotsInv
    BY DEF DriveInit, CellsInv, SlotsInv
  <2>. QED  BY <2>1, <2>2, <2>3, <2>4 DEF TabInv
<1>2. TabInv /\ [DriveNext]_driveVars => TabInv'
  <2>. SUFFICES ASSUME TabInv, [DriveNext]_driveVars PROVE TabInv'
    OBVIOUS
  <2>1. CASE UNCHANGED driveVars
    BY <2>1 DEF driveVars, TabInv, TabTypes, MakingInv, ListedInv, StartInv, CellsInv, SlotsInv,
      Listed, ResetComes, EndComes
  <2>2. CASE DriveNext
    BY <2>2, ClicksKeepTab, MainKeepsTab, RunnersKeepTab DEF DriveNext, DriveClicks, DriveThread
  <2>. QED  BY <2>1, <2>2
<1>3. TabInv => DriveTabTrue
  <2>. SUFFICES ASSUME TabInv, DriveRests PROVE DriveTabTrue
    BY DEF DriveTabTrue
  <2>. TabTypes /\ MakingInv /\ ListedInv /\ StartInv /\ CellsInv /\ SlotsInv
    BY DEF TabInv
  <2>1. clickAt = "idle" /\ making = 0 /\ ~ResetComes /\ ~EndComes
    BY DEF DriveRests, ResetComes, EndComes, MakingInv
  <2>2. ~metAnother => (startOn <=> Listed = {})
    BY <2>1 DEF StartInv, TabTypes
  <2>3. ~metAnother => \A r \in RunIds : runs[r].at = "live" => r \in Listed
    BY <2>1 DEF ListedInv, DriveRests, RunIds
  <2>4. ~metAnother /\ ~overdue => \A i \in Slots : cells[i] # Blank => cells[i].run \in Listed
    BY <2>1 DEF CellsInv
  <2>5. ~gap => \A i \in Slots : cells[i] # Blank => cells[i].vehicle = i
    BY DEF SlotsInv
  <2>. QED  BY <2>2, <2>3, <2>4, <2>5 DEF DriveTabTrue
<1>. QED  BY <1>1, <1>2, <1>3, PTL DEF DriveSpec

-----------------------------------------------------------------------------
(* LaneTab.                                                                *)

LaneShots == [run : LaneRuns, kind : {"raw", "debug"}]
LaneItems == LaneShots \cup {LaneReset}
LaneTabTypes ==
  /\ lcAt \in {"idle", "called", "made", "stopped"} /\ lcOn \in BOOLEAN
  /\ lcRunner \in LaneRuns \cup {0} /\ lcSet \in {0, lcRunner}
  /\ camera \in [LaneRuns -> {"new", "bind", "on", "told"}]
  /\ control \in [LaneRuns -> {"new", "on", "told", "off"}]
  /\ posting \subseteq LaneShots /\ lcPosts \in Seq(LaneItems) /\ picture \in LaneShots \cup {NoPicture}
  /\ sliders \in [Knobs -> KnobValues] /\ tunedTo \in [Knobs -> KnobValues] /\ heeded \subseteq Knobs
  /\ tabEvents \in Nat

LaneResetComes == \E n \in 1..Len(lcPosts) : lcPosts[n] = LaneReset

\* Start is offered to no runner unless a reset overtook it; without a runner it is
\* offered or a reset will offer it, and a reset comes if the picture is an old one.
LaneButtonInv ==
  /\ lcAt = "made" => lcRunner # 0 /\ tunedTo = CodeDefault /\ heeded = {}
  /\ lcAt = "stopped" => lcRunner = 0
  /\ lcOn => outrun \/ (lcRunner = 0 /\ lcAt \in {"idle", "stopped"})
  /\ lcRunner = 0 /\ lcAt = "idle" => lcOn \/ LaneResetComes
  /\ picture.run \in {0, lcRunner} \cup lateRuns \/ lcAt = "stopped" \/ LaneResetComes

\* While a posted debug frame holds the raw ones back, another frame or a reset
\* comes after every raw one that is shown or waits.
HushInv ==
  hushed /\ ~slipped /\ (\A s \in posting : s.kind # "debug") =>
    /\ picture.kind = "raw" => \E m \in 1..Len(lcPosts) : lcPosts[m].kind # "raw"
    /\ \A n \in 1..Len(lcPosts) :
         lcPosts[n].kind = "raw" => \E m \in n + 1..Len(lcPosts) : lcPosts[m].kind # "raw"

ThreadsInv ==
  /\ StopReaches
  /\ \A r \in LaneRuns : r # lcRunner /\ camera[r] = "bind" => r \in cameraEarly

LaneTabInv == LaneTabTypes /\ LaneButtonInv /\ HushInv /\ ThreadsInv /\ TuningTrue

\* A post that is added comes last.
LEMMA LanePush ==
  ASSUME NEW q \in Seq(LaneItems), NEW x \in LaneItems
  PROVE  /\ Append(q, x) \in Seq(LaneItems) /\ Len(Append(q, x)) = Len(q) + 1 /\ Len(q) \in Nat
         /\ \A n \in 1..Len(q) : Append(q, x)[n] = q[n]
         /\ Append(q, x)[Len(q) + 1] = x
  OBVIOUS

\* The first post goes, and the others move up.
LEMMA LanePop ==
  ASSUME NEW q \in Seq(LaneItems), q # << >>
  PROVE  /\ Tail(q) \in Seq(LaneItems) /\ Len(q) \in Nat \ {0} /\ Len(Tail(q)) = Len(q) - 1
         /\ \A n \in 1..Len(q) - 1 : Tail(q)[n] = q[n + 1]
         /\ Head(q) = q[1] /\ Head(q) \in LaneItems
  OBVIOUS

\* A reset that is posted comes.
LEMMA ResetPosted ==
  ASSUME LaneTabInv, lcPosts' = Append(lcPosts, LaneReset)
  PROVE  /\ lcPosts' \in Seq(LaneItems) /\ LaneResetComes'
         /\ (\A n \in 1..Len(lcPosts') : lcPosts'[n].kind = "raw" => \E m \in n + 1..Len(lcPosts') : lcPosts'[m].kind # "raw")
         /\ \E m \in 1..Len(lcPosts') : lcPosts'[m].kind # "raw"
<1>1. lcPosts \in Seq(LaneItems) /\ LaneReset \in LaneItems /\ LaneReset.kind = "reset"
  BY DEF LaneTabInv, LaneTabTypes, LaneItems, LaneReset
<1>2. /\ lcPosts' \in Seq(LaneItems) /\ Len(lcPosts') = Len(lcPosts) + 1 /\ Len(lcPosts) \in Nat
      /\ lcPosts'[Len(lcPosts) + 1] = LaneReset
  BY <1>1, LanePush
<1>3. Len(lcPosts) + 1 \in 1..Len(lcPosts')
  BY <1>2
<1>4. \A n \in 1..Len(lcPosts') : n = Len(lcPosts) + 1 \/ Len(lcPosts) + 1 \in n + 1..Len(lcPosts')
  BY <1>2
<1>5. lcPosts'[Len(lcPosts) + 1].kind = "reset"
  BY <1>1, <1>2
<1>. QED
  BY <1>2, <1>3, <1>4, <1>5 DEF LaneResetComes

\* The clicks on Start, Stop and the sliders keep the invariant.
LEMMA LaneClicksKeep ==
  ASSUME LaneTabInv, LaneClicks
  PROVE  LaneTabInv'
<1>. USE LaneTabAssumption DEF LaneTabInv
<1>1. CASE ClickLaneStart
  BY <1>1 DEF ClickLaneStart, LaneTabTypes, LaneButtonInv, LaneResetComes, HushInv, ThreadsInv, StopReaches, TuningTrue,
              runnerVars, shownVars, knobVars, pastVars
<1>2. CASE LaneRunsAlready
  BY <1>2 DEF LaneRunsAlready, LaneTabTypes, LaneButtonInv, LaneResetComes, HushInv, ThreadsInv, StopReaches, TuningTrue,
              runnerVars, shownVars, knobVars, pastVars
<1>3. CASE LaneStartFails
  <2>1. lcPosts' = Append(lcPosts, LaneReset)
    BY <1>3 DEF LaneStartFails
  <2>2. LaneTabTypes' /\ LaneButtonInv'
    BY <1>3, <2>1, ResetPosted DEF LaneStartFails, LaneTabTypes, LaneButtonInv, runnerVars, shownVars, knobVars, pastVars
  <2>3. HushInv'
    BY <2>1, ResetPosted DEF HushInv
  <2>. QED
    BY <1>3, <2>2, <2>3 DEF LaneStartFails, ThreadsInv, StopReaches, TuningTrue, runnerVars, knobVars, pastVars
<1>4. CASE MakeLaneRunner
  <2>1. PICK r \in LaneRuns : /\ camera[r] = "new" /\ lcRunner' = r /\ linked' \in {linked, linked \cup {r}}
                              /\ camera' = [camera EXCEPT ![r] = "bind"] /\ control' = [control EXCEPT ![r] = "on"]
    BY <1>4 DEF MakeLaneRunner
  <2>2. lcRunner = 0 /\ lcAt = "called" /\ lcAt' = "made" /\ tunedTo' = CodeDefault /\ heeded' = {} /\ lcSet = 0
    BY <1>4 DEF MakeLaneRunner, LaneTabTypes
  <2>3. UNCHANGED <<lcSet, lcOn, posting, lcPosts, picture, hushed, sliders, outrun, lateRuns, cameraEarly, slipped>>
    BY <1>4 DEF MakeLaneRunner, shownVars, pastVars
  <2>4. tabEvents' \in Nat /\ 0 \notin LaneRuns
    BY <1>4 DEF MakeLaneRunner, Happens, LaneTabTypes, LaneRuns
  <2>5. LaneTabTypes'
    BY <2>1, <2>2, <2>3, <2>4 DEF LaneTabTypes
  <2>6. LaneButtonInv'
    BY <2>1, <2>2, <2>3, <2>4 DEF LaneButtonInv, LaneResetComes
  <2>7. HushInv'
    BY <2>3 DEF HushInv
  <2>8. ThreadsInv'
    BY <2>1, <2>2, <2>3, <2>4 DEF ThreadsInv, StopReaches, LaneTabTypes
  <2>9. TuningTrue'
    BY <2>2, <2>3 DEF TuningTrue
  <2>. QED  BY <2>5, <2>6, <2>7, <2>8, <2>9
<1>5. CASE SetRunner
  <2>1. TuningTrue'
    BY <1>5 DEF SetRunner, TuningTrue, LaneButtonInv, knobVars
  <2>. QED
    BY <1>5, <2>1 DEF SetRunner, LaneTabTypes, LaneButtonInv, LaneResetComes, HushInv, ThreadsInv, StopReaches,
                      runnerVars, shownVars, knobVars, pastVars
<1>6. CASE ClickLaneStop
  <2>1. UNCHANGED <<lcOn, linked, posting, lcPosts, picture, hushed, sliders, tunedTo, heeded, outrun, lateRuns, slipped, tabEvents>>
    BY <1>6 DEF ClickLaneStop, shownVars, knobVars
  <2>2. lcSet' = 0 /\ lcAt = "idle" /\ cameraEarly' = cameraEarly \cup {r \in LaneRuns : r = lcRunner /\ camera[r] = "bind"}
    BY <1>6 DEF ClickLaneStop
  <2>3. \/ lcRunner' = 0 /\ lcAt' = "stopped"
        \/ lcRunner \notin linked \cup {0} /\ lcRunner' = lcRunner /\ lcAt' = "idle"
    BY <1>6 DEF ClickLaneStop
  <2>4. control' = Told(control) /\ camera' = Told(camera)
    BY <1>6 DEF ClickLaneStop
  <2>5. \A r \in LaneRuns : /\ camera'[r] = (IF r = lcRunner /\ camera[r] = "on" THEN "told" ELSE camera[r])
                            /\ control'[r] = (IF r = lcRunner /\ control[r] = "on" THEN "told" ELSE control[r])
    BY <2>4 DEF Told
  <2>6. camera' \in [LaneRuns -> {"new", "bind", "on", "told"}] /\ control' \in [LaneRuns -> {"new", "on", "told", "off"}]
    BY <2>4 DEF Told, LaneTabTypes
  <2>7. LaneTabTypes'
    BY <2>1, <2>2, <2>3, <2>6 DEF LaneTabTypes
  <2>8. LaneButtonInv'
    BY <2>1, <2>2, <2>3 DEF LaneButtonInv, LaneResetComes
  <2>9. HushInv' /\ TuningTrue'
    BY <2>1, <2>2 DEF HushInv, TuningTrue
  <2>10. ThreadsInv'
    BY <2>1, <2>2, <2>3, <2>5 DEF ThreadsInv, StopReaches, LaneTabTypes, LaneRuns
  <2>. QED  BY <2>7, <2>8, <2>9, <2>10
<1>7. CASE PostLaneReset
  <2>1. lcPosts' = Append(lcPosts, LaneReset)
    BY <1>7 DEF PostLaneReset
  <2>2. LaneTabTypes' /\ LaneButtonInv'
    BY <1>7, <2>1, ResetPosted DEF PostLaneReset, LaneTabTypes, LaneButtonInv, runnerVars, shownVars, knobVars, pastVars
  <2>3. HushInv'
    BY <2>1, ResetPosted DEF HushInv
  <2>. QED
    BY <1>7, <2>2, <2>3 DEF PostLaneReset, ThreadsInv, StopReaches, TuningTrue, runnerVars, knobVars, pastVars
<1>8. ASSUME NEW values \in [Knobs -> KnobValues], NEW moved \in SUBSET Knobs, Tune(values, moved)
      PROVE  LaneTabInv'
  <2>1. UNCHANGED <<lcAt, lcRunner, lcSet, lcOn, camera, control, linked, posting, lcPosts, picture, hushed,
                    outrun, lateRuns, cameraEarly, slipped>>
    BY <1>8 DEF Tune, runnerVars, shownVars, pastVars
  <2>2. lcAt = "idle" /\ tabEvents' \in Nat
    BY <1>8 DEF Tune, Happens, LaneTabTypes
  <2>3. \A k \in Knobs : sliders'[k] = IF k \in moved THEN values[k] ELSE sliders[k]
    BY <1>8 DEF Tune
  <2>4. sliders' \in [Knobs -> KnobValues]
    BY <1>8 DEF Tune, LaneTabTypes
  <2>5. CASE lcSet # 0
    <3>1. heeded' = heeded \cup moved /\ \A k \in Knobs : tunedTo'[k] = IF k \in moved THEN values[k] ELSE tunedTo[k]
      BY <1>8, <2>5 DEF Tune
    <3>2. tunedTo' \in [Knobs -> KnobValues]
      BY <1>8, <2>5 DEF Tune, LaneTabTypes
    <3>3. TuningTrue'
      BY <2>1, <2>3, <2>5, <3>1 DEF TuningTrue
    <3>. QED
      BY <2>1, <2>2, <2>4, <3>1, <3>2, <3>3 DEF LaneTabTypes, LaneButtonInv, LaneResetComes, HushInv, ThreadsInv, StopReaches
  <2>6. CASE lcSet = 0
    <3>1. UNCHANGED <<tunedTo, heeded>>
      BY <1>8, <2>6 DEF Tune
    <3>. QED
      BY <2>1, <2>2, <2>4, <2>6, <3>1
      DEF LaneTabTypes, LaneButtonInv, LaneResetComes, HushInv, ThreadsInv, StopReaches, TuningTrue
  <2>. QED  BY <2>5, <2>6
<1>9. CASE ResetTuning
  BY <1>9, <1>8 DEF ResetTuning
<1>10. CASE MoveSlider
  BY <1>10, <1>8 DEF MoveSlider
<1>. QED
  BY <1>1, <1>2, <1>3, <1>4, <1>5, <1>6, <1>7, <1>9, <1>10 DEF LaneClicks

\* The threads of the runners keep the invariant.
LEMMA LaneThreadsKeep ==
  ASSUME LaneTabInv, NEW r \in LaneRuns, LaneThreads(r)
  PROVE  LaneTabInv'
<1>. USE DEF LaneTabInv
<1>1. CASE CamListens(r)
  <2>1. ThreadsInv'
    BY <1>1 DEF CamListens, ThreadsInv, StopReaches, LaneTabTypes, pastVars
  <2>. QED
    BY <1>1, <2>1 DEF CamListens, LaneTabTypes, LaneButtonInv, LaneResetComes, HushInv, TuningTrue,
                      shownVars, knobVars, pastVars
<1>2. CASE RawPasses(r)
  <2>1. Shot(r, "raw") \in LaneShots /\ tabEvents' \in Nat
    BY <1>2 DEF RawPasses, Shot, LaneShots, Happens, LaneTabTypes
  <2>2. HushInv'
    BY <1>2 DEF RawPasses, HushInv
  <2>. QED
    BY <1>2, <2>1, <2>2 DEF RawPasses, LaneTabTypes, LaneButtonInv, LaneResetComes, ThreadsInv, StopReaches, TuningTrue,
                            runnerVars, knobVars, pastVars
<1>3. CASE DebugPasses(r)
  <2>1. Shot(r, "debug") \in LaneShots /\ tabEvents' \in Nat /\ Shot(r, "debug").kind = "debug"
    BY <1>3 DEF DebugPasses, Shot, LaneShots, Happens, LaneTabTypes
  <2>2. HushInv'
    BY <1>3, <2>1 DEF DebugPasses, HushInv
  <2>3. \A q \in LaneRuns : control'[q] = "on" => control[q] = "on"
    BY <1>3 DEF DebugPasses, LaneTabTypes
  <2>4. ThreadsInv'
    BY <1>3, <2>3 DEF DebugPasses, ThreadsInv, StopReaches, pastVars
  <2>5. control' \in [LaneRuns -> {"new", "on", "told", "off"}]
    BY <1>3 DEF DebugPasses, LaneTabTypes
  <2>6. LaneTabTypes'
    BY <1>3, <2>1, <2>5 DEF DebugPasses, LaneTabTypes, knobVars
  <2>. QED
    BY <1>3, <2>2, <2>4, <2>6 DEF DebugPasses, LaneButtonInv, LaneResetComes, TuningTrue, knobVars, pastVars
<1>. QED
  BY <1>1, <1>2, <1>3 DEF LaneThreads

\* A frame that is posted comes last.
LEMMA ShotPosted ==
  ASSUME LaneTabInv, NEW s \in posting, PostShot(s)
  PROVE  LaneTabInv'
<1>. USE DEF LaneTabInv
<1>1. s \in LaneItems /\ s \in LaneShots /\ s.kind \in {"raw", "debug"}
  BY DEF LaneTabTypes, LaneItems, LaneShots
<1>2. lcPosts' = Append(lcPosts, s) /\ posting' = posting \ {s} /\ lcPosts \in Seq(LaneItems)
  BY DEF PostShot, LaneTabTypes
<1>3. /\ lcPosts' \in Seq(LaneItems) /\ Len(lcPosts') = Len(lcPosts) + 1 /\ Len(lcPosts) \in Nat
      /\ \A n \in 1..Len(lcPosts) : lcPosts'[n] = lcPosts[n]
      /\ lcPosts'[Len(lcPosts) + 1] = s
  BY <1>1, <1>2, LanePush
<1>4. LaneResetComes => LaneResetComes'
  BY <1>3 DEF LaneResetComes
<1>5. HushInv'
  <2>1. CASE s.kind = "raw"
    <3>1. ~(hushed /\ ~slipped)'
      BY <2>1 DEF PostShot
    <3>. QED  BY <3>1 DEF HushInv
  <2>2. CASE s.kind = "debug"
    <3>1. Len(lcPosts) + 1 \in 1..Len(lcPosts') /\ lcPosts'[Len(lcPosts) + 1].kind # "raw"
      BY <1>3, <2>2
    <3>2. \A n \in 1..Len(lcPosts') : n = Len(lcPosts) + 1 \/ Len(lcPosts) + 1 \in n + 1..Len(lcPosts')
      BY <1>3
    <3>. QED  BY <3>1, <3>2 DEF HushInv
  <2>. QED  BY <1>1, <2>1, <2>2
<1>6. LaneTabTypes'
  BY <1>2, <1>3 DEF PostShot, LaneTabTypes, runnerVars, knobVars
<1>7. LaneButtonInv'
  BY <1>4 DEF PostShot, LaneButtonInv, knobVars
<1>. QED
  BY <1>5, <1>6, <1>7 DEF PostShot, ThreadsInv, StopReaches, TuningTrue, runnerVars, knobVars

\* The main thread keeps the invariant.
LEMMA LaneMainKeeps ==
  ASSUME LaneTabInv, ApplyLaneReset \/ ApplyShot \/ HushEnds
  PROVE  LaneTabInv'
<1>. USE DEF LaneTabInv
<1>1. CASE HushEnds
  BY <1>1 DEF HushEnds, LaneTabTypes, LaneButtonInv, LaneResetComes, HushInv, ThreadsInv, StopReaches, TuningTrue,
              runnerVars, knobVars, pastVars
<1>2. ASSUME lcPosts # << >>, lcPosts' = Tail(lcPosts)
      PROVE  /\ lcPosts' \in Seq(LaneItems) /\ Len(lcPosts) \in Nat \ {0} /\ Len(lcPosts') = Len(lcPosts) - 1
             /\ \A n \in 1..Len(lcPosts) - 1 : lcPosts'[n] = lcPosts[n + 1]
             /\ Head(lcPosts) = lcPosts[1] /\ Head(lcPosts) \in LaneItems
  <2>1. lcPosts \in Seq(LaneItems)
    BY DEF LaneTabTypes
  <2>. QED  BY <1>2, <2>1, LanePop
\* What follows a waiting raw frame follows it still.
<1>3. ASSUME lcPosts # << >>, lcPosts' = Tail(lcPosts), NEW n \in 1..Len(lcPosts),
             \E m \in n + 1..Len(lcPosts) : lcPosts[m].kind # "raw"
      PROVE  \E m \in n..Len(lcPosts') : lcPosts'[m].kind # "raw"
  <2>1. PICK m \in n + 1..Len(lcPosts) : lcPosts[m].kind # "raw"
    BY <1>3
  <2>2. m - 1 \in n..Len(lcPosts') /\ m - 1 \in 1..Len(lcPosts) - 1 /\ (m - 1) + 1 = m
    BY <1>2, <1>3
  <2>. QED  BY <1>2, <1>3, <2>1, <2>2
<1>4. ASSUME lcPosts # << >>, lcPosts' = Tail(lcPosts),
             \A n \in 1..Len(lcPosts) : lcPosts[n].kind = "raw" => \E m \in n + 1..Len(lcPosts) : lcPosts[m].kind # "raw"
      PROVE  /\ \A n \in 1..Len(lcPosts') : lcPosts'[n].kind = "raw" => \E m \in n + 1..Len(lcPosts') : lcPosts'[m].kind # "raw"
             /\ Head(lcPosts).kind = "raw" => \E m \in 1..Len(lcPosts') : lcPosts'[m].kind # "raw"
  <2>1. ASSUME NEW n \in 1..Len(lcPosts'), lcPosts'[n].kind = "raw"
        PROVE  \E m \in n + 1..Len(lcPosts') : lcPosts'[m].kind # "raw"
    <3>1. n \in 1..Len(lcPosts) - 1 /\ n + 1 \in 1..Len(lcPosts)
      BY <1>2, <1>4
    <3>2. lcPosts[n + 1].kind = "raw"
      BY <1>2, <1>4, <2>1, <3>1
    <3>. QED  BY <1>3, <1>4, <3>1, <3>2
  <2>2. ASSUME Head(lcPosts).kind = "raw"
        PROVE  \E m \in 1..Len(lcPosts') : lcPosts'[m].kind # "raw"
    <3>1. 1 \in 1..Len(lcPosts) /\ lcPosts[1].kind = "raw"
      BY <1>2, <1>4, <2>2
    <3>. QED  BY <1>3, <1>4, <3>1
  <2>. QED  BY <2>1, <2>2
<1>5. CASE ApplyLaneReset
  <2>1. lcPosts # << >> /\ lcPosts' = Tail(lcPosts) /\ picture' = NoPicture /\ lcOn' = TRUE
    BY <1>5 DEF ApplyLaneReset
  <2>2. UNCHANGED <<lcAt, lcRunner, lcSet, camera, control, linked, posting, hushed, sliders, tunedTo, heeded, lateRuns, cameraEarly,
                    slipped, tabEvents>>
    BY <1>5 DEF ApplyLaneReset, runnerVars, knobVars, pastVars
  <2>3. LaneTabTypes'
    BY <1>2, <2>1, <2>2 DEF LaneTabTypes
  <2>4. outrun' = (lcRunner # 0 \/ lcAt \in {"called", "made"})
    BY <1>5 DEF ApplyLaneReset
  <2>5. LaneButtonInv'
    BY <2>1, <2>2, <2>4 DEF LaneButtonInv, LaneTabTypes, NoPicture
  <2>6. HushInv'
    BY <1>4, <2>1, <2>2 DEF HushInv, NoPicture
  <2>. QED
    BY <2>2, <2>3, <2>5, <2>6 DEF ThreadsInv, StopReaches, TuningTrue
<1>6. CASE ApplyShot
  <2>1. lcPosts # << >> /\ lcPosts' = Tail(lcPosts) /\ picture' = Head(lcPosts) /\ Head(lcPosts) # LaneReset
    BY <1>6 DEF ApplyShot
  <2>2. UNCHANGED <<lcAt, lcRunner, lcSet, lcOn, camera, control, linked, posting, hushed, sliders, tunedTo, heeded, cameraEarly,
                    outrun, slipped, tabEvents>>
    BY <1>6 DEF ApplyShot, runnerVars, knobVars
  <2>3. picture' \in LaneShots /\ lateRuns' = lateRuns \cup ({picture'.run} \ {lcRunner})
    BY <1>2, <1>6, <2>1 DEF LaneItems, ApplyShot
  <2>4. LaneTabTypes'
    BY <1>2, <2>1, <2>2, <2>3 DEF LaneTabTypes
  <2>5. LaneResetComes => LaneResetComes'
    <3>1. ASSUME NEW n \in 1..Len(lcPosts), lcPosts[n] = LaneReset PROVE LaneResetComes'
      <4>1. n # 1 /\ Len(lcPosts) \in Nat
        BY <1>2, <2>1, <3>1
      <4>2. n - 1 \in 1..Len(lcPosts) - 1 /\ n - 1 \in 1..Len(lcPosts') /\ (n - 1) + 1 = n
        BY <1>2, <2>1, <4>1
      <4>. QED  BY <1>2, <2>1, <3>1, <4>2 DEF LaneResetComes
    <3>. QED  BY <3>1 DEF LaneResetComes
  <2>6. LaneButtonInv'
    BY <2>2, <2>3, <2>5 DEF LaneButtonInv
  <2>7. HushInv'
    BY <1>4, <2>1, <2>2 DEF HushInv
  <2>. QED
    BY <2>2, <2>4, <2>6, <2>7 DEF ThreadsInv, StopReaches, TuningTrue
<1>. QED
  BY <1>1, <1>5, <1>6

\* The Lane Control tab shows what runs, stops what it started and tunes what it
\* shows (_on_start, start_lc, stop_lc, reset_ui, update_debug_frame, update_params).
LEMMA LaneTabShows == LaneTabSpec => []LaneTabTrue
<1>1. LaneTabInit => LaneTabInv
  <2>. SUFFICES ASSUME LaneTabInit PROVE LaneTabInv
    OBVIOUS
  <2>1. LaneTabTypes
    BY LaneTabAssumption DEF LaneTabInit, LaneTabTypes
  <2>2. 0 \notin LaneRuns
    BY DEF LaneRuns
  <2>. QED
    BY <2>1, <2>2 DEF LaneTabInit, LaneTabInv, LaneButtonInv, HushInv, ThreadsInv, StopReaches, TuningTrue, NoPicture
<1>2. LaneTabInv /\ [LaneTabNext]_lcVars => LaneTabInv'
  <2>. SUFFICES ASSUME LaneTabInv, [LaneTabNext]_lcVars PROVE LaneTabInv'
    OBVIOUS
  <2>1. CASE UNCHANGED lcVars
    BY <2>1 DEF lcVars, runnerVars, knobVars, shownVars, pastVars, LaneTabInv, LaneTabTypes, LaneButtonInv, LaneResetComes,
                HushInv, ThreadsInv, StopReaches, TuningTrue
  <2>2. CASE LaneTabNext
    BY <2>2, LaneClicksKeep, LaneThreadsKeep, ShotPosted, LaneMainKeeps DEF LaneTabNext
  <2>. QED  BY <2>1, <2>2
<1>3. LaneTabInv => LaneTabTrue
  <2>. SUFFICES ASSUME LaneTabInv PROVE LaneTabTrue
    OBVIOUS
  <2>1. LaneTabRests => ~LaneResetComes /\ lcAt = "idle"
    BY DEF LaneTabRests, LaneResetComes
  <2>2. ButtonTrue
    BY <2>1 DEF ButtonTrue, LaneTabRests, LaneTabInv, LaneButtonInv
  <2>3. LaneTabRests => 1..Len(lcPosts) = {}
    BY DEF LaneTabRests
  <2>4. PictureTrue
    BY <2>1, <2>3 DEF PictureTrue, LaneTabInv, LaneButtonInv, HushInv
  <2>. QED
    BY <2>2, <2>4 DEF LaneTabTrue, LaneTabInv, ThreadsInv
<1>. QED  BY <1>1, <1>2, <1>3, PTL DEF LaneTabSpec

\* Both tabs that drive show what drives, and stop what they started.
THEOREM TabsShowRunners == DriveSpec /\ LaneTabSpec => []DriveTabsTrue
<1>1. DriveTabTrue /\ LaneTabTrue => DriveTabsTrue
  BY DEF DriveTabsTrue
<1>. QED  BY <1>1, TabShowsRunners, LaneTabShows, PTL

-----------------------------------------------------------------------------
(* ScenarioClock.                                                          *)

\* Every step of the panel's threads keeps the types.
LEMMA TypeStep ==
  ASSUME ClockTypeOK, RxHolds, [ClockNext]_clockVars
  PROVE  ClockTypeOK'
<1>. USE ClockAssumption DEF ClockTypeOK, RxHolds, Events, RxPlaces,
                             clock, timers, RxAt, RxGo, RxMoves, RxSets,
                             TimerMoves, Cancelled
<1>1. CASE ClickStop
  BY <1>1 DEF ClickStop
<1>2. CASE StopElapsed
  BY <1>2 DEF StopElapsed
<1>3. CASE StopClock
  BY <1>3 DEF StopClock
<1>4. CASE RxCancel
  BY <1>4 DEF RxCancel
<1>5. CASE RxElapse
  BY <1>5 DEF RxElapse
<1>6. CASE RxEvent
  BY <1>6 DEF RxEvent
<1>7. CASE RxClock
  BY <1>7 DEF RxClock
<1>8. CASE RxCount
  BY <1>8 DEF RxCount
<1>9. CASE RxStart
  BY <1>9 DEF RxStart
<1>10. CASE StatusPlay
  BY <1>10 DEF StatusPlay
<1>11. CASE StatusPause
  BY <1>11 DEF StatusPause
<1>12. CASE StatusEnd
  BY <1>12 DEF StatusEnd
<1>13. CASE EndTimer
  BY <1>13 DEF EndTimer
<1>14. CASE EndElapsed
  BY <1>14 DEF EndElapsed
<1>15. CASE EndClock
  BY <1>15 DEF EndClock
<1>16. CASE CounterEnds
  BY <1>16 DEF CounterEnds
<1>17. ASSUME NEW p \in Plays, ClickPlay(p) PROVE ClockTypeOK'
  BY <1>17 DEF ClickPlay
<1>18. ASSUME NEW p \in Plays, NEW ok \in BOOLEAN, RxPlay(p, ok) PROVE ClockTypeOK'
  BY <1>18 DEF RxPlay
<1>19. ASSUME NEW enabled \in BOOLEAN, RxTimer(enabled) PROVE ClockTypeOK'
  BY <1>19 DEF RxTimer
<1>20. ASSUME NEW p \in Plays, TimerWaited(p) PROVE ClockTypeOK'
  BY <1>20 DEF TimerWaited
<1>21. ASSUME NEW p \in Plays, TimerCheck(p) PROVE ClockTypeOK'
  BY <1>21 DEF TimerCheck
<1>22. ASSUME NEW p \in Plays, TimerFires(p) PROVE ClockTypeOK'
  BY <1>22 DEF TimerFires
<1>23. CASE StatusCheck
  BY <1>23 DEF StatusCheck
<1>24. CASE UNCHANGED clockVars
  BY <1>24 DEF clockVars
<1>. QED
  BY <1>1, <1>2, <1>3, <1>4, <1>5, <1>6, <1>7, <1>8, <1>9, <1>10, <1>11, <1>12, <1>13,
     <1>14, <1>15, <1>16, <1>17, <1>18, <1>19, <1>20, <1>21, <1>22, <1>23, <1>24
  DEF ClockNext, UiStep, RxStep, TimerStep

\* Every step keeps an uncancelled timer current (_start_sc_timer).
LEMMA TimerKept ==
  ASSUME ClockIInv, [ClockNext]_clockVars
  PROVE  OneArmedTimer'
<1>. USE ClockAssumption DEF ClockIInv, ClockTypeOK, OneArmedTimer, Armed, Events,
                             RxHolds, Answering, clock, timers, RxAt, RxGo, RxMoves, RxSets,
                             TimerMoves, Cancelled
<1>1. CASE ClickStop
  BY <1>1 DEF ClickStop
<1>2. CASE StopElapsed
  BY <1>2 DEF StopElapsed
<1>3. CASE StopClock
  BY <1>3 DEF StopClock
<1>4. CASE RxCancel
  BY <1>4 DEF RxCancel
<1>5. CASE RxElapse
  BY <1>5 DEF RxElapse
<1>6. CASE RxEvent
  BY <1>6 DEF RxEvent
<1>7. CASE RxClock
  BY <1>7 DEF RxClock
<1>8. CASE RxCount
  BY <1>8 DEF RxCount
<1>9. CASE RxStart
  BY <1>9 DEF RxStart
<1>10. CASE StatusPlay
  BY <1>10 DEF StatusPlay
<1>11. CASE StatusPause
  BY <1>11 DEF StatusPause
<1>12. CASE StatusEnd
  BY <1>12 DEF StatusEnd
<1>13. CASE EndTimer
  BY <1>13 DEF EndTimer
<1>14. CASE EndElapsed
  BY <1>14 DEF EndElapsed
<1>15. CASE EndClock
  BY <1>15 DEF EndClock
<1>16. CASE CounterEnds
  BY <1>16 DEF CounterEnds
<1>17. ASSUME NEW p \in Plays, ClickPlay(p) PROVE OneArmedTimer'
  BY <1>17 DEF ClickPlay
<1>18. ASSUME NEW p \in Plays, NEW ok \in BOOLEAN, RxPlay(p, ok) PROVE OneArmedTimer'
  BY <1>18 DEF RxPlay
<1>19. ASSUME NEW enabled \in BOOLEAN, RxTimer(enabled) PROVE OneArmedTimer'
  BY <1>19 DEF RxTimer
<1>20. ASSUME NEW p \in Plays, TimerWaited(p) PROVE OneArmedTimer'
  BY <1>20 DEF TimerWaited
<1>21. ASSUME NEW p \in Plays, TimerCheck(p) PROVE OneArmedTimer'
  BY <1>21 DEF TimerCheck
<1>22. ASSUME NEW p \in Plays, TimerFires(p) PROVE OneArmedTimer'
  BY <1>22 DEF TimerFires
<1>23. CASE StatusCheck
  BY <1>23 DEF StatusCheck
<1>24. CASE UNCHANGED clockVars
  BY <1>24 DEF clockVars
<1>. QED
  BY <1>1, <1>2, <1>3, <1>4, <1>5, <1>6, <1>7, <1>8, <1>9, <1>10, <1>11, <1>12, <1>13,
     <1>14, <1>15, <1>16, <1>17, <1>18, <1>19, <1>20, <1>21, <1>22, <1>23, <1>24
  DEF ClockNext, UiStep, RxStep, TimerStep

\* Every step keeps a going counter current (_start_elapsed_counter).
LEMMA CounterKept ==
  ASSUME ClockIInv, [ClockNext]_clockVars
  PROVE  CounterReachable'
<1>. USE ClockAssumption DEF ClockIInv, ClockTypeOK, CounterReachable, Events, RxHolds, ElapsedSet,
                             clock, timers, RxAt, RxGo, RxMoves, RxSets,
                             TimerMoves, Cancelled
<1>1. CASE ClickStop
  BY <1>1 DEF ClickStop
<1>2. CASE StopElapsed
  BY <1>2 DEF StopElapsed
<1>3. CASE StopClock
  BY <1>3 DEF StopClock
<1>4. CASE RxCancel
  BY <1>4 DEF RxCancel
<1>5. CASE RxElapse
  BY <1>5 DEF RxElapse
<1>6. CASE RxEvent
  BY <1>6 DEF RxEvent
<1>7. CASE RxClock
  BY <1>7 DEF RxClock
<1>8. CASE RxCount
  BY <1>8 DEF RxCount
<1>9. CASE RxStart
  BY <1>9 DEF RxStart
<1>10. CASE StatusPlay
  BY <1>10 DEF StatusPlay
<1>11. CASE StatusPause
  BY <1>11 DEF StatusPause
<1>12. CASE StatusEnd
  BY <1>12 DEF StatusEnd
<1>13. CASE EndTimer
  BY <1>13 DEF EndTimer
<1>14. CASE EndElapsed
  BY <1>14 DEF EndElapsed
<1>15. CASE EndClock
  BY <1>15 DEF EndClock
<1>16. CASE CounterEnds
  BY <1>16 DEF CounterEnds
<1>17. ASSUME NEW p \in Plays, ClickPlay(p) PROVE CounterReachable'
  BY <1>17 DEF ClickPlay
<1>18. ASSUME NEW p \in Plays, NEW ok \in BOOLEAN, RxPlay(p, ok) PROVE CounterReachable'
  BY <1>18 DEF RxPlay
<1>19. ASSUME NEW enabled \in BOOLEAN, RxTimer(enabled) PROVE CounterReachable'
  BY <1>19 DEF RxTimer
<1>20. ASSUME NEW p \in Plays, TimerWaited(p) PROVE CounterReachable'
  BY <1>20 DEF TimerWaited
<1>21. ASSUME NEW p \in Plays, TimerCheck(p) PROVE CounterReachable'
  BY <1>21 DEF TimerCheck
<1>22. ASSUME NEW p \in Plays, TimerFires(p) PROVE CounterReachable'
  BY <1>22 DEF TimerFires
<1>23. CASE StatusCheck
  BY <1>23 DEF StatusCheck
<1>24. CASE UNCHANGED clockVars
  BY <1>24 DEF clockVars
<1>. QED
  BY <1>1, <1>2, <1>3, <1>4, <1>5, <1>6, <1>7, <1>8, <1>9, <1>10, <1>11, <1>12, <1>13,
     <1>14, <1>15, <1>16, <1>17, <1>18, <1>19, <1>20, <1>21, <1>22, <1>23, <1>24
  DEF ClockNext, UiStep, RxStep, TimerStep

\* Every step keeps what the Receiver's handlers rely on.
LEMMA RxKept ==
  ASSUME ClockIInv, [ClockNext]_clockVars
  PROVE  RxHolds'
<1>. USE ClockAssumption DEF ClockIInv, ClockTypeOK, RxHolds, Answering, Armed,
                             OneArmedTimer, TimerSet, ElapsedSet, Events,
                             clock, timers, RxAt, RxGo, RxMoves, RxSets,
                             TimerMoves, Cancelled
<1>1. CASE ClickStop
  BY <1>1 DEF ClickStop
<1>2. CASE StopElapsed
  BY <1>2 DEF StopElapsed
<1>3. CASE StopClock
  BY <1>3 DEF StopClock
<1>4. CASE RxCancel
  BY <1>4 DEF RxCancel
<1>5. CASE RxElapse
  BY <1>5 DEF RxElapse
<1>6. CASE RxEvent
  BY <1>6 DEF RxEvent
<1>7. CASE RxClock
  BY <1>7 DEF RxClock
<1>8. CASE RxCount
  BY <1>8 DEF RxCount
<1>9. CASE RxStart
  BY <1>9 DEF RxStart
<1>10. CASE StatusPlay
  BY <1>10 DEF StatusPlay
<1>11. CASE StatusPause
  BY <1>11 DEF StatusPause
<1>12. CASE StatusEnd
  BY <1>12 DEF StatusEnd
<1>13. CASE EndTimer
  BY <1>13 DEF EndTimer
<1>14. CASE EndElapsed
  BY <1>14 DEF EndElapsed
<1>15. CASE EndClock
  BY <1>15 DEF EndClock
<1>16. CASE CounterEnds
  BY <1>16 DEF CounterEnds
<1>17. ASSUME NEW p \in Plays, ClickPlay(p) PROVE RxHolds'
  BY <1>17 DEF ClickPlay
<1>18. ASSUME NEW p \in Plays, NEW ok \in BOOLEAN, RxPlay(p, ok) PROVE RxHolds'
  BY <1>18 DEF RxPlay
<1>19. ASSUME NEW enabled \in BOOLEAN, RxTimer(enabled) PROVE RxHolds'
  BY <1>19 DEF RxTimer
<1>20. ASSUME NEW p \in Plays, TimerWaited(p) PROVE RxHolds'
  BY <1>20 DEF TimerWaited
<1>21. ASSUME NEW p \in Plays, TimerCheck(p) PROVE RxHolds'
  BY <1>21 DEF TimerCheck
<1>22. ASSUME NEW p \in Plays, TimerFires(p) PROVE RxHolds'
  BY <1>22 DEF TimerFires
<1>23. CASE StatusCheck
  BY <1>23 DEF StatusCheck
<1>24. CASE UNCHANGED clockVars
  BY <1>24 DEF clockVars
<1>. QED
  BY <1>1, <1>2, <1>3, <1>4, <1>5, <1>6, <1>7, <1>8, <1>9, <1>10, <1>11, <1>12, <1>13,
     <1>14, <1>15, <1>16, <1>17, <1>18, <1>19, <1>20, <1>21, <1>22, <1>23, <1>24
  DEF ClockNext, UiStep, RxStep, TimerStep

\* Every step keeps what a Stop has reached.
LEMMA CalmKept ==
  ASSUME ClockIInv, [ClockNext]_clockVars
  PROVE  CalmHolds'
<1>. USE ClockAssumption DEF ClockIInv, ClockTypeOK, CalmHolds, TimerSet, ElapsedSet, Events, RxHolds,
                             clock, timers, RxAt, RxGo, RxMoves, RxSets,
                             TimerMoves, Cancelled
<1>1. CASE ClickStop
  BY <1>1 DEF ClickStop
<1>2. CASE StopElapsed
  BY <1>2 DEF StopElapsed
<1>3. CASE StopClock
  BY <1>3 DEF StopClock
<1>4. CASE RxCancel
  BY <1>4 DEF RxCancel
<1>5. CASE RxElapse
  BY <1>5 DEF RxElapse
<1>6. CASE RxEvent
  BY <1>6 DEF RxEvent
<1>7. CASE RxClock
  BY <1>7 DEF RxClock
<1>8. CASE RxCount
  BY <1>8 DEF RxCount
<1>9. CASE RxStart
  BY <1>9 DEF RxStart
<1>10. CASE StatusPlay
  BY <1>10 DEF StatusPlay
<1>11. CASE StatusPause
  BY <1>11 DEF StatusPause
<1>12. CASE StatusEnd
  BY <1>12 DEF StatusEnd
<1>13. CASE EndTimer
  BY <1>13 DEF EndTimer
<1>14. CASE EndElapsed
  BY <1>14 DEF EndElapsed
<1>15. CASE EndClock
  BY <1>15 DEF EndClock
<1>16. CASE CounterEnds
  BY <1>16 DEF CounterEnds
<1>17. ASSUME NEW p \in Plays, ClickPlay(p) PROVE CalmHolds'
  BY <1>17 DEF ClickPlay
<1>18. ASSUME NEW p \in Plays, NEW ok \in BOOLEAN, RxPlay(p, ok) PROVE CalmHolds'
  BY <1>18 DEF RxPlay
<1>19. ASSUME NEW enabled \in BOOLEAN, RxTimer(enabled) PROVE CalmHolds'
  BY <1>19 DEF RxTimer
<1>20. ASSUME NEW p \in Plays, TimerWaited(p) PROVE CalmHolds'
  BY <1>20 DEF TimerWaited
<1>21. ASSUME NEW p \in Plays, TimerCheck(p) PROVE CalmHolds'
  BY <1>21 DEF TimerCheck
<1>22. ASSUME NEW p \in Plays, TimerFires(p) PROVE CalmHolds'
  BY <1>22 DEF TimerFires
<1>23. CASE StatusCheck
  BY <1>23 DEF StatusCheck
<1>24. CASE UNCHANGED clockVars
  BY <1>24 DEF clockVars
<1>. QED
  BY <1>1, <1>2, <1>3, <1>4, <1>5, <1>6, <1>7, <1>8, <1>9, <1>10, <1>11, <1>12, <1>13,
     <1>14, <1>15, <1>16, <1>17, <1>18, <1>19, <1>20, <1>21, <1>22, <1>23, <1>24
  DEF ClockNext, UiStep, RxStep, TimerStep

\* ClockIInv is an invariant of the panel for every set of Plays.
THEOREM ClockInvariant == ClockSpec => []ClockIInv
<1>1. ClockInit => ClockIInv
  <2>. SUFFICES ASSUME ClockInit PROVE ClockIInv
    OBVIOUS
  <2>1. ClockTypeOK
    BY DEF ClockInit, ClockTypeOK, Events, RxPlaces
  <2>2. OneArmedTimer /\ CounterReachable
    BY DEF ClockInit, OneArmedTimer, CounterReachable, Armed
  <2>3. RxHolds /\ CalmHolds
    BY DEF ClockInit, RxHolds, CalmHolds, Answering
  <2>. QED
    BY <2>1, <2>2, <2>3 DEF ClockIInv
<1>2. ClockIInv /\ [ClockNext]_clockVars => ClockIInv'
  <2>. SUFFICES ASSUME ClockIInv, [ClockNext]_clockVars PROVE ClockIInv'
    OBVIOUS
  <2>1. ClockTypeOK'
    BY TypeStep DEF ClockIInv
  <2>. QED
    BY <2>1, TimerKept, CounterKept, RxKept, CalmKept DEF ClockIInv
<1>. QED
  BY <1>1, <1>2, PTL DEF ClockSpec

\* At most one automatic stop is armed, and Stop and Play can cancel it.
THEOREM OneAutomaticStop == ClockSpec => []OneArmedTimer
<1>1. ClockIInv => OneArmedTimer
  BY DEF ClockIInv
<1>. QED
  BY <1>1, ClockInvariant, PTL

\* A counter thread that goes on is one that Stop and Play can end.
THEOREM CounterCanBeStopped == ClockSpec => []CounterReachable
<1>1. ClockIInv => CounterReachable
  BY DEF ClockIInv
<1>. QED
  BY <1>1, ClockInvariant, PTL

\* After a Stop in force there is no armed timer, no lasting counter, no time.
THEOREM StopStopsTheClock == ClockSpec => []StopIsFinal
<1>1. ClockIInv => StopIsFinal
  <2>. SUFFICES ASSUME ClockIInv, calm = "stopped" PROVE StopIsFinal
    BY DEF StopIsFinal
  <2>1. \A p \in Plays : ~Armed(p)
    BY DEF ClockIInv, OneArmedTimer, CalmHolds, TimerSet, Armed, Cancelled
  <2>2. counter # NoThread => <<"elapsed", counter>> \in isSet
    BY DEF ClockIInv, CounterReachable, CalmHolds, ElapsedSet
  <2>. QED
    BY <2>1, <2>2 DEF ClockIInv, CalmHolds, StopIsFinal
<1>. QED
  BY <1>1, ClockInvariant, PTL
=============================================================================
