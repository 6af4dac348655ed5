SPECIFICATION PanelsSpec
CONSTANTS
  p1 = p1
  p2 = p2
  l1 = l1
  l2 = l2
  r1 = r1
  r2 = r2
  Loads <- MCLoads
  NoLoad = NoLoad
  Plays <- MCPlays
  None = None
  NoThread = NoThread
  Players <- MCPlays
  NoPlayer = NoPlayer
  Rows = 2
  PosesOf <- MCPosesOf
  MaxPlays = 2
  Runners <- MCRunners
  NoRunner = NoRunner
  MaxAsks = 2
  MaxControls = 2
  WantedSteers <- MCWanted
  SteerMax = 1000
  SteerRate = 400
  MinDetGo = 2
  MaxSteps = 3
  VehicleRows = 2
  MaxRuns = 2
  MaxReports = 1
  Pixels <- MCPixels
  Nowhere = Nowhere
  NoOffset = NoOffset
  PictureWidth = 640
  RoadEdge = 120
  Narrowest = 75
  Widest = 325
  OneLaneWidth = 175
  LeftLimit = 416
  RightLimit = 224
  Reach = 80
  MaxMiss = 2
  MaxTabEvents = 3
  MaxWaiting = 1
  Knobs = {"kp", "pixels"}
  KnobValues = {0, 1}
  PanelDefault <- MCPanelDefault
  CodeDefault <- MCCodeDefault
INVARIANTS OneArmedTimer CounterReachable StopIsFinal AnswerSettles DrivesInStep ControlsRight LaneKept DriveTabsTrue
PROPERTIES LoopsEnd
CHECK_DEADLOCK FALSE
