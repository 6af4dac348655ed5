SPECIFICATION FeedsSpec
CONSTANTS
  v1 = v1
  v2 = v2
  d1 = d1
  d2 = d2
  h1 = h1
  h2 = h2
  h3 = h3
  Magic = 2
  Valid = {1}
  MaxSize = 4
  Streams <- MCStreams
  MaxTimeouts = 2
  Seeds = {0, 1, 2, 5}
  MaxExtra = 4
  Nothing = Nothing
  MaxItems = 2
  Sizes <- MCSizes
  Width <- MCWidth
  Plain <- MCPlain
  Header = 4
  Stride = 2
  MaxPoints = 5
  MaxDatagrams = 5
  Totals <- MCTotals
  PacketIds <- MCPacketIds
  MaxTwice = 1
  RowSize = 3
  Sizes2D <- MCSizes2D
  Lost = Lost
  MaxReceivers = 2
  MaxFrames = 1
  MaxViews = 1
  MaxThreads = 2
  MaxPackets = 2
  MaxSlotThreads = 2
  MaxPictures = 2
  Vehicles <- MCVehicles
  DeleteIds = {d1, d2}
  MaxChanges = 2
  Templates = {"t1", "t2"}
  MaxTabs = 2
  MaxSessions = 3
  Fields = {"mode", "target_fps", "rtf"}
  Unlimited = {"target_fps"}
  FromSimulator = {"mode", "target_fps"}
  MaxEdits = 2
  MaxSaves = 2
  MaxClicks = 3
  MaxQueued = 2
  MaxKills = 1
  Programs = {h1, h2, h3}
  NoFile = NoFile
  Empty = Empty
  Layouts <- MCLayouts
  MaxRows = 2
  MaxDatagramsIn = 2
  MaxWheelCount = 2
  Controls <- MCControls
  Segmentless = {"header"}
  Unparsable = {"broken"}
  FirstOf <- MCFirst
  TextLength = 1
  MaxInputs = 4
  ButtonWidths <- MCButtons
  Spacing = 1
  WindowWidths = {8, 12}
  MinWidth = 12
  FirstWidth = 12
  MaxTyped = 3
  MaxRounds = 2
  MaxCount = 2
  FirstCount = 1
  MaxUses = 4
  MapFiles <- MCMapFiles
  Trips <- MCTrips
  PathPoints <- MCPlaces
  Behind = 1
  Ahead = 2
  LocalSize = 3
  Tail10 = 2
  MaxMoves = 4
  MaxLinks = 2
  MaxCallers = 2
  MaxKeys = 3
  MaxSteps = 1
  SuiteLists <- MCSuiteLists
  MaxLists = 2
INVARIANTS PiecesJoined FramesKept NoChunkTwice BytesRead ViewSettles ReceiversTrue
  TablesAreTrue StateRestored SettingsKept  FormsKept RoutesRight CliDriven
CHECK_DEADLOCK FALSE
