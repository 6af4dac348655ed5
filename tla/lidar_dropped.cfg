SPECIFICATION ViewSpec
CONSTANTS
  MaxReceivers = 1
  MaxFrames = 2
  MaxViews = 1
INVARIANTS DropIsSuperseded
CHECK_DEADLOCK FALSE
