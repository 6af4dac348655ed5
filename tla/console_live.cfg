SPECIFICATION FairSpec
CONSTANTS
  Socks = {s1}
  NoSock = NoSock
  Ui = Ui
  Callers = {a1}
  NoCaller = NoCaller
  MaxCalls = 2
  MaxDispatch = 1
  MaxRid = 3
INVARIANTS WaiterCovered
PROPERTIES CallerEnds
CHECK_DEADLOCK FALSE
