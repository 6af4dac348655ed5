SPECIFICATION FairSpec
CONSTANTS
  Socks = {s1, s2}
  NoSock = NoSock
  Ui = Ui
  Callers = {a1}
  NoCaller = NoCaller
  MaxCalls = 1
  MaxDispatch = 0
  MaxRid = 1
PROPERTIES AttemptEnds
CHECK_DEADLOCK FALSE
