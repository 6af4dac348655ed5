SPECIFICATION FairSpec
CONSTANTS
  Conns = {k1}
  NoConn = NoConn
  Closer = Closer
  Clients = {c1}
  MaxRid = 2
INVARIANTS NoLeakedEntry WaiterCovered
PROPERTIES ImplementsRequestReply EveryCallReturns
CHECK_DEADLOCK FALSE
