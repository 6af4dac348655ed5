SPECIFICATION Spec
CONSTANTS
  Conns = {k1, k2}
  NoConn = NoConn
  Closer = Closer
  Clients = {c1}
  MaxRid = 1
SYMMETRY Symmetry
INVARIANTS ClosedLinkReported
CHECK_DEADLOCK FALSE
