SPECIFICATION FairSpec
CONSTANTS
  Runners = {r1}
  Vehicles = {v1, v2}
  Tcp = {v1}
  Chasers = {v2}
  NoRunner = NoRunner
  MaxStep = 3
INVARIANTS OneStepInFlight TcpInfoFresh StopsSoon
PROPERTIES LoopEnds
CHECK_DEADLOCK FALSE
