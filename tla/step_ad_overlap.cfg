SPECIFICATION Spec
CONSTANTS
  Runners = {r1, r2}
  Vehicles = {v1}
  Tcp = {v1}
  Chasers = {}
  NoRunner = NoRunner
  MaxStep = 2
INVARIANTS SimulatorWaits
CHECK_DEADLOCK FALSE
