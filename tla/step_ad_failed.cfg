SPECIFICATION Spec
CONSTANTS
  Runners = {r1}
  Vehicles = {v1}
  Tcp = {v1}
  Chasers = {}
  NoRunner = NoRunner
  MaxStep = 2
INVARIANTS InfoOfThisStep
CHECK_DEADLOCK FALSE
