CONSTANTS
  engine = engine
  gearbox = gearbox
  Ecus <- Ecu
  Cars <- Car
  BlockSize = 4
  SupportPids <- Blocks
  PidStatus = 1
  PidThisCycle = 5
  PidFreezeDtc = 2
  VinLength = 2
  MaxCalls = 1
  MaxLate = 0
SPECIFICATION ObdSpec
INVARIANT ClearedReflectsTheVehicle
CHECK_DEADLOCK FALSE
