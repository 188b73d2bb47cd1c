CONSTANTS
  engine = engine
  gearbox = gearbox
  Ecus <- Ecu
  Cars <- Car
  BlockSize = 4
  SupportPids <- Blocks
  PidStatus = 1
  PidThisCycle = 5
  PidFreezeDtc = 2
  VinLength = 2
  MaxCalls = 2
  MaxLate = 1
SPECIFICATION ObdSpec
CHECK_DEADLOCK FALSE
INVARIANT DiscoveryExact
INVARIANT ReadingsBelong
INVARIANT ReadinessRight
INVARIANT DtcsAsSent
