SPECIFICATION BridgesSpec
CONSTANTS
  s1 = s1
  a1 = a1
  a2 = a2
  Agents = {a1, a2}
  MaxAdopted = 2
  MaxBridges = 2
  Signatures = {s1}
  MaxSent = 3
  MaxFailures = 1
CHECK_DEADLOCK FALSE
INVARIANT NothingInvented
INVARIANT OnlyReflectionsDiscarded
INVARIANT BridgeKeepsToItsLink
PROPERTY StopIsClean
