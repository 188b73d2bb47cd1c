CONSTANTS
  a1 = a1
  a2 = a2
  Agents <- Agent
  MaxLinks = 2
  MaxSessions = 1
SPECIFICATION Spec
CHECK_DEADLOCK FALSE
INVARIANT ConnectionAccounted
PROPERTY CaptureThreadsEnd
