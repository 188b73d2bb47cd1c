SPECIFICATION NativeSpec
CONSTANTS
  a = a
  b = b
  SingleMax = 2
  FirstChunk = 1
  NextChunk = 2
  SnMod = 3
  MaxLen = 9
  Sources = {a, b}
  Script <- Messages
  QueueSize = 2
  MaxNoise = 1
  MaxResets = 1
  MaxShort = 1
  Senders = {a, b}
  Timeout = 2
  Settle = 1
  MaxPending = 2
  MaxRequests = 2
  InFlight = 2
  FlowTimeout = 1
  Lengths = {1, 3}
CHECK_DEADLOCK FALSE
INVARIANT FramesKeepTheirMessage
INVARIANT RepliesAsPrinted
INVARIANT WaitIsBounded
INVARIANT AnswerIsHonest
PROPERTY EveryMessageArrives
