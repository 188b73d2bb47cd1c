SPECIFICATION Spec
CONSTANTS
  a1 = a1
  Agents = {a1}
  MaxLinks = 2
  MaxNative = 2
  MaxPollers = 1
  Pids = 1
CHECK_DEADLOCK FALSE
INVARIANT AtMostOneCycleLost
INVARIANT HeldOff
INVARIANT SessionServesItsLink
PROPERTY FreeAgain
