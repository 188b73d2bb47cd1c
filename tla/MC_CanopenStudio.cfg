\* The window against the capture thread, both simulators; timers; heartbeats.
SPECIFICATION StudioSpec
CONSTANTS
  Keep = 2
  Objects <- MC_Objects
  Writes <- MC_Writes
  Commands <- MC_Commands
  Targets = {0}
  Foreign <- MC_Foreign
  Speeds <- MC_Speeds
  MaxSent = 2
  MaxEvents = 2
  MaxLoops = 2
  MaxAsked = 2
  n1 = n1
  n2 = n2
  Nodes <- MC_Nodes
  Bytes = {4, 5}
  Stamps = {0, 1, 4, 5, 6}
  Intervals = {2, 3}
  NoInterval = NoInterval
\* The environment is bounded: a run ends when it has nothing more to do.
CHECK_DEADLOCK FALSE
INVARIANT TraceKeepsNewest
INVARIANT ReplyIsTheObjects
INVARIANT TableShowsLastBeat
INVARIANT TimersInHand
INVARIANT ReportsAreTrue
