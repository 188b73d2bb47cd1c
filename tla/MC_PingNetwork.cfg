CONSTANTS
  studio = studio
  viewer = viewer
  Studios <- Studio
  Viewers <- Viewer
  MaxNumber = 2
  MaxPings = 2
  MaxInFlight = 2
  PingTimeout = 1
SPECIFICATION Spec
INVARIANT FiguresAreTrue
PROPERTY LedgerKept
PROPERTY PingsSettle
