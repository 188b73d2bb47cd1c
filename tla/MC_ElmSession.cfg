SPECIFICATION Spec
CONSTANTS
  t1 = t1
  t2 = t2
  Threads = {t1, t2}
  Jobs = {"request", "voltage", "close"}
  MaxCommands = 4
  MaxTimeouts = 2
CHECK_DEADLOCK FALSE
INVARIANT ExchangesKeepApart
INVARIANT AdapterLetGo
PROPERTY CallsReturn
