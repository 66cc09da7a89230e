SPECIFICATION HistorySpec
CONSTANTS
  Days = {1, 2, 3}
  Ids = {1, 2, 3}
  DayOf <- EarlyDays
  Concurrent = 1
  Window = 1
  Types = {"scc"}
  TypeOf <- OneType
  Runs = {r1}
  Ends = {0}
  Skips = {TRUE}
  Imports = {}
  Disturbances = {}
PROPERTIES EveryLogListed
CHECK_DEADLOCK FALSE
