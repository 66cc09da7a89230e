SPECIFICATION HistorySpec
CONSTANTS
  Days = {1, 2, 3}
  Ids = {1, 2, 3}
  DayOf <- EarlyDays
  Concurrent = 2
  Window = 2
  Types = {"scc"}
  TypeOf <- OneType
  Runs = {r1}
  Ends = {1}
  Skips = {TRUE}
  Imports <- WholeFiles
  Disturbances = {"crash", "db_error"}
INVARIANTS TypeOK MarkedDayListed
PROPERTIES PoliteUninterrupted ListedAfterInterrupts
CHECK_DEADLOCK FALSE
