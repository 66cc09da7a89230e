SPECIFICATION Spec
CONSTANTS
  Tiles = {1, 2, 3}
  Other = 0
  Nobody = nobody
  Profiles <- WonRounds
INVARIANT NothingLeftAtEnd
CHECK_DEADLOCK FALSE
