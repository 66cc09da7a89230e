SPECIFICATION Spec
CONSTANTS
  Tiles = {1, 2, 3}
  Other = 0
  Nobody = nobody
  Profiles <- CallRounds
INVARIANT EveryRoundConverts
CHECK_DEADLOCK FALSE
