SPECIFICATION Spec
CONSTANTS
  Tiles = {1, 2, 3}
  Other = 0
  Nobody = nobody
  Profiles <- ReachRounds
INVARIANT AcceptedAtNextDraw
CHECK_DEADLOCK FALSE
