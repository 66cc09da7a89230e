SPECIFICATION HistorySpec
CONSTANTS
  a = a
  b = b
  p = p
  q = q
  None = None
  Games = {1, 3, 4}
  Uuids = {1, 2, 3, 4, 5}
  GameOf <- TheGameOf
  RoomUuid <- TheRoomUuid
  Days = {1, 2}
  Chunks = {1, 2}
  DayOf <- TheDayOf
  ChunkOf <- TheChunkOf
  StartTime <- TheStartTime
  Players <- ThePlayers
  PlayersOf <- ThePlayersOf
  ChunkLimit = 1
  PageLimit = 2
  Scenarios <- ResolvedRows
  Downloaders = {p, q}
  Limits = {1, 3}
  RestartEvery = 1
INVARIANT NotYetDownloaded
CHECK_DEADLOCK FALSE
