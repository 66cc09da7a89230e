SPECIFICATION HistorySpec
CONSTANTS
  Ids = {1, 2}
  Downloaders = {d1, d2}
  Converters = {c1}
  Games <- SingleGames
  MaxDownloadAttempts = 2
  MaxConvertAttempts = 1
  Concurrent = 1
  Limits = {1}
  PageSize = 1
  Disturbances = {}
INVARIANTS StatsConsistent
