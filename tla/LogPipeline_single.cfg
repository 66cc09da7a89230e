SPECIFICATION HistorySpec
CONSTANTS
  Ids = {1, 2, 3}
  Downloaders = {d1}
  Converters = {c1}
  Games <- MixedGames
  MaxDownloadAttempts = 1
  MaxConvertAttempts = 2
  Concurrent = 2
  Limits = {1}
  PageSize = 2
  Disturbances = {"crash", "db_error", "cleanup_error", "reset"}
INVARIANTS TypeOK AttemptsBounded OwnershipInv NoPartialOutput
PROPERTIES TriedOnce QueueCovered ImplementsLifecycle RunsEnd EveryLogSettles
