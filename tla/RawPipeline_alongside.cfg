SPECIFICATION HistorySpec
CONSTANTS
  Uuids = {1, 2, 3}
  Workers = {w1, w2}
  None = None
  Capacity = 1
  Limits = {1, 3}
  Entries = {1, 2, 3}
  Valid = {1, 3}
  Scenarios <- PassScenarios
INVARIANTS TypeOK RecordKept PartHasRecord OneWholeCopy
PROPERTY RunEnds
