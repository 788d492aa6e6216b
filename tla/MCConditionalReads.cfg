SPECIFICATION Spec
CONSTANTS
  Keys = {1, 2, 3, 4}
  HasPrefix <- MCHasPrefix
  Namespaces = {"ns"}
  Prefixes = {"tail"}
  RequestIDs = {"a"}
  Limits = {2}
  Absent = Absent
  Empty = Empty
  Values = {Absent, Empty}
  MaxKeysV1 = 1
  MaxKeysV2 = 2
  MaxLimit = 2
  MaxRevision = 2
  MaxLeases = 2
  MaxKvCalls = 3
INVARIANTS
  ReadsShowOneRevision
  ScanIsOneSnapshot
  KvEffectsAreReported
CHECK_DEADLOCK FALSE
