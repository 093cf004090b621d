SPECIFICATION Spec
CONSTANTS
  Part <- Parts
  Fold <- LowerCase
  Kind <- Meaning
  Percent <- FailPercent
  Ending <- EndsIn
  Stub <- WithoutEnd
  ServedLists <- AllLists
  Requests <- AllRequests
INVARIANTS TypeOK KeepsPromise CrashesExactly SpeaksForItsZones
CHECK_DEADLOCK FALSE
