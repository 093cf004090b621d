SPECIFICATION Spec
CONSTANTS
  Part <- Parts
  Fold <- LowerCase
  Kind <- Meaning
  Percent <- FailPercent
  Ending <- EndsIn
  Stub <- WithoutEnd
  ServedLists <- HidingLists
  Requests <- AllRequests
INVARIANT NestedZonesKeepPromise
CHECK_DEADLOCK FALSE
