SPECIFICATION Spec
CONSTANTS
  Part <- Parts
  Fold <- LowerCase
  Kind <- Meaning
  Percent <- FailPercent
  Ending <- EndsIn
  Stub <- WithoutEnd
  ServedLists <- PlainLists
  Requests <- AllRequests
INVARIANT FailureShare
CHECK_DEADLOCK FALSE
