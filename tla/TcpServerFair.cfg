SPECIFICATION FairSpec
CONSTANTS
  Conn = {c1, c2}
  Kinds = {"query", "poison", "stalled"}
  MaxQueries = 0
  Backlog = 2
  SendBuffer = 1
  Window = 1
  MaxSent = 2
INVARIANT OneFirstRead
PROPERTIES NobodyWaitsForever ConnectionsEnd
CHECK_DEADLOCK FALSE
