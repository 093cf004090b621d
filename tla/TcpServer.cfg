SPECIFICATION Spec
CONSTANTS
  Conn = {c1}
  Kinds <- EveryKind
  MaxQueries = 1
  Backlog = 1
  SendBuffer = 1
  Window = 2
  MaxSent = 5
INVARIANTS TypeOK QueriesBounded
PROPERTY ServesInOrder
CHECK_DEADLOCK FALSE
