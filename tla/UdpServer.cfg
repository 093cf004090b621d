SPECIFICATION Spec
CONSTANTS
  c1 = c1
  c2 = c2
  Client <- Clients12
  Kinds <- OneOfEach
  Goroutine = {g1, g2}
  Buffer = 1
  MaxAsked <- OnceTwice
INVARIANTS TypeOK RepliesMatch
PROPERTIES KeepsService
CHECK_DEADLOCK FALSE
