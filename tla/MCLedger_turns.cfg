CONSTANTS
  Ids = {1, 2, 3, 4}
  Genesis = 0
  NoId = 99
  Authors = {ann}
  MaxSeq = 3
  Kinds = {"message"}
  Writers = {"loop", "sync", "rns"}
  TakeTurns = TRUE
  HotMax = 2
  LockDepth = 1
  MaxFork = 2
  SmallChain = 2
  MayFail = FALSE
  MayStale = TRUE
SPECIFICATION Spec
INVARIANTS TypeOK  HotSequencesRise
PROPERTIES LockHolds
