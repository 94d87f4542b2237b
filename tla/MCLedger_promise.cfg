CONSTANTS
  Ids = {1, 2, 3}
  Genesis = 0
  NoId = 99
  Authors = {ann, bob}
  MaxSeq = 2
  Kinds = {"message", "key_revoke"}
  Writers = {"loop"}
  TakeTurns = TRUE
  HotMax = 9
  LockDepth = 6
  MaxFork = 2
  SmallChain = 2
  MayFail = TRUE
  MayStale = FALSE
SPECIFICATION Spec
SYMMETRY Renaming
INVARIANTS RevokedKeySilent
PROPERTIES Promised
