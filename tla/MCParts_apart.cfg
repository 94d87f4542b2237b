CONSTANTS
  Nodes = {"a", "b"}
  Writers = {"a", "b"}
  Peers <- Everyone
  Kinds = {"public", "private"}
  Clearnet = {"b"}
  PageLimit = 2
  MaxRounds = 2
  SmallChain = 2
  MayAge = TRUE
  MayFail = TRUE
  MayPush = TRUE
  MaxEvents = 3
  Keys = {"k1", "k2"}
  Roots = {"r1", "r2"}
  Bundles <- Seen
  RaceLevels = {"sas_verified"}
SPECIFICATION PartsSpec
INVARIANTS OneHistory CalmMeansSeenIsPinned VerifiedIsVouched 
PROPERTIES  OkIsCaughtUp  RootNeedsProof
CHECK_DEADLOCK FALSE
