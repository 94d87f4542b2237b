CONSTANTS
  Nodes = {"w", "a", "b"}
  Writers = {"w"}
  Peers <- Line
  Kinds = {"public"}
  Clearnet = {}
  PageLimit = 1
  MaxRounds = 2
  SmallChain = 2
  MayAge = FALSE
  MayFail = FALSE
  MayPush = TRUE
  MaxEvents = 3
  RnsWriters <- Appends
  Asks <- Star
  LockDepth = 1
  Window = 4
  MaxSent = 2
  Common = 1
  MaxRnsEvents = 4
  MaxLost = 1
  Authors = {"p", "q", "r", "s"}
  Weight <- Weights
  Who <- Roles
  Heavy = {"p"}
  Sample = 3
  Proposals = {"petition", "upgrade"}
  SignWindow = 1
  VoteWindow = 1
  ChallengeWindow = 1
  ActivationWindow = 0
  Lag = 1
  LastDay = 3
  MaxFacts = 3
SPECIFICATION WaysSpec
INVARIANTS DecidedInTime TimeIsShared
PROPERTIES PullsCatchUp  ForkIsAgreed  
CHECK_DEADLOCK FALSE
