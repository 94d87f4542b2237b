CONSTANTS
  d1 = d1
  d2 = d2
  g1 = g1
  g2 = g2
  bob = bob
  Keys = {d1,d2}
  DmKeys = {d1,d2}
  Recipients = {bob}
  Recipient <- OnePeer
  ConnectKeys = {}
  RotatingKeys = {}
  ApprovalEnabled = TRUE
  SecureDM = TRUE
  RnsEnabled = TRUE
  DevProfile = TRUE
  Window = 1
  TTL = 1
  Environments <- RelayDay
  MaxFaults = 0
  MaxCrashes = 0
SPECIFICATION Spec
INVARIANTS
  StandingDecision
  PromptIsEarned
PROPERTIES
  RelayNeedsConsent
