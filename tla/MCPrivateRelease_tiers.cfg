CONSTANTS
  d1 = d1
  d2 = d2
  g1 = g1
  g2 = g2
  bob = bob
  Keys = {d1,g1}
  DmKeys = {d1}
  Recipients = {bob}
  Recipient <- OnePeer
  ConnectKeys = {}
  RotatingKeys = {}
  ApprovalEnabled = TRUE
  SecureDM = TRUE
  RnsEnabled = TRUE
  DevProfile = FALSE
  Window = 1
  TTL = 1
  Environments <- TierDay
  MaxFaults = 0
  MaxCrashes = 0
SPECIFICATION Spec
PROPERTIES
  PassMetFloor
