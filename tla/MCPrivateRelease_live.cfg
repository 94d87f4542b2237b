CONSTANTS
  d1 = d1
  d2 = d2
  g1 = g1
  g2 = g2
  bob = bob
  Keys = {d1}
  DmKeys = {d1}
  Recipients = {bob}
  Recipient <- OnePeer
  ConnectKeys = {}
  RotatingKeys = {}
  ApprovalEnabled = TRUE
  SecureDM = TRUE
  RnsEnabled = TRUE
  DevProfile = TRUE
  Window = 1
  TTL = 1
  Environments <- RelayDay
  MaxFaults = 1
  MaxCrashes = 1
SPECIFICATION LiveSpec
PROPERTIES QueuedIsDelivered ApprovedIsRelayed PromptAppears
