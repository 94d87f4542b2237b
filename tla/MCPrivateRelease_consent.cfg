CONSTANTS
  d1 = d1
  d2 = d2
  g1 = g1
  g2 = g2
  bob = bob
  Keys = {d1}
  DmKeys = {d1}
  Recipients = {bob}
  Recipient <- OnePeer
  ConnectKeys = {d1}
  RotatingKeys = {d1}
  ApprovalEnabled = TRUE
  SecureDM = TRUE
  RnsEnabled = TRUE
  DevProfile = FALSE
  Window = 1
  TTL = 1
  Environments <- AnonymousDay
  MaxFaults = 1
  MaxCrashes = 1
SPECIFICATION Spec
INVARIANTS
  TypeOK
  DurableOutbox
  AcceptancesAccounted
  RotationAfterRelease
PROPERTIES
  KeepsPromise
  DeliveredIsFinal
  AnonymousStaysHidden
