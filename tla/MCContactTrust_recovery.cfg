CONSTANTS
  Keys = {"k1", "k2"}
  Roots = {"r1", "r2"}
  Bundles <- Seen
  RaceLevels = {}
SPECIFICATION ContactSpec
PROPERTIES RecoveryStaysOpen
