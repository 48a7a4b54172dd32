SPECIFICATION BuildSpec
CONSTANTS
  Targets = {a}
  Firmwares = {1, 2}
  Committed = 1
  Outdated = {}
  Contents = {1, 2}
  DriverOf <- MCDriverOf
  Reverts = TRUE
  CutPoints <- Nowhere
  EditPoints <- OnlyIdle
INVARIANTS
  PayloadClaimsItsBuild
