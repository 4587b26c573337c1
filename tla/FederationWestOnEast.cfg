SPECIFICATION Spec
CONSTANTS
  Scenarios <- Environments
INVARIANTS
  WestIsOnWest
