SPECIFICATION Spec
CONSTANTS
  Scenarios <- Tests
  Initially <- BasicSetup
  Second = 4
  Budget = 8
INVARIANTS
  TypeOK
  CleanupLeavesNothing
  ReadyAppsRun
  FreshPodsMountTheirConfig
  GivesUpOnTime
