SPECIFICATION Spec
CONSTANTS
  Scenarios <- NginxTests
  Initially <- BasicSetup
  Second = 2
  Budget = 4
INVARIANTS
  ServerRunsItsConfig
