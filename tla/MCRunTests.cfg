SPECIFICATION SpecScript
CONSTANTS
  Scenarios <- Environments
  MaxReruns = 1
  OperatorMinor = 4
  SmcpMinors = {0, 3}
INVARIANTS
  TypeOK
  PassedOnOwnMesh
  CleanupRemovesOperator
  TypeOKScript
  EveryVersionReported
  NoMeshOfEarlierVersion
PROPERTIES
  ScriptEnds
