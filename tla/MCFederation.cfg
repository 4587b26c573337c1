SPECIFICATION Spec
CONSTANTS
  Scenarios <- Environments
INVARIANTS
  TypeOK
  PassedWestStaysPut
  FailoverPassesAcrossClusters
  CleanupRemovesNamespaces
  PeersKnowEachOther
  MetalLBInstalled
