\* Every nesting of the helpers up to five activations; two clusters.
CONSTANTS
  MaxDepth = 5
  MaxCleanups = 1
  UntilAttempts = 2
  ApplyAttempts = 2
  WaitAttempts = 2
  Kubeconfigs = {east}
  NoConfig = noconfig
  MustGather = TRUE
  east = east
SPECIFICATION Spec
INVARIANTS
  TypeOK
  VerdictSound
  RetryPanicCaught
  KubeconfigAsWanted
PROPERTIES
  UntilSuccessPromise
  ApplyPersistsInAttempt
