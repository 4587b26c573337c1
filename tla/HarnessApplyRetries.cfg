\* ApplyString against its comment.
CONSTANTS
  MaxDepth = 4
  MaxCleanups = 1
  UntilAttempts = 2
  ApplyAttempts = 2
  WaitAttempts = 2
  Kubeconfigs = {east}
  NoConfig = noconfig
  MustGather = TRUE
  east = east
SPECIFICATION Spec
PROPERTY ApplyRetriesIfCommandFails
