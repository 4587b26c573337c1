\* Three processes: the first and gotestsum's --rerun-fails=2.  The API
\* server may fail to answer.
CONSTANTS
  MaxRuns = 3
  ChecksErr = TRUE
SPECIFICATION Spec
INVARIANTS
  TypeOK
  TempoSurvives
  NothingLeftBehind
  InstalledIsUsable
  LeftoverMeansTrouble
