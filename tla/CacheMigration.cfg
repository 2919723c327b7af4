SPECIFICATION FairSpec
CONSTANTS
  Keys = {a, b, c}
  Written = {a}
  Contents = {v}
  Limits = {0, 2}
  BatchSize = 2
  BatchDelay = TRUE
  MaxScans = 2
  MaxErrors = 1
  MaxFaults = 2
INVARIANTS
  TypeOK
  CompletedCopiesAll
  LimitRespected
  ParkedCanBeResumed
PROPERTIES
  NoReadAfterCancel
  CancelTerminates
\* The run ends and then only the source changes.
CHECK_DEADLOCK FALSE
