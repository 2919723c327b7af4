SPECIFICATION FairSpec
CONSTANTS
  MaxRestartAttempts = 2
  WorkerMayBeMissing = TRUE
  MaxStops = 3
  MaxReadies = 1
  MaxByHand = 1
  MaxJobs = 2
  MaxThrows = 1
INVARIANTS
  TypeOK
  OneTimer
  QuietAfterShutdown
  PursuedOrReported
  NothingReportedTwice
PROPERTIES
  RecoverySettles
\* After the shutdown nothing has to happen.
CHECK_DEADLOCK FALSE
