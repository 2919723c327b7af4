SPECIFICATION Spec
CONSTANTS
  MaxRestartAttempts = 2
  WorkerMayBeMissing = FALSE
  MaxStops = 1
  MaxReadies = 0
  MaxByHand = 0
  MaxJobs = 0
  MaxThrows = 0
INVARIANT RecoveredOrReported
CHECK_DEADLOCK FALSE
