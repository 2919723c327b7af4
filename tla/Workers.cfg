SPECIFICATION Spec
CONSTANTS
  h1 = h1
  h2 = h2
  h3 = h3
  Handles = {h1, h2, h3}
  emails = emails
  images = images
  Names = {emails, images}
  None = None
  send = send
  bounce = bounce
  JobNames = {send, bounce}
  Other = Other
  WindowMs = 1
  MaxSamples = 2
  MaxJobNameEntries = 1
  Buckets = {1, 3}
  ThroughputWindowMs = 3
  BucketMs = 2
  TicksPerMinute = 60
  Concurrency = 2
  WaitingCounts = {20, 200, 2000}
  Budgets <- MCBudgets
INVARIANTS
  TypeOK
  StatsAreLive
  ShutdownClosesAll
  JobsCountedOnce
  WindowsExact
  SnapshotSound
SYMMETRY Symmetry
\* After the shutdown nothing has to happen.
CHECK_DEADLOCK FALSE
