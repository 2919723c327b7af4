SPECIFICATION Spec
CONSTANTS
  r1 = r1
  r2 = r2
  r3 = r3
  s = s
  t = t
  u = u
  a = a
  b = b
  c = c
  d = d
  e = e
  f = f
  NoRun = NoRun
  Runs = {r1, r2}
  Background = {}
  Crashable = {}
  Queues = {s, t, u}
  Source <- MCSharedSource
  Target <- MCTarget
  Jobs = {c, e}
  Id <- MCId
  Home <- MCSharedHome
  First <- MCFirst
  States <- MCMixedStates
  Matching = {c, e}
  Unsupported = {}
  Limit = 0
  BatchSize = 0
  BatchDelay = TRUE
  MaxErrors = 100
  Faults = {}
  MaxFaults = 0
  LongWaits = {}
  OperatorQueues = {}
INVARIANTS
  NoJobLost
\* Runs end and then nothing has to happen.
CHECK_DEADLOCK FALSE
