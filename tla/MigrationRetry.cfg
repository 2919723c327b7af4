SPECIFICATION Spec
CONSTANTS
  r1 = r1
  r2 = r2
  r3 = r3
  s = s
  t = t
  u = u
  a = a
  b = b
  c = c
  d = d
  e = e
  f = f
  NoRun = NoRun
  Runs = {r1, r2}
  Background = {r1}
  Crashable = {r1, r2}
  Queues = {s, t}
  Source <- MCSource
  Target <- MCTarget
  Jobs = {a, b, c, d, e}
  Id <- MCId
  Home <- MCHome
  First <- MCFirst
  States <- MCMixedStates
  Matching = {a, b, c}
  Unsupported = {}
  Limit = 1
  BatchSize = 0
  BatchDelay = TRUE
  MaxErrors = 100
  Faults <- MCJobFaults
  MaxFaults = 2
  LongWaits = {}
  OperatorQueues = {}
INVARIANTS
  PausedWhileMoving
  DuplicatesStayPaused
  LimitRespected
  SafeInv
PROPERTIES
  HandsOver
\* Runs end and then nothing has to happen.
CHECK_DEADLOCK FALSE
