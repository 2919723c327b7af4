SPECIFICATION Spec
CONSTANTS
  r1 = r1
  r2 = r2
  r3 = r3
  s = s
  t = t
  u = u
  a = a
  b = b
  c = c
  d = d
  e = e
  f = f
  NoRun = NoRun
  Runs = {r1, r2, r3}
  Background = {r1}
  Crashable = {}
  Queues = {s, t, u}
  Source <- MCExpirySource
  Target <- MCExpiryTarget
  Jobs = {f}
  Id <- MCId
  Home <- MCHome
  First <- MCFirst
  States <- MCWaiting
  Matching = {f}
  Unsupported = {}
  Limit = 0
  BatchSize = 0
  BatchDelay = TRUE
  MaxErrors = 100
  Faults <- MCRollbackFaults
  MaxFaults = 1
  LongWaits = {"parked"}
  OperatorQueues = {}
INVARIANTS
  NoJobLost
  OneMoverPerSource
\* Runs end and then nothing has to happen.
CHECK_DEADLOCK FALSE
