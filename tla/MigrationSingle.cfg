SPECIFICATION FairSpec
CONSTANTS
  r1 = r1
  r2 = r2
  r3 = r3
  s = s
  t = t
  u = u
  a = a
  b = b
  c = c
  d = d
  e = e
  f = f
  NoRun = NoRun
  Runs = {r1}
  Background = {r1}
  Crashable = {r1}
  Queues = {s, t}
  Source <- MCSource
  Target <- MCTarget
  Jobs = {a, b, c}
  Id <- MCId
  Home <- MCHome
  First <- MCFirst
  States <- MCMixedStates
  Matching = {a, b, c}
  Unsupported = {c}
  Limit = 0
  BatchSize = 1
  BatchDelay = TRUE
  MaxErrors = 1
  Faults <- MCFaults
  MaxFaults = 2
  LongWaits = {"parked"}
  OperatorQueues = {t}
INVARIANTS
  TypeOK
  CleanExitRestores
  ReportMatchesQueues
  ParkedCanBeResumed
PROPERTIES
  CancelTerminates
  RunSettles
  TerminalIsFinal
\* Runs end and then nothing has to happen.
CHECK_DEADLOCK FALSE
