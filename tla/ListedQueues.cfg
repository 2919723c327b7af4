SPECIFICATION Spec
CONSTANTS
  r1 = r1
  r2 = r2
  r3 = r3
  Requests = {r1, r2, r3}
  Slots = {1, 2, 3}
  None = None
  Empty = Empty
  DefaultId = DefaultId
  old = old
  fresh = fresh
  mail = mail
  images = images
  sessions = sessions
  TicksPerMinute = 75
  Threshold = 1
  SampleSize = 1
  Scenarios <- ExampleScenarios
INVARIANTS
  ListedIsFound
SYMMETRY Symmetry
\* When the requests are answered nothing has to happen.
CHECK_DEADLOCK FALSE
