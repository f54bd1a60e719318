CONSTANTS
  m1 = m1
  l1 = l1
  MediaServers = {m1}
  LogServers = {l1}
  Refreshers = {"raknet", "cut"}
  MaxLeft = 1
  MaxEntries = 2
  MaxOverlaps = 1
  MaxJobs = 1
  MaxRestarts = 1
SPECIFICATION Spec
INVARIANTS TypeOK  ExitHasCause NothingExtra
PROPERTIES EmptyIsForever
CHECK_DEADLOCK FALSE
