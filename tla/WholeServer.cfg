CONSTANTS
  m1 = m1
  l1 = l1
  Nobody = Nobody
  MediaServers = {m1}
  LogServers = {l1}
  NumSpec = 1
  Misreads = FALSE
  Exposed = {2}
  Faults = {"break", "crash"}
  MaxTickets = 2
  MaxFaults = 1
  MaxBehind = 1
  MaxEntries = 1
SPECIFICATION AllSpec
INVARIANTS  CutLogsSplit
