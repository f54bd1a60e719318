CONSTANTS
  m1 = m1
  m2 = m2
  MediaServers = {m1, m2}
  Nobody = Nobody
  Faults = {"break", "quit", "leave", "crash", "segfault", "race"}
  MaxFaults = 1
  MaxBehind = 1
  MaxEntries = 1
SPECIFICATION FairSpec
INVARIANTS TypeOK SignalAfterAll CountIsOwing
PROPERTIES RoundEnds
