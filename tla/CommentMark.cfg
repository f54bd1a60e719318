CONSTANTS
  m1 = m1
  m2 = m2
  l1 = l1
  l2 = l2
  Nobody = Nobody
  MediaServers = {m1}
  LogServers = {l1}
  NumSpec = 1
  TypeOf <- Live
  TailIds <- NoTail
  NewRows <- NoNew
  Inputs = {}
  Faults = {}
  MaxRows = 1
  MaxSingles = 1
  MaxEntries = 1
  MaxFaults = 0
SPECIFICATION Spec
PROPERTY SentIsMarked
