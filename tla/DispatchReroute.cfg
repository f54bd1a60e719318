CONSTANTS
  m1 = m1
  m2 = m2
  l1 = l1
  l2 = l2
  Nobody = Nobody
  MediaServers = {m1}
  LogServers = {l1, l2}
  NumSpec = 1
  TypeOf <- Live
  TailIds <- HitsFirst
  NewRows <- NoNew
  Inputs = {}
  Faults = {"crash", "ack"}
  MaxRows = 2
  MaxSingles = 2
  MaxEntries = 1
  MaxFaults = 1
SPECIFICATION Spec
INVARIANT AssignedToLogServer
 
SYMMETRY Symmetric
