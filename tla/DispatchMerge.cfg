CONSTANTS
  m1 = m1
  m2 = m2
  l1 = l1
  l2 = l2
  Nobody = Nobody
  MediaServers = {m1}
  LogServers = {l1}
  NumSpec = 1
  TypeOf <- Live
  TailIds <- HitsSecond
  NewRows <- Pair
  Inputs = {"bad"}
  Faults = {"break", "crash"}
  MaxRows = 3
  MaxSingles = 2
  MaxEntries = 1
  MaxFaults = 1
SPECIFICATION Spec
INVARIANTS TypeOK MergeCoversSplit
PROPERTIES FinishedFinal TicketsLive
