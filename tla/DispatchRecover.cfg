CONSTANTS
  m1 = m1
  m2 = m2
  l1 = l1
  l2 = l2
  Nobody = Nobody
  MediaServers = {m1}
  LogServers = {l1}
  NumSpec = 1
  TypeOf <- Live
  TailIds <- HitsFirst
  NewRows <- NoNew
  Inputs = {"upload"}
  Faults = {"break", "quit", "leave", "crash", "segfault", "race"}
  MaxRows = 1
  MaxSingles = 1
  MaxEntries = 1
  MaxFaults = 1
SPECIFICATION FairSpec
PROPERTIES SinglesFinish UploadReaches
