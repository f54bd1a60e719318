CONSTANTS
  t1 = t1
  t2 = t2
  Threads = {t1, t2}
  HoursADay = 2
  LastHour = 2
  OpenFails = TRUE
SPECIFICATION FairSpec
INVARIANTS TypeOK CurrentOpen NoLeak OldFileExcused 
PROPERTIES HourFollows
