CONSTANTS
  Hours = 2
  Hour = 3
  Merge = 2
  UploadAt = 1
  LastNumber = 3
  QueueMax = 3
  Paces = {TRUE, FALSE}
  Crashes = 1
  LastTime = 13
SPECIFICATION FairSpec
INVARIANTS TypeOK IterOkDefined  CutEveryMerge
PROPERTIES RollsForward OneUploadPerDay CutHappens UploadHappens
