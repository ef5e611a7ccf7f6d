SPECIFICATION FairSpec
CONSTANTS
  s1 = s1  s2 = s2  c1 = c1
  Services = {s1, s2}
  ClientOf <- OneClient
  Edits = {e1}
  LastDate = 3
  MaxEdits = 1
  MaxFaults = 2
  MaxQueue = 1
  MaxOverdue = 2
  MaxCount = 2
INVARIANTS TypeOK SkippedOnlyByMaintenance TwiceOnlyIfRedone
PROPERTIES CatchesUp
