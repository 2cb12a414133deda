SPECIFICATION FairSpec
CONSTANTS
  Docs = {d1, d2}
  Labels <- FourLabels
  Normal <- Spellings
  Near <- OneNear
  Groupings <- Topics
  ChunkSize = 2
  Verdicts = 2
  MaxSaves = 2
  MaxFaults = 1
CHECK_DEADLOCK FALSE
INVARIANTS WellRooted
PROPERTIES MarksResolved StaysResolved EveryDocMerged
