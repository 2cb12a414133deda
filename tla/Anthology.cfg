SPECIFICATION MCSpec
CONSTANTS
  w1 = w1
  w2 = w2
  Workers = {w1, w2}
  MaxDocs = 1
  MaxRuns = 2
  MaxSaves = 1
  MaxLoads = 1
  MaxRetries = 1
  MaxFlight = 2
  MaxFaults = 1
INVARIANTS
  ProcessingIsHeld
  LaterSaveIsKnown
  PollsUncrowded
PROPERTIES
  PageCatchesUp
CHECK_DEADLOCK FALSE
