SPECIFICATION ChatSpec
CONSTANTS
  t1 = t1
  t2 = t2
  s1 = s1
  s2 = s2
  Tabs = {t1, t2}
  JobSlots = {s1, s2}
  First <- MCFirst
  Chosen = {1}
  MaxChats = 3
  MaxQuestions = 3
  MaxJobs = 3
  MaxFailures = 1
INVARIANTS
  ShownIsStored
  ForkAsSeen
PROPERTIES
  HistoryKept
SYMMETRY Symmetry
CHECK_DEADLOCK FALSE
