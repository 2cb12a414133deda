SPECIFICATION FairSpec
CONSTANTS
  download = download
  download2 = download2
  ner = ner
  n1 = n1
  tags = tags
  rank = rank
  w1 = w1
  w2 = w2
  p1 = p1
  p2 = p2
  b1 = b1
  Workers = {w1, w2}
  WholeTypes = {download, download2}
  CountedTypes = {tags, ner}
  RankTypes = {rank}
  LateTypes = {ner}
  After <- MCAfter
  Items = {p1, p2, b1, n1}
  Brings <- MCBrings
  TypeOf <- MCTypeOf
  BatchSize = 1
  FirstTasks = {download}
  Scenes <- MCScenes
  MaxAttempts = 2
  BackoffBase = 1
  MaxBackoff = 1
INVARIANTS
  NoOrphans
  ItemExclusion
  NoDoubleCount
PROPERTIES
  EveryItemDone
  EveryTaskEnds
CHECK_DEADLOCK FALSE
