SPECIFICATION FairSpec
CONSTANTS
  i1 = i1
  i2 = i2
  e1 = e1
  e2 = e2
  t1 = t1
  t2 = t2
  s1 = s1
  s2 = s2
  s3 = s3
  s4 = s4
  s5 = s5
  Items = {i1, i2}
  Workers = {e1, e2}
  Tokens = {t1, t2}
  TokenOf <- TwoTokens
  Stamps = {s1, s2, s3, s4, s5}
  Scenes <- MCScenes
INVARIANTS
  DoneSaved
  ClaimsExclude
  TaskOutlivesItems
PROPERTIES
  LateResultRejected
  EveryItemDone
CHECK_DEADLOCK FALSE
