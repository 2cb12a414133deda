SPECIFICATION Spec
CONSTANTS
  d1 = d1
  d2 = d2
  kMerge = kMerge
  kMark = kMark
  w1 = w1
  w2 = w2
  c1 = c1
  Ids = {d1, d2}
  Keys = {kMerge, kMark}
  KeyOf <- TaskAndMark
  MarkKeys = {kMark}
  MergeKeys = {kMerge}
  Workers = {w1, w2}
  Clients = {c1}
  SampleSize = 1
  Lease = 0
  TypeLease = 1
  StaleAge = 0
  MaxNow = 2
  MaxAttempts = 2
  BackoffBase = 1
  MaxBackoff = 1
SYMMETRY WorkerSymmetry
INVARIANTS
  TypeOK
  DualWriteAgrees
  RunningExpires
  BudgetLeft
  LeaseExclusion
PROPERTIES
  LateUpdatesNeverUnpark
  ImplementsLeases
CHECK_DEADLOCK FALSE
