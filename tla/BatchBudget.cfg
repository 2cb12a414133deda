SPECIFICATION Spec
CONSTANTS
  p1 = p1
  p2 = p2
  b1 = b1
  b2 = b2
  b3 = b3
  b4 = b4
  r1 = r1
  r2 = r2
  r3 = r3
  r4 = r4
  w1 = w1
  w2 = w2
  Workers = {w1, w2}
  Posts = {p1, p2}
  Batches = {b1, b2, b3, b4}
  Raws = {r1, r2, r3, r4}
  PerBatch = 1
  Scenes <- QuietScene
  MaxAttempts = 3
  BackoffBase = 1
  MaxBackoff = 1
INVARIANTS
  NothingFailsNothingDies
CHECK_DEADLOCK FALSE
