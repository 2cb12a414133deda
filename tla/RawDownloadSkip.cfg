SPECIFICATION Spec
CONSTANTS
  Chats = {a}
  Downloaders = {w1}
  Hidden <- EverySecond
  PageSize = 1
  BatchSize = 1
  MaxMessages = 2
  MaxFaults = 0
  MaxErrors = 1
CHECK_DEADLOCK FALSE
INVARIANT NothingSkipped
