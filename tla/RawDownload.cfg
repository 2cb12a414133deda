SPECIFICATION FairSpec
CONSTANTS
  Chats = {a}
  Downloaders = {w1, w2}
  Hidden <- EverySecond
  PageSize = 2
  BatchSize = 1
  MaxMessages = 2
  MaxFaults = 1
  MaxErrors = 1
CHECK_DEADLOCK FALSE
INVARIANTS NoHoleBelowCursor NoDuplicatePost ConvertedKept
PROPERTIES DownloadCompletes
