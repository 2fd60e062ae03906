SPECIFICATION Spec
CONSTANTS
  NoCache = NoCache
  StartLoaded = TRUE
  PageLimit = 1
  MaxMessages = 2
  MaxRevision = 1
  MaxDeletes = 0
  MaxFaults = 0
  MaxDrops = 1
  MaxTouches = 0
INVARIANT NoMessageLost
CHECK_DEADLOCK FALSE
