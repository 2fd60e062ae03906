SPECIFICATION Spec
CONSTANTS
  MaxAttempts = 3
  EarlyAttempts = 2
  RecordExchange = TRUE
  MayLeave = TRUE
  MayDelete = FALSE
  MaxModelFailures = 0
  MaxFaults = 0
  MaxKills = 0
  MaxRedispatches = 0
INVARIANT DeadIsVisible
CHECK_DEADLOCK FALSE
