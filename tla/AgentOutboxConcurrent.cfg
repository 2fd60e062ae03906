SPECIFICATION Spec
CONSTANTS
  a = a
  Calls = {a, b, c, d}
  Reports = {a, b, c, d}
  Terminal = {}
  Rejected = {}
  ProcessOf <- OneProcess
  Torn = Torn
  MaxEvents = 4
  MaxFailures = 2
  MaxKills = 0
INVARIANT QueuedIsAccounted
CHECK_DEADLOCK FALSE
