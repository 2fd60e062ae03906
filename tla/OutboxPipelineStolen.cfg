SPECIFICATION PipelineSpec
CONSTANTS
  dom = dom
  standIn = standIn
  msg = msg
  meta = meta
  intero = intero
  thread = thread
  user = user
  Ops = {intero}
  Channels = {thread}
  NoChannel = NoChannel
  ChannelsOf <- MCChannelsOf
  KindOf <- MCKindOf
  Dispatchers = {d1}
  None = None
  Limit = 2
  LoopAttempts = 4
  MaxFaults = 0
  JobDispatchers = {j1}
  NoJob = NoJob
  JobLimit = 1
  MaxAttempts = 2
  DeadLetters = {intero}
  ServedBy <- MCServedBy
INVARIANT JobRowDoneMeansEnqueued
CHECK_DEADLOCK FALSE
