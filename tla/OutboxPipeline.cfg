SPECIFICATION PipelineFairSpec
CONSTANTS
  msg = msg
  meta = meta
  dom = dom
  standIn = standIn
  intero = intero
  thread = thread
  user = user
  Ops = {msg, standIn}
  Channels = {thread, user}
  NoChannel = NoChannel
  ChannelsOf <- MCChannelsOf
  KindOf <- MCKindOf
  Dispatchers = {d1}
  None = None
  Limit = 2
  LoopAttempts = 4
  MaxFaults = 2
  JobDispatchers = {j1, j2}
  NoJob = NoJob
  JobLimit = 1
  MaxAttempts = 2
  DeadLetters = {standIn}
  ServedBy <- MCServedBy
INVARIANTS
  PipelineTypeOK
  ReservedRowDoneMeansEnqueued
PROPERTIES
  EventuallyServed
CHECK_DEADLOCK FALSE
