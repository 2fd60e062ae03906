SPECIFICATION Spec
CONSTANTS
  msg = msg
  meta = meta
  dom = dom
  thread = thread
  user = user
  Ops = {msg, dom}
  Channels = {thread, user}
  NoChannel = NoChannel
  ChannelsOf <- MCChannelsOf
  KindOf <- MCKindOf
  Dispatchers = {d1, d2}
  None = None
  Limit = 2
  LoopAttempts = 2
  MaxFaults = 2
INVARIANTS
  RowDoneMeansAllServed
  DoneMeansPushEnqueued
  AllServedMeansRowDone
PROPERTY ImplementsDelivery
CHECK_DEADLOCK FALSE
SYMMETRY DispatcherSymmetry
