SPECIFICATION ClientsSpec
CONSTANTS
  Clients = {c1, c2, c3, c4}
  NoClient = NoClient
  Views = {"chat", "typing"}
  FollowsStatus = {"chat"}
  MaxFlaps = 2
  MaxFailures = 2
  MaxErrors = 1
  NoCache = NoCache
  StartLoaded = FALSE
  PageLimit = 1
  MaxMessages = 2
  MaxRevision = 1
  MaxDeletes = 1
  MaxFaults = 1
  MaxDrops = 1
  MaxTouches = 1
  Calls = {a, b, c, f}
  Reports = {a, b, c}
  Terminal = {}
  Rejected = {b, c}
  Elsewhere = {c}
  Torn = Torn
  MaxEvents = 2
  MaxRequestFailures = 1
  MaxKills = 1
  Links = {1, 2}
  NoMessage = NoMessage
  MaxPreviewAttempts = 2
  MaxTroubles = 1
INVARIANTS
  ClientsTypeOK
  StatusIsTrue
  ConsumersCounted
  LiveThreadIsSubscribed
  CacheIsPast
  NoOtherMessageLost
  ReportsAreTrue
PROPERTY
  FlushIsFIFO
CHECK_DEADLOCK FALSE
