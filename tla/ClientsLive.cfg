SPECIFICATION ClientsFairSpec
CONSTANTS
  Clients = {c1, c2, c3, c4, c5}
  NoClient = NoClient
  Views = {"chat"}
  FollowsStatus = {"chat"}
  MaxFlaps = 1
  MaxFailures = 2
  MaxErrors = 1
  NoCache = NoCache
  StartLoaded = TRUE
  PageLimit = 1
  MaxMessages = 3
  MaxRevision = 1
  MaxDeletes = 0
  MaxFaults = 2
  MaxDrops = 0
  MaxTouches = 0
  Calls = {a, b, f}
  Reports = {a, b}
  Terminal = {}
  Rejected = {b}
  Elsewhere = {}
  Torn = Torn
  MaxEvents = 2
  MaxRequestFailures = 3
  MaxKills = 1
  Links = {1, 2}
  NoMessage = NoMessage
  MaxPreviewAttempts = 2
  MaxTroubles = 1
PROPERTIES
  EventuallyLiveAgain
  EventuallyRendered
  EventuallyAccounted
  ImplementsPromise
CHECK_DEADLOCK FALSE
