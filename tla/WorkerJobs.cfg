SPECIFICATION WorkerFairSpec
CONSTANTS
  MaxAttempts = 8
  EarlyAttempts = 4
  RecordExchange = TRUE
  MayLeave = TRUE
  MayDelete = TRUE
  MaxModelFailures = 1
  MaxFaults = 2
  MaxKills = 1
  MaxRedispatches = 1
  Workers = {w1, w2}
  NoWorker = NoWorker
  Checkpoints = {1, 2}
  Boundaries = {2}
  MaxJobAttempts = 2
  MaxTurns = 0
  MaxJobTroubles = 1
  MaxRequestAttempts = 3
  MaxRevision = 2
  MaxEvidence = 2
  MayWithdraw = TRUE
  MaxTroubles = 2
  Endpoints = {b1, b2}
  MaxMessages = 2
  MaxPushAttempts = 2
  MaxFailures = 1
  Reports = {r1}
  Risks = {k1}
  Conflicts = {c1}
  CaseThread = CaseThread
  NoSignal = NoSignal
  NoPlan = NoPlan
  NoThread = NoThread
  MaxTries = 2
  MaxMoves = 1
INVARIANTS
  WorkerTypeOK
  AnswerIsTheExchange
  CasesAreCurrent
  AnsweredIsShown
PROPERTIES
  SettledStays
  SignalEventuallyRaised
  CompleteIsFinal
  QuestionEventuallyAnswered
  EventuallySettled
  RequestEventuallyClosed
  EventuallyPushed
CHECK_DEADLOCK FALSE
