SPECIFICATION Spec
CONSTANTS
  Reports = {r1}
  Risks = {}
  Conflicts = {}
  CaseThread = CaseThread
  NoSignal = NoSignal
  NoPlan = NoPlan
  NoThread = NoThread
  MaxTries = 1
  MaxAttempts = 2
  MaxMoves = 1
  MaxTroubles = 0
INVARIANT BlockersArePublished
CHECK_DEADLOCK FALSE
