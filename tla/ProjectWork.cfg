SPECIFICATION WorkSpec
CONSTANTS
  Workers = {w1, w2}
  NoWorker = NoWorker
  Checkpoints = {1, 2}
  Boundaries = {1, 2}
  MaxAttempts = 2
  MaxTurns = 1
  MaxTroubles = 1
  Here = {a, b}
  There = {c}
  Nobody = Nobody
  MaxClaims = 3
  MaxCases = 3
  MaxEvents = 1
  People = {a, b, c}
  Agents = {c}
  Reviewers = {b}
  Policies <- MCPolicies
  Requests = {q1, q2}
  Keys = {k1}
  NoKey = NoKey
  MaxRevisions = 2
  MaxChanges = 1
  Owners = {p}
  NoOwner = NoOwner
  MaxVersions = 2
  MaxWrites = 3
INVARIANTS
  ProjectTypeOK
  ShownIsCurrent
  PulseIsOfTheLastClaim
  OpenIsSupported
  ConflictHasCase
  ApprovedByEnough
  
PROPERTIES
  FinalIsFinal
  ResolvedByPeopleOrEvidence
  SourceIsConfirmed
SYMMETRY Alike
CHECK_DEADLOCK FALSE
