SPECIFICATION Spec
CONSTANTS
  Here = {a, b, c}
  There = {d}
  Nobody = Nobody
  MaxClaims = 3
  MaxCases = 3
  MaxEvents = 0
INVARIANT OneCasePerConflict
