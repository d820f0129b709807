CONSTANTS
  v4 = v4
  v6 = v6
  None = None
  Width = 3
  Families = {v4, v6}
  Patterns <- MCPatterns
  MaxPatterns = 3
SPECIFICATION Spec
INVARIANTS TypeOK MatchesPatterns
CHECK_DEADLOCK FALSE
