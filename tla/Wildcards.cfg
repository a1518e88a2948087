SPECIFICATION Spec
CHECK_DEADLOCK FALSE
CONSTANTS
  Names <- MCNames
  Patterns <- MCPatterns
  MaxAllowed = 1
INVARIANT DocumentedWildcardsAdmit
