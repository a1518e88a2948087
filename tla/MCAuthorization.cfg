SPECIFICATION Spec
CHECK_DEADLOCK FALSE
CONSTANTS
  Names <- MCNames
  Patterns <- MCPatterns
  MaxAllowed = 2
INVARIANTS
  TypeOK
  DeniedWins
  AccessGrowsWithGroups
  StrictAdmitsMembers
  WildcardsAreGlobs
