SPECIFICATION Spec
SYMMETRY Symmetry
CONSTANTS
  Users = {u1, u2}
  Ids = {s1, s2, s3, s4}
  NoId = NoId
  UseDBC = TRUE
  Homonyms = {}
  EbsLimit = 1
  Requests = {r1, r2}
  MaxConcurrentSessions = 2
  SessionTimeout = 1
  EnableAutoRefresh = TRUE
INVARIANTS
  TypeOK
  IndexAgrees
  LimitRespected
  CleanupIsCurrent
PROPERTIES
  LosesOnlyOldest
  TrackedByLoginOnly
  ImplementsTable
