SPECIFICATION FairSpec
CONSTANTS
  Users = {u1, u2}
  Allowed = {u1}
  Homonyms = {}
  Ids = {s1, s2}
  NoId = NoId
  EbsLimit = 1
  Requests = {r1, r2}
  MaxConcurrentSessions = 1
  SessionTimeout = 1
  FailureThreshold = 2
  SuccessThreshold = 2
  CircuitTimeout = 0
INVARIANTS
  TypeOK
PROPERTIES
  ImplementsSignOn
  StraysForCause
  CallbackEnds
  ExpiredIsDropped
