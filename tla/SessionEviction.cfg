SPECIFICATION Spec
CONSTANTS
  Users = {u1}
  Ids = {s1, s2, s3}
  NoId = NoId
  UseDBC = TRUE
  Homonyms = {}
  EbsLimit = 1
  Requests = {r1, r2}
  MaxConcurrentSessions = 1
  SessionTimeout = 1
  EnableAutoRefresh = TRUE
PROPERTY EvictionTerminates
