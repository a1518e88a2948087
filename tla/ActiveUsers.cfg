SPECIFICATION Spec
CONSTANTS
  Users = {u1}
  Allowed = {u1}
  Homonyms = {}
  Ids = {s1}
  NoId = NoId
  EbsLimit = 2
  Requests = {r1}
  MaxConcurrentSessions = 1
  SessionTimeout = 1
  FailureThreshold = 2
  SuccessThreshold = 1
  CircuitTimeout = 0
PROPERTY ActiveUsersStay
