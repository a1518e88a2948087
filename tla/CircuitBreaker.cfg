SPECIFICATION FairSpec
CONSTANTS
  Callers = {c1, c2, c3, c4}
  FailureThreshold = 3
  SuccessThreshold = 2
  Timeout = 3
INVARIANTS
  TypeOK
  CountersAgree
PROPERTIES
  ImplementsLifecycle
  CallsMoveLifecycle
  Recovers
  OpenIsTemporary
