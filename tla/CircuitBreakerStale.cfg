SPECIFICATION Spec
CONSTANTS
  Callers = {c1, c2}
  FailureThreshold = 1
  SuccessThreshold = 1
  Timeout = 1
PROPERTY OnlyProbesClose
