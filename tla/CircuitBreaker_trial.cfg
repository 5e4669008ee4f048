CONSTANTS
  Calls = {c1, c2, c3}
  FailureThreshold = 3
  ResetTimeout = 2
  SuccessThreshold = 2
  FailureCap = 3
SPECIFICATION Spec
INVARIANTS
  SingleTrial
