SPECIFICATION Spec
CONSTANTS
  Callers = {c1, c2}
  MaxConcurrent = 2
  RetryAttempts = 1
  None = None
  MaxActive = 3
  Uses = {}
INVARIANTS FailureIsRaised OneAttemptIsHeard StateReflectsUse
PROPERTIES FailureLeavesError
