SPECIFICATION Spec
CONSTANTS
  Callers = {c1, c2}
  MaxConcurrent = 1
  RetryAttempts = 1
  None = None
  MaxActive = 3
  Uses = {"stream", "close", "drop"}
INVARIANTS LimitRespected RefusedOnlyWhenFull
