SPECIFICATION Spec
CONSTANTS
  Callers = {c1, c2, c3}
  MaxConcurrent = 1
  RetryAttempts = 2
  None = None
  MaxActive = 3
  Uses = {}
SYMMETRY Symmetric
INVARIANTS StateReflectsUse OneAttemptIsHeard
PROPERTIES ImplementsSlots
