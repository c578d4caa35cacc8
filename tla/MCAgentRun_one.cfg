SPECIFICATION Spec
CONSTANTS
  Callers = {c1}
  Runs = {r1, r2}
  Objects = {o1, o2}
  None = None
  ModelStep = 1
  LastStep = 3
  Retry = 2
  KeepsHistory = {r1}
  Saves = {TRUE}
  MaxFaults = 3
SYMMETRY SymmetricButRuns
INVARIANTS ReplyOfOwnRun StopIsDurable
PROPERTIES CancelIsHonoured ImplementsLifecycle
