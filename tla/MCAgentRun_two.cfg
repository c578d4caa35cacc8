SPECIFICATION Spec
CONSTANTS
  Callers = {c1, c2}
  Runs = {r1, r2}
  Objects = {o1, o2, o3}
  None = None
  ModelStep = 0
  LastStep = 2
  Retry = 1
  KeepsHistory = {r1, r2}
  Saves = {TRUE}
  MaxFaults = 1
SYMMETRY Symmetric
INVARIANTS CompletedRanEveryStep NoStepSkipped
