SPECIFICATION Spec
CONSTANTS
  Callers = {c1, c2}
  Runs = {r1, r2}
  Objects = {o1, o2, o3}
  None = None
  ModelStep = 1
  LastStep = 3
  Retry = 2
  KeepsHistory = {r1, r2}
  Saves = {TRUE}
  MaxFaults = 2
INVARIANTS ReplyOfOwnRun
PROPERTIES CancelIsHonoured
