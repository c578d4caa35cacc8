SPECIFICATION FairSpec
CONSTANTS
  Callers = {c1}
  Runs = {r1, r2}
  Objects = {o1, o2}
  None = None
  ModelStep = 0
  LastStep = 2
  Retry = 2
  KeepsHistory = {r1, r2}
  Saves = {TRUE, FALSE}
  MaxFaults = 2
PROPERTIES EveryCallEnds CancelIsAnswered StoredProgressIsKept
