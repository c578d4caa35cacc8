SPECIFICATION Spec
CONSTANTS
  Runs = {r1, r2}
  KeepsHistory = {r1, r2}
  Editor = editor
  None = None
  Overlap = FALSE
  MaxCalls = 2
  MaxStops = 2
  MaxEdits = 1
CHECK_DEADLOCK FALSE
INVARIANTS RoundsOnceInOrder ErasedInRounds EveryMessageOnce UsageAddsUp
