SPECIFICATION Spec
CONSTANTS
  Runs = {r1, r2}
  KeepsHistory = {r1, r2}
  Editor = editor
  None = None
  Overlap = TRUE
  MaxCalls = 2
  MaxStops = 2
  MaxEdits = 1
CHECK_DEADLOCK FALSE
INVARIANTS CheckpointIsStored ErasedStaysErased
