SPECIFICATION Spec
CONSTANTS
  Runs = {r1, r2}
  KeepsHistory = {r1}
  Editor = editor
  None = None
  Overlap = FALSE
  MaxCalls = 1
  MaxStops = 3
  MaxEdits = 1
INVARIANTS CheckpointIsStored MessagesOnceInOrder ConversationIsWhole ErasedStaysErased UsageCovered
PROPERTIES ImplementsRunStore
CHECK_DEADLOCK FALSE
