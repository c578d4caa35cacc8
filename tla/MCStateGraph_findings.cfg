SPECIFICATION Spec
CONSTANTS
  a = a  b = b  c = c
  Nodes = {a, b, c}
  START = START
  END = END
  None = None
  SendObject = SendObject
  Graphs <- AllGraphs
  Durabilities = {"sync", "async", "exit"}
  Savers = {"memory", "sqlite"}
  Calls = {i1}
  Blocking = TRUE
  RecursionLimit = 4
  MaxInvocations = 3
  MaxFaults = 1
  MaxEdits = 1
CHECK_DEADLOCK FALSE
\* What the documentation says and the code does not do; each by itself.
INVARIANTS NotStoppedTwice SendsKeepTheirState LatestIsNewest EditedGoesOn
PROPERTIES GotoIsFollowed NothingLeftBehind AskingPauses LimitIsForSupersteps ShownIsCurrent
