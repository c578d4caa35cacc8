SPECIFICATION FairSpec
CONSTANTS
  a = a  b = b  c = c  e = e  z = z  x = x  y = y
  Nodes = {a, b, c, e, z, x, y}
  Decisions = {x, y}
  Graphs <- Whole
  MaxRuns = 2
  NoNode = NoNode
CHECK_DEADLOCK FALSE
INVARIANTS RunsInOrder ReturnsItsOutputs
PROPERTIES EveryRunIsWhole
