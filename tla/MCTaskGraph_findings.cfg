SPECIFICATION Spec
CONSTANTS
  a = a  b = b  c = c  e = e  z = z  x = x  y = y
  Nodes = {a, b, c, e, z, x, y}
  Decisions = {x, y}
  Graphs <- Whole
  MaxRuns = 2
  NoNode = NoNode
CHECK_DEADLOCK FALSE
\* What the documentation says and the code does not do; each by itself, the
\* last three with Graphs <- OneSided, Bare, Meeting.
INVARIANTS OverlappingRunsReturnTheirs OutputsAreAnswers DecisionSeesPredecessor
           NothingIsLeftOut AnswersAreFollowed ChosenIsExecuted
