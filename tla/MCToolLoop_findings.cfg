SPECIFICATION Spec
CONSTANTS
  s = s  p = p  x = x
  Tools = {s, p, x}
  Setups <- AllSetups
  ToolCallLimit = 2
  MaxRounds = 2
  None = None  Empty = Empty  Text = Text
  MaxRuns = 2
  MaxContinuations = 2
  MaxFaults = 1
CHECK_DEADLOCK FALSE
\* What the documentation says and the code does not do; each by itself.
INVARIANTS PauseKeepsResults AnswersFollowCalls NotToldTwice GivenResultsAreTold LimitHolds
           LimitIsPerRun ContinuedRunHasTools
