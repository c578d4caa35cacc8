SPECIFICATION FairSpec
CONSTANTS
  s = s  p = p  x = x
  Tools = {s, p, x}
  Setups <- AllSetups
  ToolCallLimit = 2
  MaxRounds = 2
  None = None  Empty = Empty  Text = Text
  MaxRuns = 1
  MaxContinuations = 1
  MaxFaults = 1
CHECK_DEADLOCK FALSE
INVARIANTS AnsweredOnce EffectsAreTold RequestsAreBounded LimitHoldsButForABatch
PROPERTIES EveryRunEnds
