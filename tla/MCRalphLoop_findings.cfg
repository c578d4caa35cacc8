SPECIFICATION Spec
CONSTANTS
  i = i  j = j  s = s  t = t
  Items = {i, j}
  Covers <- Overlaps
  Specs = {s, t}
  Plans <- OpenPlans
  Contents <- Written
  Slots = {1, 2}
  NoCall = NoCall
  MaxIterations = 2
  MaxCalls = 2
  MaxRuns = 2
CHECK_DEADLOCK FALSE
\* What the documentation says and the code does not do; each by itself.
INVARIANTS PendingIsCompletable IterationsHaveAPrompt
PROPERTIES NothingIsForgotten CompletedMeansMarked SuccessIsAMark MarksWhatItNames CompletedIsReported
