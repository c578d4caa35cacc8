SPECIFICATION FairSpec
CONSTANTS
  Calls = {c1, c2}
  m = m  n = n  mm = mm  nn = nn  x = x  bad = bad
  u = u  v = v  r = r  h = h  g = g
  Words = {m, n, mm, nn, x, bad}
  Spoken = {bad}
  Prompts <- ThePrompts
  UserPolicies <- Chain3
  AgentPolicies <- Chain2
  Kind <- TheKind
  Finds <- TheFinds
  Cover <- TheCover
  LoopCount = 1
  Sharings <- OneAgent
  MaxFaults = 1
CHECK_DEADLOCK FALSE
INVARIANTS ModelIsAsked AnswersAreChecked OriginalsComeBack
PROPERTIES EveryCheckEnds
