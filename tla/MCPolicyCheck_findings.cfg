SPECIFICATION Spec
CONSTANTS
  Calls = {c1, c2}
  m = m  n = n  mm = mm  nn = nn  x = x  bad = bad
  u = u  v = v  r = r  h = h  g = g
  Words = {m, n, mm, nn, x, bad}
  Spoken = {bad}
  Prompts <- ThreePrompts
  UserPolicies <- Chain3
  AgentPolicies <- Chain2
  Kind <- TheKind
  Finds <- TheFinds
  Cover <- TheCover
  LoopCount = 1
  Sharings <- AllSharings
  MaxFaults = 0
CHECK_DEADLOCK FALSE
INVARIANTS ModelIsAskedProcessed ReturnedIsChecked RestoredIsOriginal
