SPECIFICATION KBFairSpec
CONSTANTS
  a = a  b = b  d1 = d1  d2 = d2  t1 = t1  t2 = t2  t3 = t3
  Tasks = {t1, t2, t3}
  Bases = {a}
  Documents = {d1, d2}
  None = None
  Base <- AllAskA
  Sources <- OfBoth
  Deletable = {d1}
  Interruptions = {"cancel", "crash", "close"}
  MaxFailures = 2
CHECK_DEADLOCK FALSE
INVARIANTS AnswersAreWhole
PROPERTIES EveryRequestEnds
