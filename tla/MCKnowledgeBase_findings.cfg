SPECIFICATION KBSpec
CONSTANTS
  a = a  b = b  d1 = d1  d2 = d2  t1 = t1  t2 = t2  t3 = t3
  Tasks = {t1, t2, t3}
  Bases = {a, b}
  Documents = {d1, d2}
  None = None
  Base <- OneAsksB
  Sources <- OfOneEach
  Deletable = {}
  Interruptions = {"cancel", "crash", "close"}
  MaxFailures = 2
CHECK_DEADLOCK FALSE
INVARIANTS SearchedIsWhole SourcesAreIndexed ReadyIsConnected
PROPERTIES OnlyPartsAreDeleted
