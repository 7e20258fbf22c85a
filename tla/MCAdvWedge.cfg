\* The smallest ring whose search, once the ring is full, goes round for ever.
SPECIFICATION FairReportsSpec
CONSTANTS
  Addrs = {a1, a2}
  HistLen = 3
  QueueCap = 1
  MaxGens = 1
  Nil = Nil
PROPERTIES SearchEnds
CHECK_DEADLOCK FALSE
