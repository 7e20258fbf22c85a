\* A caller and the dispatch goroutine, three calls and two notifications.
SPECIFICATION FairSpec
CONSTANTS
  Callers = {c1}
  Chars = {v1}
  MaxOps = 3
  MaxNtf = 2
  None = None
INVARIANTS LocalMatchesPeer AtMostOnceMore
PROPERTIES CallsReturn
CHECK_DEADLOCK FALSE
