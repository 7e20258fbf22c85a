\* Two connections compete for one credit with PDUs of up to two fragments.
SPECIFICATION PromptSpec
CONSTANTS
  Buffers = {b1}
  Conns = {c1, c2}
  Writers = {w1, w2}
  MaxFrags = 2
  None = None
INVARIANTS TypeOK Partition NoCreditLeak TrainsDoNotInterleave
PROPERTIES ImplementsCreditPool TeardownCompletes WriteReturns
CHECK_DEADLOCK FALSE
