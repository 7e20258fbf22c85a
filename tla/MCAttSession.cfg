\* Two changes of the services, two procedures of one plan.  The handle space is
\* as large as the largest database, so that one of them ends at its last handle.
SPECIFICATION SessionSpec
CONSTANTS
  HMax = 29
  DefaultMTU = 23
  ServerRx = 40
  Default <- MCDefault
  Services <- MCServices
  Lengths = {10, 22, 44}
  MTUs = {23, 64}
  Parts <- MCParts
  MaxAdds = 2
  MaxProcs = 2
  Plans <- MCPlans
  maxPreparedWrites = 3
  maxPreparedWriteBytes = 4
  Nil = Nil
INVARIANTS DiscoveryExact LongReadWhole
PROPERTIES ExecuteMatchesParts
CHECK_DEADLOCK FALSE
