\* Any number of calls by one caller, of which two reach the wire: the second
\* may meet a transaction that calls in between have failed to resolve.  The
\* transmit buffer keeps further callers out.
SPECIFICATION FairSpec
CONSTANTS
  Callers = {p1}
  MaxReqs = 2
  InCap = 1
  AsyncCap = 1
  MTUs = {23, 64}
  PeerOps = {"stray", "mtuReq", "ntf", "runt"}
  None = None
INVARIANTS NoStaleResponse BufferFitsMTU
PROPERTIES DroppedBehindStray RequestReturns LoopNeverStalls
CHECK_DEADLOCK FALSE
