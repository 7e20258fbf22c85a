\* Two connections that share one handle: c1 is closed by its owner, c2 carries
\* PDUs, some of them corrupt, to a slow reader and is killed when they overflow
\* or when one cannot be put together.
SPECIFICATION FairSpec
CONSTANTS
  c1 = c1
  c2 = c2
  Conns = {c1, c2}
  Handles = {h1}
  PktCap = 1
  PduCap = 1
  EvtCap = 1
  Packets <- MCPackets
  Owned = {c1}
  None = None
INVARIANTS PanicNeedsForcedClose RoutedToOwner
PROPERTIES CloseCompletes LoopReturns
CHECK_DEADLOCK FALSE
