\* One connection: a forced cleanup races the delivery of a packet.
SPECIFICATION Spec
CONSTANTS
  c1 = c0
  c2 = c2
  Conns = {c2}
  Handles = {h1}
  PktCap = 1
  PduCap = 1
  EvtCap = 2
  Packets <- MCPackets
  Owned = {c2}
  None = None
INVARIANTS NeverSendOnClosed
CHECK_DEADLOCK FALSE
