\* Two callers, two calls and one Send that times out: dials of two peers,
\* Connect's scan and dial, and advertising, which one central interrupts.
SPECIFICATION FairSpec
CONSTANTS
  Callers = {c1, c2}
  Peers = {p1, p2}
  Calls = {"dial", "connect", "advertise"}
  MaxCalls = 2
  MaxTmo = 1
  MaxSlaves = 1
  None = None
INVARIANTS PeerIsAsked QuietIsIdle
PROPERTIES ScanRecovers CallsReturn
CHECK_DEADLOCK FALSE
