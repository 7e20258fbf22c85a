\* One notifier at a time, which may be asked for again; two indications.  A
\* plain request is left out: a CCCD write that changes nothing is one.
SPECIFICATION PromptSpec
CONSTANTS
  Notifiers = {n1}
  MTUs = {23, 64}
  MaxMTU = 64
  PropSets = {{"ntf", "ind"}, {"ntf"}}
  PeerOps = {"mtu", "ccc", "short", "cmd", "cccCmd"}
  Spurious = TRUE
  InCap = 1
  MaxInds = 2
  None = None
INVARIANTS StragglerOnlyWhileClosing BuffersFollowMTU SubscriptionsMatch
PROPERTIES ConfirmedReturns
CHECK_DEADLOCK FALSE
