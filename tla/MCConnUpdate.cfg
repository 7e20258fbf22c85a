\* Two callers and the peer share the update slot: three updates, one
\* signalling packet and one call of Signal.
SPECIFICATION FairSpec
CONSTANTS
  Callers = {c1, c2}
  MaxUpdates = 3
  MaxPkts = 1
  MaxSignals = 1
  Packets <- MCPackets
  None = None
INVARIANTS SlotExclusive AdoptsOwnResult AnsweredOnce
PROPERTIES UpdateEnds
CHECK_DEADLOCK FALSE
