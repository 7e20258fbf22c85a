\* Two senders, two commands and two opcodes: a command may follow an abandoned
\* one of its opcode, or of the other.
SPECIFICATION FairSpec
CONSTANTS
  Senders = {s1, s2}
  OpCodes = {o1, o2}
  MaxCmds = 2
  MaxAllowed = 1
  EvtCap = 1
  BufCap = 2
  None = None
INVARIANTS ErrorBeforeDone
PROPERTIES MismatchExplained SendReturns LoopNeverBlocks
CHECK_DEADLOCK FALSE
