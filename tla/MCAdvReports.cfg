\* A ring of five for three addresses: it fills and wraps, and scans reset it.
SPECIFICATION ReportsSpec
CONSTANTS
  Addrs = {a1, a2, a3}
  HistLen = 5
  QueueCap = 1
  MaxGens = 2
  Nil = Nil
INVARIANTS HistoryIsRecent
PROPERTIES PairedWithLatest
CHECK_DEADLOCK FALSE
