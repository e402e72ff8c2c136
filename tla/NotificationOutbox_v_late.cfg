SPECIFICATION Spec
CONSTANTS
  Threads = {t1}
  Rows = {q1, q2}
  Sweeps = {w1, w2}
  MaxMessages = 2
  Nobody = Nobody
  Debounce = 0
  Lease = 1
  RetryBase = 1
  Hour = 1
  Cap = 1
  Elsewhere = {0, 1}
  SweepTime = 1
  Choosy = TRUE
  Handovers = TRUE
INVARIANT WindowIncludesEvent
