SPECIFICATION FairSpec
CONSTANTS
  Tasks = {t1}
  NoTask = NoTask
  connA = connA
  connB = connB
  connZ = connZ
  Conns = {connA, connB, connZ}
  Unbound = {}
  Bucket <- TwoBuckets
  SendReturns = {1}
  RecvCounts = {1}
  TopNs = {0, 1, 3}
  MAX_TOP_ADDRS = 2
  MAXACTIVE = 2
  PAGE_LINES = 1
  RADIX_POWERS = {1, 2}
  U32_MOD = 8
  U64_MOD = 16
  MaxBytes <- OneLarger
  RacyLifecycle = FALSE
INVARIANTS
  PrintedInWindow TopIsTop
PROPERTIES CallsEnd
