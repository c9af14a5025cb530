SPECIFICATION Spec
CONSTANTS
  Tasks = {t1, t2}
  NoTask = NoTask
  connA = connA
  connB = connB
  connZ = connZ
  Conns = {connA, connB, connZ}
  Unbound = {connZ}
  Bucket <- TwoBuckets
  SendReturns <- SendOrError
  RecvCounts = {1}
  TopNs = {}
  MAX_TOP_ADDRS = 2
  MAXACTIVE = 2
  PAGE_LINES = 1
  RADIX_POWERS = {1, 2}
  U32_MOD = 8
  U64_MOD = 16
  MaxBytes <- TwoEach
  RacyLifecycle = FALSE
INVARIANT CountersExact
