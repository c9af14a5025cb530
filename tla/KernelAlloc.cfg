SPECIFICATION FairSpec
CONSTANTS
  ALLOC_TOTAL_BLOCKS = 4
  ALLOC_BLOCK_SIZE = 4
  MAX_ALLOCATIONS = 3
  SIZE_MOD = 32
  MAP_WIDTH = 3
  Callers = {c1, c2}
  NoCaller = NoCaller
  RequestSizes = {0, 4, 5, 31}
  RacyLifecycle = FALSE
INVARIANTS
  TypeOK BitmapMatchesTable RegionsDisjoint GrantsBacked MemoryThere StatsExact
PROPERTIES CallsReturn ImplementsAllocSpec
