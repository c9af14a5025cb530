SPECIFICATION Spec
CONSTANTS
  HASH_TABLE_SIZE = 2
  ArraySizes = {0, 1, 4}
  Searches = {0, 2, 3, 9}
  BucketIds = {0, 1, 2}
  RADIX = 2
  ROOM = 4
  RandomFrom = {1, 2, 7}
  RacyLifecycle = FALSE
INVARIANTS TypeOK TableWhole SearchExact
PROPERTY DumpExact
