SPECIFICATION Spec
CONSTANTS
  UINT_BITS = 5
  ENTRY = 4
  Values <- Numbers
  InitialSizes = {0, 1, 3, 8, 9}
  RacyLifecycle = FALSE
INVARIANTS TypeOK EntriesWhole QueueThere
PROPERTY ImplementsFifoSpec
