------------------------- MODULE KernelAllocProofs -------------------------
(***************************************************************************)
(* Safety of the bitmap allocator for every pool size, block size, table   *)
(* size, size_t width, set of callers and set of requests, provided the    *)
(* parameter files are used between the end of init and the start of exit. *)
(***************************************************************************)
EXTENDS KernelAlloc, SequenceTheorems, FiniteSetTheorems, FunctionTheorems,
        WellFoundedInduction, TLAPS

\* A caller is in the allocator only while it is live, and the lock belongs to
\* the caller that scans or commits.
LockInv ==
  \A c \in Callers :
    /\ pc[c] # "idle" => phase = "live"
    /\ pc[c] \in {"scan", "commit"} <=> lock = c
    /\ pc[c] \in {"scan", "commit"} =>
         bytes[c] > 0 /\ num_blocks[c] = NumBlocks(bytes[c])
    /\ pc[c] = "alloc" => num_blocks[c] = NumBlocks(bytes[c])
    /\ pc[c] = "alloc" => i[c] = 0 /\ count[c] = 0
    /\ pc[c] = "idle" => i[c] = 0 /\ count[c] = 0
    /\ pc[c] = "free" => i[c] = 0 /\ count[c] = 0

\* What exists in each phase of the loading process.
PhaseInv ==
  /\ phase \in {"absent", "loading", "fields", "failed", "nobitmap", "gone"} => heap = {}
  /\ phase \in {"bitmap", "nopool"} => heap = {"bitmap"}
  /\ phase = "live" => heap = {"bitmap", "pool"}
  /\ phase \in {"fields", "bitmap", "live"} => total_blocks = ALLOC_TOTAL_BLOCKS
  /\ phase \notin {"live", "nopool", "nobitmap"} => allocations = <<>>
  /\ phase \notin {"live", "nopool"} => bitmap = {}
  /\ phase # "live" => granted = {}

\* Recorded allocations lie in the pool.
RecordsInv ==
  \A k \in Table :
    /\ allocations[k].ptr = allocations[k].start_block
    /\ allocations[k].start_block + allocations[k].num_blocks <= ALLOC_TOTAL_BLOCKS

DisjointInv ==
  \A j, k \in Table : j # k =>
    \A b \in Blocks : ~(b \in Region(allocations[j]) /\ b \in Region(allocations[k]))

BitmapInv ==
  phase = "live" =>
    \A b \in Blocks : b \in bitmap <=> \E k \in Table : b \in Region(allocations[k])

\* bm_find_free_region: the count blocks below i are free; a region that was
\* found is free and inside the pool.
ScanInv ==
  \A c \in Callers :
    /\ pc[c] = "scan" =>
         /\ count[c] <= i[c]
         /\ count[c] > 0 => start[c] = i[c] - count[c]
         /\ \A b \in Blocks : i[c] - count[c] <= b /\ b < i[c] => b \notin bitmap
         /\ num_blocks[c] > 0 => count[c] < num_blocks[c]
    /\ pc[c] = "commit" =>
         /\ num_blocks[c] >= 1
         /\ start[c] + num_blocks[c] <= ALLOC_TOTAL_BLOCKS
         /\ \A b \in Blocks : start[c] <= b /\ b < start[c] + num_blocks[c] => b \notin bitmap

\* A run of n blocks from s on has a block that is taken.
Blocked(s, n) == \E b \in bitmap : s <= b /\ b < s + n

\* The search is first-fit: it has counted all free blocks before i, and every
\* run that it has passed is blocked.
FirstFit ==
  \A c \in Callers :
    /\ pc[c] = "scan" =>
         /\ count[c] < i[c] => i[c] - count[c] - 1 \in bitmap
         /\ num_blocks[c] > 0 =>
              \A s \in Blocks : s + num_blocks[c] <= i[c] => Blocked(s, num_blocks[c])
    /\ pc[c] = "commit" => \A s \in Blocks : s < start[c] => Blocked(s, num_blocks[c])

\* The table, the bitmap and the history agree.
TableInv == /\ PhaseInv /\ RecordsInv /\ DisjointInv /\ BitmapInv
            /\ GrantsBacked /\ TableBounded

IInv == TypeOK /\ LockInv /\ ScanInv /\ TableInv
-----------------------------------------------------------------------------
\* Division rounds down, for every positive divisor.
LEMMA DivBounds ==
  ASSUME NEW x \in Nat, NEW d \in Nat \ {0}
  PROVE  /\ x \div d \in Nat
         /\ (x \div d) * d <= x
         /\ x < (x \div d) * d + d
  BY Z3

\* A nonzero number of blocks is enough for the request, also when the
\* addition in allocator_alloc wraps around.
LEMMA NumBlocksEnough ==
  ASSUME NEW b \in 1 .. (SIZE_MOD - 1), NumBlocks(b) >= 1
  PROVE  b <= NumBlocks(b) * ALLOC_BLOCK_SIZE
<1> DEFINE s == b + ALLOC_BLOCK_SIZE - 1
           m == s % SIZE_MOD
<1>1. s \in Nat /\ SIZE_MOD \in Nat \ {0} /\ ALLOC_BLOCK_SIZE \in Nat \ {0}
  BY AllocAssumption
<1>2. ALLOC_BLOCK_SIZE <= SIZE_MOD
  <2>1. ALLOC_BLOCK_SIZE <= (ALLOC_TOTAL_BLOCKS + 1) * ALLOC_BLOCK_SIZE
    BY AllocAssumption, Z3
  <2> QED BY <2>1, AllocAssumption, Z3
<1>3. CASE s < SIZE_MOD
  <2>1. m = s
    BY <1>1, <1>3
  <2>2. s < (s \div ALLOC_BLOCK_SIZE) * ALLOC_BLOCK_SIZE + ALLOC_BLOCK_SIZE
    BY <1>1, DivBounds
  <2>3. s \div ALLOC_BLOCK_SIZE \in Nat
    BY <1>1, DivBounds
  <2> QED BY <2>1, <2>2, <2>3, <1>1, Z3 DEF NumBlocks
<1>4. CASE s >= SIZE_MOD
  <2>1. m = s - SIZE_MOD
    BY <1>1, <1>2, <1>4
  <2>2. m < ALLOC_BLOCK_SIZE /\ m \in Nat
    BY <2>1, <1>1, <1>2, <1>4
  <2>3. m \div ALLOC_BLOCK_SIZE = 0
    BY <2>2, <1>1, Z3
  <2> QED BY <2>3 DEF NumBlocks
<1> QED BY <1>1, <1>3, <1>4

\* NumBlocks is a natural number.
LEMMA NumBlocksType ==
  ASSUME NEW b \in 0 .. (SIZE_MOD - 1)
  PROVE  NumBlocks(b) \in Nat
<1>1. b + ALLOC_BLOCK_SIZE - 1 \in Nat /\ SIZE_MOD \in Nat \ {0} /\ ALLOC_BLOCK_SIZE \in Nat \ {0}
  BY AllocAssumption
<1>2. (b + ALLOC_BLOCK_SIZE - 1) % SIZE_MOD \in Nat
  BY <1>1
<1> QED BY <1>1, <1>2, DivBounds DEF NumBlocks

\* What the swap-with-last removal of allocator_free leaves in the table.
LEMMA RemoveRecordFacts ==
  ASSUME NEW S, NEW s \in Seq(S), NEW k \in 1 .. Len(s)
  PROVE  /\ RemoveRecord(s, k) \in Seq(S)
         /\ Len(RemoveRecord(s, k)) = Len(s) - 1
         /\ \A j \in 1 .. (Len(s) - 1) :
              RemoveRecord(s, k)[j] = IF j = k THEN s[Len(s)] ELSE s[j]
<1> DEFINE n == Len(s)
           r == [s EXCEPT ![k] = s[n]]
<1>1. n \in Nat /\ n >= 1 /\ s[n] \in S
  BY LenProperties, ElementOfSeq
<1>2. /\ r \in Seq(S)
      /\ Len(r) = n
      /\ \A j \in 1 .. n : r[j] = IF j = k THEN s[n] ELSE s[j]
  BY <1>1, ExceptSeq
<1>3. /\ SubSeq(r, 1, n - 1) \in Seq(S)
      /\ Len(SubSeq(r, 1, n - 1)) = n - 1
      /\ \A j \in 1 .. (n - 1) : SubSeq(r, 1, n - 1)[j] = r[j]
  <2> HIDE DEF r
  <2> QED BY <1>1, <1>2, SubSeqProperties
<1> QED BY <1>1, <1>2, <1>3 DEF RemoveRecord
-----------------------------------------------------------------------------
\* The module that is not loaded yet satisfies the inductive invariant.
LEMMA InitIInv == Init => IInv
  BY AllocAssumption DEF Init, IInv, TableInv, TypeOK, LockInv, PhaseInv, RecordsInv, DisjointInv,
    BitmapInv, ScanInv, GrantsBacked, TableBounded, Table, Phases, PCs, Pointers

\* The parts of the invariant about bitmap and table survive a step that leaves
\* both alone.
LEMMA TableUnchanged ==
  ASSUME TableInv, UNCHANGED <<phase, heap, alloc_vars, granted>>
  PROVE  TableInv'
  BY DEF TableInv, PhaseInv, RecordsInv, DisjointInv, BitmapInv, GrantsBacked, TableBounded,
    Table, Region, alloc_vars

\* Loading and unloading keep the invariant: nobody is in the allocator then.
LEMMA LoaderIInv ==
  ASSUME RacyLifecycle = FALSE, IInv, Loader
  PROVE  IInv'
<1> USE DEF IInv, alloc_vars, caller_vars, locals
<1>1. CASE Insmod
  <2>1. TypeOK'
    BY <1>1, AllocAssumption DEF Insmod, TypeOK, Phases
  <2>2. LockInv'
    BY <1>1, AllocAssumption, RacyLifecycle = FALSE DEF Insmod, LockInv, TypeOK, PCs, Quiet
  <2>3. ScanInv'
    BY <1>1, RacyLifecycle = FALSE DEF Insmod, ScanInv, LockInv, Quiet
  <2>4. TableInv'
    BY <1>1 DEF Insmod, TypeOK, Phases, TableInv, PhaseInv, RecordsInv, DisjointInv, BitmapInv,
      GrantsBacked, TableBounded, Table, Region
  <2> QED BY <2>1, <2>2, <2>3, <2>4
<1>2. CASE InitFields
  <2>1. TypeOK'
    <3>1. allocations' \in Seq(Records) /\ lock' \in Callers \cup {NoCaller} /\ bitmap' \subseteq Blocks
      BY <1>2 DEF InitFields
    <3>2. UNCHANGED <<heap, pc, bytes, num_blocks, i, count, start, ptr, ret, granted>>
      BY <1>2 DEF InitFields
    <3>3. phase' \in Phases /\ total_blocks' \in {0, ALLOC_TOTAL_BLOCKS}
      BY <1>2 DEF InitFields, Phases
    <3> QED BY <3>1, <3>2, <3>3 DEF TypeOK
  <2>2. LockInv'
    BY <1>2, AllocAssumption, RacyLifecycle = FALSE DEF InitFields, LockInv, TypeOK, PCs, Quiet
  <2>3. ScanInv'
    BY <1>2, RacyLifecycle = FALSE DEF InitFields, ScanInv, LockInv, Quiet
  <2>4. TableInv'
    BY <1>2 DEF InitFields, TypeOK, Phases, TableInv, PhaseInv, RecordsInv, DisjointInv, BitmapInv,
      GrantsBacked, TableBounded, Table, Region
  <2> QED BY <2>1, <2>2, <2>3, <2>4
<1>3. CASE InitBitmap
  <2>1. TypeOK'
    BY <1>3, AllocAssumption DEF InitBitmap, TypeOK, Phases
  <2>2. LockInv'
    BY <1>3, AllocAssumption, RacyLifecycle = FALSE DEF InitBitmap, LockInv, TypeOK, PCs, Quiet
  <2>3. ScanInv'
    BY <1>3, RacyLifecycle = FALSE DEF InitBitmap, ScanInv, LockInv, Quiet
  <2>4. PhaseInv'
    BY <1>3 DEF InitBitmap, TypeOK, TableInv, PhaseInv
  <2>5. allocations' = <<>> /\ bitmap' = {} /\ granted' = {}
    BY <1>3 DEF InitBitmap, TableInv, PhaseInv
  <2>6. TableInv'
    BY <2>4, <2>5, AllocAssumption DEF TableInv, RecordsInv, DisjointInv, BitmapInv, GrantsBacked,
      TableBounded, Table
  <2> QED BY <2>1, <2>2, <2>3, <2>6
<1>4. CASE InitPool
  <2>1. TypeOK'
    BY <1>4, AllocAssumption DEF InitPool, TypeOK, Phases
  <2>2. LockInv'
    BY <1>4, AllocAssumption, RacyLifecycle = FALSE DEF InitPool, LockInv, TypeOK, PCs, Quiet
  <2>3. ScanInv'
    BY <1>4, RacyLifecycle = FALSE DEF InitPool, ScanInv, LockInv, Quiet
  <2>4. PhaseInv'
    BY <1>4 DEF InitPool, TypeOK, TableInv, PhaseInv
  <2>5. allocations' = <<>> /\ bitmap' = {} /\ granted' = {}
    BY <1>4 DEF InitPool, TableInv, PhaseInv
  <2>6. TableInv'
    BY <2>4, <2>5, AllocAssumption DEF TableInv, RecordsInv, DisjointInv, BitmapInv, GrantsBacked,
      TableBounded, Table
  <2> QED BY <2>1, <2>2, <2>3, <2>6
<1>5. CASE CleanupPool
  <2>1. TypeOK'
    BY <1>5, AllocAssumption DEF CleanupPool, TypeOK, Phases
  <2>2. LockInv'
    BY <1>5, AllocAssumption, RacyLifecycle = FALSE DEF CleanupPool, LockInv, TypeOK, PCs, Quiet
  <2>3. ScanInv'
    BY <1>5, RacyLifecycle = FALSE DEF CleanupPool, ScanInv, LockInv, Quiet
  <2>4. TableInv'
    BY <1>5 DEF CleanupPool, TypeOK, Phases, TableInv, PhaseInv, RecordsInv, DisjointInv, BitmapInv,
      GrantsBacked, TableBounded, Table, Region
  <2> QED BY <2>1, <2>2, <2>3, <2>4
<1>6. CASE CleanupBitmap
  <2>1. TypeOK'
    BY <1>6, AllocAssumption DEF CleanupBitmap, TypeOK, Phases
  <2>2. LockInv'
    BY <1>6, AllocAssumption, RacyLifecycle = FALSE DEF CleanupBitmap, LockInv, TypeOK, PCs, Quiet
  <2>3. ScanInv'
    BY <1>6, RacyLifecycle = FALSE DEF CleanupBitmap, ScanInv, LockInv, Quiet
  <2>4. TableInv'
    BY <1>6 DEF CleanupBitmap, TypeOK, Phases, TableInv, PhaseInv, RecordsInv, DisjointInv, BitmapInv,
      GrantsBacked, TableBounded, Table, Region
  <2> QED BY <2>1, <2>2, <2>3, <2>4
<1>7. CASE CleanupTable
  <2>1. TypeOK'
    BY <1>7, AllocAssumption DEF CleanupTable, TypeOK, Phases
  <2>2. LockInv'
    BY <1>7, AllocAssumption, RacyLifecycle = FALSE DEF CleanupTable, LockInv, TypeOK, PCs, Quiet
  <2>3. ScanInv'
    BY <1>7, RacyLifecycle = FALSE DEF CleanupTable, ScanInv, LockInv, Quiet
  <2>4. PhaseInv'
    BY <1>7 DEF CleanupTable, TypeOK, TableInv, PhaseInv
  <2>5. allocations' = <<>> /\ bitmap' = {} /\ granted' = {}
    BY <1>7 DEF CleanupTable, TableInv, PhaseInv
  <2>6. TableInv'
    BY <2>4, <2>5, AllocAssumption DEF TableInv, RecordsInv, DisjointInv, BitmapInv, GrantsBacked,
      TableBounded, Table
  <2> QED BY <2>1, <2>2, <2>3, <2>6
<1>8. CASE Teardown
  <2>1. TypeOK'
    BY <1>8, AllocAssumption DEF Teardown, TypeOK, Phases
  <2>2. LockInv'
    BY <1>8, AllocAssumption, RacyLifecycle = FALSE DEF Teardown, LockInv, TypeOK, PCs, Quiet
  <2>3. ScanInv'
    BY <1>8, RacyLifecycle = FALSE DEF Teardown, ScanInv, LockInv, Quiet
  <2>4. TableInv'
    BY <1>8 DEF Teardown, TypeOK, Phases, TableInv, PhaseInv, RecordsInv, DisjointInv, BitmapInv,
      GrantsBacked, TableBounded, Table, Region
  <2> QED BY <2>1, <2>2, <2>3, <2>4
<1> QED BY <1>1, <1>2, <1>3, <1>4, <1>5, <1>6, <1>7, <1>8 DEF Loader

\* A callback that returns leaves well-typed locals.
LEMMA ReturnTypes ==
  ASSUME TypeOK, NEW c \in Callers, NEW r, Return(c, r)
  PROVE  /\ pc' \in [Callers -> PCs]
         /\ bytes' \in [Callers -> 0 .. (SIZE_MOD - 1)]
         /\ num_blocks' \in [Callers -> Nat]
         /\ i' \in [Callers -> 0 .. ALLOC_TOTAL_BLOCKS]
         /\ count' \in [Callers -> 0 .. ALLOC_TOTAL_BLOCKS]
         /\ start' \in [Callers -> 0 .. ALLOC_TOTAL_BLOCKS]
         /\ ptr' \in [Callers -> Pointers]
         /\ DOMAIN ret' = Callers
<1>1. NULL \in Pointers /\ "idle" \in PCs
  BY DEF Pointers, PCs
<1>2. 0 \in 0 .. ALLOC_TOTAL_BLOCKS /\ 0 \in Nat
  BY AllocAssumption
<1>3. 0 \in 0 .. (SIZE_MOD - 1)
  <2>1. (ALLOC_TOTAL_BLOCKS + 1) * ALLOC_BLOCK_SIZE > 0
    BY AllocAssumption, Z3
  <2> QED BY <2>1, AllocAssumption, Z3
<1> QED BY <1>1, <1>2, <1>3 DEF TypeOK, Return

\* Steps of a caller that touch neither the bitmap nor the table.
LEMMA CallerIInv ==
  ASSUME RacyLifecycle = FALSE, IInv, NEW c \in Callers,
         \/ ParamInvalid(c) \/ AllocEnter(c) \/ FreeEnter(c) \/ GetStats(c) \/ BitmapInfo(c)
         \/ AllocZero(c) \/ AllocLock(c) \/ ScanFree(c) \/ ScanTaken(c) \/ ScanFail(c)
         \/ AllocFull(c) \/ FreeNull(c) \/ FreeNotFound(c)
  PROVE  IInv'
<1> USE DEF IInv, alloc_vars, locals
<1>1. CASE ParamInvalid(c)
  <2>1. TypeOK'
    BY <1>1, AllocAssumption, ReturnTypes DEF ParamInvalid, TypeOK
  <2>2. LockInv'
    BY <1>1, AllocAssumption, RacyLifecycle = FALSE DEF ParamInvalid, LockInv, TypeOK, PCs, Return, Callable
  <2>3. ScanInv'
    BY <1>1, AllocAssumption DEF ParamInvalid, ScanInv, LockInv, TypeOK, PCs, Return, Callable, Blocks
  <2>4. TableInv'
    BY <1>1, TableUnchanged DEF ParamInvalid
  <2> QED BY <2>1, <2>2, <2>3, <2>4
<1>2. CASE AllocEnter(c)
  <2>1. TypeOK'
    <3>1. \A b \in RequestSizes : b \in 0 .. (SIZE_MOD - 1) /\ NumBlocks(b) \in Nat
      BY AllocAssumption, NumBlocksType
    <3> QED BY <3>1, <1>2 DEF AllocEnter, TypeOK, PCs
  <2>2. LockInv'
    BY <1>2, AllocAssumption, RacyLifecycle = FALSE DEF AllocEnter, LockInv, TypeOK, PCs, Return, Callable
  <2>3. ScanInv'
    BY <1>2, AllocAssumption DEF AllocEnter, ScanInv, LockInv, TypeOK, PCs, Return, Callable, Blocks
  <2>4. TableInv'
    BY <1>2, TableUnchanged DEF AllocEnter
  <2> QED BY <2>1, <2>2, <2>3, <2>4
<1>3. CASE FreeEnter(c)
  <2>1. TypeOK'
    <3>1. ptr' \in [Callers -> Pointers] /\ pc' \in [Callers -> PCs] /\ DOMAIN ret' = Callers
      BY <1>3 DEF FreeEnter, TypeOK, PCs
    <3>2. UNCHANGED <<phase, heap, total_blocks, bitmap, allocations, lock, bytes, num_blocks, i,
                      count, start, granted>>
      BY <1>3 DEF FreeEnter
    <3> QED BY <3>1, <3>2 DEF TypeOK
  <2>2. LockInv'
    BY <1>3, AllocAssumption, RacyLifecycle = FALSE DEF FreeEnter, LockInv, TypeOK, PCs, Return, Callable
  <2>3. ScanInv'
    BY <1>3, AllocAssumption DEF FreeEnter, ScanInv, LockInv, TypeOK, PCs, Return, Callable, Blocks
  <2>4. TableInv'
    BY <1>3, TableUnchanged DEF FreeEnter
  <2> QED BY <2>1, <2>2, <2>3, <2>4
<1>4. CASE GetStats(c)
  <2>1. TypeOK'
    BY <1>4, AllocAssumption, ReturnTypes DEF GetStats, TypeOK
  <2>2. LockInv'
    BY <1>4, AllocAssumption, RacyLifecycle = FALSE DEF GetStats, LockInv, TypeOK, PCs, Return, Callable
  <2>3. ScanInv'
    BY <1>4, AllocAssumption DEF GetStats, ScanInv, LockInv, TypeOK, PCs, Return, Callable, Blocks
  <2>4. TableInv'
    BY <1>4, TableUnchanged DEF GetStats
  <2> QED BY <2>1, <2>2, <2>3, <2>4
<1>5. CASE BitmapInfo(c)
  <2>1. TypeOK'
    BY <1>5, AllocAssumption, ReturnTypes DEF BitmapInfo, TypeOK
  <2>2. LockInv'
    BY <1>5, AllocAssumption, RacyLifecycle = FALSE DEF BitmapInfo, LockInv, TypeOK, PCs, Return, Callable
  <2>3. ScanInv'
    BY <1>5, AllocAssumption DEF BitmapInfo, ScanInv, LockInv, TypeOK, PCs, Return, Callable, Blocks
  <2>4. TableInv'
    BY <1>5, TableUnchanged DEF BitmapInfo
  <2> QED BY <2>1, <2>2, <2>3, <2>4
<1>6. CASE AllocZero(c)
  <2>1. TypeOK'
    BY <1>6, AllocAssumption, ReturnTypes DEF AllocZero, TypeOK
  <2>2. LockInv'
    BY <1>6, AllocAssumption, RacyLifecycle = FALSE DEF AllocZero, LockInv, TypeOK, PCs, Return, Callable
  <2>3. ScanInv'
    BY <1>6, AllocAssumption DEF AllocZero, ScanInv, LockInv, TypeOK, PCs, Return, Callable, Blocks
  <2>4. TableInv'
    BY <1>6, TableUnchanged DEF AllocZero
  <2> QED BY <2>1, <2>2, <2>3, <2>4
<1>7. CASE AllocLock(c)
  <2>1. TypeOK'
    BY <1>7, AllocAssumption DEF AllocLock, TypeOK, PCs
  <2>2. LockInv'
    BY <1>7, AllocAssumption, RacyLifecycle = FALSE DEF AllocLock, LockInv, TypeOK, PCs, Return, Callable
  <2>3. ScanInv'
    BY <1>7, AllocAssumption DEF AllocLock, ScanInv, LockInv, TypeOK, PCs, Return, Callable, Blocks
  <2>4. TableInv'
    BY <1>7, TableUnchanged DEF AllocLock
  <2> QED BY <2>1, <2>2, <2>3, <2>4
<1>8. CASE ScanFree(c)
  <2>1. TypeOK'
    <3>1. i[c] < ALLOC_TOTAL_BLOCKS /\ count[c] <= i[c]
      BY <1>8, AllocAssumption DEF ScanFree, TypeOK, ScanInv
    <3>2. i[c] \in 0 .. ALLOC_TOTAL_BLOCKS /\ count[c] \in 0 .. ALLOC_TOTAL_BLOCKS
      BY DEF TypeOK
    <3>3. /\ i[c] + 1 \in 0 .. ALLOC_TOTAL_BLOCKS
          /\ count[c] + 1 \in 0 .. ALLOC_TOTAL_BLOCKS
          /\ 0 \in 0 .. ALLOC_TOTAL_BLOCKS
      <4> HIDE DEF IInv
      <4> QED BY <3>1, <3>2, AllocAssumption
    <3>4. /\ i' \in [Callers -> 0 .. ALLOC_TOTAL_BLOCKS]
          /\ count' \in [Callers -> 0 .. ALLOC_TOTAL_BLOCKS]
          /\ start' \in [Callers -> 0 .. ALLOC_TOTAL_BLOCKS]
      BY <1>8, <3>2, <3>3 DEF ScanFree, TypeOK
    <3>5. pc' \in [Callers -> PCs]
      BY <1>8 DEF ScanFree, TypeOK, PCs
    <3> QED BY <3>4, <3>5, <1>8 DEF ScanFree, TypeOK
  <2>2. LockInv'
    <3>1. /\ pc'[c] \in {"scan", "commit"} /\ pc[c] = "scan"
          /\ \A d \in Callers : d # c => pc'[d] = pc[d] /\ i'[d] = i[d] /\ count'[d] = count[d]
      BY <1>8 DEF ScanFree, TypeOK
    <3>2. UNCHANGED <<phase, lock, bytes, num_blocks>>
      BY <1>8 DEF ScanFree
    <3> QED BY <3>1, <3>2 DEF LockInv
  <2>3. ScanInv'
    <3>1. i[c] < ALLOC_TOTAL_BLOCKS /\ i[c] \in Nat /\ count[c] \in Nat /\ num_blocks[c] \in Nat
      <4>1. i[c] < total_blocks /\ total_blocks \in {0, ALLOC_TOTAL_BLOCKS}
        BY <1>8 DEF ScanFree, TypeOK
      <4>2. i[c] \in Nat /\ count[c] \in Nat /\ num_blocks[c] \in Nat
        BY DEF TypeOK
      <4> QED BY <4>1, <4>2, AllocAssumption
    <3>2. \A d \in Callers : d # c => pc[d] \notin {"scan", "commit"} /\ pc'[d] = pc[d]
      BY <1>8 DEF ScanFree, LockInv, TypeOK
    <3>3. bitmap' = bitmap /\ num_blocks' = num_blocks
      BY <1>8 DEF ScanFree
    <3>4. count'[c] = count[c] + 1 /\ start'[c] = i[c] - count[c] /\ i[c] \notin bitmap
      BY <1>8, <3>1 DEF ScanFree, TypeOK, ScanInv, bm_test_bit
    <3>5. \A b \in Blocks : i[c] - count[c] <= b /\ b < i[c] + 1 => b \notin bitmap
      BY <1>8, <3>1, <3>4 DEF ScanFree, ScanInv, Blocks
    <3>6. CASE count[c] + 1 = num_blocks[c]
      <4>1. pc'[c] = "commit"
        BY <1>8, <3>6 DEF ScanFree, TypeOK
      <4> QED BY <4>1, <1>8, <3>1, <3>2, <3>3, <3>4, <3>5, <3>6, AllocAssumption DEF ScanInv, Blocks
    <3>7. CASE count[c] + 1 # num_blocks[c]
      <4>1. pc'[c] = "scan" /\ i'[c] = i[c] + 1
        BY <1>8, <3>7 DEF ScanFree, TypeOK
      <4>2. count[c] <= i[c] /\ (num_blocks[c] > 0 => count[c] < num_blocks[c])
        BY <1>8 DEF ScanFree, ScanInv
      <4> QED BY <4>1, <4>2, <3>1, <3>2, <3>3, <3>4, <3>5, <3>7 DEF ScanInv, Blocks
    <3> QED BY <3>6, <3>7
  <2>4. TableInv'
    BY <1>8, TableUnchanged DEF ScanFree
  <2> QED BY <2>1, <2>2, <2>3, <2>4
<1>9. CASE ScanTaken(c)
  <2>1. TypeOK'
    <3>1. i[c] < ALLOC_TOTAL_BLOCKS /\ count[c] <= i[c]
      BY <1>9, AllocAssumption DEF ScanTaken, TypeOK, ScanInv
    <3>2. i[c] \in 0 .. ALLOC_TOTAL_BLOCKS /\ count[c] \in 0 .. ALLOC_TOTAL_BLOCKS
      BY DEF TypeOK
    <3>3. /\ i[c] + 1 \in 0 .. ALLOC_TOTAL_BLOCKS
          /\ count[c] + 1 \in 0 .. ALLOC_TOTAL_BLOCKS
          /\ 0 \in 0 .. ALLOC_TOTAL_BLOCKS
      <4> HIDE DEF IInv
      <4> QED BY <3>1, <3>2, AllocAssumption
    <3>4. /\ i' \in [Callers -> 0 .. ALLOC_TOTAL_BLOCKS]
          /\ count' \in [Callers -> 0 .. ALLOC_TOTAL_BLOCKS]
          /\ start' \in [Callers -> 0 .. ALLOC_TOTAL_BLOCKS]
      BY <1>9, <3>2, <3>3 DEF ScanTaken, TypeOK
    <3>5. pc' \in [Callers -> PCs]
      BY <1>9 DEF ScanTaken, TypeOK, PCs
    <3> QED BY <3>4, <3>5, <1>9 DEF ScanTaken, TypeOK
  <2>2. LockInv'
    <3>1. /\ pc'[c] = "scan" /\ pc[c] = "scan"
          /\ \A d \in Callers : d # c => pc'[d] = pc[d] /\ i'[d] = i[d] /\ count'[d] = count[d]
      BY <1>9 DEF ScanTaken, TypeOK
    <3>2. UNCHANGED <<phase, lock, bytes, num_blocks>>
      BY <1>9 DEF ScanTaken
    <3> QED BY <3>1, <3>2 DEF LockInv
  <2>3. ScanInv'
    <3>1. \A d \in Callers : d # c => pc[d] \notin {"scan", "commit"} /\ pc'[d] = pc[d]
      BY <1>9 DEF ScanTaken, LockInv, TypeOK
    <3>2. count'[c] = 0 /\ i'[c] = i[c] + 1 /\ i[c] \in Nat /\ pc'[c] = "scan"
          /\ UNCHANGED <<bitmap, num_blocks, start>>
      BY <1>9 DEF ScanTaken, TypeOK
    <3>3. num_blocks[c] \in Nat
      BY DEF TypeOK
    <3> HIDE DEF IInv
    <3> QED BY <3>1, <3>2, <3>3 DEF ScanInv, Blocks
  <2>4. TableInv'
    BY <1>9, TableUnchanged DEF ScanTaken
  <2> QED BY <2>1, <2>2, <2>3, <2>4
<1>10. CASE ScanFail(c)
  <2>1. TypeOK'
    BY <1>10, AllocAssumption, ReturnTypes DEF ScanFail, TypeOK
  <2>2. LockInv'
    BY <1>10, AllocAssumption, RacyLifecycle = FALSE DEF ScanFail, LockInv, TypeOK, PCs, Return, Callable
  <2>3. ScanInv'
    BY <1>10, AllocAssumption DEF ScanFail, ScanInv, LockInv, TypeOK, PCs, Return, Callable, Blocks
  <2>4. TableInv'
    BY <1>10, TableUnchanged DEF ScanFail
  <2> QED BY <2>1, <2>2, <2>3, <2>4
<1>11. CASE AllocFull(c)
  <2>1. TypeOK'
    BY <1>11, AllocAssumption, ReturnTypes DEF AllocFull, TypeOK
  <2>2. LockInv'
    BY <1>11, AllocAssumption, RacyLifecycle = FALSE DEF AllocFull, LockInv, TypeOK, PCs, Return, Callable
  <2>3. ScanInv'
    BY <1>11, AllocAssumption DEF AllocFull, ScanInv, LockInv, TypeOK, PCs, Return, Callable, Blocks
  <2>4. TableInv'
    BY <1>11, TableUnchanged DEF AllocFull
  <2> QED BY <2>1, <2>2, <2>3, <2>4
<1>12. CASE FreeNull(c)
  <2>1. TypeOK'
    BY <1>12, AllocAssumption, ReturnTypes DEF FreeNull, TypeOK
  <2>2. LockInv'
    BY <1>12, AllocAssumption, RacyLifecycle = FALSE DEF FreeNull, LockInv, TypeOK, PCs, Return, Callable
  <2>3. ScanInv'
    BY <1>12, AllocAssumption DEF FreeNull, ScanInv, LockInv, TypeOK, PCs, Return, Callable, Blocks
  <2>4. TableInv'
    BY <1>12, TableUnchanged DEF FreeNull
  <2> QED BY <2>1, <2>2, <2>3, <2>4
<1>13. CASE FreeNotFound(c)
  <2>1. TypeOK'
    BY <1>13, AllocAssumption, ReturnTypes DEF FreeNotFound, TypeOK
  <2>2. LockInv'
    BY <1>13, AllocAssumption, RacyLifecycle = FALSE DEF FreeNotFound, LockInv, TypeOK, PCs, Return, Callable
  <2>3. ScanInv'
    BY <1>13, AllocAssumption DEF FreeNotFound, ScanInv, LockInv, TypeOK, PCs, Return, Callable, Blocks
  <2>4. TableInv'
    BY <1>13, TableUnchanged DEF FreeNotFound
  <2> QED BY <2>1, <2>2, <2>3, <2>4
<1> QED BY <1>1, <1>2, <1>3, <1>4, <1>5, <1>6, <1>7, <1>8, <1>9, <1>10, <1>11, <1>12, <1>13

\* The state is the one of the live module while a caller is inside.
LEMMA BusyFacts ==
  ASSUME IInv, NEW c \in Callers, pc[c] # "idle"
  PROVE  /\ phase = "live"
         /\ allocations \in Seq(Records)
         /\ Len(allocations) \in Nat
         /\ \A b \in Blocks : b \in bitmap <=> \E k \in Table : b \in Region(allocations[k])
  BY LenProperties DEF IInv, TypeOK, LockInv, TableInv, BitmapInv

\* A committed allocation was free, so the new record overlaps no other.
LEMMA CommitIInv ==
  ASSUME RacyLifecycle = FALSE, IInv, NEW c \in Callers, AllocCommit(c)
  PROVE  IInv'
<1> DEFINE a == [start_block |-> start[c], num_blocks |-> num_blocks[c], ptr |-> start[c]]
           n == Len(allocations)
<1>1. /\ phase = "live" /\ phase' = "live" /\ heap' = heap /\ total_blocks' = total_blocks
      /\ pc[c] = "commit" /\ lock = c /\ lock' = NoCaller
  BY BusyFacts DEF AllocCommit, IInv, LockInv
<1>2. /\ num_blocks[c] \in 1 .. ALLOC_TOTAL_BLOCKS
      /\ start[c] \in Blocks
      /\ start[c] + num_blocks[c] <= ALLOC_TOTAL_BLOCKS
      /\ bytes[c] \in 1 .. (SIZE_MOD - 1)
      /\ num_blocks[c] = NumBlocks(bytes[c])
  BY <1>1, AllocAssumption DEF IInv, TypeOK, ScanInv, LockInv, Blocks
<1>3. a \in Records /\ Region(a) \subseteq Blocks
  BY <1>2, AllocAssumption DEF Records, Region, Blocks
<1>4. \A b \in Region(a) : b \notin bitmap
  BY <1>1, <1>2, <1>3 DEF IInv, ScanInv, Region, Blocks
<1>5. /\ allocations' = Append(allocations, a)
      /\ bitmap' = bitmap \cup Region(a)
      /\ granted' = granted \cup {[ptr |-> start[c], bytes |-> bytes[c]]}
  BY DEF AllocCommit, PoolAddress, bm_set_region, Region
<1>6. /\ allocations' \in Seq(Records)
      /\ Len(allocations') = n + 1
      /\ \A k \in 1 .. n : allocations'[k] = allocations[k]
      /\ allocations'[n + 1] = a
      /\ n \in Nat
  <2>1. n \in Nat /\ allocations \in Seq(Records)
    BY BusyFacts, <1>1
  <2> HIDE DEF a
  <2> QED BY <2>1, <1>3, <1>5, AppendProperties
<1>7. TypeOK'
  <2>1. [ptr |-> start[c], bytes |-> bytes[c]] \in [ptr : Blocks, bytes : 1 .. (SIZE_MOD - 1)]
    BY <1>2
  <2>2. granted' \subseteq [ptr : Blocks, bytes : 1 .. (SIZE_MOD - 1)]
    BY <2>1, <1>5 DEF IInv, TypeOK
  <2>3. bitmap' \subseteq Blocks
    BY <1>3, <1>5 DEF IInv, TypeOK
  <2> QED BY <1>1, <1>6, <2>2, <2>3, ReturnTypes DEF AllocCommit, IInv, TypeOK
<1>8. LockInv'
  BY AllocAssumption DEF AllocCommit, Return, IInv, LockInv, TypeOK, PCs
<1>9. ScanInv'
  BY <1>1 DEF AllocCommit, Return, IInv, ScanInv, LockInv, TypeOK
<1>10. PhaseInv'
  BY <1>1 DEF IInv, TableInv, PhaseInv
<1>11. RecordsInv'
  BY <1>2, <1>6 DEF IInv, TableInv, RecordsInv, Table
<1>12. \A k \in 1 .. n : \A b \in Region(allocations[k]) : b \in bitmap
  <2>1. \A k \in 1 .. n : Region(allocations[k]) \subseteq Blocks
    <3>1. \A k \in 1 .. n : allocations[k] \in Records
      BY <1>6, BusyFacts, <1>1, ElementOfSeq
    <3> QED BY <3>1, AllocAssumption DEF IInv, TableInv, RecordsInv, Region, Records, Blocks, Table
  <2> QED BY <2>1, <1>1, BusyFacts DEF Table
<1>13. DisjointInv'
  <2> SUFFICES ASSUME NEW j \in 1 .. (n + 1), NEW k \in 1 .. (n + 1), j # k, NEW b \in Blocks
               PROVE  ~(b \in Region(allocations'[j]) /\ b \in Region(allocations'[k]))
    BY <1>6 DEF DisjointInv, Table, Region
  <2>1. CASE j \in 1 .. n /\ k \in 1 .. n
    BY <2>1, <1>6 DEF IInv, TableInv, DisjointInv, Table
  <2>2. CASE j = n + 1 /\ k \in 1 .. n
    BY <2>2, <1>4, <1>6, <1>12
  <2>3. CASE k = n + 1 /\ j \in 1 .. n
    BY <2>3, <1>4, <1>6, <1>12
  <2> QED BY <1>6, <2>1, <2>2, <2>3
<1>14. BitmapInv'
  <2> SUFFICES ASSUME NEW b \in Blocks
               PROVE  b \in bitmap' <=> \E k \in 1 .. (n + 1) : b \in Region(allocations'[k])
    BY <1>6 DEF BitmapInv, Table, Region
  <2>1. b \in bitmap <=> \E k \in 1 .. n : b \in Region(allocations[k])
    BY <1>1, BusyFacts DEF Table
  <2> QED BY <2>1, <1>5, <1>6
<1>15. GrantsBacked'
  <2> DEFINE h == [ptr |-> start[c], bytes |-> bytes[c]]
  <2>1. bytes[c] <= num_blocks[c] * ALLOC_BLOCK_SIZE
    BY <1>2, NumBlocksEnough
  <2>2. \A g \in granted' : \E k \in 1 .. (n + 1) :
          /\ allocations'[k].ptr = g.ptr
          /\ g.bytes <= allocations'[k].num_blocks * ALLOC_BLOCK_SIZE
    <3> SUFFICES ASSUME NEW g \in granted'
                 PROVE  \E k \in 1 .. (n + 1) :
                          /\ allocations'[k].ptr = g.ptr
                          /\ g.bytes <= allocations'[k].num_blocks * ALLOC_BLOCK_SIZE
      OBVIOUS
    <3>1. CASE g = h
      <4>1. allocations'[n + 1].ptr = g.ptr /\ allocations'[n + 1].num_blocks = num_blocks[c]
        BY <1>6, <3>1
      <4>2. g.bytes <= allocations'[n + 1].num_blocks * ALLOC_BLOCK_SIZE
        BY <4>1, <3>1, <2>1
      <4>3. n + 1 \in 1 .. (n + 1)
        BY <1>6
      <4> QED BY <4>1, <4>2, <4>3
    <3>2. CASE g \in granted
      <4>1. PICK k \in 1 .. n : /\ allocations[k].ptr = g.ptr
                                /\ g.bytes <= allocations[k].num_blocks * ALLOC_BLOCK_SIZE
        BY <3>2, <1>1 DEF IInv, TableInv, GrantsBacked, Table
      <4>2. k \in 1 .. (n + 1) /\ allocations'[k] = allocations[k]
        BY <1>6
      <4> QED BY <4>1, <4>2
    <3> QED BY <3>1, <3>2, <1>5
  <2>3. \A k \in 1 .. (n + 1) : \E g \in granted' : g.ptr = allocations'[k].ptr
    <3>1. \A k \in 1 .. n : \E g \in granted : g.ptr = allocations[k].ptr
      BY <1>1 DEF IInv, TableInv, GrantsBacked, Table
    <3>2. h \in granted' /\ h.ptr = allocations'[n + 1].ptr
      BY <1>5, <1>6
    <3>3. \A k \in 1 .. (n + 1) : k \in 1 .. n \/ k = n + 1
      BY <1>6
    <3>4. granted \subseteq granted' /\ \A k \in 1 .. n : allocations'[k] = allocations[k]
      BY <1>5, <1>6
    <3> HIDE DEF n, h
    <3> QED BY <3>1, <3>2, <3>3, <3>4, Zenon
  <2>4. \A g \in granted : g.ptr # start[c]
    <3> SUFFICES ASSUME NEW g \in granted, g.ptr = start[c] PROVE FALSE
      OBVIOUS
    <3>1. PICK k \in 1 .. n : allocations[k].ptr = g.ptr
      BY <1>1 DEF IInv, TableInv, GrantsBacked, Table
    <3>2. allocations[k] \in Records
      BY <1>1, BusyFacts, ElementOfSeq
    <3>3. start[c] \in Region(allocations[k])
      BY <3>1, <3>2, AllocAssumption DEF IInv, TableInv, RecordsInv, Region, Records, Table, Blocks
    <3> QED BY <3>3, <1>2, <1>4, <1>12 DEF Region, Blocks
  <2>5. \A g, f \in granted' : g.ptr = f.ptr => g = f
    BY <1>1, <1>5, <2>4 DEF IInv, TableInv, GrantsBacked
  <2> QED BY <1>6, <2>2, <2>3, <2>5 DEF GrantsBacked, Table
<1>16. TableBounded'
  BY <1>6, AllocAssumption DEF AllocCommit, TableBounded
<1> QED BY <1>7, <1>8, <1>9, <1>10, <1>11, <1>13, <1>14, <1>15, <1>16 DEF IInv, TableInv

\* A free takes back the blocks of one record; the record that moves into its
\* place keeps its own.
LEMMA FreeIInv ==
  ASSUME RacyLifecycle = FALSE, IInv, NEW c \in Callers, FreeCommit(c)
  PROVE  IInv'
<1> DEFINE n == Len(allocations)
<1>1. /\ phase = "live" /\ phase' = "live" /\ heap' = heap /\ total_blocks' = total_blocks
      /\ pc[c] = "free" /\ lock = NoCaller /\ lock' = NoCaller
  BY BusyFacts DEF FreeCommit
<1>2. PICK k \in 1 .. n :
        /\ allocations[k].ptr = ptr[c]
        /\ bitmap' = bitmap \ Region(allocations[k])
        /\ allocations' = RemoveRecord(allocations, k)
  BY DEF FreeCommit, bm_clear_region, Region, Table
<1>3. granted' = {g \in granted : g.ptr # ptr[c]}
  BY DEF FreeCommit
<1>4. /\ allocations \in Seq(Records) /\ n \in Nat
      /\ \A j \in 1 .. n : allocations[j] \in Records
  BY <1>1, BusyFacts, ElementOfSeq
<1>5. /\ allocations' \in Seq(Records)
      /\ Len(allocations') = n - 1
      /\ \A j \in 1 .. (n - 1) :
           allocations'[j] = IF j = k THEN allocations[n] ELSE allocations[j]
  BY <1>2, <1>4, RemoveRecordFacts
<1> DEFINE old(j) == IF j = k THEN n ELSE j
<1>6. /\ \A j \in 1 .. (n - 1) : /\ old(j) \in 1 .. n /\ old(j) # k
                                 /\ allocations'[j] = allocations[old(j)]
      /\ \A j, m \in 1 .. (n - 1) : j # m => old(j) # old(m)
  BY <1>4, <1>5
<1>7. \A m \in 1 .. n : m # k => \E j \in 1 .. (n - 1) : allocations'[j] = allocations[m]
  <2> SUFFICES ASSUME NEW m \in 1 .. n, m # k
               PROVE  \E j \in 1 .. (n - 1) : allocations'[j] = allocations[m]
    OBVIOUS
  <2>1. CASE m = n
    BY <2>1, <1>4, <1>5
  <2>2. CASE m # n
    BY <2>2, <1>4, <1>5
  <2> QED BY <2>1, <2>2
<1> HIDE DEF old
<1>8. TypeOK'
  <2>1. granted' \subseteq granted /\ bitmap' \subseteq bitmap
    BY <1>2, <1>3
  <2> QED BY <1>1, <1>5, <2>1, ReturnTypes DEF FreeCommit, IInv, TypeOK
<1>9. LockInv'
  BY AllocAssumption DEF FreeCommit, Return, IInv, LockInv, TypeOK, PCs
<1>10. ScanInv'
  BY <1>1, AllocAssumption DEF FreeCommit, Return, IInv, ScanInv, LockInv, TypeOK
<1>11. PhaseInv'
  BY <1>1 DEF IInv, TableInv, PhaseInv
<1>12. RecordsInv'
  BY <1>5, <1>6 DEF IInv, TableInv, RecordsInv, Table
<1>13. \A j, m \in 1 .. n : j # m =>
         \A b \in Blocks : ~(b \in Region(allocations[j]) /\ b \in Region(allocations[m]))
  BY DEF IInv, TableInv, DisjointInv, Table
<1>14. DisjointInv'
  <2> SUFFICES ASSUME NEW j \in 1 .. (n - 1), NEW m \in 1 .. (n - 1), j # m, NEW b \in Blocks
               PROVE  ~(b \in Region(allocations'[j]) /\ b \in Region(allocations'[m]))
    BY <1>5 DEF DisjointInv, Table, Region
  <2> QED BY <1>6, <1>13
<1>15. BitmapInv'
  <2> SUFFICES ASSUME NEW b \in Blocks
               PROVE  b \in bitmap' <=> \E j \in 1 .. (n - 1) : b \in Region(allocations'[j])
    BY <1>5 DEF BitmapInv, Table, Region
  <2>1. b \in bitmap <=> \E j \in 1 .. n : b \in Region(allocations[j])
    BY <1>1, BusyFacts DEF Table
  <2>2. b \in bitmap' <=> \E j \in 1 .. n : j # k /\ b \in Region(allocations[j])
    BY <2>1, <1>2, <1>13
  <2> QED BY <2>2, <1>6, <1>7
<1>16. \A j \in 1 .. n : j # k => allocations[j].ptr # ptr[c]
  <2> SUFFICES ASSUME NEW j \in 1 .. n, j # k, allocations[j].ptr = ptr[c] PROVE FALSE
    OBVIOUS
  <2>1. allocations[j].start_block = allocations[k].start_block
    BY <1>2 DEF IInv, TableInv, RecordsInv, Table
  <2>2. \A m \in 1 .. n : allocations[m].start_block \in Region(allocations[m])
    <3>1. \A a \in Records : a.start_block \in Region(a)
      BY AllocAssumption DEF Records, Region, Blocks
    <3> QED BY <3>1, <1>4
  <2>3. allocations[j].start_block \in Blocks
    BY <1>4 DEF Records
  <2> QED BY <1>13, <2>1, <2>2, <2>3
<1>17. GrantsBacked'
  <2>1. \A g \in granted' : \E j \in 1 .. (n - 1) :
          /\ allocations'[j].ptr = g.ptr
          /\ g.bytes <= allocations'[j].num_blocks * ALLOC_BLOCK_SIZE
    <3> SUFFICES ASSUME NEW g \in granted, g.ptr # ptr[c]
                 PROVE  \E j \in 1 .. (n - 1) :
                          /\ allocations'[j].ptr = g.ptr
                          /\ g.bytes <= allocations'[j].num_blocks * ALLOC_BLOCK_SIZE
      BY <1>3
    <3>1. PICK m \in 1 .. n : /\ allocations[m].ptr = g.ptr
                              /\ g.bytes <= allocations[m].num_blocks * ALLOC_BLOCK_SIZE
      BY <1>1 DEF IInv, TableInv, GrantsBacked, Table
    <3>2. PICK j \in 1 .. (n - 1) : allocations'[j] = allocations[m]
      BY <1>2, <1>7, <3>1
    <3> QED BY <3>1, <3>2
  <2>2. \A j \in 1 .. (n - 1) : \E g \in granted' : g.ptr = allocations'[j].ptr
    <3> SUFFICES ASSUME NEW j \in 1 .. (n - 1)
                 PROVE  \E g \in granted' : g.ptr = allocations'[j].ptr
      OBVIOUS
    <3>1. PICK g \in granted : g.ptr = allocations[old(j)].ptr
      BY <1>1, <1>6 DEF IInv, TableInv, GrantsBacked, Table
    <3>2. g.ptr # ptr[c]
      BY <3>1, <1>6, <1>16
    <3> QED BY <3>1, <3>2, <1>3, <1>6
  <2>3. \A g, f \in granted' : g.ptr = f.ptr => g = f
    BY <1>1, <1>3 DEF IInv, TableInv, GrantsBacked
  <2> QED BY <1>5, <2>1, <2>2, <2>3 DEF GrantsBacked, Table
<1>18. TableBounded'
  BY <1>4, <1>5, AllocAssumption DEF IInv, TableInv, TableBounded
<1> QED BY <1>8, <1>9, <1>10, <1>11, <1>12, <1>14, <1>15, <1>17, <1>18 DEF IInv, TableInv

\* A stuttering step keeps the invariant.
LEMMA StutterIInv ==
  ASSUME IInv, UNCHANGED vars
  PROVE  IInv'
<1> USE DEF vars, locals
<1>1. TypeOK'
  BY DEF IInv, TypeOK
<1>2. LockInv'
  BY DEF IInv, LockInv
<1>3. ScanInv'
  BY DEF IInv, ScanInv
<1>4. TableInv'
  BY TableUnchanged DEF IInv, alloc_vars
<1> QED BY <1>1, <1>2, <1>3, <1>4 DEF IInv

\* Every step of the loading process and of the callbacks keeps the invariant.
LEMMA NextIInv ==
  ASSUME RacyLifecycle = FALSE, IInv, [Next]_vars
  PROVE  IInv'
<1>1. CASE Loader
  BY <1>1, LoaderIInv
<1>2. ASSUME NEW c \in Callers, Call(c) \/ Step(c)
      PROVE  IInv'
  BY <1>2, CallerIInv, CommitIInv, FreeIInv DEF Call, Step
<1>3. CASE UNCHANGED vars
  BY <1>3, StutterIInv
<1> QED BY <1>1, <1>2, <1>3 DEF Next

\* The inductive invariant holds in every state of a module that is called
\* only while it is live.
THEOREM Invariance ==
  ASSUME RacyLifecycle = FALSE
  PROVE  Spec => []IInv
<1>1. Init => IInv
  BY InitIInv
<1>2. IInv /\ [Next]_vars => IInv'
  BY NextIInv
<1> QED BY <1>1, <1>2, PTL DEF Spec

\* The allocator's state keeps its types: the search never leaves the pool.
THEOREM TypeCorrect ==
  ASSUME RacyLifecycle = FALSE
  PROVE  Spec => []TypeOK
<1>1. IInv => TypeOK
  BY DEF IInv
<1> QED BY <1>1, Invariance, PTL

\* Live allocations never share a block: allocator_alloc's search, record and
\* allocator_free's swap removal keep them apart.
THEOREM AllocationsDisjoint ==
  ASSUME RacyLifecycle = FALSE
  PROVE  Spec => []RegionsDisjoint
<1>1. IInv => RegionsDisjoint
  <2> SUFFICES ASSUME IInv, NEW j \in Table, NEW k \in Table, j # k
               PROVE  Region(allocations[j]) \cap Region(allocations[k]) = {}
    BY DEF RegionsDisjoint
  <2>1. allocations[j] \in Records
    BY ElementOfSeq DEF IInv, TypeOK, Table
  <2>2. Region(allocations[j]) \subseteq Blocks
    BY <2>1, AllocAssumption DEF IInv, TableInv, RecordsInv, Region, Records, Blocks
  <2> QED BY <2>2 DEF IInv, TableInv, DisjointInv
<1> QED BY <1>1, Invariance, PTL

\* The bitmap is exactly the union of the recorded allocations.
THEOREM BitmapExact ==
  ASSUME RacyLifecycle = FALSE
  PROVE  Spec => []BitmapMatchesTable
<1>1. IInv => BitmapMatchesTable
  <2> SUFFICES ASSUME IInv, phase = "live"
               PROVE  bitmap = UNION {Region(allocations[k]) : k \in Table}
    BY DEF BitmapMatchesTable
  <2>1. \A k \in Table : allocations[k] \in Records
    BY ElementOfSeq DEF IInv, TypeOK, Table
  <2>2. \A k \in Table : Region(allocations[k]) \subseteq Blocks
    BY <2>1, AllocAssumption DEF IInv, TableInv, RecordsInv, Region, Records, Blocks
  <2>3. bitmap \subseteq Blocks
    BY DEF IInv, TypeOK
  <2>4. \A b \in Blocks : b \in bitmap <=> \E k \in Table : b \in Region(allocations[k])
    BY DEF IInv, TableInv, BitmapInv
  <2> QED BY <2>2, <2>3, <2>4
<1> QED BY <1>1, Invariance, PTL

\* Every address handed out and not freed is backed by enough blocks of its
\* own, whatever the request and the width of size_t.
THEOREM GrantsAreBacked ==
  ASSUME RacyLifecycle = FALSE
  PROVE  Spec => []GrantsBacked
<1>1. IInv => GrantsBacked
  BY DEF IInv, TableInv
<1> QED BY <1>1, Invariance, PTL

\* The table of allocations does not overflow, the memory is there whenever a
\* caller uses it, and an unloaded module leaves nothing behind.
THEOREM ResourcesSafe ==
  ASSUME RacyLifecycle = FALSE
  PROVE  Spec => []MemoryThere
<1>1. IInv => MemoryThere
  BY DEF IInv, TableInv, LockInv, PhaseInv, MemoryThere
<1> QED BY <1>1, Invariance, PTL

-----------------------------------------------------------------------------
(* The allocator implements AllocSpec *)

\* Nobody is in a callback while the loading process works.
LEMMA LoaderAlone ==
  ASSUME RacyLifecycle = FALSE, IInv, Loader
  PROVE  \A c \in Callers : pc[c] = "idle" /\ pc'[c] = "idle"
<1>1. UNCHANGED pc
  BY DEF Loader, Insmod, InitFields, InitBitmap, InitPool, CleanupPool, CleanupBitmap,
    CleanupTable, Teardown, caller_vars
<1>2. \A c \in Callers : pc[c] = "idle"
  BY DEF IInv, LockInv, Loader, Insmod, InitFields, InitBitmap, InitPool, CleanupPool,
    CleanupBitmap, CleanupTable, Teardown, Quiet
<1> QED BY <1>1, <1>2

\* A caller that scans or commits is disturbed by nobody.
LEMMA Undisturbed ==
  ASSUME IInv, NEW c \in Callers, Call(c) \/ Step(c),
         NEW d \in Callers, d # c, pc'[d] \in {"scan", "commit"}
  PROVE  /\ pc[d] = pc'[d] /\ bitmap' = bitmap
         /\ i'[d] = i[d] /\ count'[d] = count[d] /\ start'[d] = start[d]
         /\ num_blocks'[d] = num_blocks[d]
<1>1. pc[d] = pc'[d] /\ i'[d] = i[d] /\ count'[d] = count[d] /\ start'[d] = start[d]
      /\ num_blocks'[d] = num_blocks[d]
  BY DEF IInv, TypeOK, Call, Step, ParamInvalid, AllocEnter, FreeEnter, GetStats, BitmapInfo,
    AllocZero, AllocLock, ScanFree, ScanTaken, ScanFail, AllocFull, AllocCommit, FreeNull,
    FreeCommit, FreeNotFound, Return, locals
<1>2. lock = d /\ lock # NoCaller /\ lock # c
  BY <1>1, AllocAssumption DEF IInv, LockInv
<1>3. pc[c] \notin {"scan", "commit"}
  BY <1>2 DEF IInv, LockInv
<1>4. bitmap' = bitmap
  BY <1>2, <1>3 DEF Call, Step, ParamInvalid, AllocEnter, FreeEnter, GetStats, BitmapInfo,
    AllocZero, AllocLock, ScanFree, ScanTaken, ScanFail, AllocFull, AllocCommit, FreeNull,
    FreeCommit, FreeNotFound, alloc_vars
<1> QED BY <1>1, <1>4

\* The search moves on past blocked runs only.
LEMMA FirstFitNext ==
  ASSUME RacyLifecycle = FALSE, IInv, FirstFit, [Next]_vars
  PROVE  FirstFit'
<1> DEFINE Fit(c) ==
      /\ pc[c] = "scan" =>
           /\ count[c] < i[c] => i[c] - count[c] - 1 \in bitmap
           /\ num_blocks[c] > 0 =>
                \A s \in Blocks : s + num_blocks[c] <= i[c] => Blocked(s, num_blocks[c])
      /\ pc[c] = "commit" => \A s \in Blocks : s < start[c] => Blocked(s, num_blocks[c])
<1>1. CASE Loader
  BY <1>1, LoaderAlone DEF FirstFit
<1>2. CASE UNCHANGED vars
  BY <1>2 DEF FirstFit, vars, locals, Blocked
<1>3. ASSUME NEW c \in Callers, Call(c) \/ Step(c), NEW d \in Callers
      PROVE  Fit(d)'
  <2>1. CASE d # c
    <3>1. CASE pc'[d] \in {"scan", "commit"}
      BY <1>3, <2>1, <3>1, Undisturbed DEF FirstFit, Blocked
    <3>2. CASE pc'[d] \notin {"scan", "commit"}
      BY <3>2
    <3> QED BY <3>1, <3>2
  <2>2. CASE d = c /\ ~ (AllocLock(c) \/ ScanFree(c) \/ ScanTaken(c))
    <3>1. pc'[c] \notin {"scan", "commit"}
      BY <1>3, <2>2 DEF IInv, TypeOK, Call, Step, ParamInvalid, AllocEnter, FreeEnter, GetStats,
        BitmapInfo, AllocZero, ScanFail, AllocFull, AllocCommit, FreeNull, FreeCommit,
        FreeNotFound, Return
    <3> QED BY <2>2, <3>1
  <2>3. CASE d = c /\ AllocLock(c)
    <3>1. /\ pc[c] = "alloc" /\ pc'[c] = "scan" /\ i'[c] = i[c] /\ count'[c] = count[c]
          /\ num_blocks'[c] = num_blocks[c] /\ bitmap' = bitmap
      BY <2>3 DEF AllocLock, IInv, TypeOK, locals, alloc_vars
    <3>2. i[c] = 0 /\ count[c] = 0 /\ num_blocks[c] \in Nat
      BY <3>1 DEF IInv, LockInv, TypeOK
    <3>3. \A s \in Blocks : s \in Nat
      BY AllocAssumption DEF Blocks
    <3> QED BY <2>3, <3>1, <3>2, <3>3
  <2>4. CASE d = c /\ ScanTaken(c)
    <3>1. /\ pc[c] = "scan" /\ pc'[c] = "scan" /\ i'[c] = i[c] + 1 /\ count'[c] = 0
          /\ num_blocks'[c] = num_blocks[c] /\ bitmap' = bitmap /\ i[c] \in bitmap
      BY <2>4 DEF ScanTaken, IInv, TypeOK, alloc_vars, bm_test_bit
    <3>2. i[c] \in Nat /\ num_blocks[c] \in Nat
      BY DEF IInv, TypeOK
    <3>3. i'[c] - count'[c] - 1 \in bitmap'
      BY <3>1, <3>2
    <3>4. ASSUME num_blocks[c] > 0, NEW s \in Blocks, s + num_blocks[c] <= i[c] + 1
          PROVE  Blocked(s, num_blocks[c])
      <4>1. s \in Nat
        BY AllocAssumption DEF Blocks
      <4>2. CASE s + num_blocks[c] <= i[c]
        BY <3>1, <3>4, <4>2 DEF FirstFit
      <4>3. CASE s + num_blocks[c] > i[c]
        <5>1. s <= i[c] /\ i[c] < s + num_blocks[c]
          BY <3>2, <3>4, <4>1, <4>3
        <5> QED BY <3>1, <5>1 DEF Blocked
      <4> QED BY <3>2, <4>1, <4>2, <4>3
    <3> QED BY <2>4, <3>1, <3>3, <3>4 DEF Blocked
  <2>5. CASE d = c /\ ScanFree(c)
    <3>1. /\ pc[c] = "scan" /\ num_blocks'[c] = num_blocks[c] /\ bitmap' = bitmap
          /\ count'[c] = count[c] + 1
          /\ start'[c] = IF count[c] = 0 THEN i[c] ELSE start[c]
          /\ \/ count[c] + 1 = num_blocks[c] /\ pc'[c] = "commit"
             \/ count[c] + 1 # num_blocks[c] /\ pc'[c] = "scan" /\ i'[c] = i[c] + 1
      BY <2>5 DEF ScanFree, IInv, TypeOK, alloc_vars
    <3>2. i[c] \in Nat /\ count[c] \in Nat /\ num_blocks[c] \in Nat /\ count[c] <= i[c]
          /\ (num_blocks[c] > 0 => count[c] < num_blocks[c])
          /\ (count[c] > 0 => start[c] = i[c] - count[c])
      BY <3>1 DEF IInv, TypeOK, ScanInv
    <3>3. count[c] < i[c] => i[c] - count[c] - 1 \in bitmap
      BY <3>1 DEF FirstFit
    <3>4. \A s \in Blocks : s \in Nat
      BY AllocAssumption DEF Blocks
    <3>5. CASE count[c] + 1 = num_blocks[c] /\ pc'[c] = "commit"
      <4>1. start'[c] + num_blocks[c] = i[c] + 1
        BY <3>1, <3>2, <3>5
      <4>2. ASSUME NEW s \in Blocks, s < start'[c] PROVE Blocked(s, num_blocks[c])
        <5>1. num_blocks[c] > 0 /\ s + num_blocks[c] <= i[c]
          BY <3>1, <3>2, <3>4, <3>5, <4>1, <4>2
        <5> QED BY <3>1, <5>1 DEF FirstFit
      <4> QED BY <2>5, <3>1, <3>5, <4>2 DEF Blocked
    <3>6. CASE count[c] + 1 # num_blocks[c] /\ pc'[c] = "scan" /\ i'[c] = i[c] + 1
      <4>1. count'[c] < i'[c] => i'[c] - count'[c] - 1 \in bitmap'
        BY <3>1, <3>2, <3>3, <3>6
      <4>2. ASSUME num_blocks[c] > 0, NEW s \in Blocks, s + num_blocks[c] <= i[c] + 1
            PROVE  Blocked(s, num_blocks[c])
        <5>1. CASE s + num_blocks[c] <= i[c]
          BY <3>1, <4>2, <5>1 DEF FirstFit
        <5>2. CASE s + num_blocks[c] > i[c]
          <6> DEFINE b == i[c] - count[c] - 1
          <6>1. count[c] < i[c] /\ s <= b /\ b < s + num_blocks[c]
            BY <3>2, <3>4, <3>6, <4>2, <5>2
          <6> QED BY <3>3, <6>1 DEF Blocked
        <5> QED BY <3>2, <3>4, <5>1, <5>2
      <4> QED BY <2>5, <3>1, <3>6, <4>1, <4>2 DEF Blocked
    <3> QED BY <3>1, <3>5, <3>6
  <2> QED BY <2>1, <2>2, <2>3, <2>4, <2>5
<1> QED BY <1>1, <1>2, <1>3 DEF Next, FirstFit

\* Division in allocator_alloc: the number of blocks is right, or the addition
\* wrapped around to zero blocks for a request beyond the pool.
LEMMA NumBlocksRight ==
  ASSUME NEW b \in 1 .. (SIZE_MOD - 1)
  PROVE  \/ NumBlocks(b) > 0 /\ Abstract!BlocksFor(b) = NumBlocks(b)
         \/ NumBlocks(b) = 0 /\ Abstract!BlocksFor(b) > ALLOC_TOTAL_BLOCKS
<1> DEFINE s == b + ALLOC_BLOCK_SIZE - 1
           q == s \div ALLOC_BLOCK_SIZE
<1>1. s \in Nat /\ SIZE_MOD \in Nat \ {0} /\ ALLOC_BLOCK_SIZE \in Nat \ {0}
      /\ ALLOC_TOTAL_BLOCKS \in Nat /\ s >= ALLOC_BLOCK_SIZE
  BY AllocAssumption
<1>2. Abstract!BlocksFor(b) = q /\ NumBlocks(b) = (s % SIZE_MOD) \div ALLOC_BLOCK_SIZE
  BY DEF Abstract!BlocksFor, NumBlocks
<1>3. q \in Nat /\ q * ALLOC_BLOCK_SIZE <= s /\ s < q * ALLOC_BLOCK_SIZE + ALLOC_BLOCK_SIZE
  BY <1>1, DivBounds
<1>4. ALLOC_BLOCK_SIZE <= (ALLOC_TOTAL_BLOCKS + 1) * ALLOC_BLOCK_SIZE
      /\ (ALLOC_TOTAL_BLOCKS + 1) * ALLOC_BLOCK_SIZE <= SIZE_MOD
  <2>1. ALLOC_BLOCK_SIZE <= (ALLOC_TOTAL_BLOCKS + 1) * ALLOC_BLOCK_SIZE
    BY AllocAssumption, Z3
  <2> QED BY <2>1, AllocAssumption
<1>5. CASE s < SIZE_MOD
  <2>1. s % SIZE_MOD = s
    BY <1>1, <1>5
  <2>2. q > 0
    <3> SUFFICES ASSUME q = 0 PROVE FALSE
      BY <1>3
    <3> HIDE DEF s, q
    <3> QED BY <1>1, <1>3
  <2> QED BY <1>2, <2>1, <2>2
<1>6. CASE s >= SIZE_MOD
  <2>1. s % SIZE_MOD = s - SIZE_MOD /\ s - SIZE_MOD \in Nat /\ s - SIZE_MOD < ALLOC_BLOCK_SIZE
    <3>1. s < SIZE_MOD + SIZE_MOD /\ s - SIZE_MOD \in 0 .. (ALLOC_BLOCK_SIZE - 1)
      BY <1>1, <1>4, <1>6
    <3> HIDE DEF s
    <3> QED BY <1>1, <1>6, <3>1
  <2>2. NumBlocks(b) = 0
    <3>1. (s - SIZE_MOD) \div ALLOC_BLOCK_SIZE = 0
      BY <1>1, <2>1, Z3
    <3> QED BY <1>2, <2>1, <3>1
  <2>3. q > ALLOC_TOTAL_BLOCKS
    <3> SUFFICES ASSUME q <= ALLOC_TOTAL_BLOCKS PROVE FALSE
      BY <1>1, <1>3
    <3> HIDE DEF s, q
    <3>1. \A x, y, z \in Nat : x <= y => x * z <= y * z
      BY Z3
    <3>2. q * ALLOC_BLOCK_SIZE <= ALLOC_TOTAL_BLOCKS * ALLOC_BLOCK_SIZE
      BY <1>1, <1>3, <3>1
    <3>3. (ALLOC_TOTAL_BLOCKS + 1) * ALLOC_BLOCK_SIZE
            = ALLOC_TOTAL_BLOCKS * ALLOC_BLOCK_SIZE + ALLOC_BLOCK_SIZE
      BY <1>1, Z3
    <3>4. ALLOC_TOTAL_BLOCKS * ALLOC_BLOCK_SIZE \in Nat /\ q * ALLOC_BLOCK_SIZE \in Nat
      BY <1>1, <1>3
    <3> QED BY <1>1, <1>3, <1>4, <1>6, <3>2, <3>3, <3>4
  <2> QED BY <1>2, <2>2, <2>3
<1> QED BY <1>1, <1>5, <1>6

\* What the table of a live module stands for.
LEMMA LiveTable ==
  ASSUME IInv, phase = "live"
  PROVE  /\ allocations \in Seq(Records) /\ Len(allocations) \in Nat
         /\ Table = 1 .. Len(allocations)
         /\ \A k \in Table : allocations[k] \in Records /\ Region(allocations[k]) \subseteq Blocks
         /\ \A k \in Table : allocations[k].ptr = allocations[k].start_block
         /\ \A j, k \in Table : allocations[j].ptr = allocations[k].ptr => j = k
<1>1. /\ allocations \in Seq(Records) /\ Len(allocations) \in Nat
      /\ Table = 1 .. Len(allocations)
      /\ \A k \in Table : allocations[k] \in Records
  BY ElementOfSeq, LenProperties DEF IInv, TypeOK, Table
<1>2. \A k \in Table : allocations[k].ptr = allocations[k].start_block
                       /\ Region(allocations[k]) \subseteq Blocks
  <2> TAKE k \in Table
  <2>1. /\ allocations[k].ptr = allocations[k].start_block
        /\ allocations[k].start_block + allocations[k].num_blocks <= ALLOC_TOTAL_BLOCKS
    BY DEF IInv, TableInv, RecordsInv
  <2>2. allocations[k].start_block \in Nat /\ allocations[k].num_blocks \in Nat
    BY <1>1, AllocAssumption DEF Records, Blocks
  <2> QED BY <2>1, <2>2, AllocAssumption DEF Region, Blocks
<1>3. ASSUME NEW j \in Table, NEW k \in Table, allocations[j].ptr = allocations[k].ptr, j # k
      PROVE  FALSE
  <2>1. \A a \in Records : a.start_block \in Region(a) /\ a.start_block \in Blocks
    BY AllocAssumption DEF Records, Region, Blocks
  <2>2. allocations[j].start_block = allocations[k].start_block
    BY <1>2, <1>3
  <2> QED BY <1>1, <1>3, <2>1, <2>2 DEF IInv, TableInv, DisjointInv
<1> QED BY <1>1, <1>2, <1>3

LiveOf(a) == [ptr |-> a.ptr, blocks |-> a.num_blocks]

\* The live regions of a live module are those of the table, one each.
LEMMA LiveIs ==
  ASSUME IInv, phase = "live"
  PROVE  /\ AbsLive = {LiveOf(allocations[k]) : k \in Table}
         /\ Cardinality(AbsLive) = Len(allocations)
         /\ Abstract!TakenBlocks = bitmap
<1>1. AbsLive = {LiveOf(allocations[k]) : k \in Table}
  BY DEF AbsLive, LiveOf
<1>2. Cardinality(AbsLive) = Len(allocations)
  <2> DEFINE f == [k \in 1 .. Len(allocations) |-> LiveOf(allocations[k])]
             n == Len(allocations)
  <2>1. n \in Nat /\ Table = 1 .. n /\ \A j, k \in 1 .. n : allocations[j].ptr = allocations[k].ptr => j = k
    BY LiveTable
  <2>2. f \in [1 .. n -> AbsLive]
    BY <1>1, <2>1
  <2>3. \A j, k \in 1 .. n : f[j] = f[k] => j = k
    BY <2>1 DEF LiveOf
  <2>4. \A x \in AbsLive : \E k \in 1 .. n : f[k] = x
    BY <1>1, <2>1
  <2> HIDE DEF f, n
  <2>5. f \in Bijection(1 .. n, AbsLive)
    BY <2>2, <2>3, <2>4 DEF Bijection, Injection, Surjection, IsInjective
  <2>6. ExistsBijection(1 .. n, AbsLive)
    BY <2>5 DEF ExistsBijection
  <2>7. IsFiniteSet(1 .. n) /\ Cardinality(1 .. n) = n
    <3>1. IsFiniteSet(1 .. n) /\ Cardinality(1 .. n) = IF 1 > n THEN 0 ELSE (n - 1) + 1
      BY <2>1, FS_Interval
    <3> QED BY <2>1, <3>1
  <2>8. Cardinality(AbsLive) = Cardinality(1 .. n)
    BY <2>6, <2>7, FS_Bijection
  <2> QED BY <2>7, <2>8 DEF n
<1>3. Abstract!TakenBlocks = bitmap
  <2>1. \A k \in Table : Abstract!RegionOf(LiveOf(allocations[k])) = Region(allocations[k])
    BY LiveTable DEF Abstract!RegionOf, LiveOf, Region
  <2>2. \A b : b \in Abstract!TakenBlocks <=> \E k \in Table : b \in Region(allocations[k])
    BY <1>1, <2>1 DEF Abstract!TakenBlocks
  <2>3. \A k \in Table : Region(allocations[k]) \subseteq Blocks
    BY LiveTable
  <2>4. bitmap \subseteq Blocks
    BY DEF IInv, TypeOK
  <2>5. \A b \in Blocks : b \in bitmap <=> \E k \in Table : b \in Region(allocations[k])
    BY DEF IInv, TableInv, BitmapInv
  <2> QED BY <2>2, <2>3, <2>4, <2>5
<1> QED BY <1>1, <1>2, <1>3

\* A run fits where no block of it is taken.
LEMMA FitsIs ==
  ASSUME IInv, phase = "live", NEW n \in Nat
  PROVE  \A s : s \in Abstract!Fits(n) <=> s \in 0 .. (ALLOC_TOTAL_BLOCKS - n) /\ ~Blocked(s, n)
<1>1. Abstract!TakenBlocks = bitmap /\ bitmap \subseteq Blocks
  BY LiveIs DEF IInv, TypeOK
<1>2. \A b \in bitmap : b \in Int
  BY <1>1 DEF Blocks
<1>3. ALLOC_TOTAL_BLOCKS \in Nat
  BY AllocAssumption
<1>4. \A s \in 0 .. (ALLOC_TOTAL_BLOCKS - n) :
        (s .. (s + n - 1)) \cap bitmap = {} <=> ~Blocked(s, n)
  <2> TAKE s \in 0 .. (ALLOC_TOTAL_BLOCKS - n)
  <2>1. s \in Int
    OBVIOUS
  <2>2. \A b \in Int : b \in s .. (s + n - 1) <=> s <= b /\ b < s + n
    BY <2>1
  <2> QED BY <1>2, <2>2 DEF Blocked
<1> QED BY <1>1, <1>4 DEF Abstract!Fits

\* A callback that returns has answered its request.
LEMMA ReplyAbs ==
  ASSUME TypeOK, NEW c \in Callers, NEW r, Return(c, r), phase' = phase
  PROVE  Abstract!Reply(c, AnswerOf(r))
<1>1. /\ DOMAIN ret = Callers /\ ret' = [ret EXCEPT ![c] = r]
      /\ pc' = [pc EXCEPT ![c] = "idle"] /\ pc \in [Callers -> PCs]
      /\ bytes' = [bytes EXCEPT ![c] = 0] /\ ptr' = [ptr EXCEPT ![c] = NULL]
      /\ bytes \in [Callers -> 0 .. (SIZE_MOD - 1)] /\ ptr \in [Callers -> Pointers]
  BY DEF Return, TypeOK
<1>2. ret'[c] = r /\ \A d \in Callers : d # c => ret'[d] = ret[d]
  BY <1>1
<1>3. pc'[c] = "idle" /\ \A d \in Callers : d # c => pc'[d] = pc[d] /\ bytes'[d] = bytes[d]
                                                   /\ ptr'[d] = ptr[d]
  BY <1>1
<1>4. AbsAnswer' = [AbsAnswer EXCEPT ![c] = AnswerOf(r)]
  <2>1. \A d \in Callers : AnswerOf(ret'[d]) = IF d = c THEN AnswerOf(r) ELSE AnswerOf(ret[d])
    BY <1>2, Zenon
  <2>2. AbsAnswer' = [d \in Callers |-> AnswerOf(ret'[d])]
    BY DEF AbsAnswer, AnswerOf
  <2>3. AbsAnswer = [d \in Callers |-> AnswerOf(ret[d])]
    BY DEF AbsAnswer
  <2> QED BY <2>1, <2>2, <2>3
<1>5. AbsPending' = [AbsPending EXCEPT ![c] = Abstract!NoRequest]
  <2>1. PendingOf(c)' = Abstract!NoRequest
    BY <1>3 DEF PendingOf, Abstract!NoRequest
  <2>2. \A d \in Callers : d # c => PendingOf(d)' = PendingOf(d)
    BY <1>3 DEF PendingOf
  <2>3. AbsPending' = [d \in Callers |-> PendingOf(d)']
    BY DEF AbsPending
  <2>4. AbsPending = [d \in Callers |-> PendingOf(d)]
    BY DEF AbsPending
  <2> QED BY <2>1, <2>2, <2>3, <2>4
<1>6. AbsUp' = AbsUp
  BY DEF AbsUp
<1> QED BY <1>4, <1>5, <1>6 DEF Abstract!Reply

\* The live regions stay while phase and table do.
LEMMA LiveSame ==
  ASSUME UNCHANGED <<phase, allocations>>
  PROVE  AbsLive' = AbsLive /\ AbsUp' = AbsUp
BY DEF AbsLive, AbsUp, Table

\* The request of a caller that is in a callback.
LEMMA PendingIs ==
  ASSUME IInv, NEW c \in Callers
  PROVE  /\ pc[c] = "idle" => AbsPending[c] = Abstract!NoRequest
         /\ pc[c] = "free" => AbsPending[c].op = "free" /\ AbsPending[c].arg = ptr[c]
         /\ pc[c] \in {"alloc", "scan", "commit"} =>
              AbsPending[c].op = "alloc" /\ AbsPending[c].arg = bytes[c]
         /\ pc[c] # "idle" => phase = "live"
BY DEF AbsPending, PendingOf, IInv, LockInv, Abstract!NoRequest

\* The steps between call and answer are hidden.
LEMMA HiddenSteps ==
  ASSUME IInv, NEW c \in Callers, AllocLock(c) \/ ScanFree(c) \/ ScanTaken(c)
  PROVE  UNCHANGED Abstract!avars
<1>1. UNCHANGED <<phase, allocations, ret, bytes, ptr>>
  BY DEF AllocLock, ScanFree, ScanTaken, alloc_vars, locals
<1>2. /\ pc[c] \in {"alloc", "scan"} /\ pc'[c] \in {"scan", "commit"}
      /\ \A d \in Callers : d # c => pc'[d] = pc[d]
  BY DEF AllocLock, ScanFree, ScanTaken, IInv, TypeOK
<1>3. \A d \in Callers : PendingOf(d)' = PendingOf(d)
  BY <1>1, <1>2 DEF PendingOf
<1>4. AbsPending' = AbsPending
  BY <1>3 DEF AbsPending
<1>5. AbsAnswer' = AbsAnswer
  BY <1>1 DEF AbsAnswer, AnswerOf
<1> QED BY <1>1, <1>4, <1>5, LiveSame DEF Abstract!avars

\* An error code is the answer of a refused request.
LEMMA RefusedAnswers ==
  /\ AnswerOf(AllocResult(NULL)) = Abstract!Answer("alloc", FALSE, NULL)
  /\ \A p : AnswerOf(FreeResult(FALSE, p)) = Abstract!Answer("free", FALSE, p)
<1>1. ASSUME NEW r, NEW op \in {"alloc", "free"}, NEW p, NEW e,
             r = Result(op, e, p, <<>>), e # 0
      PROVE  AnswerOf(r) = Abstract!Answer(op, FALSE, p)
  <2>1. r.op = op /\ r.ptr = p /\ r.code = e
    BY <1>1 DEF Result
  <2>2. r.op \in {"none", "alloc", "free"}
    BY <2>1
  <2>3. (r.code = 0) = FALSE
    BY <1>1, <2>1, Zenon
  <2>4. AnswerOf(r) = [op |-> r.op, ok |-> r.code = 0, ptr |-> r.ptr]
    BY <2>2, Zenon DEF AnswerOf
  <2> QED BY <2>1, <2>3, <2>4, Zenon DEF Abstract!Answer
<1>2. -ENOMEM # 0 /\ -EINVAL # 0
  BY DEF ENOMEM, EINVAL
<1>3. AllocResult(NULL) = Result("alloc", -ENOMEM, NULL, <<>>)
  BY DEF AllocResult
<1>4. \A p : FreeResult(FALSE, p) = Result("free", -EINVAL, p, <<>>)
  BY DEF FreeResult
<1> HIDE DEF Result
<1>5. AnswerOf(AllocResult(NULL)) = Abstract!Answer("alloc", FALSE, NULL)
  BY <1>1, <1>2, <1>3, Zenon
<1>6. \A p : AnswerOf(FreeResult(FALSE, p)) = Abstract!Answer("free", FALSE, p)
  BY <1>1, <1>2, <1>4, Zenon
<1> QED BY <1>5, <1>6

\* AllocSpec counts as this module does.
LEMMA SameCardinality ==
  Abstract!Cardinality(AbsLive) = Cardinality(AbsLive)
BY Zenon DEF Abstract!Cardinality, Cardinality

\* A request is refused when it asks for nothing, when the search has passed
\* all blocks, or when the table is full.
LEMMA RefuseRefines ==
  ASSUME IInv, FirstFit, NEW c \in Callers, AllocZero(c) \/ ScanFail(c) \/ AllocFull(c)
  PROVE  Abstract!Refuse(c)
<1>1. /\ pc[c] \in {"alloc", "scan", "commit"} /\ Return(c, AllocResult(NULL))
      /\ UNCHANGED <<phase, allocations>>
  BY DEF AllocZero, ScanFail, AllocFull, alloc_vars
<1>2. phase = "live" /\ AbsPending[c].op = "alloc" /\ AbsPending[c].arg = bytes[c]
  BY <1>1, PendingIs
<1>3. AnswerOf(AllocResult(NULL)) = Abstract!Answer("alloc", FALSE, NULL)
  BY RefusedAnswers
<1>4. Abstract!Reply(c, Abstract!Answer("alloc", FALSE, NULL)) /\ UNCHANGED AbsLive
  <2>1. Abstract!Reply(c, AnswerOf(AllocResult(NULL)))
    BY <1>1, ReplyAbs DEF IInv
  <2> QED BY <1>1, <1>3, <2>1, LiveSame
<1>5. \/ bytes[c] = 0
      \/ Cardinality(AbsLive) >= MAX_ALLOCATIONS
      \/ Abstract!Fits(Abstract!BlocksFor(bytes[c])) = {}
  <2>1. CASE AllocZero(c)
    BY <2>1 DEF AllocZero
  <2>2. CASE AllocFull(c)
    BY <1>2, <2>2, LiveIs DEF AllocFull
  <2>3. CASE ScanFail(c)
    <3>1. pc[c] = "scan" /\ i[c] >= total_blocks
      BY <2>3 DEF ScanFail
    <3>2. /\ bytes[c] \in 1 .. (SIZE_MOD - 1) /\ num_blocks[c] = NumBlocks(bytes[c])
          /\ i[c] >= ALLOC_TOTAL_BLOCKS /\ i[c] \in Nat /\ num_blocks[c] \in Nat
      <4>1. total_blocks = ALLOC_TOTAL_BLOCKS
        BY <1>2 DEF IInv, TableInv, PhaseInv
      <4>2. bytes[c] > 0 /\ num_blocks[c] = NumBlocks(bytes[c])
        BY <3>1 DEF IInv, LockInv
      <4>3. bytes[c] \in 0 .. (SIZE_MOD - 1) /\ i[c] \in Nat /\ num_blocks[c] \in Nat
        BY DEF IInv, TypeOK
      <4> QED BY <3>1, <4>1, <4>2, <4>3
    <3> DEFINE n == Abstract!BlocksFor(bytes[c])
    <3>3. \/ num_blocks[c] > 0 /\ n = num_blocks[c]
          \/ n > ALLOC_TOTAL_BLOCKS
      BY <3>2, NumBlocksRight
    <3> HIDE DEF n
    <3>4. CASE num_blocks[c] > 0 /\ n = num_blocks[c]
      <4>1. \A s \in Blocks : s + n <= i[c] => Blocked(s, n)
        BY <3>1, <3>4 DEF FirstFit
      <4>2. ASSUME NEW s \in 0 .. (ALLOC_TOTAL_BLOCKS - n) PROVE Blocked(s, n)
        <5>1. s \in Blocks /\ s + n <= i[c]
          BY <3>2, <3>4, AllocAssumption DEF Blocks
        <5> QED BY <4>1, <5>1
      <4>3. \A s : s \notin Abstract!Fits(n)
        BY <1>2, <3>2, <3>4, <4>2, FitsIs
      <4> QED BY <4>3 DEF n
    <3>5. CASE n > ALLOC_TOTAL_BLOCKS
      <4>1. n \in Int
        <5>1. bytes[c] + ALLOC_BLOCK_SIZE - 1 \in Nat /\ ALLOC_BLOCK_SIZE \in Nat \ {0}
          BY <3>2, AllocAssumption
        <5>2. (bytes[c] + ALLOC_BLOCK_SIZE - 1) \div ALLOC_BLOCK_SIZE \in Nat
          BY <5>1, DivBounds
        <5> QED BY <5>2 DEF n, Abstract!BlocksFor
      <4>2. 0 .. (ALLOC_TOTAL_BLOCKS - n) = {}
        BY <3>5, <4>1, AllocAssumption
      <4> QED BY <4>2 DEF n, Abstract!Fits
    <3> QED BY <3>3, <3>4, <3>5
  <2> QED BY <2>1, <2>2, <2>3
<1>6. \/ AbsPending[c].arg = 0
      \/ Cardinality(AbsLive) >= MAX_ALLOCATIONS
      \/ Abstract!Fits(Abstract!BlocksFor(AbsPending[c].arg)) = {}
  BY <1>2, <1>5, Zenon
<1> QED BY <1>2, <1>4, <1>6, SameCardinality, Zenon DEF Abstract!Refuse

\* A granted region is the first that fits.
LEMMA GrantRefines ==
  ASSUME IInv, FirstFit, NEW c \in Callers, AllocCommit(c)
  PROVE  Abstract!Grant(c)
<1> DEFINE s == start[c]
           m == num_blocks[c]
           n == Len(allocations)
           a == [start_block |-> s, num_blocks |-> m, ptr |-> s]
<1>1. /\ pc[c] = "commit" /\ Return(c, AllocResult(s)) /\ phase' = phase
      /\ n < MAX_ALLOCATIONS /\ allocations' = Append(allocations, a)
  BY DEF AllocCommit, PoolAddress
<1>2. phase = "live" /\ AbsPending[c].op = "alloc" /\ AbsPending[c].arg = bytes[c]
  BY <1>1, PendingIs
<1>3. /\ m \in Nat /\ m >= 1 /\ s \in Nat /\ s + m <= ALLOC_TOTAL_BLOCKS /\ s # NULL
      /\ \A b \in Blocks : s <= b /\ b < s + m => b \notin bitmap
  BY <1>1, AllocAssumption DEF IInv, TypeOK, ScanInv, NULL
<1>4. bytes[c] \in 1 .. (SIZE_MOD - 1) /\ m = NumBlocks(bytes[c])
  BY <1>1 DEF IInv, TypeOK, LockInv
<1>5. Abstract!BlocksFor(bytes[c]) = m
  BY <1>3, <1>4, NumBlocksRight
<1>6. s \in Abstract!Fits(m) /\ \A t \in Abstract!Fits(m) : s <= t
  <2>1. bitmap \subseteq Blocks /\ ALLOC_TOTAL_BLOCKS \in Nat
    BY AllocAssumption DEF IInv, TypeOK
  <2>2. s \in 0 .. (ALLOC_TOTAL_BLOCKS - m) /\ ~Blocked(s, m)
    BY <1>3, <2>1 DEF Blocked
  <2>3. ASSUME NEW t \in 0 .. (ALLOC_TOTAL_BLOCKS - m), ~Blocked(t, m) PROVE s <= t
    <3>1. t \in Blocks
      BY <1>3, <2>1 DEF Blocks
    <3>2. ~ (t < s)
      BY <1>1, <2>3, <3>1 DEF FirstFit
    <3> QED BY <1>3, <3>2
  <2> QED BY <1>2, <1>3, <2>2, <2>3, FitsIs
<1>7. AbsLive' = AbsLive \cup {[ptr |-> s, blocks |-> m]}
  <2>1. n \in Nat /\ Table = 1 .. n /\ allocations \in Seq(Records)
    BY <1>2, LiveTable
  <2>2. /\ Len(allocations') = n + 1
        /\ \A k \in 1 .. n : allocations'[k] = allocations[k]
        /\ allocations'[n + 1] = a
    <3>1. Append(allocations, a) = allocations'
      BY <1>1
    <3> HIDE DEF a
    <3> QED BY <2>1, <3>1
  <2>3. AbsLive' = {LiveOf(allocations'[k]) : k \in 1 .. (n + 1)}
    BY <1>1, <1>2, <2>2 DEF AbsLive, Table, LiveOf
  <2>4. AbsLive = {LiveOf(allocations[k]) : k \in 1 .. n}
    BY <1>2, <2>1, LiveIs
  <2>5. LiveOf(a) = [ptr |-> s, blocks |-> m]
    BY DEF LiveOf
  <2>6. \A k \in 1 .. (n + 1) : k \in 1 .. n \/ k = n + 1
    BY <2>1
  <2>7. n + 1 \in 1 .. (n + 1) /\ \A k \in 1 .. n : k \in 1 .. (n + 1)
    BY <2>1
  <2> HIDE DEF a, n, s, m
  <2>8. \A x : x \in AbsLive' <=> x \in AbsLive \/ x = LiveOf(a)
    BY <2>2, <2>3, <2>4, <2>6, <2>7
  <2> QED BY <2>5, <2>8
<1>8. Abstract!Reply(c, Abstract!Answer("alloc", TRUE, s))
  <2>1. Abstract!Reply(c, AnswerOf(AllocResult(s)))
    BY <1>1, ReplyAbs DEF IInv
  <2>2. AnswerOf(AllocResult(s)) = Abstract!Answer("alloc", TRUE, s)
    BY <1>3 DEF AnswerOf, AllocResult, Result, Abstract!Answer
  <2> QED BY <2>1, <2>2
<1>9. Cardinality(AbsLive) < MAX_ALLOCATIONS
  BY <1>1, <1>2, LiveIs
<1>10. Abstract!BlocksFor(AbsPending[c].arg) = m /\ m > 0
  BY <1>2, <1>3, <1>5
<1> HIDE DEF s, m, n, a
<1>11. LET k == Abstract!BlocksFor(AbsPending[c].arg)
       IN  /\ k > 0
           /\ \E t \in Abstract!Fits(k) :
                /\ \A u \in Abstract!Fits(k) : t <= u
                /\ AbsLive' = AbsLive \cup {[ptr |-> t, blocks |-> k]}
                /\ Abstract!Reply(c, Abstract!Answer("alloc", TRUE, t))
  BY <1>6, <1>7, <1>8, <1>10, Zenon
<1> QED BY <1>2, <1>9, <1>11, SameCardinality, Zenon DEF Abstract!Grant

\* A free releases the region at its address and no other, or is rejected.
LEMMA FreeRefines ==
  ASSUME IInv, NEW c \in Callers, FreeCommit(c) \/ FreeNull(c) \/ FreeNotFound(c)
  PROVE  Abstract!Release(c) \/ Abstract!Reject(c)
<1> DEFINE n == Len(allocations)
<1>1. pc[c] = "free" /\ phase' = phase
  BY DEF FreeCommit, FreeNull, FreeNotFound
<1>2. phase = "live" /\ AbsPending[c].op = "free" /\ AbsPending[c].arg = ptr[c]
  BY <1>1, PendingIs
<1>3. /\ allocations \in Seq(Records) /\ n \in Nat /\ Table = 1 .. n
      /\ \A k \in Table : allocations[k] \in Records
      /\ \A j, k \in Table : allocations[j].ptr = allocations[k].ptr => j = k
  BY <1>2, LiveTable
<1>4. AbsLive = {LiveOf(allocations[k]) : k \in Table}
  BY <1>2, LiveIs
<1>5. CASE FreeCommit(c)
  <2>1. PICK k \in Table : /\ allocations[k].ptr = ptr[c]
                           /\ allocations' = RemoveRecord(allocations, k)
    BY <1>5 DEF FreeCommit
  <2>2. /\ Len(allocations') = n - 1
        /\ \A j \in 1 .. (n - 1) :
             allocations'[j] = IF j = k THEN allocations[n] ELSE allocations[j]
    <3>1. k \in 1 .. Len(allocations)
      BY <1>3
    <3> HIDE <1>2, <1>4, <1>5, <2>1
    <3>2. /\ Len(RemoveRecord(allocations, k)) = n - 1
          /\ \A j \in 1 .. (n - 1) :
               RemoveRecord(allocations, k)[j] = IF j = k THEN allocations[n] ELSE allocations[j]
      BY <1>3, <3>1, RemoveRecordFacts
    <3> QED BY <2>1, <3>2, Zenon
  <2>3. AbsLive' = {LiveOf(allocations'[j]) : j \in 1 .. (n - 1)}
    BY <1>1, <1>2, <2>2 DEF AbsLive, Table, LiveOf
  <2>4. \A j \in 1 .. (n - 1) : \E m \in Table : m # k /\ allocations'[j] = allocations[m]
    <3> TAKE j \in 1 .. (n - 1)
    <3>1. j \in Table /\ n \in Table /\ n # j
      BY <1>3
    <3> QED BY <2>2, <3>1
  <2>5. \A m \in Table : m # k => \E j \in 1 .. (n - 1) : allocations'[j] = allocations[m]
    <3> TAKE m \in Table
    <3> HAVE m # k
    <3>1. CASE m = n
      BY <1>3, <2>1, <2>2, <3>1
    <3>2. CASE m # n
      BY <1>3, <2>1, <2>2, <3>2
    <3> QED BY <3>1, <3>2
  <2>6. \A m \in Table : m # k => LiveOf(allocations[m]) # LiveOf(allocations[k])
    BY <1>3 DEF LiveOf
  <2> DEFINE g == LiveOf(allocations[k])
  <2>7. \A x : x \in AbsLive' <=> x \in AbsLive /\ x # g
    <3> HIDE DEF n
    <3>1. ASSUME NEW x \in AbsLive' PROVE x \in AbsLive /\ x # g
      <4>1. PICK j \in 1 .. (n - 1) : x = LiveOf(allocations'[j])
        BY <2>3
      <4>2. PICK m \in Table : m # k /\ allocations'[j] = allocations[m]
        BY <2>4
      <4> QED BY <1>4, <2>6, <4>1, <4>2
    <3>2. ASSUME NEW x \in AbsLive, x # g PROVE x \in AbsLive'
      <4>1. PICK m \in Table : x = LiveOf(allocations[m])
        BY <1>4
      <4>2. PICK j \in 1 .. (n - 1) : allocations'[j] = allocations[m]
        BY <2>5, <3>2, <4>1
      <4> QED BY <2>3, <4>1, <4>2
    <3> QED BY <3>1, <3>2
  <2>8. g \in AbsLive /\ g.ptr = ptr[c] /\ AbsLive' = AbsLive \ {g}
    <3>1. g.ptr = ptr[c]
      BY <2>1 DEF LiveOf
    <3> HIDE DEF g
    <3> QED BY <1>4, <2>7, <3>1 DEF g
  <2>9. Abstract!Reply(c, Abstract!Answer("free", TRUE, ptr[c]))
    <3>1. Abstract!Reply(c, AnswerOf(FreeResult(TRUE, ptr[c])))
      BY <1>1, <1>5, ReplyAbs DEF IInv, FreeCommit
    <3>2. AnswerOf(FreeResult(TRUE, ptr[c])) = Abstract!Answer("free", TRUE, ptr[c])
      BY DEF AnswerOf, FreeResult, Result, Abstract!Answer
    <3> QED BY <3>1, <3>2
  <2> HIDE DEF g
  <2> QED BY <1>2, <2>8, <2>9 DEF Abstract!Release
<1>6. CASE FreeNull(c) \/ FreeNotFound(c)
  <2>1. /\ \A k \in Table : allocations[k].ptr # ptr[c]
        /\ Return(c, FreeResult(FALSE, ptr[c])) /\ UNCHANGED <<phase, allocations>>
    <3>1. CASE FreeNull(c)
      <4>1. \A k \in Table : allocations[k].ptr # NULL
        BY <1>3, AllocAssumption DEF Records, Blocks, NULL
      <4> QED BY <3>1, <4>1 DEF FreeNull, alloc_vars
    <3>2. CASE FreeNotFound(c)
      BY <3>2 DEF FreeNotFound, alloc_vars
    <3> QED BY <1>6, <3>1, <3>2
  <2>2. \A g \in AbsLive : g.ptr # ptr[c]
    BY <1>4, <2>1 DEF LiveOf
  <2>3. Abstract!Reply(c, Abstract!Answer("free", FALSE, ptr[c]))
    <3>1. Abstract!Reply(c, AnswerOf(FreeResult(FALSE, ptr[c])))
      BY <2>1, ReplyAbs DEF IInv
    <3>2. AnswerOf(FreeResult(FALSE, ptr[c])) = Abstract!Answer("free", FALSE, ptr[c])
      BY RefusedAnswers
    <3> QED BY <3>1, <3>2
  <2>4. AbsLive' = AbsLive
    BY <2>1, LiveSame
  <2> QED BY <1>2, <2>2, <2>3, <2>4 DEF Abstract!Reject
<1> QED BY <1>5, <1>6

\* Requests and answers stay while the callers' variables do.
LEMMA CallersSame ==
  ASSUME UNCHANGED <<pc, bytes, ptr, ret>>
  PROVE  AbsPending' = AbsPending /\ AbsAnswer' = AbsAnswer
<1>1. \A d \in Callers : PendingOf(d)' = PendingOf(d)
  BY DEF PendingOf
<1>2. AbsPending' = AbsPending
  BY <1>1 DEF AbsPending
<1>3. AbsAnswer' = AbsAnswer
  BY DEF AbsAnswer, AnswerOf
<1> QED BY <1>2, <1>3

\* A number is passed to allocator_alloc or allocator_free.
LEMMA RequestRefines ==
  ASSUME RacyLifecycle = FALSE, IInv, NEW c \in Callers, AllocEnter(c) \/ FreeEnter(c)
  PROVE  Abstract!Request(c)
<1>1. /\ pc[c] = "idle" /\ phase = "live" /\ UNCHANGED <<phase, allocations>>
      /\ ret' = [ret EXCEPT ![c] = NoResult]
      /\ \A d \in Callers : d # c => pc'[d] = pc[d] /\ bytes'[d] = bytes[d] /\ ptr'[d] = ptr[d]
  BY DEF AllocEnter, FreeEnter, Callable, alloc_vars, IInv, TypeOK
<1>2. AbsPending[c] = Abstract!NoRequest
  BY <1>1, PendingIs
<1>3. \E r \in [op : {"alloc"}, arg : RequestSizes] \cup [op : {"free"}, arg : Pointers] :
        PendingOf(c)' = r
  <2>1. CASE AllocEnter(c)
    <3>1. PICK b \in RequestSizes : bytes' = [bytes EXCEPT ![c] = b]
      BY <2>1 DEF AllocEnter
    <3>2. pc'[c] = "alloc" /\ bytes'[c] = b
      BY <2>1, <3>1 DEF AllocEnter, IInv, TypeOK
    <3>3. PendingOf(c)' = [op |-> "alloc", arg |-> b]
      BY <3>2 DEF PendingOf
    <3> QED BY <3>3
  <2>2. CASE FreeEnter(c)
    <3>1. PICK q \in Pointers : ptr' = [ptr EXCEPT ![c] = q]
      BY <2>2 DEF FreeEnter
    <3>2. pc'[c] = "free" /\ ptr'[c] = q
      BY <2>2, <3>1 DEF FreeEnter, IInv, TypeOK
    <3>3. PendingOf(c)' = [op |-> "free", arg |-> q]
      BY <3>2 DEF PendingOf
    <3> QED BY <3>3
  <2> QED BY <2>1, <2>2
<1>4. \E r \in [op : {"alloc"}, arg : RequestSizes] \cup [op : {"free"}, arg : Pointers] :
        AbsPending' = [AbsPending EXCEPT ![c] = r]
  <2>1. PICK r \in [op : {"alloc"}, arg : RequestSizes] \cup [op : {"free"}, arg : Pointers] :
          PendingOf(c)' = r
    BY <1>3
  <2>2. \A d \in Callers : PendingOf(d)' = IF d = c THEN r ELSE PendingOf(d)
    BY <1>1, <2>1 DEF PendingOf
  <2>3. AbsPending' = [d \in Callers |-> PendingOf(d)']
    BY DEF AbsPending
  <2>4. AbsPending = [d \in Callers |-> PendingOf(d)]
    BY DEF AbsPending
  <2>5. AbsPending' = [AbsPending EXCEPT ![c] = r]
    BY <2>2, <2>3, <2>4
  <2> QED BY <2>5
<1>5. AbsAnswer' = [AbsAnswer EXCEPT ![c] = Abstract!NoAnswer]
  <2>1. \A d \in Callers : ret'[d] = IF d = c THEN NoResult ELSE ret[d]
    BY <1>1 DEF IInv, TypeOK
  <2>2. AnswerOf(NoResult) = Abstract!NoAnswer
    BY DEF AnswerOf, NoResult, Result, Abstract!NoAnswer, Abstract!Answer
  <2>3. \A d \in Callers : AnswerOf(ret'[d]) = IF d = c THEN Abstract!NoAnswer ELSE AnswerOf(ret[d])
    BY <2>1, <2>2, Zenon
  <2>4. AbsAnswer' = [d \in Callers |-> AnswerOf(ret'[d])]
    BY DEF AbsAnswer, AnswerOf
  <2>5. AbsAnswer = [d \in Callers |-> AnswerOf(ret[d])]
    BY DEF AbsAnswer
  <2> QED BY <2>3, <2>4, <2>5
<1>6. AbsUp /\ AbsUp' = AbsUp /\ AbsLive' = AbsLive
  BY <1>1, LiveSame DEF AbsUp
<1> QED BY <1>2, <1>4, <1>5, <1>6 DEF Abstract!Request

\* A number that is none, the statistics and the map leave the regions alone.
LEMMA QueryRefines ==
  ASSUME RacyLifecycle = FALSE, IInv, NEW c \in Callers,
         ParamInvalid(c) \/ GetStats(c) \/ BitmapInfo(c)
  PROVE  Abstract!Query(c)
<1>1. /\ pc[c] = "idle" /\ phase = "live" /\ UNCHANGED <<phase, allocations>>
      /\ \E r : Return(c, r) /\ AnswerOf(r) = Abstract!Answer("query", TRUE, NULL)
  <2>1. \A op \in {"invalid", "stats", "info"} : \A code, figures :
          AnswerOf(Result(op, code, NULL, figures)) = Abstract!Answer("query", TRUE, NULL)
    BY DEF AnswerOf, Result, Abstract!Answer
  <2>2. CASE ParamInvalid(c)
    BY <2>1, <2>2, Zenon DEF ParamInvalid, Callable, alloc_vars
  <2>3. CASE GetStats(c)
    BY <2>1, <2>3, Zenon DEF GetStats, Callable, alloc_vars
  <2>4. CASE BitmapInfo(c)
    BY <2>1, <2>4, Zenon DEF BitmapInfo, Callable, alloc_vars
  <2> QED BY <2>2, <2>3, <2>4
<1>2. Abstract!Reply(c, Abstract!Answer("query", TRUE, NULL))
  BY <1>1, ReplyAbs DEF IInv
<1>3. AbsPending[c] = Abstract!NoRequest /\ AbsUp /\ AbsLive' = AbsLive
  BY <1>1, PendingIs, LiveSame DEF AbsUp
<1> QED BY <1>2, <1>3 DEF Abstract!Query

\* Init makes an empty allocator, exit takes every region back; the other steps
\* of the loading process are hidden.
LEMMA LoaderRefines ==
  ASSUME RacyLifecycle = FALSE, IInv, Loader
  PROVE  Abstract!Start \/ Abstract!Stop \/ UNCHANGED Abstract!avars
<1>1. AbsPending' = AbsPending /\ AbsAnswer' = AbsAnswer
  <2>1. UNCHANGED <<pc, bytes, ptr, ret>>
    BY DEF Loader, Insmod, InitFields, InitBitmap, InitPool, CleanupPool, CleanupBitmap,
      CleanupTable, Teardown, caller_vars, locals
  <2> QED BY <2>1, CallersSame
<1>2. \A c \in Callers : AbsPending[c] = Abstract!NoRequest
  BY LoaderAlone, PendingIs
<1>3. CASE phase # "live" /\ phase' # "live"
  BY <1>1, <1>3 DEF AbsUp, AbsLive, Abstract!avars
<1>4. CASE phase # "live" /\ phase' = "live"
  <2>1. allocations = <<>> /\ allocations' = allocations
    BY <1>4 DEF Loader, Insmod, InitFields, InitBitmap, InitPool, CleanupPool, CleanupBitmap,
      CleanupTable, Teardown, alloc_vars, IInv, TableInv, PhaseInv
  <2>2. Table' = {}
    BY <2>1 DEF Table
  <2>3. AbsLive = {} /\ AbsLive' = {}
    BY <1>4, <2>2 DEF AbsLive
  <2> QED BY <1>1, <1>4, <2>3 DEF AbsUp, Abstract!Start
<1>5. CASE phase = "live"
  <2>1. phase' # "live"
    BY <1>5 DEF Loader, Insmod, InitFields, InitBitmap, InitPool, CleanupPool, CleanupBitmap,
      CleanupTable, Teardown
  <2> QED BY <1>1, <1>2, <1>5, <2>1 DEF AbsUp, AbsLive, Abstract!Stop
<1> QED BY <1>3, <1>4, <1>5

\* Whatever the pool, the table and the requests: grants are first-fit, refusals
\* are justified, a free releases its region and no other, as if every call of
\* allocator_alloc and allocator_free were one step.
THEOREM AllocRefinement ==
  ASSUME RacyLifecycle = FALSE
  PROVE  Spec => ImplementsAllocSpec
<1>1. Init => Abstract!Init
  <2> SUFFICES ASSUME Init PROVE Abstract!Init
    OBVIOUS
  <2>1. AbsUp = FALSE /\ AbsLive = {}
    BY DEF Init, AbsUp, AbsLive
  <2>2. AbsPending = [c \in Callers |-> Abstract!NoRequest]
    BY DEF Init, AbsPending, PendingOf, Abstract!NoRequest
  <2>3. AnswerOf(NoResult) = Abstract!NoAnswer
    BY DEF AnswerOf, NoResult, Result, Abstract!NoAnswer, Abstract!Answer
  <2>4. \A c \in Callers : AnswerOf(ret[c]) = Abstract!NoAnswer
    BY <2>3, Zenon DEF Init
  <2>5. AbsAnswer = [c \in Callers |-> Abstract!NoAnswer]
    BY <2>4 DEF AbsAnswer
  <2> QED BY <2>1, <2>2, <2>5 DEF Abstract!Init
<1>2. Init => FirstFit
  BY DEF Init, FirstFit
<1>3. IInv /\ FirstFit /\ [Next]_vars => FirstFit'
  BY FirstFitNext
<1>4. IInv /\ FirstFit /\ [Next]_vars => [Abstract!Next]_(Abstract!avars)
  <2> SUFFICES ASSUME IInv, FirstFit, [Next]_vars PROVE Abstract!Next \/ UNCHANGED Abstract!avars
    OBVIOUS
  <2>1. CASE Loader
    BY <2>1, LoaderRefines DEF Abstract!Next
  <2>2. ASSUME NEW c \in Callers, Call(c) PROVE Abstract!Next
    BY <2>2, RequestRefines, QueryRefines DEF Call, Abstract!Next
  <2>3. ASSUME NEW c \in Callers, Step(c) PROVE Abstract!Next \/ UNCHANGED Abstract!avars
    BY <2>3, HiddenSteps, RefuseRefines, GrantRefines, FreeRefines DEF Step, Abstract!Next
  <2>4. CASE UNCHANGED vars
    <3>1. UNCHANGED <<phase, allocations, pc, bytes, ptr, ret>>
      BY <2>4 DEF vars, locals
    <3> QED BY <3>1, CallersSame, LiveSame DEF Abstract!avars
  <2> QED BY <2>1, <2>2, <2>3, <2>4 DEF Next
<1> QED BY <1>1, <1>2, <1>3, <1>4, Invariance, PTL DEF Spec, ImplementsAllocSpec, Abstract!Spec

-----------------------------------------------------------------------------
(* The figures of stats *)

\* Every nonempty set of natural numbers has a least element.
LEMMA LeastNat ==
  ASSUME NEW T, T \subseteq Nat, T # {}
  PROVE  \E m \in T : \A n \in T : m <= n
<1> DEFINE R == OpToRel(<, Nat)
<1>1. IsWellFoundedOn(R, Nat)
  BY NatLessThanWellFounded
<1>2. \A x, y \in Nat : x < y => <<x, y>> \in R
  BY DEF OpToRel
<1> HIDE DEF R
<1>3. PICK m \in T : \A y \in T : ~ (<<y, m>> \in R)
  BY <1>1, WFMin
<1>4. \A y \in T : ~ (y < m)
  BY <1>2, <1>3
<1> QED BY <1>4

\* First blocks of the free runs of a bitmap.
RunStarts(bits) == {b \in Blocks : b \notin bits /\ (b = 0 \/ (b - 1) \in bits)}

\* Each block of a set of free blocks is in a run that has a first block.
LEMMA RunOf ==
  ASSUME NEW bits \in SUBSET Blocks, NEW b \in Blocks, b \notin bits
  PROVE  \E s \in RunStarts(bits) : s <= b /\ \A x \in s .. b : x \in Blocks \ bits
<1> DEFINE D == {s \in Blocks : s <= b /\ \A x \in s .. b : x \notin bits}
<1>1. \A x : x \in Blocks <=> x \in Nat /\ x < ALLOC_TOTAL_BLOCKS
  BY AllocAssumption DEF Blocks
<1>2. ALLOC_TOTAL_BLOCKS \in Nat
  BY AllocAssumption
<1>3. b \in D
  <2>1. \A x \in b .. b : x = b
    BY <1>1
  <2> QED BY <1>1, <2>1
<1>4. D \subseteq Nat
  BY <1>1
<1>5. PICK s \in D : \A t \in D : s <= t
  BY <1>3, <1>4, LeastNat
<1>6. s \in RunStarts(bits)
  <2>1. s \in s .. b /\ s \in Blocks
    BY <1>1, <1>5
  <2>2. s \notin bits
    BY <1>5, <2>1
  <2>3. ASSUME s # 0, (s - 1) \notin bits PROVE FALSE
    <3>1. s - 1 \in Blocks /\ s - 1 <= b
      BY <1>1, <1>2, <1>5, <2>3
    <3>2. \A x \in (s - 1) .. b : x = s - 1 \/ x \in s .. b
      BY <1>1, <2>1
    <3>3. s - 1 \in D
      BY <1>5, <2>3, <3>1, <3>2
    <3>4. s <= s - 1
      BY <1>5, <3>3
    <3> QED BY <1>1, <2>1, <3>4
  <2> QED BY <2>1, <2>2, <2>3 DEF RunStarts
<1>7. s <= b /\ \A x \in s .. b : x \in Blocks \ bits
  BY <1>1, <1>2, <1>5
<1> QED BY <1>6, <1>7

\* bm_fragmentation_percent is 0 exactly when there is at most one run.
LEMMA PercentIs ==
  ASSUME NEW bits \in SUBSET Blocks
  PROVE  bm_fragmentation_percent(bits) = 0 <=> \A s, t \in RunStarts(bits) : s = t
<1> DEFINE S == RunStarts(bits)
           r == Cardinality(S)
<1>1. IsFiniteSet(S) /\ r \in Nat
  <2>1. IsFiniteSet(Blocks)
    <3>1. 0 \in Int /\ ALLOC_TOTAL_BLOCKS - 1 \in Int
      BY AllocAssumption
    <3> QED BY <3>1, FS_Interval DEF Blocks
  <2>2. S \in SUBSET Blocks
    BY DEF RunStarts
  <2>3. IsFiniteSet(S)
    BY <2>1, <2>2, FS_Subset
  <2> QED BY <2>3, FS_CardinalityType
<1>2. bm_fragmentation_percent(bits) = IF r <= 1 THEN 0 ELSE ((r - 1) * 100) \div r
  BY DEF bm_fragmentation_percent, FreeRegions, RunStarts
<1> HIDE DEF r
<1>3. bm_fragmentation_percent(bits) = 0 <=> r <= 1
  <2>1. ASSUME r > 1 PROVE ((r - 1) * 100) \div r > 0
    <3> DEFINE v == (r - 1) * 100
    <3>1. v \in Nat /\ r \in Nat \ {0} /\ v >= r
      BY <1>1, <2>1
    <3> HIDE DEF v
    <3>2. v \div r \in Nat /\ v < (v \div r) * r + r
      BY <3>1, DivBounds
    <3>3. v \div r # 0
      BY <3>1, <3>2
    <3> QED BY <3>2, <3>3 DEF v
  <2> QED BY <1>1, <1>2, <2>1
<1>4. r <= 1 <=> \A s, t \in S : s = t
  <2>1. ASSUME r <= 1 PROVE \A s, t \in S : s = t
    <3>1. S = {} \/ \E x : S = {x}
      BY <1>1, <2>1, FS_EmptySet, FS_Singleton DEF r
    <3> QED BY <3>1
  <2>2. ASSUME \A s, t \in S : s = t PROVE r <= 1
    <3>1. CASE S = {}
      BY <1>1, <3>1, FS_EmptySet DEF r
    <3>2. CASE S # {}
      <4>1. \E x : S = {x}
        BY <2>2, <3>2
      <4> QED BY <1>1, <4>1, FS_Singleton DEF r
    <3> QED BY <3>1, <3>2
  <2> QED BY <2>1, <2>2
<1> QED BY <1>3, <1>4

\* The free blocks are an interval exactly when they have at most one first block.
LEMMA OneRunIs ==
  ASSUME NEW bits \in SUBSET Blocks
  PROVE  OneRun(Blocks \ bits) <=> \A s, t \in RunStarts(bits) : s = t
<1> DEFINE F == Blocks \ bits
<1>1. \A x : x \in Blocks <=> x \in Nat /\ x < ALLOC_TOTAL_BLOCKS
  BY AllocAssumption DEF Blocks
<1>2. ALLOC_TOTAL_BLOCKS \in Nat \ {0}
  BY AllocAssumption
<1>3. ASSUME NEW s \in Blocks, NEW n \in 0 .. ALLOC_TOTAL_BLOCKS, F = s .. (s + n - 1)
      PROVE  \A t \in RunStarts(bits) : t = s
  <2> TAKE t \in RunStarts(bits)
  <2>1. t \in F /\ (t = 0 \/ (t - 1) \in bits)
    BY DEF RunStarts
  <2>2. s <= t /\ t <= s + n - 1 /\ s \in Nat /\ t \in Nat /\ n \in Nat
    BY <1>1, <1>3, <2>1
  <2>3. ASSUME s < t PROVE FALSE
    <3>1. t - 1 \in s .. (s + n - 1)
      BY <2>2, <2>3
    <3> QED BY <1>3, <2>1, <2>2, <2>3, <3>1
  <2> QED BY <2>2, <2>3
<1>4. ASSUME \A s, t \in RunStarts(bits) : s = t
      PROVE  \E s \in Blocks, n \in 0 .. ALLOC_TOTAL_BLOCKS : F = s .. (s + n - 1)
  <2>1. CASE F = {}
    <3>1. 0 \in Blocks /\ 0 \in 0 .. ALLOC_TOTAL_BLOCKS /\ 0 .. (0 + 0 - 1) = {}
      BY <1>1, <1>2
    <3> QED BY <2>1, <3>1
  <2>2. CASE F # {}
    <3>1. PICK b \in F : TRUE
      BY <2>2
    <3>2. PICK s \in RunStarts(bits) : TRUE
      BY <3>1, RunOf
    <3>3. \A x \in F : s <= x /\ \A y \in s .. x : y \in F
      BY <1>4, RunOf
    <3>4. s \in F /\ s \in Nat
      BY <1>1 DEF RunStarts
    <3> DEFINE U == {u \in Nat : \A x \in F : x < u}
    <3>5. U \subseteq Nat /\ ALLOC_TOTAL_BLOCKS \in U
      BY <1>1, <1>2
    <3>6. PICK u \in U : \A v \in U : u <= v
      BY <3>5, LeastNat
    <3>7. s < u /\ u <= ALLOC_TOTAL_BLOCKS /\ u \in Nat
      BY <3>4, <3>5, <3>6
    <3>8. u - 1 \in F
      <4> SUFFICES ASSUME u - 1 \notin F PROVE FALSE
        OBVIOUS
      <4>1. \A x \in F : x < u - 1
        <5> TAKE x \in F
        <5>1. x \in Nat /\ x < u /\ x # u - 1
          BY <1>1, <3>6
        <5> QED BY <3>7, <5>1
      <4>2. u - 1 \in U
        BY <3>4, <3>7, <4>1
      <4>3. u <= u - 1
        BY <3>6, <4>2
      <4> QED BY <3>7, <4>3
    <3>9. F = s .. (u - 1)
      <4>1. \A x \in F : x \in Nat /\ s <= x /\ x < u
        BY <1>1, <3>3, <3>6
      <4>2. \A x \in F : x \in s .. (u - 1)
        BY <3>4, <3>7, <4>1
      <4>3. \A x \in s .. (u - 1) : x \in F
        BY <3>3, <3>8
      <4> QED BY <4>2, <4>3
    <3>10. PICK n \in 0 .. ALLOC_TOTAL_BLOCKS : s + n - 1 = u - 1
      BY <1>2, <3>3, <3>4, <3>7
    <3>11. s \in Blocks
      BY <3>4
    <3> HIDE DEF F, U
    <3> QED BY <3>9, <3>10, <3>11
  <2> QED BY <2>1, <2>2
<1> QED BY <1>3, <1>4 DEF OneRun

\* Every live request has a record with exactly the blocks that it needs.
GrantsSized ==
  \A g \in granted : \E k \in Table :
    allocations[k].ptr = g.ptr /\ allocations[k].num_blocks = BlocksNeeded(g.bytes)

\* A free moves records, it does not change the others.
LEMMA RecordsMove ==
  ASSUME IInv, phase = "live", NEW k \in Table, allocations' = RemoveRecord(allocations, k)
  PROVE  \A m \in Table : m # k => \E j \in Table' : allocations'[j] = allocations[m]
<1> DEFINE n == Len(allocations)
<1>1. allocations \in Seq(Records) /\ n \in Nat /\ Table = 1 .. n
  BY LiveTable
<1>2. /\ Len(allocations') = n - 1
      /\ \A j \in 1 .. (n - 1) :
           allocations'[j] = IF j = k THEN allocations[n] ELSE allocations[j]
  BY <1>1, RemoveRecordFacts
<1>3. Table' = 1 .. (n - 1)
  BY <1>2 DEF Table
<1> TAKE m \in Table
<1> HAVE m # k
<1>4. CASE m = n
  BY <1>1, <1>2, <1>3, <1>4
<1>5. CASE m # n
  BY <1>1, <1>2, <1>3, <1>5
<1> QED BY <1>4, <1>5

\* Grants keep their size.
LEMMA GrantsSizedNext ==
  ASSUME RacyLifecycle = FALSE, IInv, GrantsSized, [Next]_vars
  PROVE  GrantsSized'
<1>1. CASE granted' = {}
  BY <1>1 DEF GrantsSized
<1>2. CASE granted' = granted /\ allocations' = allocations
  BY <1>2 DEF GrantsSized, Table
<1>3. CASE Loader
  <2>1. CASE phase = "live"
    BY <1>3, <1>1, <2>1 DEF Loader, Insmod, InitFields, InitBitmap, InitPool, CleanupPool,
      CleanupBitmap, CleanupTable, Teardown
  <2>2. CASE phase # "live"
    <3>1. granted = {} /\ granted' = granted
      BY <1>3, <2>2 DEF Loader, Insmod, InitFields, InitBitmap, InitPool, CleanupPool,
        CleanupBitmap, CleanupTable, Teardown, IInv, TableInv, PhaseInv
    <3> QED BY <1>1, <3>1
  <2> QED BY <2>1, <2>2
<1>4. ASSUME NEW c \in Callers, AllocCommit(c) PROVE GrantsSized'
  <2> DEFINE n == Len(allocations)
             a == [start_block |-> start[c], num_blocks |-> num_blocks[c], ptr |-> start[c]]
             h == [ptr |-> start[c], bytes |-> bytes[c]]
  <2>1. /\ phase = "live" /\ pc[c] = "commit"
        /\ allocations' = Append(allocations, a) /\ granted' = granted \cup {h}
    BY <1>4 DEF AllocCommit, PoolAddress, IInv, LockInv
  <2>2. allocations \in Seq(Records) /\ n \in Nat /\ Table = 1 .. n
    BY <2>1, LiveTable
  <2>3. /\ Len(allocations') = n + 1 /\ allocations'[n + 1] = a
        /\ \A k \in 1 .. n : allocations'[k] = allocations[k]
    <3>1. Append(allocations, a) = allocations'
      BY <2>1
    <3> HIDE DEF a
    <3> QED BY <2>2, <3>1
  <2>4. Table' = 1 .. (n + 1) /\ n + 1 \in Table' /\ \A k \in Table : k \in Table'
    BY <2>2, <2>3 DEF Table
  <2>5. num_blocks[c] = BlocksNeeded(bytes[c])
    <3>1. bytes[c] \in 1 .. (SIZE_MOD - 1) /\ num_blocks[c] = NumBlocks(bytes[c])
          /\ num_blocks[c] >= 1
      BY <2>1 DEF IInv, TypeOK, LockInv, ScanInv
    <3>2. Abstract!BlocksFor(bytes[c]) = num_blocks[c]
      BY <3>1, NumBlocksRight
    <3> QED BY <3>2 DEF BlocksNeeded, Abstract!BlocksFor
  <2>6. ASSUME NEW g \in granted'
        PROVE  \E k \in Table' : /\ allocations'[k].ptr = g.ptr
                                 /\ allocations'[k].num_blocks = BlocksNeeded(g.bytes)
    <3>1. CASE g = h
      BY <2>3, <2>4, <2>5, <3>1
    <3>2. CASE g \in granted
      BY <2>2, <2>3, <2>4, <3>2 DEF GrantsSized
    <3> QED BY <2>1, <3>1, <3>2
  <2> QED BY <2>6 DEF GrantsSized, BlocksNeeded
<1>5. ASSUME NEW c \in Callers, FreeCommit(c) PROVE GrantsSized'
  <2>1. phase = "live" /\ granted' = {g \in granted : g.ptr # ptr[c]}
    BY <1>5 DEF FreeCommit, IInv, LockInv
  <2>2. PICK k \in Table : /\ allocations[k].ptr = ptr[c]
                           /\ allocations' = RemoveRecord(allocations, k)
    BY <1>5 DEF FreeCommit
  <2>3. ASSUME NEW g \in granted'
        PROVE  \E j \in Table' : /\ allocations'[j].ptr = g.ptr
                                 /\ allocations'[j].num_blocks = BlocksNeeded(g.bytes)
    <3>1. g \in granted /\ g.ptr # ptr[c]
      BY <2>1
    <3>2. PICK m \in Table : /\ allocations[m].ptr = g.ptr
                             /\ allocations[m].num_blocks = BlocksNeeded(g.bytes)
      BY <3>1 DEF GrantsSized
    <3>3. PICK j \in Table' : allocations'[j] = allocations[m]
      BY <2>1, <2>2, <3>1, <3>2, RecordsMove
    <3> QED BY <3>2, <3>3
  <2> QED BY <2>3 DEF GrantsSized, BlocksNeeded
<1>6. ASSUME NEW c \in Callers, Call(c) \/ Step(c), ~AllocCommit(c), ~FreeCommit(c)
      PROVE  granted' = granted /\ allocations' = allocations
  BY <1>6 DEF Call, Step, ParamInvalid, AllocEnter, FreeEnter, GetStats, BitmapInfo,
    AllocZero, AllocLock, ScanFree, ScanTaken, ScanFail, AllocFull, FreeNull, FreeNotFound,
    alloc_vars
<1>7. CASE UNCHANGED vars
  BY <1>2, <1>7 DEF vars
<1> QED BY <1>2, <1>3, <1>4, <1>5, <1>6, <1>7 DEF Next

\* The allocated blocks can be numbered request by request.
LEMMA CountIs ==
  ASSUME IInv, GrantsSized, phase = "live"
  PROVE  Cardinality(bitmap) = Cardinality(Needed)
<1> DEFINE Place(x) == x[1].ptr + x[2] - 1
           f == [x \in Needed |-> Place(x)]
<1>1. /\ \A k \in Table : allocations[k] \in Records /\ Region(allocations[k]) \subseteq Blocks
      /\ \A k \in Table : allocations[k].ptr = allocations[k].start_block
      /\ \A j, k \in Table : allocations[j].ptr = allocations[k].ptr => j = k
  BY LiveTable
<1>2. \A x : x \in Needed <=> \E g \in granted : \E j \in 1 .. BlocksNeeded(g.bytes) : x = <<g, j>>
  BY DEF Needed
<1>3. ASSUME NEW g \in granted, NEW j \in 1 .. BlocksNeeded(g.bytes)
      PROVE  \E k \in Table : /\ allocations[k].ptr = g.ptr
                              /\ g.ptr + j - 1 \in Region(allocations[k])
  <2>1. PICK k \in Table : /\ allocations[k].ptr = g.ptr
                           /\ allocations[k].num_blocks = BlocksNeeded(g.bytes)
    BY DEF GrantsSized
  <2>2. allocations[k].start_block \in Nat /\ allocations[k].num_blocks \in Nat
    BY <1>1, AllocAssumption DEF Records, Blocks
  <2> QED BY <1>1, <2>1, <2>2 DEF Region
<1>4. \A x \in Needed : x[1] \in granted /\ x[2] \in 1 .. BlocksNeeded(x[1].bytes) /\ x = <<x[1], x[2]>>
  BY <1>2
<1>5. \A x \in Needed : \E k \in Table : allocations[k].ptr = x[1].ptr /\ Place(x) \in Region(allocations[k])
  BY <1>3, <1>4
<1>6. \A b \in Blocks : b \in bitmap <=> \E k \in Table : b \in Region(allocations[k])
  BY DEF IInv, TableInv, BitmapInv
<1>7. bitmap \subseteq Blocks /\ \A b \in Blocks : b \in Nat
  BY AllocAssumption DEF IInv, TypeOK, Blocks
<1>8. f \in [Needed -> bitmap]
  BY <1>1, <1>5, <1>6
<1>9. \A x, y \in Needed : f[x] = f[y] => x = y
  <2> SUFFICES ASSUME NEW x \in Needed, NEW y \in Needed, Place(x) = Place(y)
               PROVE  x = y
    OBVIOUS
  <2>1. PICK k \in Table : allocations[k].ptr = x[1].ptr /\ Place(x) \in Region(allocations[k])
    BY <1>5
  <2>2. PICK j \in Table : allocations[j].ptr = y[1].ptr /\ Place(y) \in Region(allocations[j])
    BY <1>5
  <2>3. j = k
    BY <1>1, <2>1, <2>2 DEF IInv, TableInv, DisjointInv
  <2>4. x[1] = y[1]
    BY <1>4, <2>1, <2>2, <2>3 DEF IInv, TableInv, GrantsBacked
  <2>5. x[1].ptr \in Int /\ x[2] \in Int /\ y[2] \in Int
    BY <1>4 DEF IInv, TypeOK, Blocks
  <2>6. x[2] = y[2]
    BY <2>4, <2>5
  <2> QED BY <1>4, <2>4, <2>6
<1>10. ASSUME NEW b \in bitmap PROVE \E x \in Needed : f[x] = b
  <2>1. PICK k \in Table : b \in Region(allocations[k])
    BY <1>6, <1>7
  <2>2. PICK g \in granted : g.ptr = allocations[k].ptr
    BY DEF IInv, TableInv, GrantsBacked
  <2>3. allocations[k].num_blocks = BlocksNeeded(g.bytes)
    BY <1>1, <2>2 DEF GrantsSized
  <2>4. allocations[k].start_block \in Nat /\ allocations[k].num_blocks \in Nat /\ b \in Nat
    BY <1>1, <1>7, AllocAssumption DEF Records, Blocks
  <2> DEFINE j == b - g.ptr + 1
  <2>5. j \in 1 .. BlocksNeeded(g.bytes) /\ g.ptr + j - 1 = b
    BY <1>1, <2>1, <2>2, <2>3, <2>4 DEF Region
  <2> HIDE DEF j
  <2>6. <<g, j>> \in Needed /\ Place(<<g, j>>) = b
    BY <1>2, <2>5
  <2> QED BY <2>6
<1> HIDE DEF f
<1>11. f \in Bijection(Needed, bitmap)
  BY <1>8, <1>9, <1>10 DEF Bijection, Injection, Surjection, IsInjective
<1>12. ExistsBijection(bitmap, Needed)
  BY <1>11, Fun_ExistsBijSymmetric DEF ExistsBijection
<1>13. IsFiniteSet(bitmap)
  <2>1. 0 \in Int /\ ALLOC_TOTAL_BLOCKS - 1 \in Int
    BY AllocAssumption
  <2>2. IsFiniteSet(Blocks)
    BY <2>1, FS_Interval DEF Blocks
  <2> QED BY <1>7, <2>2, FS_Subset
<1> QED BY <1>12, <1>13, FS_Bijection

\* The figures of stats are right for every pool and every history of requests.
THEOREM StatsAreExact ==
  ASSUME RacyLifecycle = FALSE
  PROVE  Spec => []StatsExact
<1>1. Init => GrantsSized
  BY DEF Init, GrantsSized
<1>2. IInv /\ GrantsSized /\ [Next]_vars => GrantsSized'
  BY GrantsSizedNext
<1>3. IInv /\ GrantsSized => StatsExact
  <2> SUFFICES ASSUME IInv, GrantsSized, phase = "live"
               PROVE  /\ bm_count_set(bitmap) = Cardinality(Needed)
                      /\ bm_fragmentation_percent(bitmap) = 0 <=> OneRun(Blocks \ bitmap)
    BY DEF StatsExact
  <2>1. bitmap \in SUBSET Blocks
    BY DEF IInv, TypeOK
  <2> QED BY <2>1, CountIs, PercentIs, OneRunIs DEF bm_count_set
<1> QED BY <1>1, <1>2, <1>3, Invariance, PTL DEF Spec
=============================================================================
