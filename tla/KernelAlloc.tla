---------------------------- MODULE KernelAlloc ----------------------------
(***************************************************************************)
(* The bitmap memory allocator module, Linux_kernel/HW_05_bit_maps/src:    *)
(* allocator.c, bitmap.c, the parameter callbacks of params.c and the      *)
(* module's init and exit.                                                 *)
(*                                                                         *)
(* Callers run the callbacks concurrently; alloc.lock is the spinlock.     *)
(* The first-fit search of bm_find_free_region is one step per iteration,  *)
(* made while the lock is held; the rest of a critical section is one      *)
(* step.  The module's init and exit do not take the lock: they are the    *)
(* steps of the loading process.                                           *)
(*                                                                         *)
(* Data.  The bitmap is the set of the bits that are set.  An address      *)
(* inside the pool on a block boundary, memory_pool + s * BLOCK_SIZE, is   *)
(* the block number s; NULL and an address that no block starts at are     *)
(* NULL and FOREIGN.  The table allocations[0 .. num_allocations - 1] is a *)
(* sequence.                                                               *)
(*                                                                         *)
(* Operators named X_y are variants of X with a plausible mistake; no      *)
(* other definition uses them.                                             *)
(***************************************************************************)
EXTENDS Integers, FiniteSets, Sequences

CONSTANTS ALLOC_TOTAL_BLOCKS, ALLOC_BLOCK_SIZE, MAX_ALLOCATIONS,
          SIZE_MOD,       \* 2^64: size_t arithmetic is modulo SIZE_MOD
          MAP_WIDTH,      \* blocks shown by bitmap_info (80)
          Callers,        \* processes that use the parameter files
          RequestSizes,   \* byte counts written to the alloc parameter
          NoCaller,       \* the lock is free
          RacyLifecycle   \* parameter files used while init or exit runs

ASSUME AllocAssumption ==
  /\ ALLOC_TOTAL_BLOCKS \in Nat \ {0}
  /\ ALLOC_BLOCK_SIZE \in Nat \ {0}
  /\ MAX_ALLOCATIONS \in Nat
  /\ MAP_WIDTH \in Nat
  /\ SIZE_MOD \in Nat
  /\ (ALLOC_TOTAL_BLOCKS + 1) * ALLOC_BLOCK_SIZE <= SIZE_MOD
  /\ RequestSizes \subseteq 0 .. (SIZE_MOD - 1)
  /\ NoCaller \notin Callers
  /\ RacyLifecycle \in BOOLEAN

VARIABLES
  phase,        \* where the loading process is
  heap,         \* what init has allocated and exit not yet freed
  total_blocks, bitmap, allocations, lock,    \* struct memory_allocator
  pc,           \* where each caller is
  bytes, num_blocks, i, count, start, ptr,    \* the callers' locals
  ret,          \* what the last callback of each caller returned
  granted       \* history: [ptr, bytes] given out and not freed

locals == <<bytes, num_blocks, i, count, start, ptr>>
vars == <<phase, heap, total_blocks, bitmap, allocations, lock, pc, locals, ret,
          granted>>

Blocks  == 0 .. (ALLOC_TOTAL_BLOCKS - 1)
NULL    == -1
FOREIGN == -2
Pointers == Blocks \cup {NULL, FOREIGN}

ENOMEM == 12
EINVAL == 22

Phases == {"absent", "loading", "fields", "bitmap", "live", "failed", "nopool",
           "nobitmap", "gone"}

Region(a) == a.start_block .. (a.start_block + a.num_blocks - 1)
Table     == 1 .. Len(allocations)
-----------------------------------------------------------------------------
(* Helpers of allocator.c and bitmap.c *)

\* The address of a block of the pool (a block number stands for it).
PoolAddress(s) == s

NumBlocks_floor(b) == b \div ALLOC_BLOCK_SIZE

\* num_blocks = (bytes + ALLOC_BLOCK_SIZE - 1) / ALLOC_BLOCK_SIZE on size_t.
NumBlocks(b) == ((b + ALLOC_BLOCK_SIZE - 1) % SIZE_MOD) \div ALLOC_BLOCK_SIZE

bm_test_bit(b)       == b \in bitmap
bm_set_region(s, n)  == bitmap \cup (s .. (s + n - 1))
bm_clear_region_short(s, n) == bitmap \ (s .. (s + n - 2))

bm_clear_region(s, n) == bitmap \ (s .. (s + n - 1))
bm_count_set(bits)   == Cardinality(bits)

\* Number of maximal free runs: blocks that are free after a taken one (or first).
FreeRegions(bits) ==
  Cardinality({b \in Blocks : b \notin bits /\ (b = 0 \/ (b - 1) \in bits)})

bm_fragmentation_percent(bits) ==
  LET r == FreeRegions(bits) IN IF r <= 1 THEN 0 ELSE ((r - 1) * 100) \div r

RemoveRecord_last(s, k) == SubSeq(s, 1, Len(s) - 1)

\* The removal in allocator_free: the last record takes the place of the k-th.
RemoveRecord(s, k) == SubSeq([s EXCEPT ![k] = s[Len(s)]], 1, Len(s) - 1)
-----------------------------------------------------------------------------
(* Results of the callbacks *)

Result(op, code, p, figures) == [op |-> op, code |-> code, ptr |-> p, figures |-> figures]
NoResult == Result("none", 0, NULL, <<>>)

\* param_set_alloc: a NULL pointer becomes -ENOMEM.
AllocResult(p) == Result("alloc", IF p = NULL THEN -ENOMEM ELSE 0, p, <<>>)

\* param_set_free: every error of allocator_free becomes -EINVAL.
FreeResult(ok, p) == Result("free", IF ok THEN 0 ELSE -EINVAL, p, <<>>)

\* The caller returns r; its locals die with the stack frame.
Return(c, r) ==
  /\ ret' = [ret EXCEPT ![c] = r]
  /\ pc' = [pc EXCEPT ![c] = "idle"]
  /\ bytes' = [bytes EXCEPT ![c] = 0]
  /\ num_blocks' = [num_blocks EXCEPT ![c] = 0]
  /\ i' = [i EXCEPT ![c] = 0]
  /\ count' = [count EXCEPT ![c] = 0]
  /\ start' = [start EXCEPT ![c] = 0]
  /\ ptr' = [ptr EXCEPT ![c] = NULL]

Init ==
  /\ phase = "absent"
  /\ heap = {}
  /\ total_blocks = 0
  /\ bitmap = {}
  /\ allocations = <<>>
  /\ lock = NoCaller
  /\ pc = [c \in Callers |-> "idle"]
  /\ bytes = [c \in Callers |-> 0]
  /\ num_blocks = [c \in Callers |-> 0]
  /\ i = [c \in Callers |-> 0]
  /\ count = [c \in Callers |-> 0]
  /\ start = [c \in Callers |-> 0]
  /\ ptr = [c \in Callers |-> NULL]
  /\ ret = [c \in Callers |-> NoResult]
  /\ granted = {}

alloc_vars  == <<total_blocks, bitmap, allocations>>
caller_vars == <<pc, locals, ret>>
-----------------------------------------------------------------------------
(* The loading process *)

\* insmod: the parameter files exist before the module's init function runs.
Insmod ==
  /\ phase = "absent"
  /\ phase' = "loading"
  /\ UNCHANGED <<heap, alloc_vars, lock, caller_vars, granted>>

\* allocator_init up to the kzalloc: memset, sizes, spin_lock_init.
InitFields ==
  /\ phase = "loading"
  /\ phase' = "fields"
  /\ total_blocks' = ALLOC_TOTAL_BLOCKS
  /\ bitmap' = {}
  /\ allocations' = <<>>
  /\ lock' = NoCaller
  /\ UNCHANGED <<heap, caller_vars, granted>>

InitBitmap_unchecked ==
  /\ phase = "fields"
  /\ phase' = "bitmap"
  /\ heap' \in {heap, heap \cup {"bitmap"}}
  /\ UNCHANGED <<alloc_vars, lock, caller_vars, granted>>

\* kzalloc of the bitmap; on failure init returns ALLOC_NOMEM.
InitBitmap ==
  /\ phase = "fields"
  /\ \/ phase' = "bitmap" /\ heap' = heap \cup {"bitmap"}
     \/ phase' = "failed" /\ UNCHANGED heap
  /\ UNCHANGED <<alloc_vars, lock, caller_vars, granted>>

\* vzalloc of the pool; on failure the bitmap is freed again.
InitPool ==
  /\ phase = "bitmap"
  /\ \/ phase' = "live" /\ heap' = heap \cup {"pool"}
     \/ phase' = "failed" /\ heap' = heap \ {"bitmap"}
  /\ UNCHANGED <<alloc_vars, lock, caller_vars, granted>>

\* Unloading waits for the callers unless RacyLifecycle.
Quiet == RacyLifecycle \/ \A c \in Callers : pc[c] = "idle"

\* allocator_cleanup, one freed object per step.  Users lose their regions.
CleanupPool ==
  /\ phase = "live"
  /\ Quiet
  /\ phase' = "nopool"
  /\ heap' = heap \ {"pool"}
  /\ granted' = {}
  /\ UNCHANGED <<alloc_vars, lock, caller_vars>>

CleanupBitmap ==
  /\ phase = "nopool"
  /\ phase' = "nobitmap"
  /\ heap' = heap \ {"bitmap"}
  /\ bitmap' = {}
  /\ UNCHANGED <<total_blocks, allocations, lock, caller_vars, granted>>

CleanupTable ==
  /\ phase = "nobitmap"
  /\ phase' = "gone"
  /\ allocations' = <<>>
  /\ UNCHANGED <<heap, total_blocks, bitmap, lock, caller_vars, granted>>

\* The files are removed once running callbacks have left; the data goes too.
Teardown ==
  /\ phase \in {"gone", "failed"}
  /\ \A c \in Callers : pc[c] = "idle"
  /\ phase' = "absent"
  /\ total_blocks' = 0
  /\ UNCHANGED <<heap, bitmap, allocations, lock, caller_vars, granted>>
-----------------------------------------------------------------------------
(* The callbacks *)

\* A callback can start: the file exists and, unless RacyLifecycle, init has
\* returned and exit has not been called.
Callable(c) == /\ pc[c] = "idle"
               /\ IF RacyLifecycle THEN phase # "absent" ELSE phase = "live"

\* Text that kstrtoul refuses, on either parameter.
ParamInvalid(c) ==
  /\ Callable(c)
  /\ Return(c, Result("invalid", -EINVAL, NULL, <<>>))
  /\ UNCHANGED <<phase, heap, alloc_vars, lock, granted>>

\* allocator_alloc is called with the number that was parsed.
AllocEnter(c) ==
  /\ Callable(c)
  /\ \E b \in RequestSizes :
       /\ bytes' = [bytes EXCEPT ![c] = b]
       /\ num_blocks' = [num_blocks EXCEPT ![c] = NumBlocks(b)]
  /\ pc' = [pc EXCEPT ![c] = "alloc"]
  /\ ret' = [ret EXCEPT ![c] = NoResult]
  /\ UNCHANGED <<phase, heap, alloc_vars, lock, i, count, start, ptr, granted>>

\* It refuses zero bytes before it takes the lock.
AllocZero(c) ==
  /\ pc[c] = "alloc" /\ bytes[c] = 0
  /\ Return(c, AllocResult(NULL))
  /\ UNCHANGED <<phase, heap, alloc_vars, lock, granted>>

AllocLock_free(c) ==
  /\ pc[c] = "alloc" /\ bytes[c] # 0
  /\ lock' = c
  /\ pc' = [pc EXCEPT ![c] = "scan"]
  /\ UNCHANGED <<phase, heap, alloc_vars, locals, ret, granted>>

AllocLock(c) ==
  /\ pc[c] = "alloc" /\ bytes[c] # 0
  /\ lock = NoCaller
  /\ lock' = c
  /\ pc' = [pc EXCEPT ![c] = "scan"]
  /\ UNCHANGED <<phase, heap, alloc_vars, locals, ret, granted>>

ScanFree_atleast(c) ==
  /\ pc[c] = "scan" /\ i[c] < total_blocks
  /\ ~bm_test_bit(i[c])
  /\ start' = [start EXCEPT ![c] = IF count[c] = 0 THEN i[c] ELSE start[c]]
  /\ count' = [count EXCEPT ![c] = count[c] + 1]
  /\ \/ count[c] + 1 >= num_blocks[c] /\ pc' = [pc EXCEPT ![c] = "commit"] /\ UNCHANGED i
     \/ count[c] + 1 < num_blocks[c] /\ i' = [i EXCEPT ![c] = i[c] + 1] /\ UNCHANGED pc
  /\ UNCHANGED <<phase, heap, alloc_vars, lock, bytes, num_blocks, ptr, ret, granted>>

\* One iteration of bm_find_free_region on a free bit ...
ScanFree(c) ==
  /\ pc[c] = "scan" /\ i[c] < total_blocks
  /\ ~bm_test_bit(i[c])
  /\ start' = [start EXCEPT ![c] = IF count[c] = 0 THEN i[c] ELSE start[c]]
  /\ count' = [count EXCEPT ![c] = count[c] + 1]
  /\ \/ /\ count[c] + 1 = num_blocks[c]
        /\ pc' = [pc EXCEPT ![c] = "commit"]
        /\ UNCHANGED i
     \/ /\ count[c] + 1 # num_blocks[c]
        /\ i' = [i EXCEPT ![c] = i[c] + 1]
        /\ UNCHANGED pc
  /\ UNCHANGED <<phase, heap, alloc_vars, lock, bytes, num_blocks, ptr, ret, granted>>

ScanTaken_noreset(c) ==
  /\ pc[c] = "scan" /\ i[c] < total_blocks
  /\ bm_test_bit(i[c])
  /\ i' = [i EXCEPT ![c] = i[c] + 1]
  /\ UNCHANGED <<phase, heap, alloc_vars, lock, pc, bytes, num_blocks, count, start, ptr, ret,
                 granted>>

ScanTaken_stuck(c) ==
  /\ pc[c] = "scan" /\ i[c] < total_blocks
  /\ bm_test_bit(i[c])
  /\ count' = [count EXCEPT ![c] = 0]
  /\ UNCHANGED <<phase, heap, alloc_vars, lock, pc, bytes, num_blocks, i, start, ptr, ret,
                 granted>>

\* ... and on a set bit.
ScanTaken(c) ==
  /\ pc[c] = "scan" /\ i[c] < total_blocks
  /\ bm_test_bit(i[c])
  /\ count' = [count EXCEPT ![c] = 0]
  /\ i' = [i EXCEPT ![c] = i[c] + 1]
  /\ UNCHANGED <<phase, heap, alloc_vars, lock, pc, bytes, num_blocks, start, ptr, ret,
                 granted>>

\* bm_find_free_region returns -1: unlock, NULL.
ScanFail(c) ==
  /\ pc[c] = "scan" /\ i[c] >= total_blocks
  /\ lock' = NoCaller
  /\ Return(c, AllocResult(NULL))
  /\ UNCHANGED <<phase, heap, alloc_vars, granted>>

\* The table is full: unlock, NULL.
AllocFull(c) ==
  /\ pc[c] = "commit"
  /\ Len(allocations) >= MAX_ALLOCATIONS
  /\ lock' = NoCaller
  /\ Return(c, AllocResult(NULL))
  /\ UNCHANGED <<phase, heap, alloc_vars, granted>>

\* Set the bits, append the record, unlock, return the address.
AllocCommit(c) ==
  /\ pc[c] = "commit"
  /\ Len(allocations) < MAX_ALLOCATIONS
  /\ bitmap' = bm_set_region(start[c], num_blocks[c])
  /\ allocations' = Append(allocations,
                           [start_block |-> start[c], num_blocks |-> num_blocks[c],
                            ptr |-> PoolAddress(start[c])])
  /\ granted' = granted \cup {[ptr |-> PoolAddress(start[c]), bytes |-> bytes[c]]}
  /\ lock' = NoCaller
  /\ Return(c, AllocResult(PoolAddress(start[c])))
  /\ UNCHANGED <<phase, heap, total_blocks>>

\* allocator_free is called with the number that was parsed.
FreeEnter(c) ==
  /\ Callable(c)
  /\ \E p \in Pointers : ptr' = [ptr EXCEPT ![c] = p]
  /\ pc' = [pc EXCEPT ![c] = "free"]
  /\ ret' = [ret EXCEPT ![c] = NoResult]
  /\ UNCHANGED <<phase, heap, alloc_vars, lock, bytes, num_blocks, i, count, start, granted>>

\* It refuses NULL before it takes the lock.
FreeNull(c) ==
  /\ pc[c] = "free" /\ ptr[c] = NULL
  /\ Return(c, FreeResult(FALSE, NULL))
  /\ UNCHANGED <<phase, heap, alloc_vars, lock, granted>>

\* The first record with this address: clear its bits, remove it.
FreeCommit(c) ==
  /\ pc[c] = "free" /\ ptr[c] # NULL
  /\ lock = NoCaller
  /\ \E k \in Table :
       /\ allocations[k].ptr = ptr[c]
       /\ \A j \in 1 .. (k - 1) : allocations[j].ptr # ptr[c]
       /\ bitmap' = bm_clear_region(allocations[k].start_block, allocations[k].num_blocks)
       /\ allocations' = RemoveRecord(allocations, k)
  /\ granted' = {g \in granted : g.ptr # ptr[c]}
  /\ Return(c, FreeResult(TRUE, ptr[c]))
  /\ UNCHANGED <<phase, heap, total_blocks, lock>>

\* No record has this address: ALLOC_NOT_FOUND.
FreeNotFound(c) ==
  /\ pc[c] = "free" /\ ptr[c] # NULL
  /\ lock = NoCaller
  /\ \A k \in Table : allocations[k].ptr # ptr[c]
  /\ Return(c, FreeResult(FALSE, ptr[c]))
  /\ UNCHANGED <<phase, heap, alloc_vars, lock, granted>>

\* The stats parameter: allocator_get_stats is one critical section.
GetStats(c) ==
  /\ Callable(c)
  /\ lock = NoCaller
  /\ Return(c, Result("stats", 0, NULL,
                      <<bm_count_set(bitmap), bm_fragmentation_percent(bitmap)>>))
  /\ UNCHANGED <<phase, heap, alloc_vars, lock, granted>>

\* The bitmap_info parameter: the map of the first blocks and the table.
BitmapInfo(c) ==
  /\ Callable(c)
  /\ lock = NoCaller
  /\ Return(c, Result("info", 0, NULL,
                      <<Cardinality({b \in bitmap : b < MAP_WIDTH}), Len(allocations)>>))
  /\ UNCHANGED <<phase, heap, alloc_vars, lock, granted>>

-----------------------------------------------------------------------------
Loader == \/ Insmod \/ InitFields \/ InitBitmap \/ InitPool
          \/ CleanupPool \/ CleanupBitmap \/ CleanupTable \/ Teardown

\* Steps of a callback that has started.
Step(c) == \/ AllocZero(c) \/ AllocLock(c) \/ ScanFree(c) \/ ScanTaken(c) \/ ScanFail(c)
           \/ AllocFull(c) \/ AllocCommit(c) \/ FreeNull(c) \/ FreeCommit(c) \/ FreeNotFound(c)

Call(c) == \/ ParamInvalid(c) \/ AllocEnter(c) \/ FreeEnter(c)
           \/ GetStats(c) \/ BitmapInfo(c)

Next == \/ Loader
        \/ \E c \in Callers : Call(c) \/ Step(c)

Spec == Init /\ [][Next]_vars

\* A callback that holds the lock runs on (interrupts are off), one that
\* waits for it gets it: the kernel's spinlocks queue their waiters.
Fairness == \A c \in Callers : SF_vars(Step(c))
FairSpec == Spec /\ Fairness
-----------------------------------------------------------------------------
(* Properties *)

PCs == {"idle", "alloc", "scan", "commit", "free"}

Records == [start_block : Blocks, num_blocks : 1 .. ALLOC_TOTAL_BLOCKS, ptr : Blocks]

(***************************************************************************)
(* Type invariant of the allocator's state and of the callers' locals      *)
(* (allocator.h, struct memory_allocator).                                 *)
(***************************************************************************)
TypeOK ==
  /\ phase \in Phases
  /\ heap \subseteq {"bitmap", "pool"}
  /\ total_blocks \in {0, ALLOC_TOTAL_BLOCKS}
  /\ bitmap \subseteq Blocks
  /\ allocations \in Seq(Records)
  /\ lock \in Callers \cup {NoCaller}
  /\ pc \in [Callers -> PCs]
  /\ bytes \in [Callers -> 0 .. (SIZE_MOD - 1)]
  /\ num_blocks \in [Callers -> Nat]
  /\ i \in [Callers -> 0 .. ALLOC_TOTAL_BLOCKS]
  /\ count \in [Callers -> 0 .. ALLOC_TOTAL_BLOCKS]
  /\ start \in [Callers -> 0 .. ALLOC_TOTAL_BLOCKS]
  /\ ptr \in [Callers -> Pointers]
  /\ DOMAIN ret = Callers
  /\ granted \subseteq [ptr : Blocks, bytes : 1 .. (SIZE_MOD - 1)]

\* While the module is live a bit is set exactly when a recorded allocation
\* covers its block: bm_set_region, bm_clear_region and the table in
\* allocator_alloc and allocator_free never drift apart.
BitmapMatchesTable ==
  phase = "live" => bitmap = UNION {Region(allocations[k]) : k \in Table}

\* No block belongs to two allocations, in spite of concurrent callers, frees
\* between two allocations and requests that wrap around size_t.
RegionsDisjoint ==
  \A j, k \in Table : j # k => Region(allocations[j]) \cap Region(allocations[k]) = {}

\* Every address handed out and not freed has a record of its own, with at
\* least the bytes that were asked for; every record was handed out.
GrantsBacked ==
  phase = "live" =>
    /\ \A g \in granted : \E k \in Table :
         /\ allocations[k].ptr = g.ptr
         /\ g.bytes <= allocations[k].num_blocks * ALLOC_BLOCK_SIZE
    /\ \A k \in Table : \E g \in granted : g.ptr = allocations[k].ptr
    /\ \A g, h \in granted : g.ptr = h.ptr => g = h

\* Memory is used within its bounds and its life: the table never outgrows
\* allocations[MAX_ALLOCATIONS]; a caller that is about to read or write bitmap
\* and pool finds them there; a module that is out, also after one of the two
\* allocations of allocator_init failed, has left nothing behind.
TableBounded == Len(allocations) <= MAX_ALLOCATIONS

MemoryThere ==
  /\ TableBounded
  /\ \A c \in Callers :
       /\ pc[c] = "scan" /\ i[c] < total_blocks => "bitmap" \in heap
       /\ pc[c] = "commit" => {"bitmap", "pool"} \subseteq heap
  /\ phase = "absent" => heap = {}

\* One pair for each block that a live request needs.
BlocksNeeded(b) == (b + ALLOC_BLOCK_SIZE - 1) \div ALLOC_BLOCK_SIZE
Needed == UNION {{g} \X (1 .. BlocksNeeded(g.bytes)) : g \in granted}

OneRun(S) == \E s \in Blocks, n \in 0 .. ALLOC_TOTAL_BLOCKS : S = s .. (s + n - 1)

\* The figures of stats are right by the code's own measure: the allocated blocks
\* are as many as the live requests need, and there is no fragmentation exactly
\* when the free blocks are one run.  The example in kernel_alloc_task.md:152-170
\* has other figures, 8 KB and 0% with 16 KB allocated behind a freed region; the
\* code says 16 KB and 50% there, which is what this property asks for.
StatsExact ==
  phase = "live" =>
    /\ bm_count_set(bitmap) = Cardinality(Needed)
    /\ bm_fragmentation_percent(bitmap) = 0 <=> OneRun(Blocks \ bitmap)

\* Every callback that has started returns: the scan ends, nobody keeps the lock.
CallsReturn == \A c \in Callers : pc[c] # "idle" ~> pc[c] = "idle"

(***************************************************************************)
(* The allocator implements AllocSpec.                                     *)
(***************************************************************************)
AbsLive == IF phase = "live"
           THEN {[ptr |-> allocations[k].ptr, blocks |-> allocations[k].num_blocks] : k \in Table}
           ELSE {}

AbsUp == phase = "live"

PendingOf(c) ==
  CASE pc[c] = "idle" -> [op |-> "none", arg |-> 0]
    [] pc[c] = "free" -> [op |-> "free", arg |-> ptr[c]]
    [] OTHER          -> [op |-> "alloc", arg |-> bytes[c]]

AnswerOf(r) ==
  IF r.op \in {"none", "alloc", "free"}
  THEN [op |-> r.op, ok |-> r.code = 0, ptr |-> r.ptr]
  ELSE [op |-> "query", ok |-> TRUE, ptr |-> NULL]

AbsPending == [c \in Callers |-> PendingOf(c)]
AbsAnswer  == [c \in Callers |-> AnswerOf(ret[c])]

Abstract == INSTANCE AllocSpec WITH
  Total <- ALLOC_TOTAL_BLOCKS, BlockSize <- ALLOC_BLOCK_SIZE,
  MaxLive <- MAX_ALLOCATIONS, Sizes <- RequestSizes, Addresses <- Pointers, Null <- NULL,
  up <- AbsUp, live <- AbsLive, pending <- AbsPending, answer <- AbsAnswer

\* Grants are first-fit, refusals are justified (no run of free blocks is long
\* enough, or the table is full), a free releases its region and no other, a
\* second free of the same address is refused.
ImplementsAllocSpec == Abstract!Spec
=============================================================================
