# Verification of the otus-work systems

This directory holds TLA+ models of the programs in `src/`, the TLC configurations
that check them on small instances, and TLAPS proofs about every modelled component.
`PROJECT.json` lists the components, the runs, which definition models which lines
of source, the hazards and the theorems.

## 1. Inventory

The repository collects the works of several courses. The ones with logic of their
own are kernel modules (C), a Prometheus exporter (Go) and a social network back end
(Go).

| component | source | state | operations |
|---|---|---|---|
| bitmap allocator | `Linux_kernel/HW_05_bit_maps/src` | bitmap, memory pool, table of at most `MAX_ALLOCATIONS` records, spinlock | parameter files `alloc`, `free`, `stats`, `bitmap_info`; init, exit |
| integer queue | `Linux_kernel/HW_04_kernel_fifo/src` | `fifo_dev` with a kfifo | files `enqueue`, `dequeue`, `peek`, `size`, `available`, `is_empty`, `is_full`, `clear`; init, exit |
| integer stack | `Linux_kernel/HW_03_kernel_stack` | a `list_head` list and `size` | sysfs files `push`, `pop`, `peek`, `size`, `is_empty`, `clear`; init, exit |
| hash table with binary search | `Linux_kernel/HW_06_binary_hashtable/src` | `g_ctx`: hash table, result of the last search, current bucket | files `search`, `result`, `rebuild`, `bucket_id`, `bucket_dump`; init, exit |
| TCP traffic statistics | `Linux_kernel/final_work_kprobe/src` | two kretprobes, table of counters per connection, spinlock | entry and return handlers, file `top_addrs`; init, exit |
| exporter | `Linux_kernel/final_work_kprobe/stats_exporter` | three gauges, HTTP server | periodic update from `top_addrs`, scrape, shutdown |
| posts, feeds, friends, accounts | `Highload Architect/pkg/api`, `internal/database` | one connection to PostgreSQL, Redis cache of feeds, a Kafka topic per user, friends in Tarantool | `PostCreatePost`, `PostFeedGet`, friend, register, login, get and search requests; mock data; start |
| web socket notifications | `Highload Architect/pkg/api/websocket.go` | a Kafka reader of the group "feed" per open socket | `WsHandler` |
| dialogs | `Highload Architect/pkg/api/dialogs*.go` | none of its own | one statement or one gRPC call per request |
| hello-world module | `Linux_kernel/HW_02_hello_world` | a string and an index | three parameters |

The rest of the repository is teaching material, kernel excerpts, generated code,
configuration and SQL; `PROJECT.json` lists these parts as not modelled.

How the parts interact:

* Users reach the kernel modules through files. The kernel serialises the callbacks
  of one module's *parameters* (the module's `param_lock`), but not the callbacks of
  *sysfs attributes*: two openings of the stack's files run concurrently. Parameter
  files exist before the module's init function has run and until after its exit
  function has returned.
* kretprobe handlers run in the context of any task, concurrently on all CPUs, with
  the table's spinlock as the only protection. The reader of `top_addrs` collects
  pointers to entries under that lock and then sorts and prints them without it.
* The exporter reads the text of `top_addrs`, at most one page; three kinds of
  goroutine (updater, scrapes, main) share the gauges.
* Every HTTP request of the social network is a goroutine. All of them, and the goroutine
  that makes mock data, use the one `pgx.Conn` of `database.Instance`, which takes one
  statement at a time. A stored post is written to the topics of the author's friends; a
  `WsHandler` per open socket reads the topic of its user and writes to the browser.

What makes each component correct, and what is hard about it:

* **Allocator** - a block belongs to at most one user; the bitmap and the table agree
  after every sequence of requests; rounding on `size_t` cannot wrap into a grant that
  is too small; every path releases the lock. Hard: interleavings, arbitrary sequences
  of allocations and frees, wrap-around, failing loads.
* **Queue** - first in, first out, whatever the requested size, including positions
  that wrap around the unsigned int. Hard: rounding of the buffer, partial
  initialisation.
* **Stack** - last in, first out; list, counter and allocated memory agree. Hard:
  pointer surgery, iteration that frees, concurrent users.
* **Hash table** - a search finds exactly what is stored; a fill is all or nothing.
  Hard: running out of memory half-way, the ends of the binary search.
* **Traffic statistics** - no lost update, one entry per connection, nothing left
  after unloading, and a read that shows the top. Hard: handlers, reader and unloading
  at once; signed results in unsigned variables.
* **Exporter** - the gauges are what the kernel printed, up to a number that the page cuts;
  a signal ends the process once the clients let go. Hard: update, scrape and shutdown at
  once; a page that ends inside a line.
* **Posts and feeds** - a confirmed post is stored for good and a refused one is nowhere;
  friends, and only friends, are told of a stored post, each at most as often as the author
  lists it; a feed is that of the user who asks. Hard: requests that refuse each other the
  connection, a transaction of the mock data on the same connection, statements that fail by
  themselves, errors that are logged and passed over, a broken connection, a restart
  between two steps.
* **Web sockets** - a message is received in order, not twice, and not lost while nothing
  fails. Hard: the offset is committed before the write; several sockets of one user share
  the consumer group; a handler notices late that its client has gone, or waits for one
  that does not read.

## 2. Modules

| module | models |
|---|---|
| `KernelAlloc` | allocator; callers that run concurrently, one step per iteration of the search |
| `AllocSpec` | what the allocator promises: first-fit grants, justified refusals, exact frees |
| `KernelAllocProofs` | inductive invariant of `KernelAlloc`, that it implements `AllocSpec`, the figures of `stats` |
| `KernelFifo`, `MCKernelFifo` | queue over a kfifo in bytes; the numbers, which a `.cfg` cannot write |
| `FifoSpec` | a bounded first-in first-out queue that can be opened and closed; its capacity is that of the rounded buffer, and an element with the value of an error code is reported as that error |
| `KernelFifoProofs` | arithmetic of wrapping positions, inductive invariant, that `KernelFifo` implements `FifoSpec` |
| `KernelStack` | stack with the `next`/`prev` pointers of `list.h`, one step per access to shared state |
| `StackSpec` | a last-in first-out stack with calls and answers |
| `KernelStackProofs` | circular lists, inductive invariant, that `KernelStack` implements `StackSpec` while its users take turns |
| `KernelHashtable` | hash table, bucket copy, sort and binary search, the text of a dump by the width of its numbers |
| `KernelHashtableProofs` | sort and binary search, inductive invariant of `KernelHashtable` and the theorems |
| `TrafficStats`, `MCTrafficStats` | kretprobe handlers, table, reader; constants that a `.cfg` cannot write |
| `TrafficStatsProofs` | inductive invariant of `TrafficStats` and the theorems, those about the reader in two steps |
| `StatsExporter` | updater, requests of HTTP clients and their answers, main |
| `StatsExporterProofs` | inductive invariant of `StatsExporter` and the theorems |
| `SocialPosts`, `MCSocialPosts` | requests of the social network and the mock data on the shared connection, one step per statement sent and per answer; constants that a `.cfg` cannot write |
| `PostSpec` | what the service promises of a post: stored once, told to friends only after that and to each at most as often as it is listed, confirmed only after that |
| `SocialPostsProofs` | inductive invariant of `SocialPosts`, that it implements `PostSpec` |
| `FeedSocket` | `WsHandler`s of one user, the topic and the consumer group |
| `FeedSocketProofs` | inductive invariant of `FeedSocket` and the theorems |

Correspondence with the code. Variables have the names of the C or Go variables where
TLA+ allows it. `phase` is where the process that runs `insmod` or `rmmod` is, with a
state between any two steps of init and exit that another process can tell apart.
A critical section is one action unless it loops over shared state; code outside a
lock is one action per shared access that matters. Each failing allocation is an
alternative of the action that allocates. Log lines are left out. History variables
(`granted`, `moved`, `base`, `calm`, `dirty`, `fresh`, `exact`, `ever`, `acked`, `low`, `got`,
`shared`, `troubled`) are read by properties only, except `dirty`, which records that
counters moved during an unlocked `sort`, so that any order can result.

Code outside the repository is modelled from its use and marked external in
`PROJECT.json`: kfifo (byte positions, power-of-two buffer), `list_del`, `hash_add`,
`sort`, `bsearch`, the registration of kretprobes (`unregister_kretprobe` waits for
running handlers), Prometheus gauges (a family is read under its own lock), and the
life of parameter files; PostgreSQL, pgx, gin, Redis, Kafka and Tarantool (below).

Operators named `X_y` are variants of `X` with a plausible mistake. No definition uses
them; substituting one for `X` shows that a property can fail.

### Assumptions on the environment

* `RacyLifecycle = FALSE` (allocator, queue, hash table, statistics): nobody uses a
  parameter file while the module's init or exit is half done. The kernel does not
  guarantee this, so it is a constant. With `TRUE`, `MemoryThere` fails: `allocator_init`
  sets `total_blocks` before it allocates the bitmap. The other modules publish and free
  their state in the same manner, and their safety properties hold only without such a
  use.
* `KernelAlloc` lets several callers run at once. The kernel's parameter lock would
  allow one; the spinlock in the code is meant for several, so the model is the
  stronger test.
* Stack: `ListWhole`, `EntriesAlive` and `ImplementsStackSpec` are claimed of behaviours in which the
  users take turns and none calls before `sysfs_create_group` has returned (the state
  predicate `TakingTurns`). Nothing in sysfs or the code makes the users do so. The theorems
  have `[]TakingTurns` as a hypothesis; run `stack` gets it from `Serial = TRUE` and
  `EarlyUse = FALSE`, and `stack_race` shows what happens without it.
* pgx v4 (`SocialPosts`): a statement on a busy or closed connection is refused. `Exec` and
  `QueryRow` report that; `Query` reports it when it first has to prepare the statement,
  otherwise the rows end at once and only `rows.Err()` tells. A failing `Begin` and a
  refused `Commit` close the connection. `pgx.Conn` is not made for concurrent use; its
  own busy flag is taken as atomic, and what two unsynchronised goroutines could do to
  the protocol beyond a refusal is covered by the loss of the connection.
* PostgreSQL: a failed statement aborts the transaction it is in. Statements fail by
  themselves when a limit or offset is no number (or not given), an id is no uuid, a
  search text is no `tsquery`, or a text has a zero character; the readers who ask with such a
  limit are part of a setting (`malformed`). A session that ends is rolled back, and a single
  statement or a commit in flight may or may not have been executed (`Kept`). The statements
  of `friend.go` name a table `Friend` without quotes, the schema has `"Friend"` only: they
  always fail. Only `createMockData` writes friends; the model has them as constants, with
  repetitions, as the mock data draw them (`database.go:77-95`).
* Tarantool's space of friends outlives the process (`init.lua`): the pairs of a batch that a
  crash rolled back stay there, and their indexes are `taken` for the next process, whose
  insertions with them fail and are logged.
* gin: the client sees the status of the first `c.JSON` and the bodies of all; a handler
  goes on after `c.JSON` until it returns.
* Kafka: the writer of `notifyFriends` asks for no acknowledgement, so that a message may be
  lost without an error. `ReadMessage` is a fetch and a commit; the group gives the
  partition to one member, anew when a member joins or leaves, and accepts the commit of
  a member that has lost it. A member that rejoins by itself after missed heartbeats is
  left out. The context of a request is never cancelled (gin's
  `ContextWithFallback` is off), so a blocked `ReadMessage` stays.
* Redis may drop a feed at any time, and its calls may fail.
* HTTP and web socket clients owe nothing. A client may send half a request, and may stay
  and not read what is written to it; the servers set no deadline for either. That clients
  do not do so for ever is a hypothesis of the two properties that need it (`ClientsLetGo` in
  `SignalEnds`, `ClientsRead` in `TopicDrains`), and not a fairness assumption.

## 3. Runs

`tlc -workers 2 -config X.cfg M`, for each entry of `runs` in `PROJECT.json`.

| run | result | shows |
|---|---|---|
| `alloc` | pass, 230,881 states | two callers, failing loads, reloads and wrapping requests: bitmap, table and grants agree, every call returns, `AllocSpec` is implemented |
| `fifo` | pass, 1,013,715 states | the module implements `FifoSpec` for every number that `enqueue` takes, also those that are read as errors; no entry is torn, nothing leaks |
| `stack` | pass, 1,412,301 states | users that take turns: list, size and memory agree and `StackSpec` is implemented |
| `stack_race` | `SizeExact` violated | two unlocked users lose an update of `size` |
| `hashtable` | pass, 66,933 states | searches are exact, a fill is all or nothing, a dump has in order as many whole values as fit and after them at most the first digits of the next |
| `traffic_record` | pass, 70,316 states | two tasks: no lost update, one entry per connection, nothing left after unloading |
| `traffic_top` | pass, 322,810 states | a reader against a recording task, with more connections than `MAX_TOP_ADDRS`: printed values are from the time of the read, a quiet read shows the top of the first `MAX_TOP_ADDRS` entries in table order, with the number of lines due; reads and handlers end |
| `traffic_errno` | `CountersExact` violated | a failing `tcp_sendmsg` is counted as sent bytes |
| `exporter` | pass, 181,068 states | after an update the gauges are the lines the kernel module printed, but for the last number when the page cuts it; no stale series; a signal ends the process when the clients let go |
| `posts` | pass, 3,106,080 states | two requests of any kind, with the friends in Tarantool, in PostgreSQL, or next to the mock data, statements that fail by themselves, and a friend listed twice: the connection is never left busy (`ConnHeld`), answers are true (`AnswersTrue`), a cached feed is the user's own and stored (`CacheOwn`), the friend pairs that this process put into Tarantool are committed when its mock data end well (`MockMatches`), `PostSpec` is implemented |
| `posts_feed` | `FeedComplete` violated | a query that is refused because another request holds the connection is answered with 200 and no posts |
| `sockets` | pass, 28,549 states | one socket at a time: in order and at most once; nothing lost while nothing fails, even when the partition moves; the topic is drained when the clients read or leave |

Bounds and why they are enough:

* **alloc**: 4 blocks of 4 bytes, 3 records, `size_t` modulo 32. Requests of 0, 1 and 2
  blocks and one (31) that wraps to 0 blocks; three records are the least for which
  the removal of a record changes the order of the others; four blocks allow holes at
  either end and in the middle, a full pool and a full table with free blocks. Two
  callers give every pairwise interleaving.
* **fifo**: `unsigned int` has 5 bits, so that positions wrap after 8 entries; sizes 0
  (refused), 1, 3 (rounded to 4), 8 (32 bytes: cut to 0, refused) and 9 (36 bytes: cut
  to 4). The numbers are one that is shown (3), the two that are read as "empty" and "not
  initialised" (-1, -4) and one that is read as another error (-7).
* **stack**: 3 entries and 2 values: push between two others, pop of the last one,
  clear of a list whose second element must be reached after the first is freed.
* **hashtable**: 2 buckets, up to 4 elements: a bucket with duplicates, an empty one,
  one larger than the page. Numbers are written in base 2 and the page has room for 4
  characters: a bucket ends before the end, at it, between two values, or inside one.
* **traffic_record**: 2 tasks, two connections that share a bucket and one with a zero
  address, at most 2 bytes per connection. Tasks are interchangeable (symmetry; no
  liveness is checked in this run). `MAX_BYTES` is the only bound on a counter.
* **traffic_top**: one task, one reader, three connections for an array of two, `top_n` 0, 1
  and 3, a page of one whole line and a part of the next. One connection moves 2 bytes, the
  others 1, so that totals differ, are equal, and change their order. One task keeps the run
  short; contention between tasks is the matter of `traffic_record`.
* **exporter**: two connections, counts 7 and 13, below and above the scaled-down limit of
  exact floats (8); 13 is cut to 1; one HTTP client with one request at a time, which can
  stop in the middle of the request or of the answer.
* **posts**: ann writes and lists bob twice, bob reads and lists ann, so that a notification
  can stop between the two messages to bob; a request without a token; two requests at
  once, which gives every pair of handlers. Four settings: as deployed; friends from
  PostgreSQL; mock data; mock data with feeds that PostgreSQL refuses, whose failure aborts
  their transaction. Two rows and one lost connection or restart without mock data; with
  mock data (one batch of one friend pair) one row, where the connection is lost only by
  what mock data and requests do to each other, and in the last setting a loss or a restart
  and no new row. Requests are interchangeable (symmetry; no liveness is checked in this run). A feed is a
  set: offset and order are left out, and with them the several cache keys of a user.
* **posts_feed**: one row, no fault: the violation needs two concurrent requests only.
* **sockets**: two handlers, four connections in all, three messages: a reader that joins
  between the fetch and the commit of the other, leaves and comes back.

Fairness. `KernelAlloc` and `TrafficStats` assume strong fairness of a callback's or a
handler's steps: the kernel's spinlocks queue their waiters, and the holder runs with
interrupts or preemption off; so a waiter gets the lock although others keep taking
it. The reader of `top_addrs` is a running process. `StatsExporter` assumes weak
fairness of main, the updater and the gathering of metrics: the Go scheduler runs every
goroutine that can run. The rest of a request and the reading of its answer are the
client's. `FeedSocket` assumes weak fairness of a handler while it fetches, commits, or
writes to a client that has gone: the broker answers, and such a write ends with an error
or in the socket's buffer. A write to a client that is there is the client's, because
`websocket.go:61` sets no deadline. Nothing is assumed of users, signals, `insmod` and `rmmod`, nor that a
post is ever sent. `sockets` does not
check deadlock: when all messages are read and no more sockets may open, every handler
waits in `ReadMessage`, as it does in the code.

## 4. Proofs

`tlapm XProofs.tla` for each component module `X`. Every safety property and action
property of the passing runs, and every refinement they check, is a theorem for all values
of the constants; `theorems` in `PROJECT.json` says which theorem states which property. What
each theorem assumes beyond the assumption on the constants (`AllocAssumption`, ...):

| module | theorems | hypotheses |
|---|---|---|
| `KernelAllocProofs` | `TypeCorrect`, `AllocationsDisjoint`, `BitmapExact`, `GrantsAreBacked`, `ResourcesSafe`, `StatsAreExact`, `AllocRefinement` | `RacyLifecycle = FALSE` |
| `KernelFifoProofs` | `FifoTypeCorrect`, `EntriesNeverTorn`, `QueueOwned`, `FifoRefinement` | `~RacyLifecycle` |
| `KernelStackProofs` | `StackTypeCorrect`, `ListAgrees`, `NoUseAfterFree`, `StackRefinement` | `[]TakingTurns` |
| `KernelHashtableProofs` | `HashtableTypeCorrect`, `FillsAreWhole`, `SearchesAreExact`, `DumpsAreExact` | `~RacyLifecycle` |
| `TrafficStatsProofs` | `TrafficTypeCorrect`, `NothingLeft`, `TableExact`, `PrintedFresh`, `TopExact` | none for the first two; see below |
| `StatsExporterProofs` | `ExporterTypeCorrect`, `NoMixedReads`, `GaugesExact` | none |
| `SocialPostsProofs` | `PostsTypeCorrect`, `OneStatement`, `ToldTheTruth`, `CachedFeedsOwn`, `MockPairsCommitted`, `PostsRefinement` | none |
| `FeedSocketProofs` | `SocketTypeCorrect`, `NothingLost`, `InOrder` | none |

The hypotheses on the use of the modules are the assumptions of section 2; runs
`stack_race` and `traffic_errno`, and section 5, show what happens without them.

Each proof has the same form: an invariant `IInv` that `Init` establishes and every action
keeps, with a lemma for each action or group of actions, and one for what the steps of the
module mean for the data (a table, a list, a gauge). The properties follow from `IInv`; a
refinement maps each action to an action of the abstract specification or to a stutter.
The inductive invariants were first checked by TLC on the states of the runs.

### Allocator

For every pool size, block size, table size, width of `size_t`, set of requests and set
of callers. `AllocAssumption` asks that the pool plus one block fits into `size_t`, as the
values in `allocator.h` do; this is what makes the rounding of a wrapping request harmless.

None of the properties is inductive alone: a caller between its search and its
commit holds a region in local variables. The parts of `IInv`:

* `TypeOK`;
* `LockInv` - a caller is in `scan` or `commit` only while it owns the lock and the
  module is live;
* `ScanInv` - the run `start .. start + count - 1` seen so far is free, ends at `i`, and is
  not longer than the request; a caller about to commit has a complete free run in the
  pool;
* `TableInv` - for each phase what is allocated and that nothing is recorded unless the
  module is live; records lie in the pool and their addresses are their regions;
  regions are disjoint; the bitmap is their union; grants are backed; the table is
  bounded.

`ScanInv` is what carries disjointness through `AllocCommit`: the new region is free in
the bitmap, the bitmap is the union of the old regions, so the new one meets none of
them. In `FreeCommit` disjointness makes clearing a region harmless for the others, and
a lemma describes the table after the last record has moved into the hole.

`AllocRefinement` needs a second invariant, `FirstFit`: the search has passed blocked runs
only (the block before the free ones it counts is taken, and every earlier run of the
requested length contains a taken block). Then a grant is the lowest region that fits,
and a search that reaches the end proves that none fits; `NumBlocksRight` shows that a
request whose rounding wraps to zero blocks needs more than the pool, so that refusing it
is right, too. The steps between call and answer are stutters; `Cardinality` of the live
regions is the length of the table, because no address is recorded twice.

`StatsAreExact` needs `GrantsSized`, a record has exactly the blocks that its request needs.
A bijection between the pairs of a live request and a number of one of its blocks and the
bits that are set gives the count. Every free block belongs to a run with a first block
(the least from which on all is free), so that one first block means one interval.

### Queue

For every width of the unsigned int, every entry size that is a power of two and every
requested size. `IInv` says what device and buffer are in each phase, and of a ready queue
(`QueueInv`) that the buffer holds a positive number of entries, divides the range of the
positions, and the positions are multiples of an entry at most a buffer apart. The
proof counts entries (`In`, `Out`, `Count`, `Cap`) instead of bytes. Its lemmas are about
remainders: a remainder of multiples, a remainder of a remainder when one modulus divides
the other, and that a position that wraps keeps its slot. The prover knows nothing of `^`;
`FifoAssumption` therefore says of `2 ^ k` what the proof needs: it divides the range of the
positions and is a multiple of an entry or smaller than one.
`FifoRefinement` maps the buffer from `out` to `in` to the sequence of `FifoSpec`, for every set of
integers: `FifoSpec` itself says that an element with the value of an error code is reported as
that error (section 5).

### Stack

For every number of entries and every set of values, while the users take turns: `TakingTurns` is a
state predicate, and the theorems are about behaviours in which it always holds. The list of `list.h`
is read as a sequence: `Linked(c)` says that `next` and `prev` run through head and `c` in both
directions, `ChainIs` that there is at most one such `c`, so that `Chain` is well defined.
`IInv` is `MemType`, `ProcType`, `SerialInv` (who may be in a call in which phase) and `ListInv`:
between calls allocated memory and `size` are those of the list, and for each point within a call
how far they differ (an entry allocated and not linked, linked and not counted, unlinked and
not counted, the next element that `clear` has saved). Lemmas describe inserting at the head,
removing, and the empty list. `NoUseAfterFree` follows because the saved element of `clear`
is in the list that is left.

### Hash table

For every table size, array size, number and random value. `IInv` has the types, what is
there in each phase, that a fill has added one entry per turn (`CountInv`), that each entry is
in its bucket (`Placed`), and that the last result is exact. `sort` enters by its promise
only, some order of the bucket: `OrderExists` shows that every sequence has one, by a least
counterexample. `bsearch` is proved as a loop: on a sorted sequence the halving finds a key exactly
when it is there. As induction theorems cannot be used here, both proofs take the least element of a
set of counterexamples (`LeastNat`, from the well-foundedness of `<` on the natural numbers).
The dump is an action property, `DumpExact`: it relates the bucket before the step to the numbers
shown. `Ranked` says without sorting which value comes in which place. The proof follows the
loop of the dump: whole values while they fit, then the digits that are left room for.

### Traffic statistics

For every set of tasks and connections, every hash function, every limit and width of the
counters. `IInv` has the handlers (`HandlerInv`: the lock belongs to the handler that looked its
connection up, and what it found is still true), the phases and the table (`TableInv`: no
connection twice; a counter that has not wrapped is the sum of the recorded calls), and the
types of the reader.

* `TypeOK` and `LeftNothing` hold without a hypothesis, also when a file is used during loading;
* `CountersExact` holds when `tcp_sendmsg` reports no error (`SendReturns \subseteq Nat`; run
  `traffic_errno` shows the other case) and as long as no counter has wrapped (`[]NoWrap`: 2^64
  bytes on one connection);
* `PrintedInWindow` holds under the same hypotheses and without use during loading, by
  `WindowInv`: counters only grow while a read is under way;
* `TopIsTop` holds without use during loading, for every size of the table, by `CalmInv`: while
  nothing moves the array has the first `MAX_TOP_ADDRS` entries of the table once each, is sorted
  by what the counters are, and has been printed as far as top_n and page allowed. It says
  nothing of entries behind the first `MAX_TOP_ADDRS`, as the code does not look at them.

### Exporter

For every set of connections and counts, every page and every number of clients, without a
hypothesis beyond that the floats reach far enough (`ExporterAssumption`). `IInv`
follows the updater through a round: after the resets the gauges are empty, in the loop they
hold the entries before the index with their values, apart from the series being made (which is
there one step before its value), at the end they hold the read. `GaugesExact` compares the
gauges with what the kernel module had to print, not with what was parsed: the entries parsed so far
are the lines of the page that have both numbers, and only the last one can have less than its whole
number of sent bytes, a prefix. A page names no connection twice; hence the number of series is the
number of such lines.

### Posts

For every set of users, friends and requests, every setting and every number of rows,
mock data and faults, without a hypothesis. The parts of `IInv`:

* `ConnHeld` - the connection is busy exactly while one statement is in flight;
* `DataInv` - rows that are visible or confirmed were inserted; without mock data there is no
  transaction and what is confirmed is stored for good;
* `ReqInv` - where a handler is tells what it has: a row not inserted yet or refused is nowhere,
  a list about to be cached is a feed of its user, and the list still to be told (`TellOK`) is the part
  of the author's friends behind the first `i`, for an `i` such that everybody was told at most as
  often as he is among these first `i`;
* `UniqueInv` - different requests have different rows, and no other row has their number;
* `CacheOwn`, and `PairInv` - a friend pair that this process put into Tarantool is in PostgreSQL or in
  the transaction that is open, unless the connection is lost, in which case the mock data end
  with an error.

`PostsRefinement` has no hypothesis on the lists of friends: `TellOK` counts (`Count`, `Times`), so that
each message to a friend is matched with one place in the list.

### Web sockets

For every set of handlers and every number of messages and connections. `PeaceInv` strengthens
`NothingLostInPeace`: a handler may commit a message after it has lost the
partition, so all messages before a *fetched* one must be accounted for, too, and all that
the owner has fetched except the one it is about to commit. `SoloInv` strengthens `SoloInOrder`:
the only member owns the partition, its position is the committed offset, or one more
between fetch and commit, and nothing behind the offset was received. `TypeOK` and the fact
that a handler between fetch and write has a message of the topic complete the invariant.

### Only model-checked

Liveness, which the prover does not cover: `CallsReturn` and `CallsEnd`, and `SignalEnds` and
`TopicDrains`, which are claimed only when clients let go or read. The properties of the runs that
expect a violation.

## 5. Findings and limits

The three violation runs are the findings of `PROJECT.json`, each with the text it
contradicts. Further behaviour met while modelling, which no run is about:

* Allocator: a parameter file used during init or exit (`RacyLifecycle`, section 2).
* Allocator: the example of `kernel_alloc_task.md:152-170` allocates 8 and 16 KiB, frees the
  first, and shows 10232 KB free, 8 KB allocated and no fragmentation. The code, and
  `StatsExact`, give 10224 KB and 16 KB, and the hole before the remaining block makes the
  fragmentation 50%. `StatsExact` is about what the code counts, not about that example.
* Queue: values and error codes share an `int`, so that an element -1 or -4 is removed and
  shown as "empty" or "not initialised". `FifoSpec` says so, and run `fifo` has such
  elements. The capacity is the rounded-up buffer (`AllocBytes`), which is what `FifoSpec`
  promises, and not the requested size that `fifo_ops.c:16` calls the maximum and that
  `kernel_fifo_task.md:161-163` counts from (98 of 100); a size that overflows the unsigned
  int loads with a small queue.
* Stack: when the creation of the sysfs group fails after a first file was used, its
  elements are not freed (`EarlyUse`). Concurrent users can also free an element that
  another one holds; run `stack_race` shows the milder case of a lost update.
* Hash table: `param_set_search` drops an out-of-memory error; `result` then says "not
  found". `SearchExact` is about searches that had memory. A dump that fills its page ends
  with the first digits of a number, which a reader cannot tell from a number
  (`search.c:146-151`).
* Traffic: with more than `MAX_TOP_ADDRS` connections a read sorts the first 100 in bucket
  order, and entries are never removed; the description "top N addresses by traffic"
  (`params.c:26`) is true of smaller tables only. `TopIsTop` says what the code does, and run
  `traffic_top` has more connections than places. Calls beyond `maxactive` are not
  counted and are not part of `CountersExact`.
* Exporter: a scrape between `WithLabelValues` and `Set` shows 0; one between the reset of
  the gauges and the end of the update, or after a failed read, shows another number of
  sessions than `top_addrs_scrape_count`. A number that the page cuts at its end is exported
  as a smaller number: "Total send traffic bytes per session" (`collector.go:53`) is not
  true of that line, and `GaugesMatchRead` makes an exception of it.
* Exporter: `Stop` waits for open requests without a deadline (`collector.go:120`), and the
  server has no timeouts (`collector.go:65-66`): one client that keeps half a request
  open, or does not read its answer, keeps the process after a signal. `SignalEnds` is
  claimed when clients let go.
* Posts: while mock data are made, an insertion of a request becomes part of their
  transaction; when that is rolled back, or left open by an error until the session ends, a
  confirmed post is lost. `AnswersTrue` therefore speaks of the service without mock data
  (`DB_MOCK_DATA`), and `CacheOwn` lets a cached feed show such a post.
* Posts: nothing makes a pair of `"Friend"` unique, and the mock data draw friends with
  repetition; a friend listed twice is told twice. `PostSpec` allows as many messages as
  places in the list.
* Posts: the mock data put a pair into Tarantool before PostgreSQL commits it, and only log a
  failed insertion (`database.go:89-93`). Tarantool may lack pairs that PostgreSQL has, and
  after a crash in a batch it keeps pairs that were rolled back, with whose indexes those
  of the next process collide. `MockMatches` is one direction, about the running process.
* Posts: `net.json:479-489` makes the limit of a feed optional, with 10 as default. The code
  passes the empty text on, PostgreSQL refuses the query, and the answer is 200 with no
  posts, which is cached too, as the handlers do not look at `rows.Err()`.
* Posts: a broken connection is not opened again; every later request is refused until the
  process is started anew. An insertion that was refused because the connection broke may
  nevertheless be stored.
* Posts: a feed in the cache is not renewed by a new post, and a slow request may replace
  it by an older one; the handler queries in any case, and answers a hit twice.
* Sockets: a message whose write fails is lost, and with two sockets of one user a late
  commit of the former owner makes the group read messages again.
* Sockets: `WriteMessage` has no deadline (`websocket.go:61`): a client that stays and does not
  read blocks its handler, which keeps the partition from the user's other sockets.
  `TopicDrains` is claimed when clients read or leave.

Not modelled: calls in kernel threads, which the probes skip; the layout of the texts;
the text of the exporter's index page; feed requests without a token (they share one cache entry and
their query fails) and requests without the header, which panic in `extractClaims` before
they touch anything; stub handlers; dialogs, whose requests are one statement on a pooled
connection or one call of a service that is not in the repository; `HW_02_hello_world`,
whose callbacks run one at a time and assign one variable each; the other parts listed as
not modelled in `PROJECT.json`.

## 6. Plan

Done: the five kernel modules, the exporter and the social network, four abstract
specifications, and proofs of all their safety properties and refinements under the
hypotheses of section 4. Left:

1. The kernel statistics and the exporter composed: a page printed by `TrafficStats` as
   the input of `StatsExporter`.
2. Posts and sockets composed: the topics of `SocialPosts` as the topic of `FeedSocket`.
