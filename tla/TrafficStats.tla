---------------------------- MODULE TrafficStats ----------------------------
(***************************************************************************)
(* The traffic statistics module Linux_kernel/final_work_kprobe/src:       *)
(* kprobe_handler.c (two kretprobes), stats.c (the table behind            *)
(* stats_lock), params.c (top_addrs) and main.c.                           *)
(*                                                                         *)
(* Tasks call tcp_sendmsg and tcp_cleanup_rbuf; a call that is traced runs *)
(* the return handler, which takes stats_lock and updates the table.       *)
(* The reader of top_addrs (the kernel admits one at a time) collects the  *)
(* entries under the lock, then sorts and prints them without it.          *)
(*                                                                         *)
(* Data.  A connection stands for a pair (saddr, daddr).  The hash table   *)
(* is the sequence of its connections in the order in which hash_for_each  *)
(* visits them, with the counters of each.                                 *)
(*                                                                         *)
(* Operators named X_y are variants of X with a plausible mistake; no      *)
(* other definition uses them.                                             *)
(***************************************************************************)
EXTENDS Integers, Sequences, FiniteSets, Functions

CONSTANTS Tasks, NoTask,
          Conns,          \* connections
          Unbound,        \* the ones with a zero address
          Bucket,         \* the hash bucket of each connection
          SendReturns,    \* results of tcp_sendmsg: bytes, or a negative errno
          RecvCounts,     \* the "copied" argument of tcp_cleanup_rbuf
          TopNs,          \* values of the parameter top_n
          MAX_TOP_ADDRS,  \* 100
          MAXACTIVE,      \* 20: calls one kretprobe can follow at a time
          PAGE_LINES,     \* whole lines that fit into the sysfs page
          RADIX_POWERS,   \* 1, 10, 100, ...: the radix numbers are printed in
          U32_MOD,        \* 2^32
          U64_MOD,        \* 2^64
          MaxBytes,       \* bound of the model: bytes moved by each connection
          RacyLifecycle   \* top_addrs read while the module's exit runs

ASSUME TrafficAssumption ==
  /\ NoTask \notin Tasks
  /\ Unbound \subseteq Conns
  /\ Bucket \in [Conns -> Nat]
  /\ SendReturns \subseteq Int /\ RecvCounts \subseteq Int /\ TopNs \subseteq Int
  /\ MAX_TOP_ADDRS \in Nat \ {0} /\ MAXACTIVE \in Nat \ {0} /\ PAGE_LINES \in Nat \ {0}
  /\ RADIX_POWERS \subseteq Nat \ {0}
  /\ MaxBytes \in [Conns -> Nat] /\ U32_MOD \in Nat \ {0} /\ U64_MOD \in Nat
  /\ U32_MOD <= U64_MOD /\ \A c \in Conns : MaxBytes[c] < U64_MOD
  /\ \A r \in SendReturns \cup RecvCounts : -U32_MOD < 2 * r /\ 2 * r < U32_MOD
  /\ RacyLifecycle \in BOOLEAN

VARIABLES
  phase, probes,        \* the loading process, the kretprobes that are armed
  order, recv, send,    \* addr_stats: visiting order and counters
  lock,                 \* stats_lock
  pc, cur,              \* each task and the call it is in
  rpc, top_n, entries, out,   \* the reader, its argument, array and output
  dirty,                \* a counter moved while the reader was sorting
  moved,                \* history: bytes moved by the recorded calls
  base, calm            \* history: counters when the reader collected; unchanged since

table  == <<order, recv, send>>
reader == <<rpc, top_n, entries, out>>
vars == <<phase, probes, table, lock, pc, cur, reader, dirty, moved, base, calm>>

Kinds == {"send", "recv"}
Zero  == [c \in Conns |-> 0]
NoCall == [kind |-> "none", conn |-> "none", bytes |-> 0, real |-> 0]
MovedNothing == [k \in Kinds |-> Zero]
-----------------------------------------------------------------------------
(* stats.c *)

total_bytes(c) == (recv[c] + send[c]) % U64_MOD

\* hash_for_each_possible with the comparison of both addresses.
Find(c) == {e \in Range(order) : Bucket[e] = Bucket[c] /\ e = c}

\* hash_add: a new entry is the first of its bucket.
hash_add(c) == LET before == Cardinality({k \in 1 .. Len(order) : Bucket[order[k]] < Bucket[c]})
               IN  SubSeq(order, 1, before) \o <<c>> \o SubSeq(order, before + 1, Len(order))

Sorted_asc(s) == \A j, k \in 1 .. Len(s) : j < k => total_bytes(s[j]) <= total_bytes(s[k])

\* cmp_bytes_desc: the larger total comes first.
Sorted(s) == \A j, k \in 1 .. Len(s) : j < k => total_bytes(s[j]) >= total_bytes(s[k])

\* The number of entries stats_get_top collects.
Count == IF Len(order) < MAX_TOP_ADDRS THEN Len(order) ELSE MAX_TOP_ADDRS

\* What can be left of a printed number where the page ends; 0: nothing.
CutNumber(v) == {0} \cup {w \in 0 .. v : \E p \in RADIX_POWERS : w = v \div p}

Orderings(s) == {p \in [1 .. Len(s) -> Range(s)] : Range(p) = Range(s)}
-----------------------------------------------------------------------------
Init ==
  /\ phase = "absent" /\ probes = {}
  /\ order = <<>> /\ recv = Zero /\ send = Zero
  /\ lock = NoTask
  /\ pc = [t \in Tasks |-> "idle"] /\ cur = [t \in Tasks |-> NoCall]
  /\ rpc = "idle" /\ top_n = 0 /\ entries = <<>> /\ out = <<>>
  /\ dirty = FALSE
  /\ moved = MovedNothing
  /\ base = MovedNothing /\ calm = FALSE

history == <<dirty, moved, base, calm>>
-----------------------------------------------------------------------------
(* Loading and unloading *)

InHandler(k) == \E t \in Tasks : pc[t] \in {"record", "found", "missing"} /\ cur[t].kind = k

\* kprobe_traffic_init: stats_init, then register_kretprobe of tcp_sendmsg.
InitSend ==
  /\ phase = "absent"
  /\ \/ phase' = "send" /\ probes' = {"send"}
     \/ phase' = "cleanup" /\ UNCHANGED probes
  /\ UNCHANGED <<table, lock, pc, cur, reader, history>>

\* register_kretprobe of tcp_cleanup_rbuf; if it fails the first one must go.
InitRecv ==
  /\ phase = "send"
  /\ \/ phase' = "live" /\ probes' = Kinds
     \/ phase' = "backout" /\ UNCHANGED probes
  /\ UNCHANGED <<table, lock, pc, cur, reader, history>>

UnregisterSend_nowait ==
  /\ \/ phase = "live"    /\ phase' = "nosend"
     \/ phase = "backout" /\ phase' = "cleanup"
  /\ probes' = probes \ {"send"}
  /\ UNCHANGED <<table, lock, pc, cur, reader, history>>

\* unregister_kretprobe returns when no handler of the probe runs.
UnregisterSend ==
  /\ \/ phase = "live"    /\ phase' = "nosend"
     \/ phase = "backout" /\ phase' = "cleanup"
  /\ ~InHandler("send")
  /\ probes' = probes \ {"send"}
  /\ UNCHANGED <<table, lock, pc, cur, reader, history>>

UnregisterRecv ==
  /\ phase = "nosend"
  /\ ~InHandler("recv")
  /\ phase' = "cleanup"
  /\ probes' = probes \ {"recv"}
  /\ UNCHANGED <<table, lock, pc, cur, reader, history>>

\* stats_exit frees every entry under the lock.
StatsExit ==
  /\ phase = "cleanup"
  /\ lock = NoTask
  /\ RacyLifecycle \/ rpc = "idle"
  /\ phase' = "gone"
  /\ order' = <<>> /\ recv' = Zero /\ send' = Zero
  /\ moved' = MovedNothing
  /\ UNCHANGED <<probes, lock, pc, cur, reader, dirty, base, calm>>

\* The parameter files go away once their reader has left.
Teardown ==
  /\ phase = "gone"
  /\ rpc = "idle"
  /\ phase' = "absent"
  /\ UNCHANGED <<probes, table, lock, pc, cur, reader, history>>
-----------------------------------------------------------------------------
(* kprobe_handler.c: tasks of user processes (current->mm is not NULL) *)

Active(k) == Cardinality({t \in Tasks : pc[t] # "idle" /\ cur[t].kind = k})

\* A traced call: the entry handler notes the addresses, and the count of a
\* receive.  A call is not traced when the probe's instances are all in use.
CallTcp(t) ==
  /\ pc[t] = "idle"
  /\ \E k \in probes, c \in Conns, n \in RecvCounts :
       /\ Active(k) < MAXACTIVE
       /\ cur' = [cur EXCEPT ![t] = [kind |-> k, conn |-> c,
                                      bytes |-> IF k = "recv" THEN n ELSE 0,
                                      real |-> 0]]
  /\ pc' = [pc EXCEPT ![t] = "call"]
  /\ UNCHANGED <<phase, probes, table, lock, reader, history>>

\* send_ret_handler reads the int result as an unsigned long: the upper half of
\* the register of a negative int can be zeros or ones.
SendBytes(r) == {r % U64_MOD, r % U32_MOD}

\* recv_ret_handler compares the count as an int.
RecvBytes(n) == {IF n > 0 THEN n ELSE 0}

ReturnTcp_unchecked(t) ==
  /\ pc[t] = "call"
  /\ LET k == cur[t].kind
     IN \E n \in IF k = "send" THEN SendReturns ELSE {cur[t].bytes} :
        \E b \in IF k = "send" THEN SendBytes(n) ELSE {n} :
          \/ /\ k \in probes /\ cur[t].conn \notin Unbound
             /\ moved["send"][cur[t].conn] + moved["recv"][cur[t].conn] + n <= MaxBytes[cur[t].conn]
             /\ cur' = [cur EXCEPT ![t] = [@ EXCEPT !.bytes = b, !.real = IF n > 0 THEN n ELSE 0]]
             /\ pc' = [pc EXCEPT ![t] = "record"]
          \/ /\ k \notin probes \/ cur[t].conn \in Unbound
             /\ cur' = [cur EXCEPT ![t] = NoCall]
             /\ pc' = [pc EXCEPT ![t] = "idle"]
  /\ UNCHANGED <<phase, probes, table, lock, reader, history>>

\* The function returns; its handler records the bytes unless the probe is
\* gone, there are none, or an address is zero.
ReturnTcp(t) ==
  /\ pc[t] = "call"
  /\ LET k == cur[t].kind
     IN \E n \in IF k = "send" THEN SendReturns ELSE {cur[t].bytes} :
        \E b \in IF k = "send" THEN SendBytes(n) ELSE RecvBytes(n) :
          \/ /\ k \in probes /\ b > 0 /\ cur[t].conn \notin Unbound
             /\ moved["send"][cur[t].conn] + moved["recv"][cur[t].conn] + n <= MaxBytes[cur[t].conn]
             /\ cur' = [cur EXCEPT ![t] = [@ EXCEPT !.bytes = b, !.real = IF n > 0 THEN n ELSE 0]]
             /\ pc' = [pc EXCEPT ![t] = "record"]
          \/ /\ k \notin probes \/ b = 0 \/ cur[t].conn \in Unbound
             /\ cur' = [cur EXCEPT ![t] = NoCall]
             /\ pc' = [pc EXCEPT ![t] = "idle"]
  /\ UNCHANGED <<phase, probes, table, lock, reader, history>>

RecordLock_none(t) ==
  /\ pc[t] = "record"
  /\ lock' = t
  /\ pc' = [pc EXCEPT ![t] = IF Find(cur[t].conn) = {} THEN "missing" ELSE "found"]
  /\ UNCHANGED <<phase, probes, table, cur, reader, history>>

\* stats_record_traffic: take the lock and look the connection up ...
RecordLock(t) ==
  /\ pc[t] = "record"
  /\ lock = NoTask
  /\ lock' = t
  /\ pc' = [pc EXCEPT ![t] = IF Find(cur[t].conn) = {} THEN "missing" ELSE "found"]
  /\ UNCHANGED <<phase, probes, table, cur, reader, history>>

\* The bytes the call really moved enter the history with the record.
Recorded(t) ==
  /\ moved' = [moved EXCEPT ![cur[t].kind][cur[t].conn] = @ + cur[t].real]
  /\ dirty' = (rpc = "sorting")
  /\ calm' = FALSE
  /\ UNCHANGED base

Done(t) == /\ lock' = NoTask
           /\ pc' = [pc EXCEPT ![t] = "idle"]
           /\ cur' = [cur EXCEPT ![t] = NoCall]
           /\ UNCHANGED <<phase, probes, reader>>

Plus(counter, e, b) == [counter EXCEPT ![e] = (@ + b) % U64_MOD]

\* ... add to the entry that was found ...
RecordAdd(t) ==
  /\ pc[t] = "found"
  /\ \E e \in Find(cur[t].conn) :
       IF cur[t].kind = "send" THEN send' = Plus(send, e, cur[t].bytes) /\ UNCHANGED recv
                               ELSE recv' = Plus(recv, e, cur[t].bytes) /\ UNCHANGED send
  /\ UNCHANGED order
  /\ Recorded(t)
  /\ Done(t)

RecordInsert_keeplock(t) ==
  /\ pc[t] = "missing"
  /\ \/ /\ order' = hash_add(cur[t].conn)
        /\ LET b == cur[t].bytes
           IN  /\ send' = [send EXCEPT ![cur[t].conn] = IF cur[t].kind = "send" THEN b ELSE 0]
               /\ recv' = [recv EXCEPT ![cur[t].conn] = IF cur[t].kind = "recv" THEN b ELSE 0]
        /\ Recorded(t)
        /\ lock' = NoTask
     \/ UNCHANGED <<table, history, lock>>
  /\ pc' = [pc EXCEPT ![t] = "idle"]
  /\ cur' = [cur EXCEPT ![t] = NoCall]
  /\ UNCHANGED <<phase, probes, reader>>

\* ... or insert a new one; without memory the bytes are not counted.
RecordInsert(t) ==
  /\ pc[t] = "missing"
  /\ \/ /\ order' = hash_add(cur[t].conn)
        /\ LET b == cur[t].bytes
           IN  /\ send' = [send EXCEPT ![cur[t].conn] = IF cur[t].kind = "send" THEN b ELSE 0]
               /\ recv' = [recv EXCEPT ![cur[t].conn] = IF cur[t].kind = "recv" THEN b ELSE 0]
        /\ Recorded(t)
     \/ UNCHANGED <<table, history>>
  /\ Done(t)
-----------------------------------------------------------------------------
(* params.c and stats_get_top *)

kernel == <<phase, probes, table, lock, pc, cur, moved>>

ReaderReset == /\ rpc' = "idle" /\ top_n' = 0 /\ entries' = <<>> /\ out' = <<>>
               /\ dirty' = FALSE /\ base' = MovedNothing /\ calm' = FALSE

\* top_addrs_get: the value of top_n is passed on; kmalloc_array.
TopStart ==
  /\ rpc = "idle" /\ phase # "absent"
  /\ top_n' \in TopNs
  /\ rpc' = "collect"
  /\ UNCHANGED <<kernel, entries, out, dirty, base, calm>>

TopNoMemory ==
  /\ rpc = "collect"
  /\ ReaderReset
  /\ UNCHANGED kernel

\* The first MAX_TOP_ADDRS entries, under the lock; none: an empty answer.
TopCollect ==
  /\ rpc = "collect"
  /\ lock = NoTask
  /\ \/ /\ order = <<>>
        /\ rpc' = "done"
        /\ UNCHANGED entries
     \/ /\ order # <<>>
        /\ entries' = SubSeq(order, 1, Count)
        /\ rpc' = "unsorted"
  /\ base' = [k \in Kinds |-> IF k = "send" THEN send ELSE recv]
  /\ calm' = TRUE
  /\ UNCHANGED <<kernel, top_n, out, dirty>>

\* sort() runs without the lock ...
TopSortBegin ==
  /\ rpc = "unsorted"
  /\ rpc' = "sorting"
  /\ dirty' = FALSE
  /\ UNCHANGED <<kernel, top_n, entries, out, base, calm>>

\* ... so a counter that moves meanwhile can leave any order.
TopSortEnd ==
  /\ rpc = "sorting"
  /\ entries' \in {p \in Orderings(entries) : dirty \/ Sorted(p)}
  /\ rpc' = "print"
  /\ dirty' = FALSE
  /\ UNCHANGED <<kernel, top_n, out, base, calm>>

\* One line of the output: a whole one, or what is left of it.
LineOf(c, whole, r, w) == [conn |-> c, recv |-> r, send |-> w, whole |-> whole]

PrintLine_swapped ==
  \/ /\ Len(out) < PAGE_LINES
     /\ LET c == entries[Len(out) + 1]
        IN  out' = Append(out, LineOf(c, TRUE, send[c], recv[c]))
  \/ /\ Len(out) = PAGE_LINES
     /\ LET c == entries[Len(out) + 1]
        IN  \E r \in CutNumber(recv[c]), w \in CutNumber(send[c]) :
              out' = Append(out, LineOf(c, FALSE, r, w))

\* scnprintf, with the counters as they are now: the line after PAGE_LINES whole
\* ones is cut off where the page ends.
PrintLine ==
  \/ /\ Len(out) < PAGE_LINES
     /\ LET c == entries[Len(out) + 1]
        IN  out' = Append(out, LineOf(c, TRUE, recv[c], send[c]))
  \/ /\ Len(out) = PAGE_LINES
     /\ LET c == entries[Len(out) + 1]
        IN  \E r \in CutNumber(recv[c]), w \in CutNumber(send[c]) :
              out' = Append(out, LineOf(c, FALSE, r, w))

\* The loop prints the first top_n entries; it ends early when a line is cut or
\* nothing of it fits.
TopPrint ==
  /\ rpc = "print"
  /\ \/ /\ Len(out) < top_n /\ Len(out) < Len(entries)
        /\ PrintLine
        /\ UNCHANGED rpc
     \/ /\ Len(out) >= top_n \/ Len(out) >= Len(entries) \/ Len(out) >= PAGE_LINES
        /\ rpc' = "done"
        /\ UNCHANGED out
  /\ UNCHANGED <<kernel, top_n, entries, dirty, base, calm>>

TopReturn ==
  /\ rpc = "done"
  /\ ReaderReset
  /\ UNCHANGED kernel
-----------------------------------------------------------------------------
Loader == \/ InitSend \/ InitRecv \/ UnregisterSend \/ UnregisterRecv \/ StatsExit \/ Teardown

Handler(t) == RecordLock(t) \/ RecordAdd(t) \/ RecordInsert(t)

Reader == \/ TopNoMemory \/ TopCollect \/ TopSortBegin \/ TopSortEnd \/ TopPrint \/ TopReturn

Next == \/ Loader
        \/ \E t \in Tasks : CallTcp(t) \/ ReturnTcp(t) \/ Handler(t)
        \/ TopStart
        \/ Reader

Spec == Init /\ [][Next]_vars

\* A handler runs with preemption off and gets a queued spinlock; the reader is
\* a running process.
FairSpec == /\ Spec
            /\ \A t \in Tasks : SF_vars(Handler(t))
            /\ SF_vars(Reader)
-----------------------------------------------------------------------------
(* Properties *)

(***************************************************************************)
(* Type invariant of the module's state and of the reader's array.         *)
(***************************************************************************)
TypeOK ==
  /\ phase \in {"absent", "send", "backout", "live", "nosend", "cleanup", "gone"}
  /\ probes \subseteq Kinds
  /\ order \in Seq(Conns)
  /\ recv \in [Conns -> 0 .. (U64_MOD - 1)]
  /\ send \in [Conns -> 0 .. (U64_MOD - 1)]
  /\ lock \in Tasks \cup {NoTask}
  /\ pc \in [Tasks -> {"idle", "call", "record", "found", "missing"}]
  /\ DOMAIN cur = Tasks
  /\ rpc \in {"idle", "collect", "unsorted", "sorting", "print", "done"}
  /\ top_n \in TopNs \cup {0}
  /\ entries \in Seq(Conns)
  /\ Len(out) <= Len(entries)
  /\ dirty \in BOOLEAN /\ calm \in BOOLEAN

\* The table has one entry per connection, without a zero address, and its
\* counters are the bytes that the recorded calls moved, per direction: two
\* handlers that miss the same connection do not both insert it, no update is
\* lost, and connections of one bucket are not mixed up.
CountersExact ==
  /\ \A j, k \in 1 .. Len(order) : j # k => order[j] # order[k]
  /\ Range(order) \cap Unbound = {}
  /\ \A c \in Range(order) : send[c] = moved["send"][c] /\ recv[c] = moved["recv"][c]

\* A printed line shows counters from the time of the read: not less than when
\* the entries were collected, not more than now.  Of a line that the end of the
\* page cuts only "not more than now" is true: its number lost its last digits.
PrintedInWindow ==
  \A k \in 1 .. Len(out) :
    LET l == out[k]
    IN  /\ l.recv <= recv[l.conn] /\ l.send <= send[l.conn]
        /\ l.whole => base["recv"][l.conn] <= l.recv /\ base["send"][l.conn] <= l.send

Candidates == {order[k] : k \in 1 .. Count}
Due == IF top_n < 0 THEN 0 ELSE IF top_n < Count THEN top_n ELSE Count

\* A read during which nothing moved shows, of the first MAX_TOP_ADDRS
\* connections in the table's order, the top_n with the most traffic, largest
\* first, and leaves lines out only when the page is full.  The connections
\* after the first MAX_TOP_ADDRS (100 in the code) are not candidates, whatever
\* their traffic: "top N addresses by traffic" (params.c, the description of
\* top_addrs) is true of smaller tables only, and entries are never removed.
TopIsTop ==
  rpc = "done" /\ calm =>
    /\ \A j, k \in 1 .. Len(out) :
         j < k => out[j].conn # out[k].conn /\ total_bytes(out[j].conn) >= total_bytes(out[k].conn)
    /\ \A k \in 1 .. Len(out) : out[k].conn \in Candidates
    /\ \A c \in Candidates \ {out[k].conn : k \in 1 .. Len(out)} :
         \A k \in 1 .. Len(out) : total_bytes(c) <= total_bytes(out[k].conn)
    /\ Len(out) <= Due
    /\ Len(out) < Due => Len(out) \in {PAGE_LINES, PAGE_LINES + 1}

\* No entry is left and no handler runs when the module is out: also when the
\* second kretprobe could not be registered.
LeftNothing == phase \in {"absent", "gone"} => order = <<>> /\ \A k \in Kinds : ~InHandler(k)

\* A read of top_addrs ends, and so does a return handler that has bytes to
\* record: nobody keeps stats_lock, also not on the path without memory, and the
\* print loop stops.
CallsEnd ==
  /\ rpc # "idle" ~> rpc = "idle"
  /\ \A t \in Tasks : pc[t] = "record" ~> pc[t] = "idle"
=============================================================================
