----------------------------- MODULE KernelFifo -----------------------------
(***************************************************************************)
(* The queue module Linux_kernel/HW_04_kernel_fifo/src: fifo_ops.c over    *)
(* the kernel's kfifo, the parameter callbacks of params.c and the         *)
(* module's init and exit of main.c.                                       *)
(*                                                                         *)
(* The kernel runs the parameter callbacks of a module one at a time, so   *)
(* there is one current call.  It tests fifo_dev in one step and uses the  *)
(* queue in the next; init and exit can run in between when RacyLifecycle. *)
(*                                                                         *)
(* kfifo counts bytes: in and out are unsigned integers that only grow     *)
(* (modulo UINT_MOD) and are masked to index the buffer.  An entry is      *)
(* ENTRY bytes; the buffer is modelled as slots of one entry.              *)
(*                                                                         *)
(* Operators named X_y are variants of X with a plausible mistake; no      *)
(* other definition uses them.                                             *)
(***************************************************************************)
EXTENDS Integers, Sequences

CONSTANTS UINT_BITS,      \* 32: width of unsigned int
          ENTRY,          \* sizeof(struct fifo_entry), 4
          Values,         \* numbers written to the enqueue parameter
          InitialSizes,   \* values of the module parameter initial_size
          RacyLifecycle   \* parameter files used while init or exit runs

UINT_MOD == 2 ^ UINT_BITS
Powers == {2 ^ k : k \in 0 .. UINT_BITS}

\* ENTRY is a power of two, so every other one divides it or is a multiple of it.
ASSUME FifoAssumption ==
  /\ ENTRY \in Nat \ {0}
  /\ UINT_BITS \in Nat
  /\ \A p \in Powers : p \in Nat \ {0} /\ UINT_MOD % p = 0 /\ (p >= ENTRY => p % ENTRY = 0)
  /\ UINT_MOD >= ENTRY
  /\ Values \subseteq Int
  /\ InitialSizes \subseteq Int
  /\ RacyLifecycle \in BOOLEAN

VARIABLES
  phase,        \* where the loading process is
  initial_size, \* the module parameter
  dev,          \* what fifo_dev points to
  max_size,     \* fifo_dev->max_size
  bytes, in, out, buffer,   \* the kfifo: mask + 1, in, out, data
  call,         \* the current callback
  answer        \* what the last callback returned

kfifo == <<bytes, in, out, buffer>>
vars == <<phase, initial_size, dev, max_size, kfifo, call, answer>>

FIFO_EMPTY   == -1
FIFO_INVALID == -4
Idle == [op |-> "none", arg |-> 0]

Readers == {"dequeue", "peek"}
Queries == {"size", "available", "is_empty", "is_full"}
-----------------------------------------------------------------------------
(* kfifo, modelled from its use: sizes and positions in bytes *)

\* roundup_pow_of_two, kept in an unsigned int; 0 when it does not fit.
RoundUp(n) ==
  IF n = 0 THEN 0
  ELSE (CHOOSE p \in Powers : p >= n /\ \A q \in Powers : q >= n => p <= q) % UINT_MOD

AllocBytes_wide(size) == size * ENTRY

\* kfifo_alloc takes an unsigned int: size * sizeof(struct fifo_entry) is cut.
AllocBytes(size) == RoundUp((size * ENTRY) % UINT_MOD)

kfifo_len   == (in - out) % UINT_MOD
kfifo_avail == bytes - kfifo_len
kfifo_is_empty == in = out
kfifo_is_full  == kfifo_len > bytes - 1

Slot(pos) == (pos % bytes) \div ENTRY
Slots     == 0 .. (bytes \div ENTRY - 1)
-----------------------------------------------------------------------------
(* What the parameter files show *)

\* param_get_dequeue and param_get_peek: the value also carries the errors.
Shown(value) ==
  CASE value = FIFO_EMPTY   -> <<"empty">>
    [] value = FIFO_INVALID -> <<"uninit">>
    [] value < 0 /\ value \notin {FIFO_EMPTY, FIFO_INVALID} -> <<"error", value>>
    [] OTHER                -> <<"value", value>>

\* param_get_size and the other queries.
Figure(op, n) == IF n < 0 THEN <<"error", n>> ELSE <<op, n>>

\* The callbacks when fifo_dev is NULL; clear reports success.
NoDevice(op) ==
  CASE op = "enqueue"   -> <<"refused">>
    [] op \in Readers   -> Shown(FIFO_INVALID)
    [] op \in Queries   -> Figure(op, FIFO_INVALID)
    [] op = "clear"     -> <<"ok">>
-----------------------------------------------------------------------------
Init == /\ phase = "absent"
        /\ initial_size = 0
        /\ dev = "null"
        /\ max_size = 0
        /\ bytes = 0 /\ in = 0 /\ out = 0 /\ buffer = <<>>
        /\ call = Idle
        /\ answer = <<"none">>

\* insmod with a value of initial_size; the parameter files appear.
Insmod ==
  /\ phase = "absent"
  /\ initial_size' \in InitialSizes
  /\ phase' = "loading"
  /\ UNCHANGED <<dev, max_size, kfifo, call, answer>>

\* kernel_fifo_init and fifo_init: the size test and the kmalloc of fifo_dev.
InitDevice ==
  /\ phase = "loading"
  /\ \/ /\ initial_size <= 0
        /\ phase' = "failed"
        /\ UNCHANGED <<dev, max_size>>
     \/ /\ initial_size > 0
        /\ phase' = "failed"       \* kmalloc returns NULL
        /\ UNCHANGED <<dev, max_size>>
     \/ /\ initial_size > 0
        /\ phase' = "device"
        /\ dev' = "raw"
        /\ max_size' = initial_size
  /\ UNCHANGED <<initial_size, kfifo, call, answer>>

InitQueue_open ==
  /\ phase = "device"
  /\ \/ /\ AllocBytes(max_size) >= 2
        /\ phase' = "live"
        /\ dev' = "ready"
        /\ bytes' = AllocBytes(max_size)
        /\ in' = 0 /\ out' = 0
        /\ buffer' = [s \in 0 .. (bytes' \div ENTRY - 1) |-> 0]
        /\ UNCHANGED max_size
     \/ /\ phase' = "failed"
        /\ UNCHANGED <<dev, max_size, kfifo>>
  /\ UNCHANGED <<initial_size, call, answer>>

\* kfifo_alloc: it fails below two bytes and when memory is short; then
\* fifo_init frees fifo_dev again.
InitQueue ==
  /\ phase = "device"
  /\ \/ /\ AllocBytes(max_size) >= 2
        /\ phase' = "live"
        /\ dev' = "ready"
        /\ bytes' = AllocBytes(max_size)
        /\ in' = 0 /\ out' = 0
        /\ buffer' = [s \in 0 .. (bytes' \div ENTRY - 1) |-> 0]
        /\ UNCHANGED max_size
     \/ /\ phase' = "failed"
        /\ dev' = "null"
        /\ max_size' = 0
        /\ UNCHANGED kfifo
  /\ UNCHANGED <<initial_size, call, answer>>

\* fifo_cleanup: kfifo_free ...
CleanupQueue ==
  /\ phase = "live"
  /\ RacyLifecycle \/ call = Idle
  /\ phase' = "going"
  /\ dev' = "freed"
  /\ bytes' = 0 /\ in' = 0 /\ out' = 0 /\ buffer' = <<>>
  /\ UNCHANGED <<initial_size, max_size, call, answer>>

\* ... then kfree and fifo_dev = NULL.
CleanupDevice ==
  /\ phase = "going"
  /\ phase' = "gone"
  /\ dev' = "null"
  /\ max_size' = 0
  /\ UNCHANGED <<initial_size, kfifo, call, answer>>

\* The parameter files are removed.
Teardown ==
  /\ phase \in {"gone", "failed"}
  /\ call = Idle
  /\ phase' = "absent"
  /\ initial_size' = 0
  /\ UNCHANGED <<dev, max_size, kfifo, call, answer>>
-----------------------------------------------------------------------------
module_vars == <<phase, initial_size, dev, max_size>>

\* A callback can start while the files exist: from insmod's command line, or
\* by users.  Unless RacyLifecycle, not while init or exit is half done.
Callable == /\ call = Idle
            /\ phase # "absent"
            /\ RacyLifecycle \/ phase \notin {"device", "going"}

\* A callback starts and tests fifo_dev.  A test that fails ends the call.
Enter(op, arg) ==
  /\ Callable
  /\ \/ /\ dev = "null"
        /\ answer' = NoDevice(op)
        /\ UNCHANGED call
     \/ /\ dev # "null"
        /\ call' = [op |-> op, arg |-> arg]
        /\ UNCHANGED answer
  /\ UNCHANGED <<module_vars, kfifo>>

\* param_set_enqueue with text that kstrtoint refuses: the same -EINVAL as for a
\* full queue, told apart by the log line.
EnqueueText ==
  /\ Callable
  /\ answer' = <<"invalid">>
  /\ UNCHANGED <<module_vars, kfifo, call>>

Finish(a) == /\ answer' = a
             /\ call' = Idle
             /\ UNCHANGED module_vars

\* fifo_enqueue: refused when full or when the entry does not fit.
Enqueue ==
  /\ call.op = "enqueue"
  /\ \/ /\ kfifo_is_full \/ kfifo_avail < ENTRY
        /\ in' = IF kfifo_is_full THEN in ELSE (in + kfifo_avail) % UINT_MOD
        /\ Finish(<<"refused">>)
        /\ UNCHANGED buffer
     \/ /\ ~kfifo_is_full /\ kfifo_avail >= ENTRY
        /\ in' = (in + ENTRY) % UINT_MOD
        /\ buffer' = [buffer EXCEPT ![Slot(in)] = call.arg]
        /\ Finish(<<"ok">>)
  /\ UNCHANGED <<bytes, out>>

Dequeue_peek ==
  /\ call.op = "dequeue"
  /\ \/ kfifo_len < ENTRY  /\ Finish(Shown(FIFO_EMPTY))
     \/ kfifo_len >= ENTRY /\ Finish(Shown(buffer[Slot(out)]))
  /\ UNCHANGED kfifo

\* fifo_dequeue: kfifo_out hands over at most the bytes that are there.
Dequeue ==
  /\ call.op = "dequeue"
  /\ \/ /\ kfifo_len < ENTRY
        /\ out' = in
        /\ Finish(Shown(FIFO_EMPTY))
     \/ /\ kfifo_len >= ENTRY
        /\ out' = (out + ENTRY) % UINT_MOD
        /\ Finish(Shown(buffer[Slot(out)]))
  /\ UNCHANGED <<bytes, in, buffer>>

Peek ==
  /\ call.op = "peek"
  /\ \/ kfifo_len < ENTRY  /\ Finish(Shown(FIFO_EMPTY))
     \/ kfifo_len >= ENTRY /\ Finish(Shown(buffer[Slot(out)]))
  /\ UNCHANGED kfifo

fifo_size      == kfifo_len \div ENTRY
fifo_available == kfifo_avail \div ENTRY

Query ==
  /\ \/ call.op = "size"      /\ Finish(Figure("size", fifo_size))
     \/ call.op = "available" /\ Finish(Figure("available", fifo_available))
     \/ call.op = "is_empty"  /\ Finish(Figure("is_empty", IF kfifo_is_empty THEN 1 ELSE 0))
     \/ call.op = "is_full"   /\ Finish(Figure("is_full", IF kfifo_is_full THEN 1 ELSE 0))
  /\ UNCHANGED kfifo

Clear_tail ==
  /\ call.op = "clear"
  /\ in' = 0
  /\ Finish(<<"ok">>)
  /\ UNCHANGED <<bytes, out, buffer>>

\* kfifo_reset: both positions go back to zero.
Clear ==
  /\ call.op = "clear"
  /\ in' = 0 /\ out' = 0
  /\ Finish(<<"ok">>)
  /\ UNCHANGED <<bytes, buffer>>
-----------------------------------------------------------------------------
Loader == \/ Insmod \/ InitDevice \/ InitQueue
          \/ CleanupQueue \/ CleanupDevice \/ Teardown

Use == Enqueue \/ Dequeue \/ Peek \/ Query \/ Clear

Next == \/ Loader
        \/ \E v \in Values : Enter("enqueue", v)
        \/ \E op \in Readers \cup Queries \cup {"clear"} : Enter(op, 0)
        \/ EnqueueText
        \/ Use

Spec == Init /\ [][Next]_vars
-----------------------------------------------------------------------------
(* Properties *)

\* The queue between out and in, oldest entry first.
Queue == IF dev = "ready"
         THEN [k \in 1 .. (kfifo_len \div ENTRY) |->
                 buffer[Slot((out + (k - 1) * ENTRY) % UINT_MOD)]]
         ELSE <<>>

(***************************************************************************)
(* Type invariant of the module and of the kfifo it owns.                  *)
(***************************************************************************)
TypeOK ==
  /\ phase \in {"absent", "loading", "device", "live", "failed", "going", "gone"}
  /\ initial_size \in InitialSizes \cup {0}
  /\ dev \in {"null", "raw", "ready", "freed"}
  /\ max_size \in InitialSizes \cup {0}
  /\ bytes \in 0 .. (UINT_MOD - 1)
  /\ in \in 0 .. (UINT_MOD - 1)
  /\ out \in 0 .. (UINT_MOD - 1)
  /\ buffer \in [Slots -> Values \cup {0}]
  /\ call \in [op : {"none", "enqueue", "clear"} \cup Readers \cup Queries,
               arg : Values \cup {0}]

\* The positions never run apart by more than the buffer nor stop on the middle
\* of an entry, whatever the requested size and however often they wrap: no
\* entry is torn and none is overwritten before it is read.
EntriesWhole == /\ kfifo_len <= bytes
                /\ kfifo_len % ENTRY = 0
                /\ bytes % ENTRY = 0

\* A callback that uses the queue finds it allocated and not freed; a module that
\* is out, or whose init failed, owns no memory.
QueueThere ==
  /\ call # Idle => dev = "ready"
  /\ phase \in {"absent", "failed"} => dev = "null"

\* The module implements FifoSpec.  Its capacity is what kfifo_alloc makes of the
\* requested size, which is cut to an unsigned int and rounded up to a power of
\* two: other than "Maximum queue size" (fifo_ops.c:16) says, initial_size=100
\* gives 128 places, and available shows 126 where kernel_fifo_task.md:161 has 98.
Abstract == INSTANCE FifoSpec WITH
  Caps <- {AllocBytes(n) \div ENTRY : n \in {m \in InitialSizes : m > 0}},
  open <- dev = "ready",
  cap <- IF dev = "ready" THEN bytes \div ENTRY ELSE 0,
  queue <- Queue

\* Every answer is the one of a first-in first-out queue with as many places
\* as the buffer has entries, across wrap-around, clear and reload, for all
\* numbers that enqueue takes: a negative one is removed and shown as an error.
ImplementsFifoSpec == Abstract!Spec
=============================================================================
